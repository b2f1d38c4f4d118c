--------------------------------- MODULE Files ---------------------------------
(***************************************************************************)
(* What the two models of the CA's files share: CaFiles, by system call,   *)
(* and CommandLine, by command.                                            *)
(***************************************************************************)
CONSTANTS
    None,       \* no such file
    Torn,       \* a file that is cut, or holds something else than what is asked for
    MaxFaults   \* bound: how many faults happen in a behaviour
=============================================================================
