----------------------------- MODULE MCCommandLine -----------------------------
(***************************************************************************)
(* Sessions of CommandLine for TLC: one CA directory and a second DB.      *)
(***************************************************************************)
EXTENDS CommandLine

CONSTANTS m1, m2, m3, m4

Out == <<"--out-dir", "ca">>
Force == <<"--force">>
Key == <<"--ca-key", "ca/ca.key">>
Crt == <<"--ca-cert", "ca/ca.crt">>
Quote == <<"--report", "quote.dat">>
Endorsed == <<"--out", "e.crt">>
CrlOut == <<"--out", "c.crl">>
OtherDb == <<"--db", "old/revocations.txt">>

\* Lines in which one value may get lost or be empty.
Plain ==
    {<<"ca-init", <<Out, <<"--subject", "CN=A,O=B,">>, Force>>>>,
     <<"provision", <<Quote, Key, Crt, <<"--subject", "CN=e">>, Endorsed>>>>,
     <<"revoke", <<Crt, <<"--cert", "e.crt">>, <<"--reason", "superseded">>, OtherDb>>>>,
     <<"crl-issue", <<Key, Crt, OtherDb, <<"--validity-days", "7x">>, CrlOut>>>>,
     <<"verify", <<Quote, <<"--org-cert", "e.crt">>, <<"--org-ca", "ca/ca.crt">>,
                   <<"--crl", "c.crl">>>>>>}

Snp == <<"provision", <<<<"--tee-type", "snp">>, <<"--report", "report.bin">>,
                        <<"--certs", "certs">>, Key, Crt, Endorsed>>>>
WithHelp == <<"crl-issue", <<Key, Crt, CrlOut, <<"--help">>>>>>

\* Lines that come as they are.
Odd ==
    {<<"", <<>>>>, <<"help", <<>>>>, <<"issue", <<>>>>,
     <<"ca-init", <<Out, <<"--subject", "CN=A,O=B">>>>>>,
     <<"ca-init", <<<<"-h">>, Out, Force>>>>,
     <<"ca-init", <<Out, Force, <<"--validity-days", "0">>>>>>,
     <<"ca-init", <<Out, Force, <<"--curve", "P-192">>>>>>,
     <<"ca-init", <<Out, Force, <<"--subject", "A">>>>>>,
     <<"provision", <<<<"--out", "x.crt">>, Quote, Key, Crt, Endorsed>>>>,
     <<"provision", <<Quote, Key, Crt, <<"--out", "nodir/e.crt">>>>>>,
     <<"revoke", <<Crt, <<"--cert", "e.crt">>>>>>,
     <<"revoke", <<Crt, <<"--cert", "ca/ca.crt">>>>>>,
     <<"revoke", <<Crt, <<"--cert", "e.crt">>, <<"--reason", "other">>>>>>,
     <<"crl-issue", <<Key, Crt, CrlOut>>>>,
     <<"crl-issue", <<Key, Crt, CrlOut, <<"--db", "nodir/db.txt">>>>>>,
     <<"crl-issue", <<Key, Crt, <<"--out", "ca/revocations.txt">>>>>>,
     <<"verify", <<Quote, <<"--org-cert", "e.crt">>, <<"--org-ca", "ca/ca.crt">>,
                   <<"--crl", "c.crl">>, <<"--tee-type", "tdx">>>>>>,
     <<"verify", <<<<"--report", "report.bin">>, <<"--certs", "certs">>, <<"--tee-type", "snp">>,
                   <<"--org-cert", "e.crt">>, <<"--org-ca", "ca/ca.crt">>, <<"--crl", "c.crl">>>>>>,
     <<"verify", <<<<"--report", "other.bin">>, <<"--certs", "certs">>, <<"--tee-type", "snp">>,
                   <<"--org-cert", "e.crt">>, <<"--org-ca", "ca/ca.crt">>>>>>,
     <<"verify", <<<<"--report", "report.bin">>, <<"--tee-type", "snp">>,
                   <<"--org-cert", "e.crt">>, <<"--org-ca", "ca/ca.crt">>>>>>,
     <<"verify", <<<<"--report", "e.crt">>, <<"--org-cert", "e.crt">>,
                   <<"--org-ca", "ca/ca.crt">>>>>>,
     <<"verify", <<Quote, <<"--org-cert", "ca/ca.crt">>, <<"--org-ca", "ca/ca.crt">>,
                   <<"--crl", "c.crl">>>>>>,
     <<"verify", <<Quote, <<"--org-cert", "e.crt">>, <<"--org-ca", "e.crt">>>>>>}

As(l, lost, empty) == [sub |-> l[1], said |-> l[2], lost |-> lost, empty |-> empty]

Pairs(l) == {i \in DOMAIN l[2] : Len(l[2][i]) = 2}

MCLine ==
    {As(l, 0, 0) : l \in Plain \cup Odd}
    \cup UNION {{As(l, i, 0), As(l, 0, i)} : <<l, i>> \in
                    UNION {{l} \X Pairs(l) : l \in Plain}}
    \cup {As(Snp, 0, 0), As(Snp, 3, 0), As(Snp, 0, 3), As(WithHelp, 0, 0), As(WithHelp, 3, 0)}

Values == UNION {{Words(line)[i] : i \in DOMAIN Words(line)} : line \in MCLine}

MCDirectory == {".", "ca", "old", "certs"}
MCParent ==
    LET beside(d, names) == [p \in {d \o "/" \o n : n \in names} |-> d]
    IN  beside("ca", {"ca.key", "ca.crt", "revocations.txt"})
        @@ beside("old", {"revocations.txt"})
        @@ beside("nodir", {"db.txt", "e.crt"})
        @@ [p \in Values |-> "."]
MCVendorCerts == {"certs"}
MCNumber == "0" :> 0 @@ "7" :> 7 @@ "7x" :> 7 @@ "365" :> 365 @@ "3650" :> 3650
MCSegments ==
    "CN=A,O=B," :> <<"CN=A", "O=B", "">> @@ "CN=A,O=B" :> <<"CN=A", "O=B">> @@ "" :> <<>>
    @@ [w \in Values \cup {"CN=TEE Anchor Org CA"} |-> <<w>>]
MCRdn == {"CN=A", "O=B", "CN=e", "CN=TEE Anchor Org CA"}
MCMachine == {m1, m2, m3, m4}
MCSgxMachine == {m1}
MCTdxMachine == {m2}
MCGiven == "report.bin" :> [tee |-> "snp", machine |-> m3]
           @@ "other.bin" :> [tee |-> "snp", machine |-> m4]

\* What the proof about exit codes takes from these lines.
ASSUME LinesAreReadAsMeant == \A line \in DOMAIN Parsed : ReadAsMeant(line)

\* The line just run and its exit code do not matter for what follows.
Lasting == <<files, fresh, failed, revoked>>
=============================================================================
