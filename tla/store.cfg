\* One command at a time; any command may fail or be killed at any system call.
\* The operator runs crl-issue again whenever the CRL lacks a revocation.
CONSTANTS
    Proc = {p1}
    Serial = {s1, s2}
    Reason = {noReason, stolen}
    EmptyReason = noReason
    CutField = cutField
    None = None
    Torn = Torn
    Exclusive = TRUE
    Faults = {"crash", "ioerror"}
    MaxFaults = 2
    MaxNumber = 6
    MaxReissue = 3
SPECIFICATION FairSpec
INVARIANTS
    TypeOK
    RevocationsDurable
    NewerCrlsGrow
PROPERTIES
    CrlCoversRevocations
    ReportedNumbersAreUsedUp
    RefinesRegister
    RevocationReachesCrl
