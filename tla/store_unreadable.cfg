\* One command at a time; the DB cannot be opened once.
CONSTANTS
    Proc = {p1}
    Serial = {s1, s2}
    Reason = {noReason, stolen}
    EmptyReason = noReason
    CutField = cutField
    None = None
    Torn = Torn
    Exclusive = TRUE
    Faults = {"unreadable"}
    MaxFaults = 1
    MaxNumber = 2
    MaxReissue = 2
SPECIFICATION Spec
INVARIANT
    RevocationsDurable
