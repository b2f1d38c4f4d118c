\* Two commands at a time, no fault at all.
CONSTANTS
    Proc = {p1, p2}
    Serial = {s1, s2}
    Reason = {noReason, stolen}
    EmptyReason = noReason
    CutField = cutField
    None = None
    Torn = Torn
    Exclusive = FALSE
    Faults = {}
    MaxFaults = 0
    MaxNumber = 2
    MaxReissue = 2
SPECIFICATION Spec
INVARIANT
    RevocationsDurable
