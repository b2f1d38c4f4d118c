\* Two machines, one of which hides its chip id; the CA may be made twice.
CONSTANTS
    Key = {k1, k2}
    Dn = {dn}
    TeeType = {"sgx", "snp"}
    Machine = {m1, m2}
    Masked = {m2}
    ZeroId = zeroId
    Serial = {s1, s2}
    None = None
    Torn = Torn
    CaLife = 2
    EndorsementLife = 3
    CrlLife = 1
    MaxTime = 3
    MaxCrls = 1
SPECIFICATION Spec
SYMMETRY Interchangeable
CHECK_DEADLOCK FALSE
INVARIANTS
    TypeOK
    AcceptsOnlyTheMachine
    EndorsedIsAccepted
    StalenessBounded
    RevokedMeansRevoked
    SignedUnderAnAnchor
PROPERTIES
    RefusalIsFinal
