\* Two commands, at a time or not, any of which may fail, be killed or lose what it wrote.
CONSTANTS
    Proc = {p1, p2}
    Key = {k1, k2, k3, k4}
    None = None
    Torn = Torn
    Faults = {"crash", "ioerror", "diskfull"}
    MaxFaults = 3
SPECIFICATION Spec
SYMMETRY Interchangeable
INVARIANTS
    TypeOK
    ReportedCaStands
    CertifiedKeyIsProtected
    SignedIsCertified
