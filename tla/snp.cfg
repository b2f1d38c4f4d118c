\* Every report with every three certificates, and certificates that go missing meanwhile.
CONSTANTS
    Machine = {"m1", "m2"}
    ZeroId = "zero"
    Key <- MCKeys
    PinnedArks <- MCArks
    Holders <- MCHolders
    Reports <- MCReports
    Certs <- MCCerts
    None = None
    Torn = Torn
SPECIFICATION Spec
CHECK_DEADLOCK FALSE
INVARIANTS
    TypeOK
    ChipIsTheSigners
    GenuineIsAccepted
