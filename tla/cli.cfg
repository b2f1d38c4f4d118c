\* A session with one CA directory and two DBs.
CONSTANTS
    m1 = m1
    m2 = m2
    m3 = m3
    m4 = m4
    Line <- MCLine
    Directory <- MCDirectory
    Parent <- MCParent
    VendorCerts <- MCVendorCerts
    Number <- MCNumber
    MaxDays = 3000000
    Segments <- MCSegments
    Rdn <- MCRdn
    Machine <- MCMachine
    SgxMachine <- MCSgxMachine
    TdxMachine <- MCTdxMachine
    Given <- MCGiven
    QuotePath = "quote.dat"
    None = None
    Empty = Empty
    Torn = Torn
    MaxFresh = 2
    MaxFaults = 1
SPECIFICATION CLSpec
VIEW Lasting
INVARIANTS
    CLTypeOK
    RevokedStaysListed
PROPERTIES
    ExitTellsWhatHappened
    RefusalNamesTheCause
