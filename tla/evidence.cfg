\* Quotes of any contents, of sizes around the boundaries of the layouts, and one whose PEM
\* text may be longer than the greatest int, here one of 12 bits.
CONSTANTS
    Name <- MCNames
    CertKey <- MCKeys
    Ppid <- MCPpids
    NoPpid = "none"
    PinnedRoot = "intel"
    Size = {0, 47, 50, 1011, 1013, 1019, 1020, 1024, 1228, 1232, 3100}
    U16 = {0, 1, 65535}
    U32 = {0, 2, 3, 448, 456, 458, 459, 582, 590, 592, 593, 2048, 2080, 4095}
    Chains <- MCChains
    MaxInt = 2047
    StringSize = {0, 2079, 2080, 5000}
SPECIFICATION Spec
CHECK_DEADLOCK FALSE
INVARIANTS
    TypeOK
    ReadsInQuote
    PpidIsIntels
    OrderIsFree
