\* The tokens of two platforms, mixed, altered and cut.
CONSTANTS
    Tokens <- MCTokens
    Signed <- MCSigned
    Genuine <- MCGenuine
    None = None
SPECIFICATION Spec
CHECK_DEADLOCK FALSE
INVARIANTS
    TypeOK
    IdIsTheSigners
    GenuineIsAccepted
    SigStructureIsExact
