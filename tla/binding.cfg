\* Chip ids around every length at which the encoding changes.
CONSTANTS
    Binding <- MCBinding
    Others <- MCOthers
    MaxText = 70000
    None = None
SPECIFICATION Spec
CHECK_DEADLOCK FALSE
INVARIANTS
    TypeOK
    ReadsInSequence
    RoundTrip
