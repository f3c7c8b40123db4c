CONSTANTS
    Byte = {"/", "e", "b"}
    Mode = "prepend"
    Source <- PathSource
    Inserted <- PathPrefix
    MaxLength = 8
    Inputs <- AllInputs

SPECIFICATION Spec

CHECK_DEADLOCK FALSE

INVARIANTS
    TypeOK
    StopsAtLeftmost
    KeepsExactlyCarriers
    OutputIsRewritten
    BoundedLookahead
    Idempotent
