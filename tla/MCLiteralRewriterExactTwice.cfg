CONSTANTS
    Byte = {"q", "e", "b"}
    Mode = "exact"
    Source <- QuotedSource
    Inserted <- QuotedTarget
    MaxLength = 7
    Inputs <- AllInputs

SPECIFICATION Spec

CHECK_DEADLOCK FALSE

INVARIANTS
    Idempotent
