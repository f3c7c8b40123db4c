CONSTANTS
    Byte = {"h", "/", "b"}
    Mode = "append"
    Source <- HostSource
    Inserted <- HostSuffix
    MaxLength = 8
    Inputs <- AllInputs

SPECIFICATION Spec

CHECK_DEADLOCK FALSE

INVARIANTS
    OutputIsRewritten
    Idempotent
