CONSTANTS
    Byte = {"a", "1", ":", ".", ",", "}"}
    IdentifierStart = {"a"}
    IdentifierContinue = {"a", "1"}
    Dot = "."
    Marker = Marker
    None = None
    Rules <- AllRules
    MaxLength = 7
    Inputs <- AllInputs

SPECIFICATION Spec

CHECK_DEADLOCK FALSE

INVARIANTS
    TypeOK
    OutputIsRewritten
    ReplacesLeftmost
    KeepsBackOnlyOpen
    Idempotent
