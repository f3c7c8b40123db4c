CONSTANTS
    Configs <- SwitchedConfigs
    MaxVersion = 4
    Tagged = {1, 2, 4}
    Rewritable = {1, 3, 4}

SPECIFICATION Spec

INVARIANTS
    TypeOK
    ConditionIsTransparent
    UpstreamValidatesOnlyItsOwn
