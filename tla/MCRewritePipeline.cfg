CONSTANTS
    Ascii <- Characters
    Trail = {"t", "u"}
    Invalid = {}
    LeadLength <- Leads
    SecondByte <- Seconds
    BaseUri <- Original
    Rebased <- Replaced
    DesiredUri = "/base/proxy/ys1000"
    MaxLength = 6
    Cases <- AllCases

SPECIFICATION Spec

CHECK_DEADLOCK FALSE

INVARIANTS
    TypeOK
    OutputIsComposed
    LimitIsExact
    RefusesExactlyInvalid
    OnlyTheFirstRefuses
    MigMetaIsRewritten
    RewrittenOnce
    BasePathOnce
