CONSTANTS
    Requests = {r1, r2, r3}
    MaxConcurrent = 1
    MaxQueued = 2
    Arrivals <- MixedArrivals

SPECIFICATION Spec

SYMMETRY RequestSymmetry

INVARIANTS
    TypeOK
    PermitsConserved
    NoIdlePermit
    RewritesUnderPermit
    GaugesAccount
    HeaderBodyAgree
    OutcomeTruthful

PROPERTIES
    ImplementsAdmission
