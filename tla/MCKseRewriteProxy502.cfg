CONSTANTS
    Requests = {r1}
    MaxConcurrent = 1
    MaxQueued = 0
    Arrivals <- AllArrivals

SPECIFICATION Spec

INVARIANTS
    RewriteFailureIs502
