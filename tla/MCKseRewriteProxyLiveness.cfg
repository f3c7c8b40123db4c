CONSTANTS
    Requests = {r1, r2}
    MaxConcurrent = 1
    MaxQueued = 1
    Arrivals <- RewriteArrivals

SPECIFICATION FairSpec

PROPERTIES
    QueuedIsAdmitted
