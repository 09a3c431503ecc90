SPECIFICATION Spec
CONSTANTS
    n1 = n1
    n2 = n2
    r1 = r1
    r2 = r2
    Node <- OneNode
    NodeOrder <- OneNodeOrder
    GrpcNode <- OneNode
    Pass <- OnePass
    Overlap = FALSE
    Responsive <- OneNode
    MaxTime = 2
    MaxCommits = 2
    MaxResets = 1
    BucketSpan = 1
    Retention = 1
    Backfill = 1
INVARIANT HealthyIsFresh
INVARIANT NoUpdateUncounted
