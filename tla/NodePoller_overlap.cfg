SPECIFICATION FairSpec
CONSTANTS
    n1 = n1
    n2 = n2
    r1 = r1
    r2 = r2
    Node <- OneNode
    NodeOrder <- OneNodeOrder
    GrpcNode <- NoNode
    Pass <- TwoPasses
    Overlap = TRUE
    Responsive <- OneNode
    MaxTime = 1
    MaxCommits = 1
    MaxResets = 0
    BucketSpan = 1
    Retention = 2
    Backfill = 2
PROPERTY SnapshotRecovers
PROPERTY LedgerGoesBackOnlyOvertaken
