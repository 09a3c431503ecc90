SPECIFICATION MCSpec
CONSTANTS
    n1 = n1
    n2 = n2
    p1 = p1
    p2 = p2
    Node <- OneNode
    GrpcNode <- OneNode
    Package <- TwoPackages
    Corrupt <- Second
    Task = {t1}
    MaxRestarts = 1
    MaxDepth = 2
INVARIANT StoredPackageDecodes
INVARIANT VerdictsHaveBytes
INVARIANT PlainTypesAreRead
PROPERTY SyncCatchesUp
