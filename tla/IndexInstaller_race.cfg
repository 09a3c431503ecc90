SPECIFICATION FairSpec
CONSTANTS
    Installer = {p1, p2}
    NoInstaller = none
    c1 = c1
    c2 = c2
    e1 = e1
    ContractPartition <- OneContract
    ExercisePartition <- NoPartition
    InitialPartitions <- OneContract
    TransactionIdIsText = FALSE
    OperatorIndexes <- ActiveIndex
    OperatorRaces = TRUE
INVARIANT RecordedVersionsAreIndexed
PROPERTY ImplementsMigrationLedger
PROPERTY RunTerminates
