SPECIFICATION Spec
CONSTANTS
    Installer = {p1, p2}
    NoInstaller = none
    c1 = c1
    c2 = c2
    e1 = e1
    ContractPartition <- TwoContracts
    ExercisePartition <- OneExercise
    InitialPartitions <- OneContract
    TransactionIdIsText = TRUE
    OperatorIndexes <- ActiveIndex
    OperatorRaces = FALSE
INVARIANT CleanWhileReconciling
PROPERTY OnlyRepairDrops
