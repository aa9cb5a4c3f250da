SPECIFICATION FairSpec
CONSTANTS
    Total = 4
    NWorkers = 3
    MayFail <- Fragile
INVARIANTS
    TypeOK
    CountIsHonest
    VerdictIsRight
    AnswersAreRead
    NoOrphans
PROPERTIES
    Returns
CHECK_DEADLOCK FALSE
