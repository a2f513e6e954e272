CONSTANTS
    NoCause = 0
    Ids <- Npu
    Size = 4
    BatchN = 2
    Lists <- Both
    MaxFaults = 2
    Ahead = 2
SPECIFICATION Spec
INVARIANTS
    TypeOK
    FlagsTrue
    CauseNamesHead
    PassIsHonest
PROPERTIES
    ImplementsRing
    RunsOnce
    FrozenOnErr
    AllRetired
    VerdictReached
