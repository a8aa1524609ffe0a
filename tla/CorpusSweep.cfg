\* Two fixtures, two workers.
SPECIFICATION FairSpec
CONSTANTS
    NFixtures = 2
    Jobs = 2
    Scenarios <- AllScenarios
    ChunkTables = {}
    Parts <- CodeParts
INVARIANTS
    KeptIsGreatest
    StrippedIsWhole
    PassIsEarned
    DebtIsPinned
    NoTempLeft
PROPERTIES
    Ends
CHECK_DEADLOCK FALSE
