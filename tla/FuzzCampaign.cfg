\* Three seeds, two workers.
SPECIFICATION Spec
CONSTANTS
    NSeeds = 3
    Jobs = 2
    NLines = 2
    Invocations <- Gates
    ToolSets <- GateTools
    Worlds <- GateWorlds
    TimedCalls <- GateDeadlines
INVARIANTS
    ReportedIsReal
    VerdictExact
    EveryBucketShrunk
    ReproMinimal
    FleetCatches
PROPERTIES
    Ends
CHECK_DEADLOCK FALSE
