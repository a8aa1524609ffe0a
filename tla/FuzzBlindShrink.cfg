\* The programs that auto-shrink writes, in the worlds of FuzzCampaign.cfg.
SPECIFICATION Spec
CONSTANTS
    NSeeds = 3
    Jobs = 2
    NLines = 2
    Invocations <- Gates
    ToolSets <- GateTools
    Worlds <- GateWorlds
    TimedCalls <- GateDeadlines
INVARIANTS
    ShrinksItsSource
CHECK_DEADLOCK FALSE
