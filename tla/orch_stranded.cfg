SPECIFICATION Spec
CONSTANTS
    MaxAgentIds = 3
    MaxTaskIds = 1
    MaxClock = 1
    MaxDepth = 2
    Skills <- NoSkill
    Priorities = {0}
    ReportedLoads <- IdleOrHot
    ReportedStatuses <- NoStatuses
    Strategy = "balanced"
    MaxAgents = 3
    SpawnThreshold = 75
    IdleTtl = 0
    KeepMinIdle = 1
    ResubmitIds = FALSE
INVARIANT
    NoStrandedWork
