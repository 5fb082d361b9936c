SPECIFICATION Spec
CONSTANTS
    MaxAgentIds = 2
    MaxTaskIds = 2
    MaxClock = 2
    MaxDepth = 2
    Skills <- OneSkill
    Priorities = {0}
    ReportedLoads <- IdleOrHot
    ReportedStatuses <- NoStatuses
    Strategy = "balanced"
    MaxAgents = 2
    SpawnThreshold = 75
    IdleTtl = 0
    KeepMinIdle = 1
    ResubmitIds = FALSE
INVARIANTS
    TypeOK
    
    DepthWithinWork
PROPERTIES
    ImplementsBoard
    NoWorkToTerminated
    WarmPool
    BalanceOnlyRelieves
