SPECIFICATION FairRunnerSpec
CONSTANTS
    r1 = r1
    r2 = r2
    Runs <- TwoRuns
    SeedRoster <- OneCoder
    Routable <- CodeOnly
    Chat = "chat"
    CallsGetLost = TRUE
    MaxAgentIds = 3
    MaxTaskIds = 2
    MaxClock = 1
    MaxDepth = 2
    Skills <- AllSkills
    Priorities = {0}
    ReportedLoads <- Hot
    ReportedStatuses <- NoStatuses
    Strategy = "balanced"
    MaxAgents = 0
    SpawnThreshold = 75
    IdleTtl = 0
    KeepMinIdle = 0
    ResubmitIds = FALSE
INVARIANTS
    RunnerInv
    
    
PROPERTY
    TaskCloses
