SPECIFICATION SimulationSpec
CONSTANTS
    Effects = {"write", "run", "rm"}
    Plans <- SmallPlans
    Allowed = {"write", "run"}
    Limits <- SmallLimits
    Sizes = {0, 1, 3}
    Approvers = {"ann"}
    MaxSimulations = 2
INVARIANTS
    SimulationInv
    CleanMeansDone
    LogFitsReport
CHECK_DEADLOCK FALSE
