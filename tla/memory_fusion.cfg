SPECIFICATION FusionSpec
CONSTANTS
    Keys <- OneKey
    Branches <- Trunk
    Paths = {"p"}
    Contents = {"x", "y"}
    Absent = "-"
    Agents = {"agent", "fuser"}
    Writers = {"agent"}
    Fuser = "fuser"
    Sources <- Experiments
    Target = "main"
    MaxRows = 3
    MaxClock = 1
INVARIANTS
    FusionInv
    VersionsChain
    
    NeverOlderThanBegan
PROPERTY
    ImplementsLog
