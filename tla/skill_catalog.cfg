SPECIFICATION Spec
CONSTANTS
    AgentIds = {"x"}
    Names = {"gen"}
    Kinds = {"local", "remote"}
    Versions <- SmallVersions
    Shared <- Exported
    Origins = {"", "api", "import", "a", "b"}
    MaxSkills = 1
    MaxInstalls = 1
    r1 = r1
    r2 = r2
    Requests = {r1, r2}
    Urls = {"a", "b"}
    Offers <- SmallOffers
SYMMETRY Symmetry
INVARIANTS
    SyncInv
    VersionsAscend
    
CHECK_DEADLOCK FALSE
