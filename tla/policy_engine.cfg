SPECIFICATION Spec
CONSTANTS
    Alphabet <- Words
    NoMax <- Unset
    Scenes <- TeamAndSeed
    RuleBook <- TeamRules
    LimitBook <- TeamLimits
    Roles <- Approvers
    MaxClock = 1
INVARIANTS
    PolicyInv
    AllowsAreJustified

    
