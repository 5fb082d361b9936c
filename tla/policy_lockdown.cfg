SPECIFICATION Spec
CONSTANTS
    Alphabet <- Words
    NoMax <- Unset
    Scenes <- OneDeploy
    RuleBook <- NoRules
    LimitBook <- NoLimits
    Roles <- Approvers
    MaxClock = 0
PROPERTY
    LockdownDenies
