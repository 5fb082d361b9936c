SPECIFICATION Spec
CONSTANTS
    Metrics <- TwoMetrics
    Measures <- SmallMeasures
    Window = 2
    Budgets <- SmallBudgets
    MaxCycles = 2
    MaxEvals = 3
INVARIANTS
    SelfReviewInv
    EventsTellOutcome
    EvidenceKept

    
CHECK_DEADLOCK FALSE
