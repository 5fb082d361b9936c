SPECIFICATION Spec
CONSTANTS
    Nodes = {1, 2}
    t1 = t1
    t2 = t2
    t3 = t3
    Threads = {t1, t2, t3}
    NodeOf <- TwoAndOne
    Capacities = {4, 8}
    LeaseTime = 1
    MaxTerm = 3
    MaxTasks = 2
    MaxClock = 3
    Budgets <- TermsOrTasks
SYMMETRY Symmetry
INVARIANTS
    FleetTypeOK
    ReportedTermsWereHeld
    UnracedTermsAreUnique
    SettledLeaderIsBest
    
