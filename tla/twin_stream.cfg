SPECIFICATION FairSpec
CONSTANTS
    node = node
    run = run
    peer = peer
    board = board
    c1 = c1
    c2 = c2
    Publishers = {node, run}
    SubjectOf <- Subjects
    Watchers = {peer, board}
    PatternOf <- Patterns
    Connections = {c1, c2}
    Casts <- SmallCasts
INVARIANTS
    TwinInv
    
    StreamInOrder

    
CHECK_DEADLOCK FALSE
