SPECIFICATION Spec
CONSTANTS
    None = None
    one = one
    two = two
    first = first
    west = west
    ask1 = ask1
    ask2 = ask2
    ask3 = ask3
    ask4 = ask4
    Programs <- MCPrograms
    Conns <- MCConns
    Windows <- MCWindows
    Process <- MCProcess
    Requests <- MCRequests
    MaxClaims = 1
    SegmentFull = 2
    LogLimit = 5
    MaxSegments = 2
    Times <- MCClock
    Starts <- MCStarts
    Duration = 1
    OutrunEvents = 6
SYMMETRY MCSymmetry
INVARIANTS
    ActsOnLatest
CHECK_DEADLOCK FALSE
