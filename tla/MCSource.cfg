SPECIFICATION RSpec
CONSTANTS
    c1 = c1
    c2 = c2
    pinA = pinA
    pinB = pinB
    callA = callA
    callB = callB
    callC = callC
    Broker = broker_process
    None = none
    Programs <- MCPrograms
    Pins <- MCPins
    Symbols <- MCSymbols
    PinOf <- MCPinOf
    Stale <- MCStale
    Batches <- MCBatches
    TreeBytes = 6
    MapBytes = 2
    FirstGrant = 1
    CacheBytes = 1
    Room = 11
    PruneTarget = 0
    QueueLimit = 1
    MaxBrokers = 1
    MaxCommands = 2
    MaxCrashes = 1
ACTION_CONSTRAINT Deaths
SYMMETRY Symmetry
INVARIANTS WithinBudget UseIsSound OrderedWaits NoLostWake ClosedIsGone
CHECK_DEADLOCK FALSE
