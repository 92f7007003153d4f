SPECIFICATION Spec
CONSTANTS
    me = me
    other = other
    None = None
    Inert = Inert
    Drivers <- MCDrivers
    Self = me
    Slots = 8
    MaxRuntime = 2
    MaxOps = 1
    MaxAttempts = 3
    EngineReserve = 3
    MaxJobs = 2
    GameMayEnd = TRUE
    LoadsMayFail = FALSE
    DriverReserve = 5
    MoveReserve = 4
    MaxKeys = 2
    ForeignSlots <- MCForeignSlots
    InitialCursors <- MCFreshCursor
    InitialJobs <- MCFreshJobs
    SlotStates <- MCSlotsReady
    Policies <- MCOpaque
INVARIANTS
    AtMostOnce
    CancelledNeverRan
    ReleaseAfterDurable
    BoundAgrees
    NoStrayRefusal
    JournalValid
PROPERTIES
    OneKeyPerExchange
CHECK_DEADLOCK FALSE
