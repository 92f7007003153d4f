SPECIFICATION Spec
CONSTANTS
    me = me
    other = other
    None = None
    Inert = Inert
    Drivers <- MCDrivers
    Self = me
    Slots = 8
    MaxRuntime = 2
    MaxOps = 1
    MaxAttempts = 3
    EngineReserve = 3
    MaxJobs = 2
    GameMayEnd = FALSE
    LoadsMayFail = TRUE
    DriverReserve = 5
    MoveReserve = 4
    MaxKeys = 1
    ForeignSlots <- MCForeignSlots
    InitialCursors <- MCUsedCursors
    InitialJobs <- MCAnyJobs
    SlotStates <- MCSlotsUnready
    Policies <- MCObservation
INVARIANTS
    TypeOK
    ReloadLosesNothing
    ResultAuthentic
PROPERTIES
    Promise
CHECK_DEADLOCK FALSE
