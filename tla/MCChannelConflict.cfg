SPECIFICATION Spec
CONSTANTS
    me = me
    other = other
    None = None
    Inert = Inert
    Drivers <- MCDrivers
    Self = me
    Slots = 5
    MaxRuntime = 3
    MaxOps = 1
    MaxAttempts = 3
    EngineReserve = 2
    MaxJobs = 2
    GameMayEnd = TRUE
    LoadsMayFail = TRUE
    DriverReserve = 4
    MoveReserve = 4
    MaxKeys = 1
    ForeignSlots <- MCNoForeign
    InitialCursors <- MCFreshCursor
    InitialJobs <- MCFreshJobs
    SlotStates <- MCSlotsUnready
    Policies <- MCOpaque
INVARIANTS
    RetirementNeverConflicts
CHECK_DEADLOCK FALSE
