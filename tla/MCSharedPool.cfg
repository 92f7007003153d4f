SPECIFICATION Spec
CONSTANTS
    here = here
    there = there
    None = None
    Inert = Inert
    Drivers <- MCDrivers
    Slots = 4
    MaxRuntime = 3
    MaxOps = 1
    MaxAttempts = 1
    MaxNonce = 3
SYMMETRY MCSymmetry
INVARIANTS
    NoDrift
    KeyFindsTarget
    NoOrphan
    LoadableIsReserved
CHECK_DEADLOCK FALSE
