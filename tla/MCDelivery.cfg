SPECIFICATION Spec
CONSTANTS
    None = None
    one = one
    two = two
    first = first
    second = second
    west = west
    east = east
    older = older
    newer = newer
    Own = Own
    Programs <- MCPrograms
    Conns <- MCConns
    Windows <- MCWindows
    Process <- MCProcess
    Versions <- MCVersions
    SlotCount = 2
    MaxClaims = 2
    MaxCommands = 3
SYMMETRY MCSymmetry
INVARIANTS
    MaintenanceAlone
    OneClaimPerProcess
    ArchiveKeepsAll
    AddonRecoverable
    ReadyIsWhole
    ReservationsKept
PROPERTIES
    ClaimLostWhenOver
CHECK_DEADLOCK FALSE
