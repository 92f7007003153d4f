SPECIFICATION FairSpec
CONSTANTS
    first = first
    second = second
    None = None
    Programs <- MCPrograms
    NFiles = 2
    MaxOutside = 1
    Kinds <- MCKinds
INVARIANTS
    SubmittedOnce
    NothingMissing
PROPERTIES
    VerdictStays
    DoubtEnds
