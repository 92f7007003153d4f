SPECIFICATION Spec
CONSTANTS
    first = first
    second = second
    None = None
    Programs <- MCPrograms
    NFiles = 2
    MaxOutside = 1
    Kinds <- MCKindsUnleased
PROPERTIES
    RejectionRetained
