CONSTANTS
    NumPages = 8
    MaxOrder = 3
    BootFree <- BootFreeSmall
    NULL = NULL
SPECIFICATION Spec
INVARIANTS
    ListsInv
    Coalesced
PROPERTY
    Implements
