CONSTANTS
    NumPages = 6
    MaxOrder = 3
    NULL = NULL
    PageSize = 512
    BlockHeader = 96
    SlotHeader = 24
    Align = 8
    Harts = {h1, h2}
    Root = root
    Nodes = nodes
    u512 = u512
    u256 = u256
    Universal <- Sizes
    ObjectSize <- SizeOf
    Requests <- Asked
    MaxLive = 7
    Exclusive = TRUE
SPECIFICATION Spec
INVARIANTS
    ObjectsDisjoint
    Accounted
PROPERTY GivesUpOnlyWhenFull
