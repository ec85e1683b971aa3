CONSTANTS
    PageSize = 4
    AddrBits = 16
    NULL = NULL
    Ram <- RamSmall
    KernelEnds = {9, 11, 12, 19}
    Reserved <- AllMachines
    Sizes = {0, 1, 3, 6, 9}
    Alignments = {1, 2, 4, 3}
    Goals = {0, 18, 29}
    MaxAllocs <- AllocsOnFew
SPECIFICATION Spec
CHECK_DEADLOCK FALSE
INVARIANTS
    SortIsRight
    SweepIsExact
    AllocsSound
PROPERTY RefusesOnlyWhenFull
