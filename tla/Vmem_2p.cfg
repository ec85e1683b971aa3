CONSTANTS
    NumPages = 28
    Fan = 4
    PageSize = 4
    NULL = NULL
    Procs = {p1, p2}
    UserBegin = 5
    Uninitialised <- HeapEnd
    Deltas = {1, 6}
    Written = {6, 13}
    MaxHeap = 9
    MinStack = 12
    MinFree = 12
    Reuse = FALSE
SYMMETRY ProcSymmetry
SPECIFICATION Spec
CHECK_DEADLOCK FALSE
INVARIANTS
    MemoryIsPrivate
    

    
