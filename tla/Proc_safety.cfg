CONSTANTS
    p1 = p1
    p2 = p2
    p3 = p3
    h1 = h1
    Hart0 = Hart0
    NULL = NULL
    Tick = Tick
    Hart <- OneHart
    Proc <- ThreeProcs
    MaxSleep = 1
    PreemptDispatch = FALSE
SYMMETRY ProcSymmetry
SPECIFICATION Spec
INVARIANTS
    TableInv
    
    WakeupsNotLost
    NoCameBack
