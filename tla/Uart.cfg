CONSTANTS
    p1 = p1
    p2 = p2
    NULL = NULL
    Sched = Sched
    Proc <- MCProc
    Machines <- AllMachines
    TxSize = 2
    RxSize = 2
    CounterMod = 4
SPECIFICATION Spec
INVARIANTS
    BuffersInv
    NoSleeperForgotten
    MessagesWhole
PROPERTIES
    OutputDrains
    YellReturns
CHECK_DEADLOCK FALSE
