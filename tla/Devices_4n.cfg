CONSTANTS
    NNode = 4
    NULL = NULL
    Fails = {"none", "u", "dev", "irq", "hal", "prop"}
SPECIFICATION Spec
INVARIANTS
    TreeInv
    HandlersLive
    DevicesReady
CHECK_DEADLOCK FALSE
