CONSTANTS
    h1 = h1
    h2 = h2
    NoHart = NoHart
    Hart <- MCHart
    Lock <- MCLock
SPECIFICATION FairSpec
INVARIANTS
    IInv
    MutualExclusion
    NoPanic
PROPERTY
    Progress
