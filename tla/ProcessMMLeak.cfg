\* The bounds of ProcessMM.cfg: ten pages let a parent with a heap page fork.
CONSTANTS
    NumPages = 10
    Slots <- MCSlots
    InitSlot = 1
    MAX_BRK_ADDR = 8
    MaxVmas = 3
    UserWritesText = FALSE
    KmallocResults = {TRUE}
    ForkKmallocFails = FALSE
SPECIFICATION Spec
VIEW View
CHECK_DEADLOCK FALSE
INVARIANT
    NoPageLeak
