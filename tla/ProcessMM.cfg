\* Init and one more task slot, a pool of 10 pages (enough for a parent
\* with a heap page to fork), a user space of 8 bytes (4 pages of 2 bytes)
\* with the heap from 4 to MAX_BRK_ADDR = 8.  Writes to the text and
\* failing kmalloc are left to the leak runs of the README.
CONSTANTS
    NumPages = 10
    Slots <- MCSlots
    InitSlot = 1
    MAX_BRK_ADDR = 8
    MaxVmas = 3
    UserWritesText = FALSE
    KmallocResults = {TRUE}
    ForkKmallocFails = TRUE
SPECIFICATION Spec
VIEW View
CHECK_DEADLOCK FALSE
INVARIANTS
    TypeOK
    PageOwnership
    NoDoubleFree
