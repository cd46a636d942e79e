CONSTANTS
    NumPages <- MCNumPages
    Orders <- MCOrders
    Callers = {c1}
    HDR <- MCHDR
    TAIL <- MCTAIL
    PoolMax <- MCPoolMax
    Requests <- MCRequests
SPECIFICATION Spec
INVARIANT PageTypeOK
INVARIANT UsageMatchesOwners
INVARIANT HeapTypeOK
INVARIANT NoAdjacentFree
INVARIANT AllocFreeRoundTrip
PROPERTY AbstractSpec
