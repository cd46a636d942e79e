CONSTANTS
    NumPages <- MCNumPages
    Orders <- MCOrders
    Callers = {c1, c2}
SPECIFICATION Spec
INVARIANT UsageMatchesOwners
