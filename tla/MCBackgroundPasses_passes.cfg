\* One expiry pass over two pages; overlapping alert passes over one ticket.
SPECIFICATION Spec
CONSTANTS
    NTickets = 2
    HoldPasses = {h1}
    AlertPasses = {a1, a2}
    PageSize = 1
    Scenarios <- HoldsAndAlerts
    h1 = h1
    a1 = a1
    a2 = a2
    Days = 2
    Quiet = 1
    Target = 2
    None = None
    MaxTime = 3
CHECK_DEADLOCK FALSE
INVARIANTS
    PassesTypeOK
    AlertedOncePerPeriod
PROPERTIES
    ExpiryMeetsItsHold
    ExpiredHoldsEnd
