\* A stale edit overwriting a cancellation.
SPECIFICATION Spec
CONSTANTS
    Requests = {r1, r2}
    Agents = {a1}
    NoOne = NoOne
    Titles = {t1}
    Workflow <- ClaimThenResolve
    Operations = {"transition", "update"}
    MaxClock = 1
    HoldDays = 0
    CreationDue = 1
CHECK_DEADLOCK FALSE
PROPERTY StateMovesLegal
