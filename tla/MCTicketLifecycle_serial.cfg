\* One request at a time.
SPECIFICATION Spec
CONSTANTS
    Requests = {r1}
    Agents = {a1, a2}
    NoOne = NoOne
    Titles = {t1, t2}
    Workflow <- ClaimThenResolve
    Operations = {"assign", "transition", "put_on_hold", "resume", "reply", "confirm", "reject", "update", "complete_step", "expire"}
    MaxClock = 2
    HoldDays = 1
    CreationDue = 2
SYMMETRY AgentSymmetry
CHECK_DEADLOCK FALSE
INVARIANT TrailFaithful
PROPERTY StateMovesLegal
