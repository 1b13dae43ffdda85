\* Two overlapping requests.
SPECIFICATION Spec
CONSTANTS
    Requests = {r1, r2}
    Agents = {a1}
    NoOne = NoOne
    Titles = {t1}
    Workflow <- ClaimThenResolve
    Operations = {"assign", "transition", "put_on_hold", "resume", "reply", "confirm", "reject", "update", "complete_step", "expire"}
    MaxClock = 2
    HoldDays = 1
    CreationDue = 2
SYMMETRY RequestSymmetry
CHECK_DEADLOCK FALSE
INVARIANT TypeOK
INVARIANT EndedAtRest
INVARIANT StampsMatchState
INVARIANT StepsCompletedOnce
INVARIANT HoldTrailFaithful
PROPERTY RunOnlyAdvances
PROPERTY DeadlineMovesByThePause
