\* Two overlapping requests and downgrades of staff, over routed forms.
SPECIFICATION Spec
CONSTANTS
    Requests = {r1, r2}
    Agents = {a1, a2}
    NoOne = NoOne
    Titles = {t1}
    Workflow <- RoutedForms
    Operations = {"assign", "complete_step", "downgrade"}
    MaxClock = 1
    HoldDays = 0
    CreationDue = 1
SYMMETRY BothSymmetry
CHECK_DEADLOCK FALSE
PROPERTY WorkStaysWithStaff
