\* Two requests over three accounts, three addresses and one provider subject.
SPECIFICATION Spec
CONSTANTS
    People = {p1, p2, p3}
    Emails = {e1, e2, e3}
    Subjects = {s1}
    Requests = {r1, r2}
    None = None
    MaxChanges = 2
SYMMETRY AccountSymmetry
CHECK_DEADLOCK FALSE
INVARIANTS
    AccountsTypeOK
    RoleTrailFaithful
    CompanySessionsRight
PROPERTY AdminsChangedByRootOnly
