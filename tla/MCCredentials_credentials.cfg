\* Two requests over root and one person, two links and one session.
SPECIFICATION Spec
CONSTANTS
    People = {root, alice}
    Root = root
    Links = {k1, k2}
    Sessions = {s1}
    Requests = {r1, r2}
    None = None
    Lifetime = 1
    Throttle = 1
    MaxPassword = 3
    MaxTime = 1
SYMMETRY CredentialsSymmetry
CHECK_DEADLOCK FALSE
INVARIANTS
    CredentialsTypeOK
    PendingLinkIsCurrent
PROPERTIES
    PasswordChangesProven
    OwnChangeKeepsItsSession
