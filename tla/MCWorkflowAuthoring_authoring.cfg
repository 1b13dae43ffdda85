\* Two tabs over two categories, one desk and one person.
SPECIFICATION Spec
CONSTANTS
    Categories = {c1, c2}
    Desks = {d1}
    Persons = {p1}
    Tabs = {t1, t2}
    None = None
    MaxRevision = 2
    MaxVersions = 2
SYMMETRY AuthoringSymmetry
CHECK_DEADLOCK FALSE
INVARIANTS
    AuthoringTypeOK
    ReferencesHold
    VersionsNumbered
    MembersOnStaff
PROPERTY DraftsImplemented
