SPECIFICATION OAuthSpec
CONSTANTS
    Persons = {ann}
    Clients = {app, bot}
    Codes = {k1}
    Addresses = {home}
    Requests = {r1, r2}
    None = None
    CodeTTL = 1
    AccessTTL = 1
    RefreshTTL = 2
    PruneAge = 1
    MaxTime = 3
    MaxPairs = 3
SYMMETRY Symmetry
CHECK_DEADLOCK FALSE
INVARIANTS
    OAuthTypeOK
    SingleUse
    ReplayEndsTheGrant
    EnabledHasAddress
    UsableIsListed
    ClientsOfGrantsKept
PROPERTY
    RevocationFinal
