\* One email, two processes, two retries, three stops, any store failure.
SPECIFICATION OutboxSpec
CONSTANTS
    Emails = {1}
    Processes = {p1, p2}
    Batch = 1
    Backoff <- TwoRetries
    StoreFails = {"pass", "compose", "settle", "recover"}
    MaxStops = 3
    MaxOverdue = 0
INVARIANTS
    TriesBounded
    NoSharedClaims
PROPERTIES
    RetriesWait
    DeliveryImplemented
