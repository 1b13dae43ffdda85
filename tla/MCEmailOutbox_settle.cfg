\* Liveness: one process that stops once, two emails for batches of one.
SPECIFICATION FairOutboxSpec
CONSTANTS
    Emails = {1, 2}
    Processes = {p1}
    Batch = 1
    Backoff <- OneRetry
    StoreFails = {"compose"}
    MaxStops = 1
    MaxOverdue = 1
INVARIANTS
    OutboxTypeOK
PROPERTIES
    EmailsSettle
