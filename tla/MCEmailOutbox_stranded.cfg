\* A settlement whose write fails, in a process that keeps running.
SPECIFICATION FairOutboxSpec
CONSTANTS
    Emails = {1}
    Processes = {p1}
    Batch = 1
    Backoff <- OneRetry
    StoreFails = {"settle"}
    MaxStops = 0
    MaxOverdue = 0
PROPERTIES
    ClaimsSettle
