SPECIFICATION FairWebhookSpec
CONSTANTS
    d1 = d1
    d2 = d2
    d3 = d3
    d4 = d4
    d5 = d5
    d6 = d6
    ca = ca
    cb = cb
    cc = cc
    Deliveries = {d1, d2, d3, d4, d5, d6}
    CommitOf <- MCCommitOf
    maxConcurrentTestRuns = 2
CHECK_DEADLOCK FALSE
INVARIANTS
    OneGoroutinePerCommit
PROPERTIES
    DroppedOnlyWhenActive
    PushesProcessed
