SPECIFICATION Spec
CONSTANTS
    r1 = r1
    r2 = r2
    s1 = s1
    s2 = s2
    s3 = s3
    s4 = s4
    t1 = t1
    t2 = t2
    Group <- MCGroup
    Content <- MCContent
    Teachers = {t1, t2}
    Branches = {"b"}
    maxHandlers = 1
    MaxEvents = 4
    MaxFaults = 1
CHECK_DEADLOCK FALSE
INVARIANTS
    IssuesMirrorTasks
    AssignedOnce
    ReviewsBalanced
    RecordedWasDone
