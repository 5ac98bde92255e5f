SPECIFICATION Spec
CONSTANTS
    u1 = u1
    u2 = u2
    w1 = w1
    w2 = w2
    Users = {u1, u2}
    Workers = {w1}
    AutoApprove = TRUE
    GradedManually = {FALSE, TRUE}
    ScoreLimit = 60
    Scores = {40, 60}
    Times <- MCTimes
    TeacherStatus = {"APPROVED", "REVISION"}
    MaxPushes = 2
    MaxOther <- GroupOther
SYMMETRY Symmetry
CHECK_DEADLOCK FALSE
INVARIANTS
    ChargedOnce
    TestedTreeCoversCommit
    DeliveryDateFromPush
PROPERTIES
    ApprovalSurvives
    GradebookSpec
