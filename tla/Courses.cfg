SPECIFICATION FairSpec
CONSTANTS
    t = t
    a = a
    h1 = h1
    g1 = g1
    Users = {t, a}
    creator = t
    Groups = {g1}
    GroupNames = {"team", "crew"}
    StudentRepoName <- MCStudentRepoName
    Handlers = {h1}
    MaxFaults = 2
CHECK_DEADLOCK FALSE
INVARIANTS
    EnrolledHaveRepo
    RowsHaveOwnRepo
    ApprovedGroupCanPush
PROPERTIES
    AcceptSettles
