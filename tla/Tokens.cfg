SPECIFICATION Spec
CONSTANTS
    teacher = teacher
    u1 = u1
    h1 = h1
    s1 = s1
    s2 = s2
    s3 = s3
    NoCookie = NoCookie
    NoUser = NoUser
    Users = {teacher, u1}
    Sessions = {s1, s2, s3}
    UserOf <- MCUserOf
    APIClients = {s3}
    superAdmin = teacher
    Handlers = {h1}
    Methods = {"UpdateEnrollments", "UpdateGroup", "DeleteGroup", "UpdateUser", "GetUser"}
    Teachers = {teacher}
    Fails = TRUE
    MaxChanges = 2
CHECK_DEADLOCK FALSE
INVARIANTS
    ListMatchesFlags
    StaleIsListed
PROPERTIES
    ClearedWithCurrentCookie
