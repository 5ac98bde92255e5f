SPECIFICATION Spec
CONSTANTS
    Teachers = {t1, t2}
    Reviewers = 1
    Versions <- MCVersions
    Points <- MCPoints
    MaxEdits = 2
    MaxID = 6
SYMMETRY MCSymmetry
CHECK_DEADLOCK FALSE
INVARIANTS
    ReviewsBounded
    StoredAsSent
PROPERTIES
    ReviewsKeepCriteria
