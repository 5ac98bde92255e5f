--------------------------- MODULE MCCourseAdmin ---------------------------
EXTENDS CourseAdmin, TLC

CONSTANTS t, a, h1, g1

MCStudentRepoName == (t :> "t-labs") @@ (a :> "a-labs")
=============================================================================
