--------------------------- MODULE MCSubmissions ----------------------------
(* Values for Submissions: points in time more than a day before the deadline, *)
(* within the grace period of the second day after it, and past that.          *)
EXTENDS Submissions, TLC

CONSTANTS u1, u2, w1, w2

MCTimes == {-30, 26, 27}

(* No group: a student's own submissions are not affected by UpdateGroup. *)
StudentOther == [rebuild |-> 1, grade |-> 1, regroup |-> 0]
GroupOther == [rebuild |-> 1, grade |-> 1, regroup |-> 1]

Symmetry == Permutations(Users) \cup Permutations(Workers)
=============================================================================
