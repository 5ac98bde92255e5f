------------------------ MODULE MCSubmissionStream --------------------------
(* Model values for SubmissionStream: two users, the first with two tabs.     *)
EXTENDS SubmissionStream, TLC

CONSTANTS u1, u2, c1, c2, c3, s1, s2, k1

MCConnUser == c1 :> u1 @@ c2 :> u1 @@ c3 :> u2

Symmetry == Permutations(Senders)
=============================================================================
