--------------------------- MODULE MCTokenManager ---------------------------
(* Values for TokenManager: a teacher, who is the super admin, and a student   *)
(* with a browser and a program.                                              *)
EXTENDS TokenManager, TLC

CONSTANTS teacher, u1, h1, s1, s2, s3

MCUserOf == s1 :> teacher @@ s2 :> u1 @@ s3 :> u1
=============================================================================
