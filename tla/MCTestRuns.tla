----------------------------- MODULE MCTestRuns -----------------------------
EXTENDS TestRuns, TLC

CONSTANTS u1, u2, p1, b1, b2

\* The second rebuild is of the commit that is pushed.
MCJobName == (p1 :> "one") @@ (b1 :> "one") @@ (b2 :> "two")

\* The second version changes the Dockerfile and the third one changes it back.
MCDocker == <<"D1", "D2", "D1">>
=============================================================================
