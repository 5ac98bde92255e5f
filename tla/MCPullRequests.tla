--------------------------- MODULE MCPullRequests ---------------------------
EXTENDS PullRequests, TLC

CONSTANTS r1, r2, s1, s2, s3, s4, t1, t2

MCGroup == (r1 :> {s1, s2}) @@ (r2 :> {s3, s4})

\* Two tasks come; then one changes and the other one goes.
MCContent == <<("A" :> 1) @@ ("B" :> 1), ("A" :> 2)>>
=============================================================================
