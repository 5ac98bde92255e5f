----------------------------- MODULE MCReviews -----------------------------
EXTENDS Reviews

\* Two versions of the criteria share one; "a" has no points, the others have.
MCVersions == {{{"a", "b"}}, {{"b"}, {"c"}}}
MCSymmetry == Permutations(Teachers)
MCPoints == [c \in {"a", "b", "c"} |-> IF c = "a" THEN 0 ELSE 60]
=============================================================================
