------------------------------ MODULE MCScores ------------------------------
EXTENDS Scores

\* Two tests of one task, a test of no task, and one that is not in tests.json.
MCRegistered == <<"B", "D", "A", "C">>
MCExpected == <<"A", "B", "C">>
MCMaxScore == [t \in {"A", "B", "C", "D"} |-> IF t = "A" THEN 2 ELSE 1]
MCWeight == [t \in {"A", "B", "C", "D"} |-> IF t = "B" THEN 3 ELSE 1]
MCTask == [t \in {"A", "B", "C", "D"} |-> IF t = "C" THEN "" ELSE "T"]
=============================================================================
