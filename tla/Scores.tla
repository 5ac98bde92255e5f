------------------------------- MODULE Scores -------------------------------
(***************************************************************************)
(* From the score objects of an assignment's tests, through the output of  *)
(* a test run, to the score of a submission.  The tests register, take     *)
(* their score object, change it and print it as a line of the output;     *)
(* they may panic, print twice, or be killed, and a long output is         *)
(* truncated.  QuickFeed then extracts the results from what is left, for  *)
(* the tests that it expects.                                              *)
(*                                                                         *)
(* A test's maximum and weight are the same in its registration and in     *)
(* tests.json.  Fractions are exact and rounded at the end, where the      *)
(* program computes in floating point: a score is counted in units, of     *)
(* which every maximum has a whole number to the point.                    *)
(***************************************************************************)
EXTENDS Integers, Sequences, Functions

CONSTANTS
    Registered,     \* tests in the assignment's code, in the order of their registration
    Expected,       \* tests in tests.json, in its order
    MaxScore,       \* test -> its maximum score
    Weight,         \* test -> its weight
    Task,           \* test -> name of its task, or NoTask
    Unit,           \* units of a full score, a multiple of every maximum
    MaxPrints       \* score lines that the tests of a run print

Tests == Range(Registered)
NoTask == ""

\* The database has a unique index on the names of an assignment's expected tests.
ASSUME ScoresAssumption ==
    /\ Registered \in Seq(Tests) /\ Expected \in Seq(Tests)
    /\ \A i, j \in DOMAIN Expected : Expected[i] = Expected[j] => i = j
    /\ \A t \in Tests : MaxScore[t] \in Nat \ {0} /\ Weight[t] \in Nat \ {0}
    /\ Unit \in Nat \ {0} /\ \A t \in Tests : Unit % MaxScore[t] = 0
    /\ MaxPrints \in Nat

\* The program has 32 bits; TLC's integers leave room for 30.
ToUint32(n) == n % 1073741824

VARIABLES
    phase,      \* "registered", "running", "over", "truncated" or "extracted"
    scores,     \* registry: test -> [score, state]
    prints,     \* score lines printed by the tests
    out,        \* score lines of the output
    results     \* the results that were extracted: Scores, in order

scoreVars == <<phase, scores, prints, out, results>>

Score == [TestName : Tests, TaskName : {NoTask} \union {Task[t] : t \in Tests},
          Score : Int, MaxScore : Nat \ {0}, Weight : Nat \ {0}]

ScoresTypeOK ==
    /\ phase \in {"registered", "running", "over", "truncated", "extracted"}
    /\ scores \in [Tests -> [score : Int, state : {"ready", "begun", "failed"}]]
    /\ prints \in 0..MaxPrints
    /\ out \in Seq(Score) /\ results \in Seq(Score)

ScoresInit ==
    /\ phase = "registered"
    /\ scores = [t \in Tests |-> [score |-> 0, state |-> "ready"]]
    /\ prints = 0
    /\ out = <<>>
    /\ results = <<>>

-----------------------------------------------------------------------------
(* The test run.                                                           *)

json(t, score) == [TestName |-> t, TaskName |-> Task[t], Score |-> score,
                   MaxScore |-> MaxScore[t], Weight |-> Weight[t]]

\* In TestMain, or left out.
PrintTestInfo ==
    /\ phase = "registered" /\ phase' = "running"
    /\ out' \in {<<>>, [i \in DOMAIN Registered |-> json(Registered[i], 0)]}
    /\ UNCHANGED <<scores, prints, results>>

\* A test takes its score object.
Begin(t, score) ==
    /\ phase = "running" /\ scores[t].state = "ready"
    /\ scores' = [scores EXCEPT ![t].score = score, ![t].state = "begun"]
    /\ UNCHANGED <<phase, prints, out, results>>

MinByName(t) == Begin(t, scores[t].score)
MaxByName(t) == Begin(t, MaxScore[t])

SetScore(t, score) ==
    /\ phase = "running" /\ scores[t].state = "begun"
    /\ scores' = [scores EXCEPT ![t].score = score]
    /\ UNCHANGED <<phase, prints, out, results>>

IncBy(t, n) ==
    SetScore(t, IF scores[t].score + n < MaxScore[t] THEN scores[t].score + n ELSE MaxScore[t])

DecBy(t, n) ==
    SetScore(t, IF scores[t].score - n > 0 THEN scores[t].score - n ELSE 0)

\* The deferred Print; a test that panics gets nothing.
Print_(t, panics) ==
    LET score == IF panics THEN 0 ELSE scores[t].score IN
    /\ phase = "running" /\ scores[t].state = "begun"
    /\ prints < MaxPrints /\ prints' = prints + 1
    /\ out' = Append(out, json(t, score))
    /\ scores' = [scores EXCEPT ![t] = [score |-> score, state |-> IF panics THEN "failed" ELSE "begun"]]
    /\ UNCHANGED <<phase, results>>

\* The run ends, or is killed with some tests unfinished.
RunEnds ==
    /\ phase = "running" /\ phase' = "over"
    /\ UNCHANGED <<scores, prints, out, results>>

\* An output that is too long to scan loses the score lines in its middle.
truncateLog ==
    /\ phase = "over" /\ phase' = "truncated"
    /\ \E i \in 1..Len(out) : \E j \in i..Len(out) :
            out' = SubSeq(out, 1, i - 1) \o SubSeq(out, j + 1, Len(out))
    /\ UNCHANGED <<scores, prints, results>>

-----------------------------------------------------------------------------
(* The results.                                                            *)

\* The expected tests know no tasks.
ZeroScoreTests ==
    [i \in DOMAIN Expected |-> [json(Expected[i], 0) EXCEPT !.TaskName = NoTask]]

isValid(sc) == sc.MaxScore > 0 /\ sc.Weight > 0 /\ sc.Score \in 0..sc.MaxScore

Recorded(r, sc) == {i \in DOMAIN r : r[i].TestName = sc.TestName}

\* Mutation: The best score of a test counts.
addBestScore(r, sc) ==
    IF Recorded(r, sc) = {} THEN Append(r, sc)
    ELSE [i \in DOMAIN r |-> IF i \in Recorded(r, sc) /\ sc.Score > r[i].Score THEN sc ELSE r[i]]

\* A score after one that is not zero marks the test as faulty.
addScore(r, sc) ==
    IF Recorded(r, sc) = {} THEN Append(r, sc)
    ELSE [i \in DOMAIN r |->
            IF i \notin Recorded(r, sc) THEN r[i]
            ELSE IF r[i].Score # 0 THEN [sc EXCEPT !.Score = -1] ELSE sc]

parse(line) ==
    isValid(line) /\ \E i \in DOMAIN Expected : Expected[i] = line.TestName

\* The results after the first i expected tests, then after the first i lines.
expectedResults ==
    LET added[i \in 0..Len(Expected)] ==
            IF i = 0 THEN <<>> ELSE addScore(added[i - 1], ZeroScoreTests[i])
    IN  added[Len(Expected)]

extracted(lines) ==
    LET added[i \in 0..Len(lines)] ==
            IF i = 0 THEN expectedResults
            ELSE IF parse(lines[i]) THEN addScore(added[i - 1], lines[i])
            ELSE added[i - 1]
    IN  added[Len(lines)]

ExtractResults ==
    /\ phase \in {"over", "truncated"} /\ phase' = "extracted"
    /\ results' = extracted(out)
    /\ UNCHANGED <<scores, prints, out>>

\* Sum of the first n values of f.
SumOf(f, n) ==
    LET sum[i \in 0..n] == IF i = 0 THEN 0 ELSE sum[i - 1] + f[i]
    IN  sum[n]

\* math.Round of n/d.
Round(n, d) == IF n < 0 THEN -((-2 * n + d) \div (2 * d)) ELSE (2 * n + d) \div (2 * d)

\* Mutation: A faulty test counts -1.
unclamped(sc) == sc.Score

\* What a test counts: nothing if it is faulty, and never more than its maximum.
testScore(sc) ==
    IF sc.Score < 0 THEN 0 ELSE IF sc.Score > sc.MaxScore THEN sc.MaxScore ELSE sc.Score

\* Percent of the total weight; the score per maximum is weighted with it.
weightedSum(r, counted) ==
    LET weight == [i \in DOMAIN r |-> IF i \in counted THEN r[i].Weight ELSE 0]
        weighted == [i \in DOMAIN r |-> testScore(r[i]) * (Unit \div r[i].MaxScore) * weight[i]]
    IN  IF counted = {} THEN 0
        ELSE Round(100 * SumOf(weighted, Len(r)), Unit * SumOf(weight, Len(r)))

\* Mutation: The sum over all tests.
UntaskedSum(r, task) == ToUint32(weightedSum(r, DOMAIN r))

TaskSum(r, task) ==
    ToUint32(weightedSum(r, {i \in DOMAIN r : task = NoTask \/ r[i].TaskName = task}))

ScoresNext ==
    \/ PrintTestInfo \/ RunEnds \/ truncateLog \/ ExtractResults
    \/ \E t \in Tests :
        \/ MinByName(t) \/ MaxByName(t)
        \/ \E n \in 1..2 : IncBy(t, n) \/ DecBy(t, n)
        \/ \E panics \in BOOLEAN : Print_(t, panics)

ScoresSpec == ScoresInit /\ [][ScoresNext]_scoreVars

-----------------------------------------------------------------------------
LinesOf(t) == {i \in DOMAIN out : out[i].TestName = t}

\* What a test has earned by the output that was read: the one score it printed
\* that is not zero, if nothing followed it.
Earned(t) ==
    LET final == {i \in LinesOf(t) :
                    out[i].Score > 0 /\ \A j \in LinesOf(t) \ {i} : j < i /\ out[j].Score = 0}
    IN  IF final = {} THEN 0 ELSE out[CHOOSE i \in final : TRUE].Score

\* The weight of the expected tests at some positions, and the weighted share, in
\* percent, that they have earned.
WeightOf(T) ==
    SumOf([i \in DOMAIN Expected |-> IF i \in T THEN Weight[Expected[i]] ELSE 0], Len(Expected))
EarnedBy(T) ==
    SumOf([i \in DOMAIN Expected |->
              Earned(Expected[i]) * (Unit \div MaxScore[Expected[i]])
                * (IF i \in T THEN Weight[Expected[i]] ELSE 0)], Len(Expected))
Share(T) == IF T = {} THEN 0 ELSE Round(100 * EarnedBy(T), Unit * WeightOf(T))

\* The score of a submission is what the expected tests have earned, whatever the
\* order of the lines, and a test that did not print counts as zero
\* (ExtractResults, Sum).
SumOfExpectedTests ==
    phase = "extracted" => TaskSum(results, NoTask) = Share(DOMAIN Expected)

\* The score of a task counts all its tests, if the run has printed them first
\* and the output was not truncated; it decides whether a pull request is given
\* to reviewers (TaskSum, handlePullRequestPush).
TaskSumCountsAll ==
    (phase = "extracted" /\ \A i \in DOMAIN Expected : LinesOf(Expected[i]) # {}) =>
        \A task \in {Task[t] : t \in Tests} \ {NoTask} :
            TaskSum(results, task) = Share({i \in DOMAIN Expected : Task[Expected[i]] = task})

\* "the total score would end up being uint32(-1) = 4294967295. See issue #975"
\* (results.go:105): a grade is in the range 0-100, and 100 takes every test, but
\* for a test that counts so little that half a percent is not lost with it.
SumInRange ==
    phase = "extracted" =>
        /\ TaskSum(results, NoTask) \in 0..100
        /\ TaskSum(results, NoTask) = 100 =>
              \A i \in DOMAIN Expected :
                \/ Earned(Expected[i]) = MaxScore[Expected[i]]
                \/ 200 * Weight[Expected[i]] <= MaxScore[Expected[i]] * WeightOf(DOMAIN Expected)
=============================================================================
