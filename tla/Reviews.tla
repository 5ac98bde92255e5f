------------------------------ MODULE Reviews ------------------------------
(***************************************************************************)
(* The manual reviews of one submission.  Teachers create reviews, grade   *)
(* the criteria in them one by one and set the grade of the submission,    *)
(* each with the copy that their browser holds, while the criteria of the  *)
(* assignment are updated from the tests repository.  One table has the    *)
(* benchmarks of the assignment and those of its reviews.  A request reads *)
(* in several statements and writes in one transaction.                    *)
(*                                                                         *)
(* Comments, feedback and edit times are left out, and the rows of scores  *)
(* and build information that are saved along.                             *)
(***************************************************************************)
EXTENDS Integers, FiniteSets, Sequences, SequencesExt

CONSTANTS
    Teachers,
    Reviewers,      \* Assignment.reviewers
    Versions,       \* of criteria.json: sets of benchmarks, each a set of criteria
    Points,         \* criterion -> its points
    MaxEdits,       \* grades that are set in reviews
    MaxID           \* benchmarks that are ever created

ASSUME ReviewsAssumption == Reviewers \in Nat \ {0} /\ Versions # {}
ASSUME VersionsAssumption == \A v \in Versions : IsFiniteSet(v)
ASSUME TeachersAssumption == IsFiniteSet(Teachers)

Grades == {"NONE", "FAILED", "PASSED"}

VARIABLES
    benchmarks, \* table: ID -> [ReviewID, Criteria]; a ReviewID of 0 is the assignment's
    reviews,    \* table: ID -> [ReviewerID, Score]
    score,      \* Submission.Score
    status,     \* status of the submission's grade
    browser,    \* teacher -> reviews that the browser holds
    job,        \* teacher -> request that the server works on
    lastID,     \* last ID in the table of benchmarks
    edits,      \* grades set so far
    sent        \* reviews as they were answered to, or sent by, some browser

vars == <<benchmarks, reviews, score, status, browser, job, lastID, edits, sent>>

GradingCriterion == UNION {UNION v : v \in Versions}
GradingBenchmark == [ReviewID : Nat, Criteria : UNION {[C -> Grades] : C \in SUBSET GradingCriterion}]
Review == [ReviewerID : Teachers, Score : Nat]

None == <<>>
Idle == [at |-> "idle"]

\* The values of f, and those of g elsewhere.
Over(f, g) == [x \in DOMAIN f \union DOMAIN g |-> IF x \in DOMAIN f THEN f[x] ELSE g[x]]

At(t, place) == job[t].at = place
Goto(t, j) == job' = [job EXCEPT ![t] = j]

\* Rows of a version of criteria.json, with IDs after n.
NewRows(version, n) ==
    LET order == SetToSeq(version) IN
    [i \in n+1..n+Len(order) |->
        [ReviewID |-> 0, Criteria |-> [c \in order[i - n] |-> "NONE"]]]

Init ==
    /\ \E v \in Versions : benchmarks = NewRows(v, 0) /\ lastID = Cardinality(v)
    /\ reviews = None
    /\ score = 0 /\ status = "NONE"
    /\ browser = [t \in Teachers |-> None]
    /\ job = [t \in Teachers |-> Idle]
    /\ edits = 0 /\ sent = {}

TypeOK ==
    /\ DOMAIN benchmarks \subseteq 1..lastID
    /\ \A b \in DOMAIN benchmarks : benchmarks[b] \in GradingBenchmark
    /\ \A r \in DOMAIN reviews : reviews[r] \in Review
    /\ score \in Nat /\ status \in {"NONE", "APPROVED", "REVISION"}
    /\ edits \in 0..MaxEdits

-----------------------------------------------------------------------------
(* Reading and writing.                                                    *)

\* Mutation: The benchmarks of reviews are not told apart.
AllBenchmarks(table) == DOMAIN table

\* IDs of the assignment's own benchmarks.
GetBenchmarks(table) == {b \in DOMAIN table : table[b].ReviewID = 0}

CriteriaOf(table, r) ==
    LET own == {b \in DOMAIN table : table[b].ReviewID = r} IN
    [b \in own |-> table[b].Criteria]

\* The reviews with their benchmarks and criteria.
GetSubmission ==
    [r \in DOMAIN reviews |->
        [ID |-> r, ReviewerID |-> reviews[r].ReviewerID, Score |-> reviews[r].Score,
         GradingBenchmarks |-> CriteriaOf(benchmarks, r)]]

Sum(C) == FoldLeft(LAMBDA sum, c : sum + Points[c], 0, SetToSeq(C))

\* Each criterion is graded in one benchmark of the review.
ComputeScore(review) ==
    LET bms == review.GradingBenchmarks
        total == UNION {DOMAIN bms[b] : b \in DOMAIN bms}
        passed == {c \in total : \E b \in DOMAIN bms :
                        c \in DOMAIN bms[b] /\ bms[b][c] = "PASSED"}
    IN  [review EXCEPT !.Score =
            IF total = {} THEN @
            ELSE IF Sum(passed) # 0 THEN Sum(passed)
            ELSE (100 * Cardinality(passed)) \div Cardinality(total)]

\* Every review of the submission is saved as it was read.
SaveSubmission(subm) ==
    LET row(r) == [ReviewerID |-> subm[r].ReviewerID, Score |-> subm[r].Score]
        holder(b) == CHOOSE r \in DOMAIN subm : b \in DOMAIN subm[r].GradingBenchmarks
        saved == [b \in UNION {DOMAIN subm[r].GradingBenchmarks : r \in DOMAIN subm} |->
                    [ReviewID |-> holder(b), Criteria |-> subm[holder(b)].GradingBenchmarks[b]]]
    IN
    /\ reviews' = Over([r \in DOMAIN subm |-> row(r)], reviews)
    /\ benchmarks' = Over(saved, benchmarks)

-----------------------------------------------------------------------------
(* Requests of the teachers.                                               *)

\* The page is opened or loaded again.
Load(t) ==
    /\ At(t, "idle")
    /\ browser' = [browser EXCEPT ![t] = GetSubmission]
    /\ UNCHANGED <<benchmarks, reviews, score, status, job, lastID, edits, sent>>

\* Mutation: One review too many.
SlotOrOneMore == Cardinality(DOMAIN reviews) <= Reviewers

SlotLeft == Cardinality(DOMAIN reviews) < Reviewers

\* A teacher may have several pages open, and ask for more than one review.
CreateReview(t) ==
    /\ At(t, "idle") /\ SlotLeft
    /\ Goto(t, [at |-> "benchmarks"])
    /\ UNCHANGED <<benchmarks, reviews, score, status, browser, lastID, edits, sent>>

ReadBenchmarks(t) ==
    /\ At(t, "benchmarks")
    /\ Goto(t, [at |-> "criteria", toRead |-> GetBenchmarks(benchmarks), read |-> None])
    /\ UNCHANGED <<benchmarks, reviews, score, status, browser, lastID, edits, sent>>

\* The criteria of each benchmark are read by themselves; it may be gone.
ReadCriteria(t) ==
    /\ At(t, "criteria")
    /\ \E b \in job[t].toRead :
        LET c == IF b \in DOMAIN benchmarks THEN benchmarks[b].Criteria ELSE None IN
        Goto(t, [job[t] EXCEPT !.toRead = @ \ {b}, !.read = Over([id \in {b} |-> c], @)])
    /\ UNCHANGED <<benchmarks, reviews, score, status, browser, lastID, edits, sent>>

\* The browser sends a review without benchmarks, of which the score is computed.
NewReview(t) == ComputeScore([ReviewerID |-> t, Score |-> 0, GradingBenchmarks |-> None])

InsertReview(t) ==
    LET id == Cardinality(DOMAIN reviews) + 1
        order == SetToSeq(DOMAIN job[t].read)
        copies == [i \in lastID+1..lastID+Len(order) |-> job[t].read[order[i - lastID]]]
        computed == NewReview(t).Score
        review == [ID |-> id, ReviewerID |-> t, Score |-> computed, GradingBenchmarks |-> copies]
    IN
    /\ At(t, "criteria") /\ job[t].toRead = {}
    /\ reviews' = Over([r \in {id} |-> [ReviewerID |-> t, Score |-> computed]], reviews)
    /\ benchmarks' = Over([i \in DOMAIN copies |-> [ReviewID |-> id, Criteria |-> copies[i]]],
                          benchmarks)
    /\ lastID' = lastID + Len(order)
    /\ browser' = [browser EXCEPT ![t] = Over([r \in {id} |-> review], @)]
    /\ sent' = sent \union {review}
    /\ Goto(t, Idle)
    /\ UNCHANGED <<score, status, edits>>

\* The browser sends the whole review, with the grade of one criterion changed.
UpdateReview(t) ==
    /\ At(t, "idle") /\ edits < MaxEdits /\ edits' = edits + 1
    /\ \E r \in DOMAIN browser[t] : \E b \in DOMAIN browser[t][r].GradingBenchmarks :
       \E c \in DOMAIN browser[t][r].GradingBenchmarks[b] : \E g \in Grades \ {"NONE"} :
        LET review == ComputeScore([browser[t][r] EXCEPT !.GradingBenchmarks[b][c] = g]) IN
        /\ Goto(t, [at |-> "save", review |-> review, subm |-> GetSubmission])
        /\ sent' = sent \union {review}
    /\ UNCHANGED <<benchmarks, reviews, score, status, browser, lastID>>

\* Mutation: The first review of the submission is replaced.
ReplaceFirst(subm, review) == [subm EXCEPT ![1] = review]

Replace(subm, review) ==
    IF review.ID \in DOMAIN subm THEN [subm EXCEPT ![review.ID] = review] ELSE subm

SaveReview(t) ==
    /\ At(t, "save")
    /\ SaveSubmission(Replace(job[t].subm, job[t].review))
    /\ score' = job[t].review.Score
    /\ browser' = [browser EXCEPT ![t] = Over([r \in {job[t].review.ID} |-> job[t].review], @)]
    /\ Goto(t, Idle)
    /\ UNCHANGED <<status, lastID, edits, sent>>

\* The submission's grade is set, and the submission saved with its reviews.
UpdateSubmission(t) ==
    /\ At(t, "idle") /\ status = "NONE"
    /\ Goto(t, [at |-> "grade", score |-> score, subm |-> GetSubmission])
    /\ UNCHANGED <<benchmarks, reviews, score, status, browser, lastID, edits, sent>>

SaveGrade(t) ==
    /\ At(t, "grade")
    /\ SaveSubmission(job[t].subm)
    /\ score' = job[t].score /\ status' = "APPROVED"
    /\ Goto(t, Idle)
    /\ UNCHANGED <<browser, lastID, edits, sent>>

-----------------------------------------------------------------------------
(* An update of the assignment, in a transaction.                          *)

updateGradingCriteria ==
    LET old == GetBenchmarks(benchmarks) IN
    \E v \in Versions :
        /\ {DOMAIN benchmarks[b].Criteria : b \in old} # v
        /\ lastID + Cardinality(v) <= MaxID /\ lastID' = lastID + Cardinality(v)
        /\ benchmarks' = Over([b \in DOMAIN benchmarks \ old |-> benchmarks[b]], NewRows(v, lastID))
        /\ UNCHANGED <<reviews, score, status, browser, job, edits, sent>>

Request(t) ==
    \/ Load(t) \/ CreateReview(t) \/ ReadBenchmarks(t) \/ ReadCriteria(t) \/ InsertReview(t)
    \/ UpdateReview(t) \/ SaveReview(t) \/ UpdateSubmission(t) \/ SaveGrade(t)

Next == updateGradingCriteria \/ \E t \in Teachers : Request(t)

Spec == Init /\ [][Next]_vars

-----------------------------------------------------------------------------
\* The reviews are counted before one is created, in another statement: requests
\* that overlap create at most one review each beyond the number of reviewers
\* (CreateReview).
ReviewsBounded ==
    Cardinality(DOMAIN reviews) <= Reviewers + Cardinality(Teachers) - 1

\* A review in the database is whole: its score and its criteria are of one version
\* that was sent or answered, also when requests that save all reviews overlap.
\* It may be an older version (UpdateReview, UpdateSubmission).
StoredAsSent ==
    \A r \in DOMAIN reviews : GetSubmission[r] \in sent

\* New criteria are for the reviews that are created from then on: those that
\* exist keep their criteria and grades (updateGradingCriteria, GetBenchmarks).
ReviewsKeepCriteria ==
    [][\A r \in DOMAIN reviews :
        LET before == CriteriaOf(benchmarks, r) now == CriteriaOf(benchmarks', r) IN
        /\ DOMAIN now = DOMAIN before
        /\ \A b \in DOMAIN now : DOMAIN now[b] = DOMAIN before[b]]_vars
=============================================================================
