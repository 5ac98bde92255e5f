----------------------------- MODULE Submissions -----------------------------
(***************************************************************************)
(* The life of the submissions to one assignment from one owner: a student   *)
(* (Users is a singleton) or a group.  Pushes and rebuilds run the tests and  *)
(* record a result (ci.RunTests, ci.RecordResults); a push to an assignment   *)
(* that is graded manually records a submission to be reviewed.  Teachers set *)
(* grades (UpdateSubmission) and review (UpdateReview), and may change the    *)
(* group (UpdateGroup).                                                       *)
(*                                                                          *)
(* The handlers share nothing but the database.  Every method of GormDB is    *)
(* one step, a statement or a transaction of SQLite; what a handler has read  *)
(* with one method it still uses after the next, whatever others did between. *)
(* The handlers in flight are the Workers: with one worker the operations     *)
(* follow each other, with two they interleave.                               *)
(*                                                                          *)
(* A commit is its position in the repository's branch.  A row of the         *)
(* submission table is kept with its grades and the delivery date of its      *)
(* build info; tree, the commit whose files were tested, is not stored by the *)
(* program and is what the properties compare commit with.                    *)
(***************************************************************************)
EXTENDS Integers, Sequences, FiniteSets

CONSTANTS
    Users,          \* those who are or may become members of the group
    Workers,        \* bound: the handlers in flight
    AutoApprove,    \* assignment.AutoApprove
    GradedManually, \* values of assignment.Reviewers > 0, which teachers may change
    ScoreLimit,     \* assignment.ScoreLimit
    Scores,         \* the sums that a run of the tests or a review may give
    Times,          \* points in time, in hours after the deadline
    TeacherStatus,  \* the statuses that teachers set
    MaxPushes,      \* bound: the number of pushes
    MaxOther        \* bound: the number of operations of each other kind

Status == {"NONE", "APPROVED", "REJECTED", "REVISION"}
Absent == "ABSENT"      \* the user has no grade for the submission
Kinds == {"push", "manual", "rebuild", "grade"}

ASSUME TimesAssumption == Times \subseteq Int /\ Times # {}
ASSUME ScoresAssumption == Scores \subseteq Nat /\ Scores # {} /\ ScoreLimit \in Nat
ASSUME AssignmentAssumption == AutoApprove \in BOOLEAN /\ GradedManually \subseteq BOOLEAN
ASSUME TeacherAssumption == TeacherStatus \subseteq Status
ASSUME BoundsAssumption == MaxPushes \in Nat /\ MaxOther \in [{"rebuild", "grade", "regroup"} -> Nat]

VARIABLES
    now,        \* the time
    pushedAt,   \* when each commit was pushed: the branch of the repository
    queued,     \* commits whose push event waits for a handler
    members,    \* the owner: enrollments with the group's ID
    rows,       \* the submissions of the owner, by increasing ID
    slip,       \* the used slip day records of each user, for this assignment
    pc,         \* where each handler is
    job,        \* its local variables
    other,      \* how often each bounded operation has been started
    delivered,  \* history: when the runs of pushes have ended
    overruled   \* history: users for whom a teacher has set another status or score

vars == <<now, pushedAt, queued, members, rows, slip, pc, job, other, delivered, overruled>>

head == Len(pushedAt)

(* (qf.Enrollment).UpdateSlipDays: hours after the deadline to slip days,     *)
(* with a grace period of two hours.                                          *)
UsedDays(t) == t \div 24 + (IF t % 24 > 2 THEN 1 ELSE 0)

(* (qf.Submission).SetGradeAll, SetGradesIfApproved.                          *)
SetGradeAll(grades, status) ==
    [u \in Users |-> IF grades[u] = Absent THEN Absent ELSE status]

(* Mutant: a lower score withdraws grades.                                    *)
SetGradesOrReset(grades, score) ==
    IF AutoApprove /\ score >= ScoreLimit
    THEN SetGradeAll(grades, "APPROVED")
    ELSE SetGradeAll(grades, "NONE")

SetGradesIfApproved(grades, score) ==
    IF AutoApprove /\ score >= ScoreLimit THEN SetGradeAll(grades, "APPROVED") ELSE grades

(* (qf.Submission).SetGrade: for one user, or for all when none is given.     *)
SetGrade(grades, ids, status) ==
    [u \in Users |-> IF u \in ids /\ grades[u] # Absent THEN status ELSE grades[u]]

(* What FullSaveAssociations does to the grades: those given are written over *)
(* the stored ones, the others stay.                                          *)
SaveGrades(stored, given) ==
    [u \in Users |-> IF given[u] = Absent THEN stored[u] ELSE given[u]]

NewGrades(ids) == [u \in Users |-> IF u \in ids THEN "NONE" ELSE Absent]

Grades == [Users -> Status \cup {Absent}]
Row == [commit : Nat, tree : Nat, score : Nat, date : Times, grades : Grades]
Job == [kind : Kinds, row : Nat, sub : Row, used : [Users -> Seq(Nat)], todo : SUBSET Users]
PC == {"idle", "clone", "test", "previous", "create", "readSlipDays", "saveSlipDays", "grade"}

NoSub ==
    [commit |-> 0, tree |-> 0, score |-> 0, date |-> CHOOSE t \in Times : TRUE,
     grades |-> NewGrades({})]
NoJob ==
    [kind |-> "push", row |-> 0, sub |-> NoSub, used |-> [u \in Users |-> <<>>], todo |-> {}]

TypeOK ==
    /\ now \in Times
    /\ pushedAt \in Seq(Times)
    /\ queued \subseteq 1 .. head
    /\ members \subseteq Users
    /\ rows \in Seq(Row)
    /\ slip \in [Users -> Seq(Nat)]
    /\ pc \in [Workers -> PC]
    /\ job \in [Workers -> Job]
    /\ other \in [{"rebuild", "grade", "regroup"} -> Nat]
    /\ delivered \subseteq Times
    /\ overruled \subseteq Users

Init ==
    /\ now \in {t \in Times : \A s \in Times : t <= s}
    /\ pushedAt = <<>>
    /\ queued = {}
    /\ members \in SUBSET Users \ {{}}
    /\ rows = <<>>
    /\ slip = [u \in Users |-> <<>>]
    /\ pc = [w \in Workers |-> "idle"]
    /\ job = [w \in Workers |-> NoJob]
    /\ other = [k \in {"rebuild", "grade", "regroup"} |-> 0]
    /\ delivered = {}
    /\ overruled = {}

Goto(w, at) == pc' = [pc EXCEPT ![w] = at]

(* An operation of a bounded kind begins. *)
Count(k) ==
    /\ other[k] < MaxOther[k]
    /\ other' = [other EXCEPT ![k] = @ + 1]

----------------------------------------------------------------------------
Tick ==
    /\ \E t \in Times : t > now /\ now' = t
    /\ UNCHANGED <<pushedAt, queued, members, rows, slip, pc, job, other, delivered, overruled>>

(* A commit is pushed; GitHub's event makes a goroutine that waits its turn. *)
Push ==
    /\ head < MaxPushes
    /\ pushedAt' = Append(pushedAt, now)
    /\ queued' = queued \cup {head + 1}
    /\ UNCHANGED <<now, members, rows, slip, pc, job, other, delivered, overruled>>

(* runAssignmentTests, for any waiting push: goroutines have no order.  If    *)
(* teachers grade the assignment, as it is now, no test is run for it.        *)
StartPush(w) ==
    /\ pc[w] = "idle"
    /\ \E c \in queued, manually \in GradedManually :
        /\ queued' = queued \ {c}
        /\ job' = [job EXCEPT ![w] = IF manually
                THEN [NoJob EXCEPT !.kind = "manual", !.sub.commit = c, !.sub.tree = c]
                ELSE [NoJob EXCEPT !.kind = "push", !.sub.commit = c]]
        /\ Goto(w, IF manually THEN "previous" ELSE "clone")
    /\ UNCHANGED <<now, pushedAt, members, rows, slip, other, delivered, overruled>>

(* internalRebuildSubmission takes the commit from the row it is given. *)
StartRebuild(w) ==
    /\ pc[w] = "idle"
    /\ Count("rebuild")
    /\ \E i \in 1 .. Len(rows) :
        job' = [job EXCEPT ![w] = [NoJob EXCEPT !.kind = "rebuild", !.sub.commit = rows[i].commit]]
    /\ Goto(w, "clone")
    /\ UNCHANGED <<now, pushedAt, queued, members, rows, slip, delivered, overruled>>

(* Mutant: use the clone of the last run again.                               *)
CloneCached(w) ==
    /\ pc[w] = "clone"
    /\ job' = [job EXCEPT ![w].sub.tree = IF rows = <<>> THEN head ELSE rows[Len(rows)].tree]
    /\ Goto(w, "test")
    /\ UNCHANGED <<now, pushedAt, queued, members, rows, slip, other, delivered, overruled>>

(* RunTests clones the head of the branch, whatever commit it is run for ... *)
Clone(w) ==
    /\ pc[w] = "clone"
    /\ job' = [job EXCEPT ![w].sub.tree = head]
    /\ Goto(w, "test")
    /\ UNCHANGED <<now, pushedAt, queued, members, rows, slip, other, delivered, overruled>>

(* ... and dates the results when the tests are done. *)
RunTests(w) ==
    /\ pc[w] = "test"
    /\ \E s \in Scores :
        job' = [job EXCEPT ![w].sub = [@ EXCEPT !.score = s, !.date = now]]
    /\ delivered' = IF job[w].kind = "push" THEN delivered \cup {now} ELSE delivered
    /\ Goto(w, "previous")
    /\ UNCHANGED <<now, pushedAt, queued, members, rows, slip, other, overruled>>

(* The clone or the run fails: nothing is recorded. *)
RunFails(w) ==
    /\ pc[w] \in {"clone", "test"}
    /\ Goto(w, "idle")
    /\ job' = [job EXCEPT ![w] = NoJob]
    /\ UNCHANGED <<now, pushedAt, queued, members, rows, slip, other, delivered, overruled>>

(* Mutant: a rebuild is dated like any run.                                   *)
newRunRedated(kind, sub, previous) ==
    [sub EXCEPT !.grades = SetGradesIfApproved(previous.grades, sub.score)]

(* newTestRunSubmission: a rebuild keeps the delivery date of the previous     *)
(* submission, and any run keeps its grades unless it approves them.          *)
newTestRunSubmission(kind, sub, previous) ==
    [sub EXCEPT !.date = IF kind = "rebuild" THEN previous.date ELSE @,
                !.grades = SetGradesIfApproved(previous.grades, sub.score)]

(* newManualReviewSubmission: score and grades are those of the previous one. *)
newManualReviewSubmission(sub, previous) ==
    [sub EXCEPT !.date = now, !.score = previous.score, !.grades = previous.grades]

(* RecordResults reads the owner's last row, if there is one.                 *)
previousSubmission(w) ==
    LET previous == IF rows = <<>> THEN [NoSub EXCEPT !.date = job[w].sub.date] ELSE rows[Len(rows)] IN
    /\ pc[w] = "previous"
    /\ job' = [job EXCEPT ![w].row = Len(rows),
                          ![w].sub = IF job[w].kind = "manual"
                                     THEN newManualReviewSubmission(@, previous)
                                     ELSE newTestRunSubmission(job[w].kind, @, previous)]
    /\ delivered' = IF job[w].kind = "manual" THEN delivered \cup {now} ELSE delivered
    /\ Goto(w, "create")
    /\ UNCHANGED <<now, pushedAt, queued, members, rows, slip, other, overruled>>

(* The transaction of CreateSubmission: over the row read before, or a new    *)
(* row with a grade for each current member when there was none.              *)
CreateSubmission(w) ==
    LET i   == job[w].row
        sub == job[w].sub
        new == [sub EXCEPT !.grades = SetGradesIfApproved(NewGrades(members), sub.score)]
    IN
    /\ pc[w] = "create"
    /\ \/ /\ i = 0
          /\ rows' = Append(rows, new)
          /\ job' = [job EXCEPT ![w].sub = new]
       \/ /\ i # 0
          /\ rows' = [rows EXCEPT ![i] = [sub EXCEPT !.grades = SaveGrades(rows[i].grades, sub.grades)]]
          /\ UNCHANGED job
    /\ Goto(w, IF job[w].kind = "rebuild" THEN "idle" ELSE "readSlipDays")
    /\ UNCHANGED <<now, pushedAt, queued, members, slip, other, delivered, overruled>>

(* updateSlipDays reads the enrollments with their slip days ... *)
ReadSlipDays(w) ==
    /\ pc[w] = "readSlipDays"
    /\ job' = [job EXCEPT ![w].used = slip, ![w].todo = members]
    /\ Goto(w, "saveSlipDays")
    /\ UNCHANGED <<now, pushedAt, queued, members, rows, slip, other, delivered, overruled>>

(* Mutant: a record is added each time.                                       *)
AppendSlipDays(used, sub, u) ==
    IF sub.score < ScoreLimit /\ sub.grades[u] # "APPROVED" /\ sub.date > 0
    THEN Append(used, UsedDays(sub.date))
    ELSE used

(* (qf.Enrollment).UpdateSlipDays on what was read: the first record for the  *)
(* assignment is set, or one is added, if the late submission does not pass.  *)
UpdateSlipDays(used, sub, u) ==
    IF sub.score < ScoreLimit /\ sub.grades[u] # "APPROVED" /\ sub.date > 0
    THEN IF used = <<>> THEN <<UsedDays(sub.date)>> ELSE [used EXCEPT ![1] = UsedDays(sub.date)]
    ELSE used

(* ... and saves the records of each enrollment in turn: those it has read    *)
(* are written over, one it has added is inserted.                            *)
SaveSlipDays(w) ==
    /\ pc[w] = "saveSlipDays"
    /\ \E u \in job[w].todo :
        LET read == job[w].used[u]
            save == UpdateSlipDays(read, job[w].sub, u)
        IN
        /\ slip' = [slip EXCEPT ![u] =
                        [i \in DOMAIN @ |-> IF i \in DOMAIN read THEN save[i] ELSE @[i]]
                            \o SubSeq(save, Len(read) + 1, Len(save))]
        /\ job' = [job EXCEPT ![w].todo = @ \ {u}]
    /\ UNCHANGED <<now, pushedAt, queued, members, rows, pc, other, delivered, overruled>>

RecordResultsReturn(w) ==
    /\ pc[w] = "saveSlipDays"
    /\ job[w].todo = {}
    /\ Goto(w, "idle")
    /\ job' = [job EXCEPT ![w] = NoJob]
    /\ UNCHANGED <<now, pushedAt, queued, members, rows, slip, other, delivered, overruled>>

(* UpdateSubmission and UpdateReview read the row they are about ...          *)
GetSubmission(w) ==
    /\ pc[w] = "idle"
    /\ Count("grade")
    /\ \E i \in 1 .. Len(rows) :
        job' = [job EXCEPT ![w] = [NoJob EXCEPT !.kind = "grade", !.row = i, !.sub = rows[i]]]
    /\ Goto(w, "grade")
    /\ UNCHANGED <<now, pushedAt, queued, members, rows, slip, delivered, overruled>>

(* ... and save all of it as it was read, with what they change.  Since       *)
(* CreateSubmission gives a row a new build info record, the saved one or a   *)
(* newer one may be the one found later.                                      *)
SaveSubmission(w, sub) ==
    LET i == job[w].row IN
    /\ \E date \in {sub.date, rows[i].date} :
        rows' = [rows EXCEPT ![i] =
            [sub EXCEPT !.date = date, !.grades = SaveGrades(rows[i].grades, sub.grades)]]
    /\ Goto(w, "idle")
    /\ job' = [job EXCEPT ![w] = NoJob]
    /\ UNCHANGED <<now, pushedAt, queued, members, slip, other, delivered>>

(* A teacher sets the grade of a user or of all. *)
UpdateSubmission(w) ==
    /\ pc[w] = "grade"
    /\ \E ids \in {{u} : u \in Users} \cup {Users}, status \in TeacherStatus :
        /\ SaveSubmission(w, [job[w].sub EXCEPT !.grades = SetGrade(@, ids, status)])
        /\ overruled' = IF status = "APPROVED" THEN overruled ELSE overruled \cup ids

(* A reviewer's score becomes that of the submission. *)
UpdateReview(w) ==
    /\ TRUE \in GradedManually
    /\ pc[w] = "grade"
    /\ \E s \in Scores : SaveSubmission(w, [job[w].sub EXCEPT !.score = s])
    /\ overruled' = Users

(* Mutant: grades are only added.                                             *)
addGroupGrades(row, ids) ==
    [row EXCEPT !.grades = SetGradesIfApproved(
        [u \in Users |-> IF u \in ids /\ row.grades[u] = Absent THEN "NONE" ELSE row.grades[u]],
        row.score)]

(* syncGroupGrades: the members keep their grades, new ones get one, the      *)
(* grades of others are removed, and a passing score approves them all.       *)
syncGroupGrades(row, ids) ==
    [row EXCEPT !.grades = SetGradesIfApproved(
        [u \in Users |-> IF u \notin ids THEN Absent
                         ELSE IF row.grades[u] = Absent THEN "NONE" ELSE row.grades[u]],
        row.score)]

(* UpdateGroup is a single transaction; it needs a handler to run it. *)
UpdateGroup ==
    /\ \E w \in Workers : pc[w] = "idle"
    /\ Count("regroup")
    /\ \E ids \in SUBSET Users \ {{}} :
        /\ members' = ids
        /\ rows' = [i \in DOMAIN rows |-> syncGroupGrades(rows[i], ids)]
    /\ UNCHANGED <<now, pushedAt, queued, slip, pc, job, delivered, overruled>>

----------------------------------------------------------------------------
Handler(w) ==
    \/ StartPush(w) \/ StartRebuild(w) \/ Clone(w) \/ RunTests(w) \/ RunFails(w)
    \/ previousSubmission(w) \/ CreateSubmission(w)
    \/ ReadSlipDays(w) \/ SaveSlipDays(w) \/ RecordResultsReturn(w)
    \/ GetSubmission(w) \/ UpdateSubmission(w) \/ UpdateReview(w)

Next == Tick \/ Push \/ UpdateGroup \/ \E w \in Workers : Handler(w)

Spec == Init /\ [][Next]_vars

----------------------------------------------------------------------------
(* What survives any interleaving.                                           *)

(* The result stored for a commit comes from files at least as new as the     *)
(* commit, and never from files that were not pushed (run_tests.go, clone).   *)
TestedTreeCoversCommit ==
    \A i \in DOMAIN rows : rows[i].commit <= rows[i].tree /\ rows[i].tree <= head

(* The delivery date on record is one at which a run of a push ended: no       *)
(* rebuild passes its own date off as a delivery, whatever it overlaps with.  *)
DeliveryDateFromPush == \A i \in DOMAIN rows : rows[i].date \in delivered

(* What holds as long as the handlers do not overlap.                        *)

(* The owner has one submission, which every run updates.                    *)
OneSubmission == Len(rows) <= 1

(* The grades of a submission are those of the group's members.              *)
GradesOfMembers ==
    \A i \in DOMAIN rows, u \in Users : rows[i].grades[u] # Absent <=> u \in members

(* An approval is not lost to a run of the tests or to a change of the group. *)
ApprovalSurvives ==
    [][\A i \in DOMAIN rows, u \in members \cap members' :
        rows[i].grades[u] = "APPROVED" /\ rows'[i].grades[u] # "APPROVED" =>
            \E w \in Workers : pc[w] = "grade" /\ pc'[w] = "idle" /\ u \in overruled']_vars

(* A push to a manually graded assignment leaves the score and the approvals  *)
(* that the teachers gave it (run_tests_test.go:248).                         *)
ManualPushKeepsResult ==
    [][\A w \in Workers :
        job[w].kind = "manual" /\ pc[w] = "create" /\ pc'[w] # "create" =>
            \A i \in DOMAIN rows :
                /\ rows'[i].score = rows[i].score
                /\ \A u \in members :
                    rows[i].grades[u] = "APPROVED" => rows'[i].grades[u] = "APPROVED"]_vars

(* What users and teachers see: the row's result with the grades there are, and *)
(* whom RecordResults has still to charge.                                     *)
Shown(row) ==
    [score |-> row.score, date |-> row.date,
     grades |-> [u \in {v \in Users : row.grades[v] # Absent} |-> row.grades[u]]]
Entry == [i \in DOMAIN rows |-> Shown(rows[i])]
Due ==
    {u \in Users : \E w \in Workers :
        \/ pc[w] = "readSlipDays" /\ u \in members
        \/ pc[w] = "saveSlipDays" /\ u \in job[w].todo}

Book == INSTANCE Gradebook WITH entry <- Entry, due <- Due, charged <- slip

(* Handlers that do not overlap implement the gradebook: what they read, keep  *)
(* and write back in several steps amounts to one step each, on the entry as   *)
(* it is when they write it; every other step is invisible.                   *)
GradebookSpec == Book!Spec

(* The student is charged once for the assignment, and no more slip days than *)
(* have passed since the deadline (gormdb_enrollment.go:125).                 *)
ChargedOnce ==
    \A u \in Users :
        /\ Len(slip[u]) <= 1
        /\ \A i \in DOMAIN slip[u] : slip[u][i] <= UsedDays(now)
=============================================================================
