------------------------- MODULE Submissions_proofs -------------------------
(***************************************************************************)
(* Proofs about the life of a submission, for every set of users, handlers,  *)
(* scores and times and every bound: what no interleaving of the handlers    *)
(* can break, what holds of handlers that do not overlap, and that those     *)
(* implement the gradebook.                                                  *)
(***************************************************************************)
EXTENDS Submissions, TLAPS

(* What a handler holds from what it has read or done.                        *)
JobInv(w) ==
    LET kind == job[w].kind
        sub  == job[w].sub
    IN
    /\ pc[w] \in {"clone", "test"} => kind \in {"push", "rebuild"}
    /\ pc[w] \in {"previous", "create"} => kind \in {"push", "manual", "rebuild"}
    /\ pc[w] = "clone" => sub.commit <= head
    /\ pc[w] \in {"test", "previous", "create", "grade"} =>
           sub.commit <= sub.tree /\ sub.tree <= head
    /\ pc[w] \in {"clone", "test", "previous"} /\ kind = "rebuild" => rows # <<>>
    /\ pc[w] = "previous" /\ kind = "push" => sub.date \in delivered
    /\ pc[w] \in {"create", "grade"} => sub.date \in delivered
    /\ pc[w] = "create" => job[w].row <= Len(rows)
    /\ pc[w] = "grade" => job[w].row \in DOMAIN rows

IInv ==
    /\ TypeOK
    /\ TestedTreeCoversCommit
    /\ DeliveryDateFromPush
    /\ \A w \in Workers : JobInv(w)

(* The operations on grades give every user a grade or none. *)
LEMMA GradesType ==
  ASSUME NEW g \in Grades, NEW h \in Grades, NEW s \in Nat
  PROVE  /\ SetGradesIfApproved(g, s) \in Grades
         /\ SaveGrades(g, h) \in Grades
         /\ \A ids \in SUBSET Users : NewGrades(ids) \in Grades
         /\ \A ids \in SUBSET Users, status \in Status : SetGrade(g, ids, status) \in Grades
  BY DEF Grades, Status, SetGradesIfApproved, SetGradeAll, SaveGrades, NewGrades, SetGrade

(* The empty local variables of a handler are of the right type. *)
LEMMA NoJobType == NoSub \in Row /\ NoJob \in Job
  <1>1. (CHOOSE t \in Times : TRUE) \in Times
    BY TimesAssumption
  <1>2. NewGrades({}) \in Grades
    BY DEF NewGrades, Grades
  <1>3. NoSub \in Row
    BY <1>1, <1>2 DEF NoSub, Row
  <1>4. QED
    BY <1>3 DEF NoJob, Job, Kinds

(* Hours after the deadline are a natural number of slip days. *)
LEMMA UsedDaysType == \A t \in Int : t > 0 => UsedDays(t) \in Nat
  BY DEF UsedDays

(* The elements of a sequence. *)
LEMMA SeqElements ==
  ASSUME NEW S, NEW q \in Seq(S)
  PROVE  /\ Len(q) \in Nat
         /\ DOMAIN q = 1 .. Len(q)
         /\ \A i \in DOMAIN q : q[i] \in S
         /\ q # <<>> => Len(q) \in DOMAIN q
  OBVIOUS

(* Overwriting an element or all of them, and adding one, gives a sequence of  *)
(* the same type.                                                              *)
LEMMA SeqUpdates ==
  ASSUME NEW S, NEW q \in Seq(S)
  PROVE  /\ \A i \in DOMAIN q, x \in S : [q EXCEPT ![i] = x] \in Seq(S)
         /\ \A f : f \in [DOMAIN q -> S] => f \in Seq(S)
         /\ \A x \in S : Append(q, x) \in Seq(S)
  OBVIOUS

(* The slip day records of an enrollment stay records. *)
LEMMA UpdateSlipDaysType ==
  ASSUME NEW used \in Seq(Nat), NEW sub \in Row, NEW u \in Users
  PROVE  /\ UpdateSlipDays(used, sub, u) \in Seq(Nat)
         /\ Len(used) <= Len(UpdateSlipDays(used, sub, u))
  <1>1. sub.date \in Int
    BY TimesAssumption DEF Row
  <1>2. CASE sub.date > 0
    <2>1. UsedDays(sub.date) \in Nat
      BY <1>1, <1>2, UsedDaysType
    <2>2. QED
      BY <2>1 DEF UpdateSlipDays
  <1>3. CASE ~(sub.date > 0)
    BY <1>3 DEF UpdateSlipDays
  <1>4. QED
    BY <1>2, <1>3

(* The invariant holds when the server starts: nothing has been pushed. *)
LEMMA InitIInv == Init => IInv
  <1> SUFFICES ASSUME Init PROVE IInv
    OBVIOUS
  <1>1. TypeOK
    BY NoJobType DEF Init, TypeOK, PC
  <1>2. QED
    BY <1>1
    DEF Init, IInv, TestedTreeCoversCommit, DeliveryDateFromPush, JobInv, NoJob, NoSub

(* What every action of a handler keeps in place for the others: the head and  *)
(* the delivery dates only grow, rows are not removed.                         *)
LEMMA OthersKept ==
  ASSUME NEW w \in Workers, JobInv(w), pc'[w] = pc[w], job'[w] = job[w],
         TypeOK, head' \in Nat, head <= head', delivered \subseteq delivered',
         Len(rows') \in Nat, Len(rows) <= Len(rows'), rows' \in Seq(Row)
  PROVE  JobInv(w)'
  <1>1. /\ head \in Nat /\ rows \in Seq(Row) /\ job[w] \in Job
        /\ job[w].sub.commit \in Nat /\ job[w].sub.tree \in Nat /\ job[w].row \in Nat
    BY DEF TypeOK, head, Job, Row
  <1>2. rows # <<>> => rows' # <<>>
    BY <1>1
  <1>3. DOMAIN rows \subseteq DOMAIN rows'
    BY <1>1
  <1>4. QED
    BY <1>1, <1>2, <1>3 DEF JobInv

(* The files that Clone sets in a handler's submission keep its type.          *)
LEMMA CloneType ==
  ASSUME NEW j \in Job, NEW n \in Nat
  PROVE  [j EXCEPT !.sub.tree = n] \in Job
  <1>1. [j.sub EXCEPT !.tree = n] \in Row
    BY DEF Job, Row
  <1>2. [j EXCEPT !.sub.tree = n] = [j EXCEPT !.sub = [j.sub EXCEPT !.tree = n]]
    BY Zenon
  <1>3. ASSUME NEW r \in Row PROVE [j EXCEPT !.sub = r] \in Job
    BY DEF Job
  <1>4. QED
    BY <1>1, <1>2, <1>3

(* Every step keeps the types. *)
LEMMA TypeStep == TypeOK /\ (\A w \in Workers : JobInv(w)) /\ [Next]_vars => TypeOK'
  <1> SUFFICES ASSUME TypeOK, \A w \in Workers : JobInv(w), [Next]_vars PROVE TypeOK'
    OBVIOUS
  <1> USE DEF TypeOK
  <1>0. rows \in Seq(Row) /\ pushedAt \in Seq(Times) /\ head \in Nat
    BY DEF head
  <1>a. /\ Len(rows) \in Nat
        /\ DOMAIN rows = 1 .. Len(rows)
        /\ \A i \in DOMAIN rows : rows[i] \in Row
        /\ rows # <<>> => Len(rows) \in DOMAIN rows
    BY <1>0, SeqElements
  <1>b. ASSUME NEW w \in Workers, NEW j \in Job, job' = [job EXCEPT ![w] = j]
        PROVE  job' \in [Workers -> Job]
    BY <1>b
  <1>1. CASE Tick
    BY <1>1 DEF Tick, head
  <1>2. CASE Push
    <2>1. pushedAt' \in Seq(Times) /\ head' = head + 1
      BY <1>0, <1>2 DEF Push, head
    <2>2. queued' \subseteq 1 .. head'
      BY <1>0, <1>2, <2>1 DEF Push
    <2>3. QED
      BY <1>2, <2>1, <2>2 DEF Push
  <1>3. CASE UpdateGroup
    <2>1. PICK ids \in SUBSET Users :
            members' = ids /\ rows' = [i \in DOMAIN rows |-> syncGroupGrades(rows[i], ids)]
      BY <1>3 DEF UpdateGroup
    <2>2. \A i \in DOMAIN rows : syncGroupGrades(rows[i], ids) \in Row
      <3>1. SUFFICES ASSUME NEW i \in DOMAIN rows PROVE syncGroupGrades(rows[i], ids) \in Row
        OBVIOUS
      <3>2. rows[i] \in Row /\ rows[i].score \in Nat /\ rows[i].grades \in Grades
        BY <1>a DEF Row
      <3> DEFINE g == [u \in Users |-> IF u \notin ids THEN Absent
                         ELSE IF rows[i].grades[u] = Absent THEN "NONE" ELSE rows[i].grades[u]]
      <3>3. g \in Grades
        BY <3>2 DEF Grades, Status
      <3> HIDE DEF g
      <3>4. SetGradesIfApproved(g, rows[i].score) \in Grades
        BY <3>2, <3>3, GradesType
      <3>5. syncGroupGrades(rows[i], ids) = [rows[i] EXCEPT !.grades = SetGradesIfApproved(g, rows[i].score)]
        BY DEF syncGroupGrades, g
      <3>6. QED
        BY <3>2, <3>4, <3>5 DEF Row
    <2>3. rows' \in Seq(Row)
      <3>1. rows' \in [DOMAIN rows -> Row]
        BY <2>1, <2>2
      <3>2. QED
        BY <1>0, <3>1, SeqUpdates
    <2>4. other' \in [{"rebuild", "grade", "regroup"} -> Nat]
      BY <1>3 DEF UpdateGroup, Count
    <2>5. QED
      BY <1>3, <2>1, <2>3, <2>4 DEF UpdateGroup, head
  <1>4. ASSUME NEW w \in Workers, StartPush(w) PROVE TypeOK'
    <2>1. job' \in [Workers -> Job]
      <3>1. PICK c \in queued, manually \in GradedManually : job' = [job EXCEPT ![w] = IF manually
                THEN [NoJob EXCEPT !.kind = "manual", !.sub.commit = c, !.sub.tree = c]
                ELSE [NoJob EXCEPT !.kind = "push", !.sub.commit = c]]
        BY <1>4 DEF StartPush
      <3>2. c \in Nat /\ NoJob.sub \in Row
        BY <1>0, NoJobType DEF Job
      <3>3. /\ [NoJob EXCEPT !.kind = "manual", !.sub.commit = c, !.sub.tree = c] \in Job
            /\ [NoJob EXCEPT !.kind = "push", !.sub.commit = c] \in Job
        BY <3>2, NoJobType DEF Job, Row, Kinds
      <3>4. QED
        BY <3>1, <3>3, <1>b
    <2>2. QED
      BY <1>4, <2>1 DEF StartPush, Goto, PC, head
  <1>5. ASSUME NEW w \in Workers, StartRebuild(w) PROVE TypeOK'
    <2>1. job' \in [Workers -> Job]
      <3>1. PICK i \in 1 .. Len(rows) :
              job' = [job EXCEPT ![w] = [NoJob EXCEPT !.kind = "rebuild", !.sub.commit = rows[i].commit]]
        BY <1>5, Zenon DEF StartRebuild
      <3>2. rows[i].commit \in Nat
        BY <1>a DEF Row
      <3>3. [NoJob EXCEPT !.kind = "rebuild", !.sub.commit = rows[i].commit] \in Job
        BY <3>2, NoJobType DEF Job, Row, Kinds
      <3>4. QED
        BY <3>1, <3>3, <1>b
    <2>2. QED
      BY <1>5, <2>1 DEF StartRebuild, Count, Goto, PC, head
  <1>6. ASSUME NEW w \in Workers, Clone(w) PROVE TypeOK'
    <2>1. job' \in [Workers -> Job]
      <3>1. [job[w] EXCEPT !.sub.tree = head] \in Job
        BY <1>0, CloneType
      <3>2. QED
        BY <3>1, <1>6, <1>b, Zenon DEF Clone
    <2>2. QED
      BY <1>6, <2>1 DEF Clone, Goto, PC, head
  <1>7. ASSUME NEW w \in Workers, RunTests(w) PROVE TypeOK'
    <2>1. job' \in [Workers -> Job]
      <3>1. PICK s \in Scores :
              job' = [job EXCEPT ![w] = [job[w] EXCEPT !.sub = [job[w].sub EXCEPT !.score = s, !.date = now]]]
        BY <1>7 DEF RunTests
      <3>2. job[w] \in Job /\ job[w].sub \in Row /\ s \in Nat /\ now \in Times
        BY ScoresAssumption DEF Job
      <3>3. [job[w].sub EXCEPT !.score = s, !.date = now] \in Row
        BY <3>2 DEF Row
      <3>4. [job[w] EXCEPT !.sub = [job[w].sub EXCEPT !.score = s, !.date = now]] \in Job
        BY <3>2, <3>3 DEF Job
      <3>5. QED
        BY <3>1, <3>4, <1>b
    <2>2. QED
      BY <1>7, <2>1 DEF RunTests, Goto, PC, head
  <1>8. ASSUME NEW w \in Workers, RunFails(w) PROVE TypeOK'
    BY <1>8, NoJobType DEF RunFails, Goto, PC, head
  <1>9. ASSUME NEW w \in Workers, previousSubmission(w) PROVE TypeOK'
    <2> DEFINE previous == IF rows = <<>> THEN [NoSub EXCEPT !.date = job[w].sub.date]
                           ELSE rows[Len(rows)]
               sub == job[w].sub
               new == IF job[w].kind = "manual" THEN newManualReviewSubmission(sub, previous)
                      ELSE newTestRunSubmission(job[w].kind, sub, previous)
    <2>1. sub \in Row /\ job[w] \in Job /\ Len(rows) \in Nat
      BY <1>0 DEF Job
    <2>2. previous \in Row
      <3>1. [NoSub EXCEPT !.date = job[w].sub.date] \in Row
        BY <2>1, NoJobType DEF Row
      <3>2. QED
        BY <1>a, <3>1
    <2> HIDE DEF previous
    <2>3. SetGradesIfApproved(previous.grades, sub.score) \in Grades
      BY <2>1, <2>2, GradesType DEF Row
    <2>4. new \in Row
      BY <2>1, <2>2, <2>3 DEF newManualReviewSubmission, newTestRunSubmission, Row
    <2>5. job' = [job EXCEPT ![w] = [job[w] EXCEPT !.row = Len(rows), !.sub = new]]
      BY <1>9 DEF previousSubmission, previous
    <2> HIDE DEF new
    <2>6. job' \in [Workers -> Job]
      BY <2>1, <2>4, <2>5 DEF Job
    <2>7. QED
      BY <1>9, <2>6 DEF previousSubmission, Goto, PC, head
  <1>10. ASSUME NEW w \in Workers, CreateSubmission(w) PROVE TypeOK'
    <2> DEFINE i == job[w].row
               sub == job[w].sub
               new == [sub EXCEPT !.grades = SetGradesIfApproved(NewGrades(members), sub.score)]
               over == [sub EXCEPT !.grades = SaveGrades(rows[i].grades, sub.grades)]
    <2>1. sub \in Row /\ job[w] \in Job /\ i \in Nat /\ sub.score \in Nat /\ sub.grades \in Grades
      BY DEF Job, Row
    <2>2. new \in Row
      <3>1. NewGrades(members) \in Grades
        BY <2>1, GradesType
      <3>2. SetGradesIfApproved(NewGrades(members), sub.score) \in Grades
        BY <2>1, <3>1, GradesType
      <3>3. QED
        BY <2>1, <3>2 DEF Row
    <2>3. i # 0 => i \in DOMAIN rows /\ over \in Row
      <3>1. SUFFICES ASSUME i # 0 PROVE i \in DOMAIN rows /\ over \in Row
        OBVIOUS
      <3>2. i \in DOMAIN rows
        BY <1>0, <1>10, <2>1, <3>1 DEF CreateSubmission, JobInv
      <3>3. rows[i].grades \in Grades
        BY <1>a, <3>2 DEF Row
      <3>4. SaveGrades(rows[i].grades, sub.grades) \in Grades
        BY <2>1, <3>3, GradesType
      <3>5. QED
        BY <2>1, <3>2, <3>4 DEF Row
    <2>4. \/ rows' = Append(rows, new) /\ job' = [job EXCEPT ![w] = [job[w] EXCEPT !.sub = new]]
          \/ i # 0 /\ rows' = [rows EXCEPT ![i] = over] /\ job' = job
      BY <1>10 DEF CreateSubmission
    <2> HIDE DEF new, over
    <2> HIDE DEF sub, i
    <2>5. rows' \in Seq(Row)
      <3>1. Append(rows, new) \in Seq(Row)
        BY <1>0, <2>2, SeqUpdates
      <3>2. i # 0 => [rows EXCEPT ![i] = over] \in Seq(Row)
        BY <1>0, <2>3, SeqUpdates
      <3>3. QED
        BY <2>4, <3>1, <3>2
    <2>6. job' \in [Workers -> Job]
      <3>1. [job[w] EXCEPT !.sub = new] \in Job
        BY <2>1, <2>2 DEF Job
      <3>2. QED
        BY <2>4, <3>1, <1>b
    <2>7. QED
      BY <1>10, <2>5, <2>6 DEF CreateSubmission, Goto, PC, head
  <1>11. ASSUME NEW w \in Workers, ReadSlipDays(w) PROVE TypeOK'
    <2>1. job' \in [Workers -> Job]
      BY <1>11 DEF ReadSlipDays, Job
    <2>2. QED
      BY <1>11, <2>1 DEF ReadSlipDays, Goto, PC, head
  <1>12. ASSUME NEW w \in Workers, SaveSlipDays(w) PROVE TypeOK'
    <2>1. PICK u \in job[w].todo :
            /\ slip' = [slip EXCEPT ![u] =
                 [i \in DOMAIN @ |-> IF i \in DOMAIN job[w].used[u]
                                     THEN UpdateSlipDays(job[w].used[u], job[w].sub, u)[i] ELSE @[i]]
                 \o SubSeq(UpdateSlipDays(job[w].used[u], job[w].sub, u), Len(job[w].used[u]) + 1,
                           Len(UpdateSlipDays(job[w].used[u], job[w].sub, u)))]
            /\ job' = [job EXCEPT ![w].todo = @ \ {u}]
      BY <1>12 DEF SaveSlipDays
    <2> DEFINE read == job[w].used[u]
               save == UpdateSlipDays(read, job[w].sub, u)
               kept == [i \in DOMAIN slip[u] |-> IF i \in DOMAIN read THEN save[i] ELSE slip[u][i]]
    <2>2. /\ u \in Users /\ job[w] \in Job /\ job[w].sub \in Row
          /\ read \in Seq(Nat) /\ slip[u] \in Seq(Nat)
      BY DEF Job
    <2>3. save \in Seq(Nat) /\ Len(read) <= Len(save)
      BY <2>2, UpdateSlipDaysType
    <2> HIDE DEF read, save
    <2>4. kept \in Seq(Nat)
      <3>1. DOMAIN read \subseteq DOMAIN save /\ \A i \in DOMAIN save : save[i] \in Nat
        BY <2>2, <2>3
      <3>2. kept \in [DOMAIN slip[u] -> Nat]
        BY <2>2, <3>1, SeqElements
      <3> HIDE DEF kept
      <3>3. QED
        BY <2>2, <3>2, SeqUpdates
    <2>5. SubSeq(save, Len(read) + 1, Len(save)) \in Seq(Nat)
      BY <2>2, <2>3
    <2>6. kept \o SubSeq(save, Len(read) + 1, Len(save)) \in Seq(Nat)
      BY <2>4, <2>5
    <2>7. slip' = [slip EXCEPT ![u] = kept \o SubSeq(save, Len(read) + 1, Len(save))]
      BY <2>1, <2>2 DEF read, save
    <2> HIDE DEF kept
    <2>8. slip' \in [Users -> Seq(Nat)]
      BY <2>2, <2>6, <2>7
    <2>9. job' \in [Workers -> Job]
      BY <2>1, <2>2 DEF Job
    <2>10. QED
      BY <1>12, <2>8, <2>9 DEF SaveSlipDays, head
  <1>13. ASSUME NEW w \in Workers, RecordResultsReturn(w) PROVE TypeOK'
    BY <1>13, NoJobType DEF RecordResultsReturn, Goto, PC, head
  <1>14. ASSUME NEW w \in Workers, GetSubmission(w) PROVE TypeOK'
    <2>1. job' \in [Workers -> Job]
      <3>1. PICK i \in 1 .. Len(rows) :
              job' = [job EXCEPT ![w] = [NoJob EXCEPT !.kind = "grade", !.row = i, !.sub = rows[i]]]
        BY <1>14, Zenon DEF GetSubmission
      <3>2. rows[i] \in Row /\ i \in Nat
        BY <1>0, <1>a, SeqElements
      <3>3. [NoJob EXCEPT !.kind = "grade", !.row = i, !.sub = rows[i]] \in Job
        BY <3>2, NoJobType DEF Job, Kinds
      <3>4. QED
        BY <3>1, <3>3, <1>b
    <2>2. QED
      BY <1>14, <2>1 DEF GetSubmission, Count, Goto, PC, head
  <1>15. ASSUME NEW w \in Workers, NEW sub \in Row, pc[w] = "grade", SaveSubmission(w, sub),
                overruled' \subseteq Users
         PROVE  TypeOK'
    <2>1. job[w].row \in DOMAIN rows
      BY <1>15 DEF JobInv
    <2>2. PICK date \in {sub.date, rows[job[w].row].date} :
            rows' = [rows EXCEPT ![job[w].row] =
                [sub EXCEPT !.date = date, !.grades = SaveGrades(rows[job[w].row].grades, sub.grades)]]
      BY <1>15 DEF SaveSubmission
    <2>3. rows[job[w].row] \in Row
      BY <1>0, <2>1
    <2>4. SaveGrades(rows[job[w].row].grades, sub.grades) \in Grades /\ date \in Times
      BY <1>15, <2>2, <2>3, GradesType DEF Row
    <2>5. [sub EXCEPT !.date = date, !.grades = SaveGrades(rows[job[w].row].grades, sub.grades)] \in Row
      BY <1>15, <2>4 DEF Row
    <2>6. rows' \in Seq(Row)
      BY <1>0, <2>1, <2>2, <2>5
    <2>7. QED
      BY <1>15, <2>6, NoJobType DEF SaveSubmission, Goto, PC, head
  <1>16. ASSUME NEW w \in Workers, UpdateSubmission(w) PROVE TypeOK'
    <2>1. PICK ids \in {{u} : u \in Users} \cup {Users}, status \in TeacherStatus :
            /\ SaveSubmission(w, [job[w].sub EXCEPT !.grades = SetGrade(@, ids, status)])
            /\ overruled' = IF status = "APPROVED" THEN overruled ELSE overruled \cup ids
      BY <1>16 DEF UpdateSubmission
    <2>2. job[w].sub \in Row /\ job[w].sub.grades \in Grades
      BY DEF Job, Row
    <2>3. SetGrade(job[w].sub.grades, ids, status) \in Grades
      BY <2>2, GradesType, TeacherAssumption, 0 \in Nat
    <2>4. [job[w].sub EXCEPT !.grades = SetGrade(@, ids, status)] \in Row
      BY <2>2, <2>3 DEF Row
    <2>5. overruled' \subseteq Users
      BY <2>1
    <2>6. QED
      BY <1>15, <1>16, <2>1, <2>4, <2>5 DEF UpdateSubmission
  <1>17. ASSUME NEW w \in Workers, UpdateReview(w) PROVE TypeOK'
    <2>1. PICK s \in Scores : SaveSubmission(w, [job[w].sub EXCEPT !.score = s])
      BY <1>17 DEF UpdateReview
    <2>2. [job[w].sub EXCEPT !.score = s] \in Row
      BY ScoresAssumption DEF Job, Row
    <2>3. QED
      BY <1>15, <1>17, <2>1, <2>2 DEF UpdateReview
  <1>18. CASE UNCHANGED vars
    BY <1>18 DEF vars, head
  <1>19. QED
    BY <1>1, <1>2, <1>3, <1>4, <1>5, <1>6, <1>7, <1>8, <1>9, <1>10, <1>11, <1>12, <1>13, <1>14,
       <1>16, <1>17, <1>18 DEF Next, Handler

(* What the properties say of one row, or of a row about to be saved. *)
GoodRow(row, newest, dates) ==
    row.commit <= row.tree /\ row.tree <= newest /\ row.date \in dates

(* Every step keeps the invariant. *)
LEMMA IInvStep == IInv /\ [Next]_vars => IInv'
  <1> SUFFICES ASSUME IInv, [Next]_vars PROVE IInv'
    OBVIOUS
  <1>1. TypeOK /\ TypeOK'
    BY TypeStep DEF IInv
  <1>2. \A w \in Workers : JobInv(w)
    BY DEF IInv
  <1>3. \A i \in DOMAIN rows : GoodRow(rows[i], head, delivered)
    BY DEF IInv, TestedTreeCoversCommit, DeliveryDateFromPush, GoodRow
  <1>4. SUFFICES /\ \A i \in DOMAIN rows' : GoodRow(rows'[i], head', delivered')
                 /\ \A w \in Workers : JobInv(w)'
    BY <1>1 DEF IInv, TestedTreeCoversCommit, DeliveryDateFromPush, GoodRow
  <1>5. /\ rows \in Seq(Row) /\ rows' \in Seq(Row)
        /\ Len(rows) \in Nat /\ Len(rows') \in Nat /\ head \in Nat /\ head' \in Nat
        /\ DOMAIN rows = 1 .. Len(rows) /\ DOMAIN rows' = 1 .. Len(rows')
    BY <1>1, SeqElements DEF TypeOK, head
  <1>6. \A i \in DOMAIN rows : rows[i] \in Row /\ rows[i].commit \in Nat /\ rows[i].tree \in Nat
    <2>1. \A i \in DOMAIN rows : rows[i] \in Row
      BY <1>5, SeqElements
    <2>2. QED
      BY <2>1 DEF Row
  <1>7. \A w \in Workers :
            /\ job[w] \in Job /\ job[w].row \in Nat
            /\ job[w].sub.commit \in Nat /\ job[w].sub.tree \in Nat
    BY <1>1 DEF TypeOK, Job, Row
  <1>8. ASSUME NEW w \in Workers, head <= head', delivered \subseteq delivered',
               Len(rows) <= Len(rows'), job'[w] = job[w], pc'[w] = pc[w]
        PROVE  JobInv(w)'
    BY <1>1, <1>2, <1>5, <1>8, OthersKept
  <1>9. ASSUME rows' = rows, head <= head', delivered \subseteq delivered'
        PROVE  \A i \in DOMAIN rows' : GoodRow(rows'[i], head', delivered')
    BY <1>3, <1>5, <1>6, <1>9 DEF GoodRow
  <1>10. ASSUME NEW w \in Workers, NEW at, NEW j, Goto(w, at), job' = [job EXCEPT ![w] = j]
         PROVE  /\ pc'[w] = at /\ job'[w] = j
                /\ \A v \in Workers \ {w} : pc'[v] = pc[v] /\ job'[v] = job[v]
    BY <1>1, <1>10 DEF Goto, TypeOK
  <1>11. NoJob.kind = "push" /\ NoJob.sub = NoSub
    BY DEF NoJob
  <1>20. CASE Tick
    <2>1. UNCHANGED <<pushedAt, rows, pc, job, delivered>>
      BY <1>20 DEF Tick
    <2>2. QED
      BY <2>1, <1>5, <1>8, <1>9 DEF head
  <1>21. CASE Push
    <2>1. head' = head + 1 /\ UNCHANGED <<rows, pc, job, delivered>>
      BY <1>1, <1>21 DEF Push, head, TypeOK
    <2>2. QED
      BY <2>1, <1>5, <1>8, <1>9
  <1>22. CASE UpdateGroup
    <2>1. UNCHANGED <<pushedAt, pc, job, delivered>>
      BY <1>22 DEF UpdateGroup
    <2>2. PICK ids \in SUBSET Users : rows' = [i \in DOMAIN rows |-> syncGroupGrades(rows[i], ids)]
      BY <1>22 DEF UpdateGroup
    <2>3. \A i \in DOMAIN rows :
            /\ rows'[i].commit = rows[i].commit
            /\ rows'[i].tree = rows[i].tree
            /\ rows'[i].date = rows[i].date
      BY <2>2, <1>6 DEF syncGroupGrades, Row
    <2>4. \A i \in DOMAIN rows' : GoodRow(rows'[i], head', delivered')
      BY <2>1, <2>2, <2>3, <1>3 DEF GoodRow, head
    <2>5. Len(rows') = Len(rows)
      BY <2>2, <1>5
    <2>6. QED
      BY <2>1, <2>4, <2>5, <1>5, <1>8 DEF head
  <1>23. ASSUME NEW w \in Workers, StartPush(w)
         PROVE  /\ \A i \in DOMAIN rows' : GoodRow(rows'[i], head', delivered')
                /\ \A v \in Workers : JobInv(v)'
    <2>1. head' = head /\ UNCHANGED <<rows, delivered>>
      BY <1>23 DEF StartPush, head
    <2> DEFINE at(manually) == IF manually THEN "previous" ELSE "clone"
               new(c, manually) == IF manually
                         THEN [NoJob EXCEPT !.kind = "manual", !.sub.commit = c, !.sub.tree = c]
                         ELSE [NoJob EXCEPT !.kind = "push", !.sub.commit = c]
    <2>2. PICK c \in queued, manually \in GradedManually :
            job' = [job EXCEPT ![w] = new(c, manually)] /\ Goto(w, at(manually))
      BY <1>23 DEF StartPush
    <2>3. c \in Nat /\ c <= head
      BY <1>1, <1>5 DEF TypeOK
    <2> HIDE DEF at, new
    <2>5. /\ pc'[w] = at(manually) /\ job'[w] = new(c, manually)
          /\ \A v \in Workers \ {w} : pc'[v] = pc[v] /\ job'[v] = job[v]
      BY <2>2, <1>10
    <2>6. JobInv(w)'
      BY <2>1, <2>3, <2>5 DEF JobInv, NoJob, NoSub, at, new
    <2>7. QED
      BY <2>1, <2>5, <2>6, <1>5, <1>8, <1>9
  <1>24. ASSUME NEW w \in Workers, StartRebuild(w)
         PROVE  /\ \A i \in DOMAIN rows' : GoodRow(rows'[i], head', delivered')
                /\ \A v \in Workers : JobInv(v)'
    <2>1. head' = head /\ UNCHANGED <<rows, delivered>>
      BY <1>24 DEF StartRebuild, head
    <2>2. PICK i \in 1 .. Len(rows) :
            job' = [job EXCEPT ![w] = [NoJob EXCEPT !.kind = "rebuild", !.sub.commit = rows[i].commit]]
      BY <1>24 DEF StartRebuild
    <2>3. rows[i].commit <= head /\ rows # <<>>
      BY <1>3, <1>5, <1>6 DEF GoodRow
    <2>4. /\ pc'[w] = "clone"
          /\ job'[w] = [NoJob EXCEPT !.kind = "rebuild", !.sub.commit = rows[i].commit]
          /\ \A v \in Workers \ {w} : pc'[v] = pc[v] /\ job'[v] = job[v]
      BY <2>2, <1>10, <1>24 DEF StartRebuild
    <2>5. JobInv(w)'
      BY <2>1, <2>3, <2>4 DEF JobInv, NoJob, NoSub
    <2>6. QED
      BY <2>1, <2>4, <2>5, <1>5, <1>8, <1>9
  <1>25. ASSUME NEW w \in Workers, Clone(w)
         PROVE  /\ \A i \in DOMAIN rows' : GoodRow(rows'[i], head', delivered')
                /\ \A v \in Workers : JobInv(v)'
    <2>1. head' = head /\ pc[w] = "clone" /\ UNCHANGED <<rows, delivered>>
      BY <1>25 DEF Clone, head
    <2>2. /\ pc'[w] = "test"
          /\ job'[w] = [job[w] EXCEPT !.sub = [job[w].sub EXCEPT !.tree = head]]
          /\ \A v \in Workers \ {w} : pc'[v] = pc[v] /\ job'[v] = job[v]
      BY <1>1, <1>25 DEF Clone, Goto, TypeOK
    <2>3. /\ job'[w].kind = job[w].kind
          /\ job'[w].sub.commit = job[w].sub.commit
          /\ job'[w].sub.tree = head
      BY <2>2, <1>7 DEF Job, Row
    <2>4. JobInv(w)'
      BY <2>1, <2>2, <2>3, <1>2, <1>5 DEF JobInv
    <2>5. QED
      BY <2>1, <2>2, <2>4, <1>5, <1>8, <1>9
  <1>26. ASSUME NEW w \in Workers, RunTests(w)
         PROVE  /\ \A i \in DOMAIN rows' : GoodRow(rows'[i], head', delivered')
                /\ \A v \in Workers : JobInv(v)'
    <2>1. /\ head' = head /\ pc[w] = "test" /\ UNCHANGED rows
          /\ delivered' = IF job[w].kind = "push" THEN delivered \cup {now} ELSE delivered
      BY <1>26 DEF RunTests, head
    <2>2. PICK s \in Scores :
            job' = [job EXCEPT ![w].sub = [@ EXCEPT !.score = s, !.date = now]]
      BY <1>26, Zenon DEF RunTests
    <2>3. /\ pc'[w] = "previous"
          /\ job'[w] = [job[w] EXCEPT !.sub = [job[w].sub EXCEPT !.score = s, !.date = now]]
          /\ \A v \in Workers \ {w} : pc'[v] = pc[v] /\ job'[v] = job[v]
      BY <2>2, <1>10, <1>26 DEF RunTests
    <2>4. /\ job'[w].kind = job[w].kind
          /\ job'[w].sub.commit = job[w].sub.commit
          /\ job'[w].sub.tree = job[w].sub.tree
          /\ job'[w].sub.date = now
      <3> DEFINE r == [job[w].sub EXCEPT !.score = s, !.date = now]
      <3>1. r.commit = job[w].sub.commit /\ r.tree = job[w].sub.tree /\ r.date = now
        BY <1>7 DEF Job, Row
      <3>2. job'[w] = [job[w] EXCEPT !.sub = r]
        BY <2>3
      <3> HIDE DEF r
      <3>3. job'[w].kind = job[w].kind /\ job'[w].sub = r
        BY <3>2, <1>7 DEF Job
      <3>4. QED
        BY <3>1, <3>3
    <2>5. JobInv(w)'
      BY <2>1, <2>3, <2>4, <1>2, <1>5 DEF JobInv
    <2>6. delivered \subseteq delivered' /\ head <= head' /\ rows' = rows /\ Len(rows) <= Len(rows')
      BY <2>1, <1>5
    <2>7. QED
      BY <2>3, <2>5, <2>6, <1>8, <1>9
  <1>27. ASSUME NEW w \in Workers, RunFails(w) \/ RecordResultsReturn(w)
         PROVE  /\ \A i \in DOMAIN rows' : GoodRow(rows'[i], head', delivered')
                /\ \A v \in Workers : JobInv(v)'
    <2>1. head' = head /\ UNCHANGED <<rows, delivered>>
      BY <1>27 DEF RunFails, RecordResultsReturn, head
    <2>2. /\ pc'[w] = "idle"
          /\ \A v \in Workers \ {w} : pc'[v] = pc[v] /\ job'[v] = job[v]
      BY <1>10, <1>27 DEF RunFails, RecordResultsReturn
    <2>3. JobInv(w)'
      BY <2>2 DEF JobInv
    <2>4. QED
      BY <2>1, <2>2, <2>3, <1>5, <1>8, <1>9
  <1>28. ASSUME NEW w \in Workers, previousSubmission(w)
         PROVE  /\ \A i \in DOMAIN rows' : GoodRow(rows'[i], head', delivered')
                /\ \A v \in Workers : JobInv(v)'
    <2> DEFINE previous == IF rows = <<>> THEN [NoSub EXCEPT !.date = job[w].sub.date]
                           ELSE rows[Len(rows)]
               kind == job[w].kind
               sub == job[w].sub
               new == IF kind = "manual" THEN newManualReviewSubmission(sub, previous)
                      ELSE newTestRunSubmission(kind, sub, previous)
    <2>1. /\ head' = head /\ pc[w] = "previous" /\ UNCHANGED rows
          /\ delivered' = IF kind = "manual" THEN delivered \cup {now} ELSE delivered
      BY <1>28 DEF previousSubmission, head
    <2> DEFINE read == [job[w] EXCEPT !.row = Len(rows), !.sub = new]
    <2>2. job' = [job EXCEPT ![w] = read] /\ Goto(w, "create")
      BY <1>28 DEF previousSubmission
    <2> HIDE DEF read
    <2>3. /\ pc'[w] = "create"
          /\ job'[w] = read
          /\ \A v \in Workers \ {w} : pc'[v] = pc[v] /\ job'[v] = job[v]
      BY <2>2, <1>10
    <2>4. rows # <<>> => previous.date \in delivered
      BY <1>3, <1>5, SeqElements DEF GoodRow
    <2> HIDE DEF previous
    <2>5. sub \in Row /\ kind \in {"push", "manual", "rebuild"} /\ (kind = "rebuild" => rows # <<>>)
          /\ (kind = "push" => sub.date \in delivered)
      BY <2>1, <1>2, <1>7 DEF JobInv, Job
    <2>6. /\ new.commit = sub.commit /\ new.tree = sub.tree
          /\ new.date = IF kind = "manual" THEN now
                        ELSE IF kind = "rebuild" THEN previous.date ELSE sub.date
      BY <2>5 DEF newManualReviewSubmission, newTestRunSubmission, Row
    <2> HIDE DEF new
    <2>7. new.date \in delivered'
      BY <2>1, <2>4, <2>5, <2>6
    <2>8. job'[w].kind = kind /\ job'[w].sub = new /\ job'[w].row = Len(rows)
      BY <2>3, <1>7 DEF Job, read
    <2>9. JobInv(w)'
      BY <2>1, <2>3, <2>5, <2>6, <2>7, <2>8, <1>2, <1>5 DEF JobInv
    <2>10. delivered \subseteq delivered' /\ head <= head' /\ rows' = rows /\ Len(rows) <= Len(rows')
      BY <2>1, <1>5
    <2>11. QED
      BY <2>3, <2>9, <2>10, <1>8, <1>9
  <1>29. ASSUME NEW w \in Workers, CreateSubmission(w)
         PROVE  /\ \A i \in DOMAIN rows' : GoodRow(rows'[i], head', delivered')
                /\ \A v \in Workers : JobInv(v)'
    <2> DEFINE i == job[w].row
               sub == job[w].sub
               new == [sub EXCEPT !.grades = SetGradesIfApproved(NewGrades(members), sub.score)]
               over == [sub EXCEPT !.grades = SaveGrades(rows[i].grades, sub.grades)]
    <2>1. head' = head /\ pc[w] = "create" /\ UNCHANGED delivered
      BY <1>29 DEF CreateSubmission, head
    <2>2. GoodRow(sub, head, delivered) /\ sub \in Row /\ i <= Len(rows) /\ i \in Nat
      BY <2>1, <1>2, <1>7 DEF JobInv, GoodRow, Job
    <2>3. /\ new.commit = sub.commit /\ new.tree = sub.tree /\ new.date = sub.date
          /\ over.commit = sub.commit /\ over.tree = sub.tree /\ over.date = sub.date
      BY <2>2 DEF Row
    <2>4. GoodRow(new, head', delivered') /\ GoodRow(over, head', delivered')
      BY <2>1, <2>2, <2>3 DEF GoodRow
    <2>5. \/ rows' = Append(rows, new)
          \/ i # 0 /\ rows' = [rows EXCEPT ![i] = over]
      BY <1>29 DEF CreateSubmission
    <2>6. \A k \in DOMAIN rows : GoodRow(rows[k], head', delivered')
      BY <2>1, <1>3 DEF GoodRow
    <2> HIDE DEF new, over, sub, i
    <2>7. \A k \in DOMAIN rows' : rows'[k] \in {new, over} \/ (k \in DOMAIN rows /\ rows'[k] = rows[k])
      <3>1. CASE rows' = Append(rows, new)
        BY <3>1, <1>5
      <3>2. CASE i # 0 /\ rows' = [rows EXCEPT ![i] = over]
        BY <3>2, <2>2, <1>5
      <3>3. QED
        BY <2>5, <3>1, <3>2
    <2>8. \A k \in DOMAIN rows' : GoodRow(rows'[k], head', delivered')
      BY <2>4, <2>6, <2>7 DEF GoodRow
    <2>9. Len(rows) <= Len(rows')
      <3>1. CASE rows' = Append(rows, new)
        BY <3>1, <1>5
      <3>2. CASE i # 0 /\ rows' = [rows EXCEPT ![i] = over]
        BY <3>2, <2>2, <1>5
      <3>3. QED
        BY <2>5, <3>1, <3>2
    <2>10. pc'[w] \in {"idle", "readSlipDays"} /\ \A v \in Workers \ {w} : pc'[v] = pc[v]
      BY <1>1, <1>29 DEF CreateSubmission, Goto, TypeOK
    <2>11. \A v \in Workers \ {w} : job'[v] = job[v]
      BY <1>1, <1>29 DEF CreateSubmission, TypeOK
    <2>12. JobInv(w)'
      BY <2>10 DEF JobInv
    <2>13. QED
      BY <2>1, <2>8, <2>9, <2>10, <2>11, <2>12, <1>5, <1>8
  <1>30. ASSUME NEW w \in Workers, ReadSlipDays(w) \/ SaveSlipDays(w)
         PROVE  /\ \A i \in DOMAIN rows' : GoodRow(rows'[i], head', delivered')
                /\ \A v \in Workers : JobInv(v)'
    <2>1. head' = head /\ UNCHANGED <<rows, delivered>>
      BY <1>30 DEF ReadSlipDays, SaveSlipDays, head
    <2>2. /\ pc'[w] = "saveSlipDays"
          /\ \A v \in Workers \ {w} : pc'[v] = pc[v] /\ job'[v] = job[v]
      BY <1>1, <1>30 DEF ReadSlipDays, SaveSlipDays, Goto, TypeOK
    <2>3. JobInv(w)'
      BY <2>2 DEF JobInv
    <2>4. QED
      BY <2>1, <2>2, <2>3, <1>5, <1>8, <1>9
  <1>31. ASSUME NEW w \in Workers, GetSubmission(w)
         PROVE  /\ \A i \in DOMAIN rows' : GoodRow(rows'[i], head', delivered')
                /\ \A v \in Workers : JobInv(v)'
    <2>1. head' = head /\ UNCHANGED <<rows, delivered>>
      BY <1>31 DEF GetSubmission, head
    <2>2. PICK i \in 1 .. Len(rows) :
            job' = [job EXCEPT ![w] = [NoJob EXCEPT !.kind = "grade", !.row = i, !.sub = rows[i]]]
      BY <1>31 DEF GetSubmission
    <2>3. /\ pc'[w] = "grade"
          /\ job'[w] = [NoJob EXCEPT !.kind = "grade", !.row = i, !.sub = rows[i]]
          /\ \A v \in Workers \ {w} : pc'[v] = pc[v] /\ job'[v] = job[v]
      BY <2>2, <1>10, <1>31 DEF GetSubmission
    <2>4. job'[w].sub = rows[i] /\ job'[w].row = i
      BY <2>3 DEF NoJob
    <2>5. GoodRow(rows[i], head, delivered) /\ i \in DOMAIN rows
      BY <1>3, <1>5
    <2>6. JobInv(w)'
      BY <2>1, <2>3, <2>4, <2>5 DEF JobInv, GoodRow
    <2>7. QED
      BY <2>1, <2>3, <2>6, <1>5, <1>8, <1>9
  <1>32. ASSUME NEW w \in Workers, NEW sub \in Row, pc[w] = "grade", SaveSubmission(w, sub),
                GoodRow(sub, head, delivered), pushedAt' = pushedAt
         PROVE  /\ \A i \in DOMAIN rows' : GoodRow(rows'[i], head', delivered')
                /\ \A v \in Workers : JobInv(v)'
    <2> DEFINE i == job[w].row
    <2>1. head' = head /\ UNCHANGED delivered /\ i \in DOMAIN rows
      BY <1>32, <1>2 DEF SaveSubmission, JobInv, head
    <2>2. PICK date \in {sub.date, rows[i].date} :
            rows' = [rows EXCEPT ![i] =
                [sub EXCEPT !.date = date, !.grades = SaveGrades(rows[i].grades, sub.grades)]]
      BY <1>32 DEF SaveSubmission
    <2> DEFINE over == [sub EXCEPT !.date = date, !.grades = SaveGrades(rows[i].grades, sub.grades)]
    <2>3. over.commit = sub.commit /\ over.tree = sub.tree /\ over.date = date
      BY <1>32 DEF Row
    <2>4. date \in delivered
      BY <1>3, <1>32, <2>1 DEF GoodRow
    <2>5. GoodRow(over, head', delivered')
      BY <1>32, <2>1, <2>3, <2>4 DEF GoodRow
    <2>6. \A k \in DOMAIN rows : GoodRow(rows[k], head', delivered')
      BY <2>1, <1>3 DEF GoodRow
    <2>7. rows' = [rows EXCEPT ![i] = over]
      BY <2>2
    <2> HIDE DEF over, i
    <2>8. DOMAIN rows' = DOMAIN rows /\ \A k \in DOMAIN rows : rows'[k] = over \/ rows'[k] = rows[k]
      BY <2>1, <2>7, <1>5
    <2>9. \A k \in DOMAIN rows' : GoodRow(rows'[k], head', delivered')
      BY <2>5, <2>6, <2>8 DEF GoodRow
    <2>10. Len(rows') = Len(rows)
      BY <2>7, <1>5
    <2>11. /\ pc'[w] = "idle"
           /\ \A v \in Workers \ {w} : pc'[v] = pc[v] /\ job'[v] = job[v]
      BY <1>10, <1>32 DEF SaveSubmission
    <2>12. JobInv(w)'
      BY <2>11 DEF JobInv
    <2>13. QED
      BY <2>1, <2>9, <2>10, <2>11, <2>12, <1>5, <1>8
  <1>33. ASSUME NEW w \in Workers, UpdateSubmission(w) \/ UpdateReview(w)
         PROVE  /\ \A i \in DOMAIN rows' : GoodRow(rows'[i], head', delivered')
                /\ \A v \in Workers : JobInv(v)'
    <2>1. pc[w] = "grade"
      BY <1>33 DEF UpdateSubmission, UpdateReview
    <2>2. GoodRow(job[w].sub, head, delivered) /\ job[w].sub \in Row
      BY <2>1, <1>2, <1>7 DEF JobInv, GoodRow, Job
    <2>3. CASE UpdateSubmission(w)
      <3>1. PICK ids \in {{u} : u \in Users} \cup {Users}, status \in TeacherStatus :
              SaveSubmission(w, [job[w].sub EXCEPT !.grades = SetGrade(@, ids, status)])
        BY <2>3 DEF UpdateSubmission
      <3>2. pushedAt' = pushedAt
        BY <3>1 DEF SaveSubmission
      <3>3. SetGrade(job[w].sub.grades, ids, status) \in Grades
        BY <2>2, GradesType, TeacherAssumption, 0 \in Nat DEF Row
      <3>4. [job[w].sub EXCEPT !.grades = SetGrade(@, ids, status)] \in Row
        BY <2>2, <3>3 DEF Row
      <3>5. GoodRow([job[w].sub EXCEPT !.grades = SetGrade(@, ids, status)], head, delivered)
        BY <2>2 DEF GoodRow, Row
      <3>6. QED
        BY <1>32, <2>1, <3>1, <3>2, <3>4, <3>5
    <2>4. CASE UpdateReview(w)
      <3>1. PICK s \in Scores : SaveSubmission(w, [job[w].sub EXCEPT !.score = s])
        BY <2>4 DEF UpdateReview
      <3>2. pushedAt' = pushedAt
        BY <3>1 DEF SaveSubmission
      <3>3. [job[w].sub EXCEPT !.score = s] \in Row
        BY <2>2, ScoresAssumption DEF Row
      <3>4. GoodRow([job[w].sub EXCEPT !.score = s], head, delivered)
        BY <2>2 DEF GoodRow, Row
      <3>5. QED
        BY <1>32, <2>1, <3>1, <3>2, <3>3, <3>4
    <2>5. QED
      BY <1>33, <2>3, <2>4
  <1>34. CASE UNCHANGED vars
    <2>1. head' = head /\ UNCHANGED <<rows, delivered, pc, job>>
      BY <1>34 DEF vars, head
    <2>2. QED
      BY <2>1, <1>5, <1>8, <1>9
  <1>35. QED
    BY <1>20, <1>21, <1>22, <1>23, <1>24, <1>25, <1>26, <1>27, <1>28, <1>29, <1>30, <1>31, <1>33,
       <1>34 DEF Next, Handler

(* However pushes, rebuilds, grading, reviews and changes of the group         *)
(* interleave: a stored result is for files at least as new as the commit it   *)
(* is stored for (clone).                                                    *)
THEOREM SubmissionsSafety == Spec => [](TypeOK /\ TestedTreeCoversCommit)
  <1>1. IInv => TypeOK /\ TestedTreeCoversCommit
    BY DEF IInv
  <1>2. QED
    BY InitIInv, IInvStep, <1>1, PTL DEF Spec

(* The delivery date of a submission is that of a push, never of a rebuild or   *)
(* of a review, again with any overlap (newTestRunSubmission).                 *)
THEOREM SubmissionsDates == Spec => []DeliveryDateFromPush
  <1>1. IInv => DeliveryDateFromPush
    BY DEF IInv
  <1>2. QED
    BY InitIInv, IInvStep, <1>1, PTL DEF Spec

-----------------------------------------------------------------------------
(* Handlers that do not overlap.                                             *)

(* What no other handler has changed since this one read it: the grades that a  *)
(* result is to be saved with are the stored ones, or approvals of them; a     *)
(* manual push carries the stored score; a grade is set in the row as it is.   *)
SerialJob(w) ==
    LET sub == job[w].sub
    IN
    /\ pc[w] = "create" =>
           /\ job[w].row = Len(rows)
           /\ \A i \in DOMAIN rows, u \in Users :
                  \/ sub.grades[u] = rows[i].grades[u]
                  \/ sub.grades[u] = "APPROVED" /\ rows[i].grades[u] # Absent
           /\ job[w].kind = "manual" => \A i \in DOMAIN rows : sub.score = rows[i].score
    /\ pc[w] = "grade" => sub.grades = rows[job[w].row].grades
    /\ pc[w] \in {"readSlipDays", "saveSlipDays"} => sub.date \in delivered
    /\ pc[w] = "saveSlipDays" => \A u \in job[w].todo : job[w].used[u] = slip[u]

(* The invariant of a single handler.                                          *)
SerialInv ==
    /\ IInv
    /\ OneSubmission
    /\ GradesOfMembers
    /\ ChargedOnce
    /\ \A t \in delivered : t <= now
    /\ \A w \in Workers : SerialJob(w)

(* What the operations do to the grade of a user. *)
LEMMA GradesOf ==
  ASSUME NEW g \in Grades, NEW h \in Grades, NEW s \in Nat, NEW u \in Users
  PROVE  /\ \/ SetGradesIfApproved(g, s)[u] = g[u]
            \/ g[u] # Absent /\ SetGradesIfApproved(g, s)[u] = "APPROVED"
         /\ SaveGrades(g, h)[u] = IF h[u] = Absent THEN g[u] ELSE h[u]
         /\ \A ids : NewGrades(ids)[u] = IF u \in ids THEN "NONE" ELSE Absent
         /\ \A ids, status : SetGrade(g, ids, status)[u] =
                IF u \in ids /\ g[u] # Absent THEN status ELSE g[u]
  BY DEF Grades, SetGradesIfApproved, SetGradeAll, SaveGrades, NewGrades, SetGrade

(* Later means at least as many slip days. *)
LEMMA UsedDaysMonotone == \A s, t \in Int : s <= t => UsedDays(s) <= UsedDays(t) /\ UsedDays(s) \in Int
  BY DEF UsedDays

(* Nothing has been recorded when the server starts. *)
LEMMA InitSerial == Init => SerialInv
  <1> SUFFICES ASSUME Init PROVE SerialInv
    OBVIOUS
  <1>1. IInv
    BY InitIInv
  <1>2. rows = <<>> /\ slip = [u \in Users |-> <<>>] /\ delivered = {}
        /\ pc = [w \in Workers |-> "idle"]
    BY DEF Init
  <1>3. OneSubmission /\ GradesOfMembers
    BY <1>2 DEF OneSubmission, GradesOfMembers
  <1>4. ChargedOnce
    BY <1>2 DEF ChargedOnce
  <1>5. QED
    BY <1>1, <1>2, <1>3, <1>4 DEF SerialInv, SerialJob

(* The facts that the steps below rest on. *)
LEMMA SerialFacts ==
  ASSUME SerialInv, NEW w \in Workers
  PROVE  /\ job \in [Workers -> Job] /\ pc \in [Workers -> PC]
         /\ job[w] \in Job /\ job[w].sub \in Row /\ job[w].sub.grades \in Grades
         /\ rows \in Seq(Row) /\ Len(rows) \in {0, 1} /\ DOMAIN rows = 1 .. Len(rows)
         /\ \A i \in DOMAIN rows : rows[i] \in Row /\ rows[i].grades \in Grades
         /\ rows # <<>> => Len(rows) = 1
         /\ members \subseteq Users /\ slip \in [Users -> Seq(Nat)]
         /\ now \in Int /\ delivered \subseteq Int
         /\ JobInv(w) /\ SerialJob(w)
  <1>1. TypeOK /\ OneSubmission /\ JobInv(w) /\ SerialJob(w)
    BY DEF SerialInv, IInv
  <1>2. rows \in Seq(Row) /\ Len(rows) \in {0, 1} /\ (rows # <<>> => Len(rows) = 1)
    <2>1. rows \in Seq(Row) /\ Len(rows) <= 1
      BY <1>1 DEF TypeOK, OneSubmission
    <2>2. /\ Len(rows) \in Nat /\ DOMAIN rows = 1 .. Len(rows)
          /\ rows # <<>> => Len(rows) \in DOMAIN rows
      BY <2>1, SeqElements
    <2>3. QED
      BY <2>1, <2>2
  <1>3. \A i \in DOMAIN rows : rows[i] \in Row /\ rows[i].grades \in Grades
    <2>1. \A i \in DOMAIN rows : rows[i] \in Row
      BY <1>2, SeqElements
    <2>2. QED
      BY <2>1 DEF Row
  <1>4. job[w] \in Job /\ job[w].sub \in Row /\ job[w].sub.grades \in Grades
    BY <1>1 DEF TypeOK, Job, Row
  <1>5. QED
    BY <1>1, <1>2, <1>3, <1>4, TimesAssumption DEF TypeOK

(* A step keeps to one submission with the grades of the group's members, and   *)
(* an approval, unless a teacher overrules it.                                 *)
GradesKept(w) ==
    /\ OneSubmission'
    /\ GradesOfMembers'
    /\ \A i \in DOMAIN rows, u \in members \cap members' :
          rows[i].grades[u] = "APPROVED" /\ rows'[i].grades[u] # "APPROVED" =>
              pc[w] = "grade" /\ pc'[w] = "idle" /\ u \in overruled'

(* The row of a result is saved. *)
LEMMA CreateGrades ==
  ASSUME SerialInv, NEW w \in Workers, CreateSubmission(w)
  PROVE  GradesKept(w)
  <1> DEFINE sub == job[w].sub
             new == [sub EXCEPT !.grades = SetGradesIfApproved(NewGrades(members), sub.score)]
             over == [sub EXCEPT !.grades = SaveGrades(rows[1].grades, sub.grades)]
  <1>1. /\ sub \in Row /\ sub.grades \in Grades /\ sub.score \in Nat
        /\ rows \in Seq(Row) /\ Len(rows) \in {0, 1} /\ DOMAIN rows = 1 .. Len(rows)
        /\ members \subseteq Users /\ UNCHANGED members /\ GradesOfMembers
    BY SerialFacts DEF Row, CreateSubmission, SerialInv
  <1>2. /\ job[w].row = Len(rows)
        /\ \A i \in DOMAIN rows, u \in Users :
              \/ sub.grades[u] = rows[i].grades[u]
              \/ sub.grades[u] = "APPROVED" /\ rows[i].grades[u] # Absent
    BY SerialFacts DEF CreateSubmission, SerialJob
  <1>3. \/ Len(rows) = 0 /\ rows' = Append(rows, new)
        \/ Len(rows) = 1 /\ rows' = [rows EXCEPT ![1] = over]
    BY <1>1, <1>2 DEF CreateSubmission
  <1>4. CASE Len(rows) = 0 /\ rows' = Append(rows, new)
    <2>1. NewGrades(members) \in Grades
      BY <1>1 DEF NewGrades, Grades, Status
    <2>2. \A u \in Users : new.grades[u] # Absent <=> u \in members
      BY <1>1, <2>1, GradesOf DEF Row, Absent
    <2> HIDE DEF new
    <2>3. Len(rows') = 1 /\ DOMAIN rows' = {1} /\ rows'[1] = new /\ DOMAIN rows = {}
      BY <1>1, <1>4
    <2>4. QED
      BY <1>1, <2>2, <2>3 DEF GradesKept, OneSubmission, GradesOfMembers
  <1>5. CASE Len(rows) = 1 /\ rows' = [rows EXCEPT ![1] = over]
    <2>1. rows[1] \in Row /\ rows[1].grades \in Grades /\ 1 \in DOMAIN rows
      BY <1>1, <1>5, SerialFacts
    <2>2. over.grades = SaveGrades(rows[1].grades, sub.grades)
      BY <1>1 DEF Row
    <2>3. \A u \in Users :
             /\ over.grades[u] # Absent <=> rows[1].grades[u] # Absent
             /\ rows[1].grades[u] = "APPROVED" => over.grades[u] = "APPROVED"
      BY <1>1, <1>2, <2>1, <2>2, GradesOf DEF Absent
    <2> HIDE DEF over
    <2>4. Len(rows') = 1 /\ DOMAIN rows' = {1} /\ rows'[1] = over /\ DOMAIN rows = {1}
      BY <1>1, <1>5
    <2>5. QED
      BY <1>1, <2>3, <2>4 DEF GradesKept, OneSubmission, GradesOfMembers
  <1>6. QED
    BY <1>3, <1>4, <1>5

(* A grade or a review is saved. *)
LEMMA SavedGrades ==
  ASSUME SerialInv, NEW w \in Workers, pc[w] = "grade", NEW sub \in Row, SaveSubmission(w, sub),
         UNCHANGED members,
         \A u \in Users : \/ sub.grades[u] = job[w].sub.grades[u]
                          \/ /\ sub.grades[u] # Absent /\ job[w].sub.grades[u] # Absent
                             /\ sub.grades[u] = "APPROVED" \/ u \in overruled'
  PROVE  GradesKept(w)
  <1> DEFINE i == job[w].row
  <1>1. /\ sub.grades \in Grades /\ i \in DOMAIN rows /\ rows[i].grades \in Grades
        /\ job[w].sub.grades = rows[i].grades
        /\ rows \in Seq(Row) /\ Len(rows) = 1 /\ DOMAIN rows = {1} /\ i = 1
        /\ members \subseteq Users /\ GradesOfMembers /\ pc \in [Workers -> PC]
    <2>1. /\ JobInv(w) /\ SerialJob(w) /\ rows \in Seq(Row) /\ Len(rows) \in {0, 1}
          /\ DOMAIN rows = 1 .. Len(rows) /\ members \subseteq Users
          /\ GradesOfMembers /\ pc \in [Workers -> PC]
          /\ \A k \in DOMAIN rows : rows[k].grades \in Grades
      BY SerialFacts DEF SerialInv
    <2>2. sub.grades \in Grades
      BY DEF Row
    <2>3. i \in DOMAIN rows /\ job[w].sub.grades = rows[i].grades
      BY <2>1 DEF JobInv, SerialJob
    <2>4. QED
      BY <2>1, <2>2, <2>3
  <1>2. PICK date : rows' = [rows EXCEPT ![1] =
              [sub EXCEPT !.date = date, !.grades = SaveGrades(rows[1].grades, sub.grades)]]
    BY <1>1 DEF SaveSubmission
  <1> DEFINE over == [sub EXCEPT !.date = date, !.grades = SaveGrades(rows[1].grades, sub.grades)]
  <1>3. over.grades = SaveGrades(rows[1].grades, sub.grades)
    BY DEF Row
  <1>4. \A u \in Users :
           /\ over.grades[u] # Absent <=> rows[1].grades[u] # Absent
           /\ rows[1].grades[u] = "APPROVED" /\ over.grades[u] # "APPROVED" => u \in overruled'
    <2>1. SUFFICES ASSUME NEW u \in Users
                   PROVE  /\ over.grades[u] # Absent <=> rows[1].grades[u] # Absent
                          /\ rows[1].grades[u] = "APPROVED" /\ over.grades[u] # "APPROVED" =>
                                 u \in overruled'
      OBVIOUS
    <2>2. over.grades[u] = IF sub.grades[u] = Absent THEN rows[1].grades[u] ELSE sub.grades[u]
      BY <1>1, <1>3, GradesOf, 0 \in Nat
    <2>3. \/ sub.grades[u] = rows[1].grades[u]
          \/ /\ sub.grades[u] # Absent /\ rows[1].grades[u] # Absent
             /\ sub.grades[u] = "APPROVED" \/ u \in overruled'
      BY <1>1
    <2>4. QED
      BY <2>2, <2>3
  <1>5. rows' = [rows EXCEPT ![1] = over]
    BY <1>2
  <1> HIDE DEF over
  <1>6. Len(rows') = 1 /\ DOMAIN rows' = {1} /\ rows'[1] = over
    BY <1>1, <1>5
  <1>7. pc'[w] = "idle"
    BY <1>1 DEF SaveSubmission, Goto
  <1>8. QED
    BY <1>1, <1>4, <1>6, <1>7 DEF GradesKept, OneSubmission, GradesOfMembers

(* The group changes while no handler is at work. *)
LEMMA GroupGrades ==
  ASSUME SerialInv, NEW w \in Workers, UpdateGroup
  PROVE  GradesKept(w)
  <1>1. PICK ids \in SUBSET Users :
          members' = ids /\ rows' = [i \in DOMAIN rows |-> syncGroupGrades(rows[i], ids)]
    BY DEF UpdateGroup
  <1>2. /\ rows \in Seq(Row) /\ Len(rows) \in {0, 1} /\ DOMAIN rows = 1 .. Len(rows)
        /\ \A i \in DOMAIN rows : rows[i] \in Row /\ rows[i].grades \in Grades
    BY SerialFacts
  <1>3. \A i \in DOMAIN rows, u \in Users :
           /\ syncGroupGrades(rows[i], ids).grades[u] # Absent <=> u \in ids
           /\ u \in ids /\ rows[i].grades[u] = "APPROVED" =>
                  syncGroupGrades(rows[i], ids).grades[u] = "APPROVED"
    <2> SUFFICES ASSUME NEW i \in DOMAIN rows, NEW u \in Users
                 PROVE  /\ syncGroupGrades(rows[i], ids).grades[u] # Absent <=> u \in ids
                        /\ u \in ids /\ rows[i].grades[u] = "APPROVED" =>
                               syncGroupGrades(rows[i], ids).grades[u] = "APPROVED"
      OBVIOUS
    <2> DEFINE g == [v \in Users |-> IF v \notin ids THEN Absent
                       ELSE IF rows[i].grades[v] = Absent THEN "NONE" ELSE rows[i].grades[v]]
    <2>1. g \in Grades /\ rows[i].score \in Nat
      BY <1>2 DEF Grades, Status, Row
    <2>2. /\ g[u] # Absent <=> u \in ids
          /\ u \in ids /\ rows[i].grades[u] = "APPROVED" => g[u] = "APPROVED"
      BY DEF Absent
    <2>3. syncGroupGrades(rows[i], ids).grades = SetGradesIfApproved(g, rows[i].score)
      BY <1>2 DEF syncGroupGrades, Row
    <2> HIDE DEF g
    <2>4. QED
      BY <2>1, <2>2, <2>3, GradesOf DEF Absent
  <1>4. DOMAIN rows' = DOMAIN rows /\ \A i \in DOMAIN rows : rows'[i] = syncGroupGrades(rows[i], ids)
    BY <1>1
  <1>5. Len(rows') = Len(rows)
    BY <1>1, <1>2
  <1>6. QED
    BY <1>1, <1>2, <1>3, <1>4, <1>5 DEF GradesKept, OneSubmission, GradesOfMembers

(* What a step of the only handler does to the grades. *)
LEMMA GradesStep ==
  ASSUME SerialInv, [Next]_vars, NEW w, Workers = {w}
  PROVE  GradesKept(w)
  <1>1. OneSubmission /\ GradesOfMembers /\ w \in Workers
    BY DEF SerialInv
  <1>2. CASE UNCHANGED <<rows, members>>
    <2>1. OneSubmission' /\ GradesOfMembers'
      BY <1>1, <1>2 DEF OneSubmission, GradesOfMembers
    <2>2. QED
      BY <1>2, <2>1 DEF GradesKept
  <1>3. CASE UpdateGroup
    BY <1>1, <1>3, GroupGrades
  <1>4. CASE CreateSubmission(w)
    BY <1>1, <1>4, CreateGrades
  <1>5. CASE UpdateSubmission(w)
    <2>1. PICK ids \in {{u} : u \in Users} \cup {Users}, status \in TeacherStatus :
            /\ SaveSubmission(w, [job[w].sub EXCEPT !.grades = SetGrade(@, ids, status)])
            /\ overruled' = IF status = "APPROVED" THEN overruled ELSE overruled \cup ids
      BY <1>5 DEF UpdateSubmission
    <2>2. job[w].sub \in Row /\ job[w].sub.grades \in Grades /\ status \in Status
      BY <1>1, SerialFacts, TeacherAssumption
    <2> DEFINE sub == [job[w].sub EXCEPT !.grades = SetGrade(@, ids, status)]
    <2>3. sub \in Row /\ sub.grades = SetGrade(job[w].sub.grades, ids, status)
      <3>1. SetGrade(job[w].sub.grades, ids, status) \in Grades
        BY <2>2, GradesType, 0 \in Nat
      <3>2. QED
        BY <2>2, <3>1 DEF Row
    <2>4. SaveSubmission(w, sub)
      BY <2>1
    <2> HIDE DEF sub
    <2>5. \A u \in Users : \/ sub.grades[u] = job[w].sub.grades[u]
                           \/ /\ sub.grades[u] # Absent /\ job[w].sub.grades[u] # Absent
                              /\ sub.grades[u] = "APPROVED" \/ u \in overruled'
      BY <2>1, <2>2, <2>3, GradesOf, 0 \in Nat DEF Absent, Status
    <2>6. UNCHANGED members /\ pc[w] = "grade"
      BY <1>5, <2>4 DEF UpdateSubmission, SaveSubmission
    <2>7. QED
      BY <1>1, <2>3, <2>4, <2>5, <2>6, SavedGrades
  <1>6. CASE UpdateReview(w)
    <2>1. PICK s \in Scores : SaveSubmission(w, [job[w].sub EXCEPT !.score = s])
      BY <1>6 DEF UpdateReview
    <2>2. /\ [job[w].sub EXCEPT !.score = s] \in Row
          /\ [job[w].sub EXCEPT !.score = s].grades = job[w].sub.grades
      BY <1>1, SerialFacts, ScoresAssumption DEF Row
    <2>3. UNCHANGED members /\ pc[w] = "grade"
      BY <1>6, <2>1 DEF UpdateReview, SaveSubmission
    <2>4. QED
      BY <1>1, <2>1, <2>2, <2>3, SavedGrades
  <1>7. CASE StartPush(w) \/ StartRebuild(w) \/ Clone(w) \/ RunTests(w) \/ RunFails(w)
             \/ previousSubmission(w) \/ ReadSlipDays(w) \/ SaveSlipDays(w)
             \/ RecordResultsReturn(w) \/ GetSubmission(w)
    BY <1>2, <1>7 DEF StartPush, StartRebuild, Clone, RunTests, RunFails, previousSubmission,
       ReadSlipDays, SaveSlipDays, RecordResultsReturn, GetSubmission
  <1>8. CASE Tick \/ Push \/ UNCHANGED vars
    BY <1>2, <1>8 DEF Tick, Push, vars
  <1>9. QED
    BY <1>3, <1>4, <1>5, <1>6, <1>7, <1>8 DEF Next, Handler

(* A record that there is is set, or else the first is added. *)
LEMMA OneRecord ==
  ASSUME NEW used \in Seq(Nat), Len(used) <= 1, NEW sub \in Row, NEW u \in Users
  PROVE  /\ UpdateSlipDays(used, sub, u) \in Seq(Nat)
         /\ Len(UpdateSlipDays(used, sub, u)) <= 1
         /\ Len(used) <= Len(UpdateSlipDays(used, sub, u))
         /\ \A i \in DOMAIN UpdateSlipDays(used, sub, u) :
               \/ i \in DOMAIN used /\ UpdateSlipDays(used, sub, u)[i] = used[i]
               \/ UpdateSlipDays(used, sub, u)[i] = UsedDays(sub.date)
  <1> DEFINE save == UpdateSlipDays(used, sub, u)
  <1>1. save \in Seq(Nat) /\ Len(used) <= Len(save)
    BY UpdateSlipDaysType
  <1>2. \/ save = used
        \/ used = <<>> /\ save = <<UsedDays(sub.date)>>
        \/ used # <<>> /\ save = [used EXCEPT ![1] = UsedDays(sub.date)]
    BY DEF UpdateSlipDays
  <1> SUFFICES /\ Len(save) <= 1
               /\ \A i \in DOMAIN save : \/ i \in DOMAIN used /\ save[i] = used[i]
                                        \/ save[i] = UsedDays(sub.date)
    BY <1>1
  <1> HIDE DEF save
  <1>3. CASE save = used
    BY <1>1, <1>3
  <1>4. CASE used = <<>> /\ save = <<UsedDays(sub.date)>>
    BY <1>1, <1>4
  <1>5. CASE used # <<>> /\ save = [used EXCEPT ![1] = UsedDays(sub.date)]
    <2>1. DOMAIN save = DOMAIN used /\ Len(save) = Len(used)
      BY <1>1, <1>5
    <2>2. \A i \in DOMAIN save : save[i] = IF i = 1 THEN UsedDays(sub.date) ELSE used[i]
      BY <1>5, <2>1
    <2>3. QED
      BY <1>1, <2>1, <2>2
  <1>6. QED
    BY <1>2, <1>3, <1>4, <1>5

(* What is saved of the records that were read, when they have not changed. *)
LEMMA SavedAsComputed ==
  ASSUME NEW read \in Seq(Nat), NEW save \in Seq(Nat),
         Len(read) <= 1, Len(read) <= Len(save), Len(save) <= 1
  PROVE  [i \in DOMAIN read |-> IF i \in DOMAIN read THEN save[i] ELSE read[i]]
             \o SubSeq(save, Len(read) + 1, Len(save)) = save
  <1>1. CASE Len(read) = 0
    BY <1>1
  <1>2. CASE Len(read) = 1
    BY <1>2
  <1>3. QED
    BY <1>1, <1>2

(* No step of the only handler charges twice or for days to come. *)
LEMMA ChargedStep ==
  ASSUME SerialInv, [Next]_vars, NEW w, Workers = {w}, TypeOK'
  PROVE  ChargedOnce' /\ (\A t \in delivered : t <= now)'
  <1>1. /\ ChargedOnce /\ w \in Workers /\ SerialJob(w) /\ job[w] \in Job
        /\ slip \in [Users -> Seq(Nat)] /\ now \in Int /\ delivered \subseteq Int
        /\ \A t \in delivered : t <= now
    BY SerialFacts DEF SerialInv
  <1>2. CASE Tick
    <2>1. now' \in Int /\ now < now' /\ UNCHANGED <<slip, delivered>>
      BY <1>2, TimesAssumption DEF Tick
    <2>2. ASSUME NEW u \in Users, NEW i \in DOMAIN slip[u] PROVE slip[u][i] <= UsedDays(now')
      <3>1. slip[u][i] \in Nat /\ slip[u][i] <= UsedDays(now)
        <4>1. slip[u] \in Seq(Nat)
          BY <1>1
        <4>2. slip[u][i] \in Nat
          BY <4>1
        <4>3. QED
          BY <1>1, <4>2 DEF ChargedOnce
      <3>2. now \in Int /\ now' \in Int /\ now <= now' /\ now' <= now'
        BY <1>1, <2>1
      <3>3. UsedDays(now) <= UsedDays(now') /\ UsedDays(now) \in Int /\ UsedDays(now') \in Int
        BY <3>2, UsedDaysMonotone
      <3>4. QED
        BY <3>1, <3>3
    <2>3. ChargedOnce'
      BY <1>1, <2>1, <2>2 DEF ChargedOnce, UsedDays
    <2>4. \A t \in delivered : t <= now'
      BY <1>1, <2>1
    <2>5. QED
      BY <2>1, <2>3, <2>4
  <1>3. CASE SaveSlipDays(w)
    <2>1. PICK u \in job[w].todo : slip' = [slip EXCEPT ![u] =
             [i \in DOMAIN @ |-> IF i \in DOMAIN job[w].used[u]
                                 THEN UpdateSlipDays(job[w].used[u], job[w].sub, u)[i] ELSE @[i]]
             \o SubSeq(UpdateSlipDays(job[w].used[u], job[w].sub, u), Len(job[w].used[u]) + 1,
                       Len(UpdateSlipDays(job[w].used[u], job[w].sub, u)))]
      BY <1>3 DEF SaveSlipDays
    <2> DEFINE read == slip[u]
               save == UpdateSlipDays(read, job[w].sub, u)
    <2>2. /\ u \in Users /\ job[w].sub \in Row /\ job[w].used[u] = slip[u]
          /\ job[w].sub.date \in delivered /\ read \in Seq(Nat)
      BY <1>1, <1>3 DEF Job, SaveSlipDays, SerialJob
    <2>3. Len(read) <= 1 /\ \A i \in DOMAIN read : read[i] <= UsedDays(now)
      BY <1>1, <2>2 DEF ChargedOnce
    <2>4. /\ save \in Seq(Nat) /\ Len(save) <= 1 /\ Len(read) <= Len(save)
          /\ \A i \in DOMAIN save : \/ i \in DOMAIN read /\ save[i] = read[i]
                                    \/ save[i] = UsedDays(job[w].sub.date)
      BY <2>2, <2>3, OneRecord
    <2>5. slip' = [slip EXCEPT ![u] =
             [i \in DOMAIN read |-> IF i \in DOMAIN read THEN save[i] ELSE read[i]]
             \o SubSeq(save, Len(read) + 1, Len(save))]
      BY <1>1, <2>1, <2>2
    <2> HIDE DEF save
    <2>6. slip' = [slip EXCEPT ![u] = save]
      BY <2>2, <2>3, <2>4, <2>5, SavedAsComputed
    <2>7. \A i \in DOMAIN save : save[i] <= UsedDays(now)
      BY <1>1, <2>2, <2>3, <2>4, UsedDaysMonotone
    <2>8. UNCHANGED <<now, delivered>>
      BY <1>3 DEF SaveSlipDays
    <2>9. \A v \in Users : slip'[v] = IF v = u THEN save ELSE slip[v]
      BY <1>1, <2>6
    <2>10. ChargedOnce'
      BY <1>1, <2>4, <2>7, <2>8, <2>9 DEF ChargedOnce, UsedDays
    <2>11. QED
      BY <1>1, <2>8, <2>10
  <1>4. CASE /\ UNCHANGED <<slip, now>>
             /\ delivered' \subseteq delivered \cup {now}
    BY <1>1, <1>4 DEF ChargedOnce, UsedDays
  <1>5. CASE RunTests(w) \/ previousSubmission(w)
    BY <1>4, <1>5 DEF RunTests, previousSubmission
  <1>6. CASE StartPush(w) \/ StartRebuild(w) \/ Clone(w) \/ RunFails(w) \/ CreateSubmission(w)
             \/ ReadSlipDays(w) \/ RecordResultsReturn(w) \/ GetSubmission(w)
    BY <1>4, <1>6 DEF StartPush, StartRebuild, Clone, RunFails, CreateSubmission, ReadSlipDays,
       RecordResultsReturn, GetSubmission
  <1>7. CASE UpdateSubmission(w) \/ UpdateReview(w) \/ Push \/ UpdateGroup \/ UNCHANGED vars
    BY <1>4, <1>7 DEF UpdateSubmission, UpdateReview, SaveSubmission, Push, UpdateGroup, vars
  <1>8. QED
    BY <1>2, <1>3, <1>5, <1>6, <1>7 DEF Next, Handler

(* What the only handler holds it still holds, or has read. *)
LEMMA SerialJobStep ==
  ASSUME SerialInv, [Next]_vars, NEW w, Workers = {w}, IInv'
  PROVE  SerialJob(w)'
  <1>1. /\ w \in Workers /\ JobInv(w) /\ SerialJob(w) /\ job[w] \in Job
        /\ job \in [Workers -> Job] /\ pc \in [Workers -> PC]
        /\ job[w].sub \in Row /\ job[w].sub.grades \in Grades
        /\ rows \in Seq(Row) /\ DOMAIN rows = 1 .. Len(rows) /\ (rows # <<>> => Len(rows) = 1)
        /\ Len(rows) \in {0, 1}
        /\ \A i \in DOMAIN rows : rows[i] \in Row /\ rows[i].grades \in Grades
    BY SerialFacts
  <1>2. CASE pc'[w] \in {"idle", "clone", "test", "previous"}
    BY <1>2 DEF SerialJob
  <1>3. CASE Tick \/ Push \/ UNCHANGED vars
    <2>1. UNCHANGED <<pc, job, rows, slip, delivered>>
      BY <1>3 DEF Tick, Push, vars
    <2>2. QED
      BY <1>1, <2>1 DEF SerialJob
  <1>4. CASE UpdateGroup
    <2>1. pc'[w] = "idle"
      BY <1>4 DEF UpdateGroup
    <2>2. QED
      BY <1>2, <2>1
  <1>5. CASE StartPush(w)
    <2>1. pc'[w] \in {"clone", "previous"}
      BY <1>1, <1>5 DEF StartPush, Goto
    <2>2. QED
      BY <1>2, <2>1
  <1>6. CASE StartRebuild(w) \/ Clone(w) \/ RunTests(w) \/ RunFails(w) \/ RecordResultsReturn(w)
    <2>1. pc'[w] \in {"idle", "clone", "test", "previous"}
      BY <1>1, <1>6 DEF StartRebuild, Clone, RunTests, RunFails, RecordResultsReturn, Goto
    <2>2. QED
      BY <1>2, <2>1
  <1>7. CASE UpdateSubmission(w) \/ UpdateReview(w)
    <2>1. pc'[w] = "idle"
      BY <1>1, <1>7 DEF UpdateSubmission, UpdateReview, SaveSubmission, Goto
    <2>2. QED
      BY <1>2, <2>1
  <1>8. CASE previousSubmission(w)
    <2> DEFINE previous == IF rows = <<>> THEN [NoSub EXCEPT !.date = job[w].sub.date]
                           ELSE rows[Len(rows)]
               kind == job[w].kind
               sub == job[w].sub
               new == IF kind = "manual" THEN newManualReviewSubmission(sub, previous)
                      ELSE newTestRunSubmission(kind, sub, previous)
               read == [job[w] EXCEPT !.row = Len(rows), !.sub = new]
    <2>1. job' = [job EXCEPT ![w] = read] /\ Goto(w, "create") /\ UNCHANGED rows
      BY <1>8 DEF previousSubmission
    <2> HIDE DEF read
    <2>2. pc'[w] = "create" /\ job'[w] = read
      BY <1>1, <2>1 DEF Goto
    <2> HIDE DEF new
    <2>3. read.row = Len(rows) /\ read.sub = new /\ read.kind = kind
      BY <1>1 DEF read, Job
    <2>4. \A i \in DOMAIN rows : previous = rows[i]
      BY <1>1
    <2> HIDE DEF previous
    <2>5. ASSUME NEW i \in DOMAIN rows, NEW u \in Users
          PROVE  \/ new.grades[u] = rows[i].grades[u]
                 \/ new.grades[u] = "APPROVED" /\ rows[i].grades[u] # Absent
      <3>1. \/ new.grades = previous.grades
            \/ new.grades = SetGradesIfApproved(previous.grades, sub.score)
        BY <1>1 DEF new, newManualReviewSubmission, newTestRunSubmission, Row
      <3>2. previous.grades = rows[i].grades /\ rows[i].grades \in Grades /\ sub.score \in Nat
        BY <1>1, <2>4 DEF Row
      <3>3. QED
        BY <3>1, <3>2, GradesOf
    <2>6. ASSUME kind = "manual", NEW i \in DOMAIN rows PROVE new.score = rows[i].score
      BY <1>1, <2>4, <2>6 DEF new, newManualReviewSubmission, Row
    <2>7. QED
      BY <2>1, <2>2, <2>3, <2>5, <2>6 DEF SerialJob
  <1>9. CASE CreateSubmission(w)
    <2> DEFINE new == [job[w].sub EXCEPT
                         !.grades = SetGradesIfApproved(NewGrades(members), job[w].sub.score)]
    <2>1. pc'[w] \in {"idle", "readSlipDays"} /\ UNCHANGED delivered
      BY <1>1, <1>9 DEF CreateSubmission, Goto
    <2>2. job[w].sub.date \in delivered
      BY <1>1, <1>9 DEF CreateSubmission, JobInv
    <2>3. job' = [job EXCEPT ![w] = [job[w] EXCEPT !.sub = new]] \/ job' = job
      BY <1>9 DEF CreateSubmission
    <2>4. new.date = job[w].sub.date
      BY <1>1 DEF Row
    <2> HIDE DEF new
    <2>5. job'[w].sub.date = job[w].sub.date
      BY <1>1, <2>3, <2>4 DEF Job
    <2>6. QED
      BY <2>1, <2>2, <2>5 DEF SerialJob
  <1>10. CASE ReadSlipDays(w)
    <2>1. pc'[w] = "saveSlipDays" /\ pc[w] = "readSlipDays" /\ UNCHANGED <<slip, delivered>>
      BY <1>1, <1>10 DEF ReadSlipDays, Goto
    <2>2. job' = [job EXCEPT ![w] = [job[w] EXCEPT !.used = slip, !.todo = members]]
      BY <1>10 DEF ReadSlipDays
    <2>3. job'[w].sub = job[w].sub /\ job'[w].used = slip
      BY <1>1, <2>2 DEF Job
    <2>4. QED
      BY <1>1, <2>1, <2>3 DEF SerialJob
  <1>11. CASE SaveSlipDays(w)
    <2>1. PICK u \in job[w].todo : /\ job' = [job EXCEPT ![w].todo = @ \ {u}]
                                   /\ \E s : slip' = [slip EXCEPT ![u] = s]
      BY <1>11 DEF SaveSlipDays
    <2>2. pc[w] = "saveSlipDays" /\ UNCHANGED <<pc, delivered>>
      BY <1>11 DEF SaveSlipDays
    <2>3. job'[w].sub = job[w].sub /\ job'[w].used = job[w].used /\ job'[w].todo = job[w].todo \ {u}
      BY <1>1, <2>1 DEF Job
    <2>4. \A v \in Users : v # u => slip'[v] = slip[v]
      BY <2>1, SerialFacts, <1>1
    <2>5. job[w].todo \subseteq Users
      BY <1>1 DEF Job
    <2>6. QED
      BY <1>1, <2>2, <2>3, <2>4, <2>5 DEF SerialJob
  <1>12. CASE GetSubmission(w)
    <2>1. pc'[w] = "grade" /\ UNCHANGED rows
      BY <1>1, <1>12 DEF GetSubmission, Goto
    <2>2. PICK i \in 1 .. Len(rows) :
            job' = [job EXCEPT ![w] = [NoJob EXCEPT !.kind = "grade", !.row = i, !.sub = rows[i]]]
      BY <1>12 DEF GetSubmission
    <2>3. job'[w] = [NoJob EXCEPT !.kind = "grade", !.row = i, !.sub = rows[i]]
      BY <1>1, <2>2
    <2>4. job'[w].row = i /\ job'[w].sub = rows[i]
      BY <2>3 DEF NoJob
    <2>5. QED
      BY <2>1, <2>4 DEF SerialJob
  <1>13. QED
    BY <1>1, <1>3, <1>4, <1>5, <1>6, <1>7, <1>8, <1>9, <1>10, <1>11, <1>12 DEF Next, Handler

(* Every step of the only handler keeps its invariant. *)
LEMMA SerialStep ==
  ASSUME NEW w, Workers = {w}
  PROVE  SerialInv /\ [Next]_vars => SerialInv'
  <1> SUFFICES ASSUME SerialInv, [Next]_vars PROVE SerialInv'
    OBVIOUS
  <1>1. IInv'
    BY IInvStep DEF SerialInv
  <1>2. OneSubmission' /\ GradesOfMembers'
    BY GradesStep DEF GradesKept
  <1>3. ChargedOnce' /\ (\A t \in delivered : t <= now)'
    BY <1>1, ChargedStep DEF IInv
  <1>4. SerialJob(w)'
    BY <1>1, SerialJobStep
  <1>5. QED
    BY <1>1, <1>2, <1>3, <1>4 DEF SerialInv

(* A manual push writes the score and the approvals that it read. *)
LEMMA ManualStep ==
  ASSUME SerialInv, NEW w \in Workers, job[w].kind = "manual", CreateSubmission(w),
         NEW i \in DOMAIN rows
  PROVE  rows'[i].score = rows[i].score
  <1>1. /\ job[w].sub \in Row /\ job[w].row = Len(rows) /\ job[w].sub.score = rows[i].score
        /\ rows \in Seq(Row) /\ DOMAIN rows = 1 .. Len(rows) /\ Len(rows) \in {0, 1}
    BY SerialFacts DEF SerialJob, CreateSubmission
  <1> DEFINE over == [job[w].sub EXCEPT !.grades = SaveGrades(rows[1].grades, job[w].sub.grades)]
  <1>2. i = 1 /\ Len(rows) = 1
    BY <1>1
  <1>3. rows' = [rows EXCEPT ![1] = over]
    BY <1>1, <1>2 DEF CreateSubmission
  <1>4. over.score = rows[i].score
    BY <1>1 DEF Row
  <1> HIDE DEF over
  <1>5. QED
    BY <1>1, <1>2, <1>3, <1>4

(* With handlers that do not overlap, for any group and any times and scores: a  *)
(* submission has a grade for each member of the group and for nobody else, when *)
(* pushes, rebuilds, grading and changes of the group follow each other          *)
(* (syncGroupGrades), and every run updates the one submission there is.         *)
THEOREM SubmissionsGrades ==
  ASSUME NEW w, Workers = {w}
  PROVE  Spec => [](GradesOfMembers /\ OneSubmission)
  <1>0. SerialInv /\ [Next]_vars => SerialInv'
    BY SerialStep
  <1>1. SerialInv => GradesOfMembers /\ OneSubmission
    BY DEF SerialInv
  <1>2. QED
    BY <1>1, <1>0, InitSerial, PTL DEF Spec

(* The same: a member is charged once for the assignment, and never for more     *)
(* slip days than have passed (UpdateSlipDays).                                *)
THEOREM SubmissionsCharged ==
  ASSUME NEW w, Workers = {w}
  PROVE  Spec => []ChargedOnce
  <1>0. SerialInv /\ [Next]_vars => SerialInv'
    BY SerialStep
  <1>1. SerialInv => ChargedOnce
    BY DEF SerialInv
  <1>2. QED
    BY <1>1, <1>0, InitSerial, PTL DEF Spec

(* The same: an approval is only lost when a teacher sets another status or a    *)
(* reviewer another score, not to a run of the tests, a rebuild or a change of   *)
(* the group (SetGradesIfApproved).                                            *)
THEOREM SubmissionsApprovals ==
  ASSUME NEW h, Workers = {h}
  PROVE  Spec => ApprovalSurvives
  <1>0. SerialInv /\ [Next]_vars => SerialInv'
    BY SerialStep
  <1>1. SerialInv /\ [Next]_vars =>
          [\A i \in DOMAIN rows, u \in members \cap members' :
              rows[i].grades[u] = "APPROVED" /\ rows'[i].grades[u] # "APPROVED" =>
                  \E w \in Workers : pc[w] = "grade" /\ pc'[w] = "idle" /\ u \in overruled']_vars
    BY GradesStep DEF GradesKept
  <1>2. QED
    BY <1>1, <1>0, InitSerial, PTL DEF Spec, ApprovalSurvives

(* The same: a push to an assignment that is graded manually leaves the score    *)
(* and the approvals that the teachers gave (newManualReviewSubmission).        *)
THEOREM SubmissionsManual ==
  ASSUME NEW h, Workers = {h}
  PROVE  Spec => ManualPushKeepsResult
  <1>0. SerialInv /\ [Next]_vars => SerialInv'
    BY SerialStep
  <1>1. ASSUME SerialInv, [Next]_vars, NEW v \in Workers, job[v].kind = "manual",
               pc[v] = "create", pc'[v] # "create", NEW i \in DOMAIN rows
        PROVE  /\ rows'[i].score = rows[i].score
               /\ \A u \in members : rows[i].grades[u] = "APPROVED" => rows'[i].grades[u] = "APPROVED"
    <2>1. CreateSubmission(h) /\ v = h
      <3>1. v = h
        OBVIOUS
      <3>2. ~ (UNCHANGED vars \/ Tick \/ Push \/ UpdateGroup)
        BY <1>1 DEF vars, Tick, Push, UpdateGroup
      <3>3. ~ (StartPush(h) \/ StartRebuild(h) \/ Clone(h) \/ RunTests(h) \/ RunFails(h)
                 \/ previousSubmission(h) \/ ReadSlipDays(h) \/ SaveSlipDays(h)
                 \/ RecordResultsReturn(h) \/ GetSubmission(h) \/ UpdateSubmission(h)
                 \/ UpdateReview(h))
        BY <1>1, <3>1 DEF StartPush, StartRebuild, Clone, RunTests, RunFails, previousSubmission,
           ReadSlipDays, SaveSlipDays, RecordResultsReturn, GetSubmission, UpdateSubmission,
           UpdateReview
      <3>4. QED
        BY <3>1, <3>2, <3>3, <1>1 DEF Next, Handler
    <2>2. UNCHANGED members /\ members \subseteq Users
      BY <1>1, <2>1, SerialFacts DEF CreateSubmission
    <2>3. QED
      BY <1>1, <2>1, <2>2, ManualStep, GradesStep DEF GradesKept
  <1>2. SerialInv /\ [Next]_vars =>
          [\A w \in Workers : job[w].kind = "manual" /\ pc[w] = "create" /\ pc'[w] # "create" =>
              \A i \in DOMAIN rows :
                /\ rows'[i].score = rows[i].score
                /\ \A u \in members :
                    rows[i].grades[u] = "APPROVED" => rows'[i].grades[u] = "APPROVED"]_vars
    BY <1>1
  <1>3. QED
    BY <1>2, <1>0, InitSerial, PTL DEF Spec, ManualPushKeepsResult

-----------------------------------------------------------------------------
(* The gradebook.                                                            *)

(* What the only handler has read is still what there is: the grades it is to    *)
(* save are the entry's with the new result, a rebuild has the entry's date,     *)
(* and a push a later one; the result it charges for, or sets a grade of, is the *)
(* entry's.                                                                    *)
BookJob(w) ==
    LET kind == job[w].kind
        sub  == job[w].sub
    IN
    /\ pc[w] = "previous" =>
           /\ kind # "manual" => sub.score \in Scores
           /\ kind = "push" => \A i \in DOMAIN rows : rows[i].date <= sub.date
    /\ pc[w] = "create" =>
           /\ kind # "manual" => /\ sub.score \in Scores
                                 /\ \A i \in DOMAIN rows :
                                       sub.grades = SetGradesIfApproved(rows[i].grades, sub.score)
           /\ kind = "manual" => /\ rows = <<>> => sub.score = 0
                                 /\ \A i \in DOMAIN rows : /\ sub.score = rows[i].score
                                                           /\ sub.grades = rows[i].grades
           /\ kind # "rebuild" => \A i \in DOMAIN rows : rows[i].date <= sub.date
           /\ kind = "rebuild" => rows # <<>> /\ \A i \in DOMAIN rows : sub.date = rows[i].date
    /\ pc[w] \in {"readSlipDays", "saveSlipDays"} =>
           /\ rows # <<>>
           /\ \A i \in DOMAIN rows : /\ sub.score = rows[i].score /\ sub.date = rows[i].date
                                     /\ sub.grades = rows[i].grades
    /\ pc[w] = "saveSlipDays" => job[w].todo \subseteq members
    /\ pc[w] = "grade" => sub = rows[job[w].row]

BookInv == SerialInv /\ \A w \in Workers : BookJob(w)

(* Who has to be charged, and what a single row shows. *)
LEMMA DueOf ==
  ASSUME NEW w, Workers = {w}
  PROVE  Due = {u \in Users : \/ pc[w] = "readSlipDays" /\ u \in members
                              \/ pc[w] = "saveSlipDays" /\ u \in job[w].todo}
  BY DEF Due

LEMMA OneEntry ==
  ASSUME NEW rs \in Seq(Row), Len(rs) \in {0, 1}
  PROVE  [i \in DOMAIN rs |-> Shown(rs[i])] = IF rs = <<>> THEN <<>> ELSE <<Shown(rs[1])>>
  <1>1. CASE Len(rs) = 0
    BY <1>1
  <1>2. CASE Len(rs) = 1
    <2>1. DOMAIN rs = {1} /\ rs # <<>>
      BY <1>2
    <2>2. DOMAIN <<Shown(rs[1])>> = {1} /\ <<Shown(rs[1])>>[1] = Shown(rs[1])
      OBVIOUS
    <2>3. [i \in DOMAIN rs |-> Shown(rs[i])] = <<Shown(rs[1])>>
      BY <2>1, <2>2
    <2>4. QED
      BY <2>1, <2>3
  <1>3. QED
    BY <1>1, <1>2

LEMMA ShownOf ==
  ASSUME NEW row \in Row, NEW ms \in SUBSET Users,
         \A u \in Users : row.grades[u] # Absent <=> u \in ms
  PROVE  Shown(row) = [score |-> row.score, date |-> row.date,
                       grades |-> [u \in ms |-> row.grades[u]]]
  <1>1. {v \in Users : row.grades[v] # Absent} = ms
    OBVIOUS
  <1>2. QED
    BY <1>1 DEF Shown

(* What a passing score does to a grade. *)
LEMMA ApprovedGrade ==
  ASSUME NEW g \in Grades, NEW s \in Nat, NEW u \in Users
  PROVE  /\ g[u] # Absent => SetGradesIfApproved(g, s)[u] =
                                IF AutoApprove /\ s >= ScoreLimit THEN "APPROVED" ELSE g[u]
         /\ g[u] = Absent => SetGradesIfApproved(g, s)[u] = Absent
  BY DEF Grades, SetGradesIfApproved, SetGradeAll

(* The facts that the steps below rest on. *)
LEMMA BookFacts ==
  ASSUME BookInv, NEW w, Workers = {w}
  PROVE  /\ w \in Workers /\ SerialInv /\ BookJob(w) /\ SerialJob(w) /\ JobInv(w)
         /\ job \in [Workers -> Job] /\ pc \in [Workers -> PC]
         /\ job[w] \in Job /\ job[w].sub \in Row /\ job[w].sub.grades \in Grades
         /\ job[w].sub.score \in Nat /\ job[w].sub.date \in Times /\ job[w].todo \subseteq Users
         /\ rows \in Seq(Row) /\ Len(rows) \in {0, 1} /\ DOMAIN rows = 1 .. Len(rows)
         /\ rows # <<>> => /\ Len(rows) = 1 /\ DOMAIN rows = {1} /\ rows[1] \in Row
                           /\ rows[1].grades \in Grades /\ rows[1].score \in Nat
                           /\ rows[1].date \in Times /\ rows[1].date \in Int /\ rows[1].date <= now
                           /\ \A u \in Users : rows[1].grades[u] # Absent <=> u \in members
         /\ rows = <<>> => Len(rows) = 0
         /\ members \in SUBSET Users /\ slip \in [Users -> Seq(Nat)]
         /\ now \in Int /\ now \in Times /\ job[w].sub.date \in Int
         /\ \A t \in delivered : t <= now
  <1>1. w \in Workers /\ SerialInv /\ BookJob(w)
    BY DEF BookInv
  <1>2. /\ job \in [Workers -> Job] /\ pc \in [Workers -> PC]
        /\ job[w] \in Job /\ job[w].sub \in Row /\ job[w].sub.grades \in Grades
        /\ rows \in Seq(Row) /\ Len(rows) \in {0, 1} /\ DOMAIN rows = 1 .. Len(rows)
        /\ \A i \in DOMAIN rows : rows[i] \in Row /\ rows[i].grades \in Grades
        /\ rows # <<>> => Len(rows) = 1
        /\ members \subseteq Users /\ slip \in [Users -> Seq(Nat)]
        /\ now \in Int /\ delivered \subseteq Int /\ SerialJob(w) /\ JobInv(w)
    BY <1>1, SerialFacts
  <1>3. GradesOfMembers /\ DeliveryDateFromPush /\ (\A t \in delivered : t <= now) /\ now \in Times
    BY <1>1 DEF SerialInv, IInv, TypeOK
  <1>4. job[w].sub.score \in Nat /\ job[w].sub.date \in Times /\ job[w].todo \subseteq Users
    BY <1>2 DEF Job, Row
  <1>5. ASSUME rows # <<>>
        PROVE  /\ Len(rows) = 1 /\ DOMAIN rows = {1} /\ rows[1] \in Row
               /\ rows[1].grades \in Grades /\ rows[1].score \in Nat
               /\ rows[1].date \in Times /\ rows[1].date \in Int /\ rows[1].date <= now
               /\ \A u \in Users : rows[1].grades[u] # Absent <=> u \in members
    <2>1. Len(rows) = 1 /\ DOMAIN rows = {1} /\ rows[1] \in Row /\ rows[1].grades \in Grades
      BY <1>2, <1>5
    <2>2. rows[1].score \in Nat /\ rows[1].date \in Times
      BY <2>1 DEF Row
    <2>3. rows[1].date \in Int /\ rows[1].date <= now
      BY <2>1, <2>2, <1>3, TimesAssumption DEF DeliveryDateFromPush
    <2>4. \A u \in Users : rows[1].grades[u] # Absent <=> u \in members
      BY <2>1, <1>3 DEF GradesOfMembers
    <2>5. QED
      BY <2>1, <2>2, <2>3, <2>4
  <1>6. rows = <<>> => Len(rows) = 0
    OBVIOUS
  <1>7. QED
    BY <1>1, <1>2, <1>3, <1>4, <1>5, <1>6, TimesAssumption

(* Nothing has been recorded when the server starts. *)
LEMMA InitBook == Init => BookInv
  BY InitSerial DEF Init, BookInv, BookJob

(* What RecordResults is to save, by the row that it has read. *)
LEMMA Combined ==
  ASSUME BookInv, NEW w, Workers = {w}, previousSubmission(w)
  PROVE  /\ pc[w] = "previous" /\ pc'[w] = "create" /\ UNCHANGED rows
         /\ job'[w].kind = job[w].kind
         /\ job[w].kind # "manual" =>
               /\ job'[w].sub.score = job[w].sub.score
               /\ job[w].kind # "rebuild" => job'[w].sub.date = job[w].sub.date
               /\ rows # <<>> =>
                     /\ job'[w].sub.grades = SetGradesIfApproved(rows[1].grades, job[w].sub.score)
                     /\ job[w].kind = "rebuild" => job'[w].sub.date = rows[1].date
         /\ job[w].kind = "manual" =>
               /\ job'[w].sub.date = now
               /\ rows = <<>> => job'[w].sub.score = 0
               /\ rows # <<>> => /\ job'[w].sub.score = rows[1].score
                                 /\ job'[w].sub.grades = rows[1].grades
  <1> DEFINE previous == IF rows = <<>> THEN [NoSub EXCEPT !.date = job[w].sub.date]
                         ELSE rows[Len(rows)]
             kind == job[w].kind
             sub == job[w].sub
             new == IF kind = "manual" THEN newManualReviewSubmission(sub, previous)
                    ELSE newTestRunSubmission(kind, sub, previous)
             read == [job[w] EXCEPT !.row = Len(rows), !.sub = new]
  <1>1. /\ w \in Workers /\ job \in [Workers -> Job] /\ pc \in [Workers -> PC]
        /\ job[w] \in Job /\ sub \in Row
        /\ rows # <<>> => Len(rows) = 1
    BY BookFacts
  <1>2. /\ job' = [job EXCEPT ![w] = read] /\ Goto(w, "create") /\ UNCHANGED rows
        /\ pc[w] = "previous"
    BY DEF previousSubmission
  <1>3. rows # <<>> => previous = rows[1]
    BY <1>1
  <1>4. rows = <<>> => previous.score = 0
    BY DEF NoSub
  <1> HIDE DEF previous
  <1>5. kind = "manual" => new.date = now /\ new.score = previous.score /\ new.grades = previous.grades
    BY <1>1 DEF newManualReviewSubmission, Row
  <1>6. kind # "manual" =>
           /\ new.score = sub.score
           /\ new.date = IF kind = "rebuild" THEN previous.date ELSE sub.date
           /\ new.grades = SetGradesIfApproved(previous.grades, sub.score)
    BY <1>1 DEF newTestRunSubmission, Row
  <1> HIDE DEF new
  <1>7. read.kind = kind /\ read.sub = new
    BY <1>1 DEF Job
  <1> HIDE DEF read
  <1>8. job'[w] = read /\ pc'[w] = "create"
    BY <1>1, <1>2 DEF Goto
  <1>9. QED
    BY <1>2, <1>3, <1>4, <1>5, <1>6, <1>7, <1>8

(* After CreateSubmission the row is what the handler has. *)
LEMMA Created ==
  ASSUME BookInv, NEW w, Workers = {w}, CreateSubmission(w)
  PROVE  /\ pc[w] = "create" /\ UNCHANGED <<members, now, slip>>
         /\ pc'[w] = IF job[w].kind = "rebuild" THEN "idle" ELSE "readSlipDays"
         /\ Len(rows') = 1 /\ DOMAIN rows' = {1} /\ rows' # <<>>
         /\ rows'[1].score = job[w].sub.score /\ rows'[1].date = job[w].sub.date
         /\ rows'[1].grades = IF rows = <<>>
                              THEN SetGradesIfApproved(NewGrades(members), job[w].sub.score)
                              ELSE job[w].sub.grades
         /\ job'[w].sub.score = rows'[1].score /\ job'[w].sub.date = rows'[1].date
         /\ job'[w].sub.grades = rows'[1].grades
  <1> DEFINE sub == job[w].sub
             new == [sub EXCEPT !.grades = SetGradesIfApproved(NewGrades(members), sub.score)]
             over == [sub EXCEPT !.grades = SaveGrades(rows[1].grades, sub.grades)]
  <1>1. /\ w \in Workers /\ job \in [Workers -> Job] /\ pc \in [Workers -> PC]
        /\ job[w] \in Job /\ sub \in Row /\ sub.grades \in Grades
        /\ rows \in Seq(Row) /\ (rows = <<>> => Len(rows) = 0)
        /\ rows # <<>> => Len(rows) = 1 /\ DOMAIN rows = {1} /\ rows[1].grades \in Grades
        /\ SerialJob(w)
    BY BookFacts
  <1>2. /\ pc[w] = "create" /\ UNCHANGED <<members, now, slip>>
        /\ pc'[w] = IF job[w].kind = "rebuild" THEN "idle" ELSE "readSlipDays"
    BY <1>1 DEF CreateSubmission, Goto
  <1>3. job[w].row = Len(rows)
    BY <1>1, <1>2 DEF SerialJob
  <1>4. CASE rows = <<>>
    <2>1. rows' = Append(rows, new) /\ job' = [job EXCEPT ![w] = [job[w] EXCEPT !.sub = new]]
      BY <1>1, <1>3, <1>4 DEF CreateSubmission
    <2>2. /\ new.score = sub.score /\ new.date = sub.date
          /\ new.grades = SetGradesIfApproved(NewGrades(members), sub.score)
      BY <1>1 DEF Row
    <2> HIDE DEF new
    <2>3. job'[w].sub = new
      BY <1>1, <2>1 DEF Job
    <2>4. Len(rows') = 1 /\ DOMAIN rows' = {1} /\ rows'[1] = new /\ rows' # <<>>
      BY <1>4, <2>1
    <2>5. QED
      BY <1>2, <1>4, <2>2, <2>3, <2>4
  <1>5. CASE rows # <<>>
    <2>0. job[w].row = 1
      BY <1>1, <1>3, <1>5
    <2>1. rows' = [rows EXCEPT ![1] = over] /\ job' = job
      BY <2>0 DEF CreateSubmission
    <2>2. /\ over.score = sub.score /\ over.date = sub.date
          /\ over.grades = SaveGrades(rows[1].grades, sub.grades)
      BY <1>1 DEF Row
    <2>3. SaveGrades(rows[1].grades, sub.grades) = sub.grades
      <3>1. \A u \in Users : sub.grades[u] = Absent => rows[1].grades[u] = Absent
        BY <1>1, <1>2, <1>5 DEF SerialJob, Absent
      <3>2. QED
        BY <1>1, <3>1 DEF SaveGrades, Grades
    <2> HIDE DEF over
    <2>4. Len(rows') = 1 /\ DOMAIN rows' = {1} /\ rows'[1] = over /\ rows' # <<>>
      BY <1>1, <1>5, <2>1
    <2>5. QED
      BY <1>2, <1>5, <2>1, <2>2, <2>3, <2>4
  <1>6. QED
    BY <1>4, <1>5

(* After SaveSubmission the row is what was saved. *)
LEMMA Saved ==
  ASSUME BookInv, NEW w, Workers = {w}, pc[w] = "grade", NEW sub \in Row, SaveSubmission(w, sub),
         sub.date = job[w].sub.date,
         \A u \in Users : sub.grades[u] = Absent => job[w].sub.grades[u] = Absent
  PROVE  /\ pc'[w] = "idle" /\ UNCHANGED <<members, now, slip>>
         /\ rows # <<>> /\ Len(rows') = 1 /\ DOMAIN rows' = {1} /\ rows' # <<>>
         /\ job[w].sub = rows[1]
         /\ rows'[1].score = sub.score /\ rows'[1].date = rows[1].date
         /\ rows'[1].grades = sub.grades
  <1>1. /\ w \in Workers /\ pc \in [Workers -> PC] /\ JobInv(w) /\ BookJob(w)
        /\ rows \in Seq(Row) /\ Len(rows) \in {0, 1} /\ DOMAIN rows = 1 .. Len(rows)
        /\ rows # <<>> => /\ Len(rows) = 1 /\ DOMAIN rows = {1}
                          /\ rows[1].grades \in Grades /\ rows[1].date \in Times
    BY BookFacts
  <1>2. /\ job[w].row = 1 /\ rows # <<>> /\ job[w].sub = rows[1]
        /\ rows[1].grades \in Grades /\ Len(rows) = 1 /\ DOMAIN rows = {1}
    <2>1. job[w].row \in DOMAIN rows /\ job[w].sub = rows[job[w].row]
      BY <1>1 DEF JobInv, BookJob
    <2>2. rows # <<>>
      BY <2>1
    <2>3. QED
      BY <1>1, <2>1, <2>2
  <1>3. rows' = [rows EXCEPT ![1] =
              [sub EXCEPT !.date = rows[1].date, !.grades = SaveGrades(rows[1].grades, sub.grades)]]
    BY <1>2 DEF SaveSubmission
  <1> DEFINE over == [sub EXCEPT !.date = rows[1].date,
                                 !.grades = SaveGrades(rows[1].grades, sub.grades)]
  <1>4. /\ over.score = sub.score /\ over.date = rows[1].date
        /\ over.grades = SaveGrades(rows[1].grades, sub.grades)
    BY DEF Row
  <1>5. SaveGrades(rows[1].grades, sub.grades) = sub.grades
    <2>1. sub.grades \in Grades
      BY DEF Row
    <2>2. QED
      BY <1>2, <2>1 DEF SaveGrades, Grades
  <1>6. rows' = [rows EXCEPT ![1] = over]
    BY <1>3
  <1> HIDE DEF over
  <1>7. Len(rows') = 1 /\ DOMAIN rows' = {1} /\ rows'[1] = over /\ rows' # <<>>
    BY <1>1, <1>2, <1>6
  <1>8. pc'[w] = "idle" /\ UNCHANGED <<members, now, slip>>
    BY <1>1 DEF SaveSubmission, Goto
  <1>9. QED
    BY <1>2, <1>4, <1>5, <1>7, <1>8

(* What the only handler has read stays what there is. *)
LEMMA BookJobStep ==
  ASSUME BookInv, [Next]_vars, NEW w, Workers = {w}
  PROVE  BookJob(w)'
  <1>1. /\ w \in Workers /\ BookJob(w) /\ JobInv(w)
        /\ job \in [Workers -> Job] /\ pc \in [Workers -> PC]
        /\ job[w] \in Job /\ job[w].sub \in Row
        /\ DOMAIN rows = 1 .. Len(rows)
        /\ rows # <<>> => DOMAIN rows = {1} /\ rows[1].date \in Int /\ rows[1].date <= now
        /\ rows = <<>> => Len(rows) = 0
    BY BookFacts
  <1>2. CASE pc'[w] \in {"idle", "clone", "test"}
    BY <1>2 DEF BookJob
  <1>3. CASE Tick \/ Push \/ UNCHANGED vars
    <2>1. UNCHANGED <<pc, job, rows, members>>
      BY <1>3 DEF Tick, Push, vars
    <2>2. QED
      BY <1>1, <2>1 DEF BookJob
  <1>4. CASE UpdateGroup
    <2>1. pc'[w] = "idle"
      BY <1>4 DEF UpdateGroup
    <2>2. QED
      BY <1>2, <2>1
  <1>5. CASE StartPush(w)
    <2>1. PICK c \in queued, manually \in GradedManually :
            /\ job' = [job EXCEPT ![w] = IF manually
                 THEN [NoJob EXCEPT !.kind = "manual", !.sub.commit = c, !.sub.tree = c]
                 ELSE [NoJob EXCEPT !.kind = "push", !.sub.commit = c]]
            /\ Goto(w, IF manually THEN "previous" ELSE "clone")
      BY <1>5 DEF StartPush
    <2>2. CASE manually
      <3>1. job'[w] = [NoJob EXCEPT !.kind = "manual", !.sub.commit = c, !.sub.tree = c]
        BY <1>1, <2>1, <2>2
      <3>2. job'[w].kind = "manual"
        BY <3>1 DEF NoJob
      <3>3. pc'[w] = "previous"
        BY <1>1, <2>1, <2>2 DEF Goto
      <3>4. QED
        BY <3>2, <3>3 DEF BookJob
    <2>3. CASE ~manually
      <3>1. pc'[w] = "clone"
        BY <1>1, <2>1, <2>3 DEF Goto
      <3>2. QED
        BY <1>2, <3>1
    <2>4. QED
      BY <2>2, <2>3
  <1>6. CASE StartRebuild(w) \/ Clone(w) \/ RunFails(w) \/ RecordResultsReturn(w)
    <2>1. pc'[w] \in {"idle", "clone", "test"}
      BY <1>1, <1>6 DEF StartRebuild, Clone, RunFails, RecordResultsReturn, Goto
    <2>2. QED
      BY <1>2, <2>1
  <1>7. CASE UpdateSubmission(w) \/ UpdateReview(w)
    <2>1. pc'[w] = "idle"
      BY <1>1, <1>7 DEF UpdateSubmission, UpdateReview, SaveSubmission, Goto
    <2>2. QED
      BY <1>2, <2>1
  <1>8. CASE RunTests(w)
    <2>1. PICK s \in Scores :
            job' = [job EXCEPT ![w] = [job[w] EXCEPT !.sub = [@ EXCEPT !.score = s, !.date = now]]]
      BY <1>8 DEF RunTests
    <2>2. /\ job'[w].kind = job[w].kind /\ job'[w].sub.score = s /\ job'[w].sub.date = now
      BY <1>1, <2>1 DEF Job, Row
    <2>3. pc'[w] = "previous" /\ UNCHANGED rows
      BY <1>1, <1>8 DEF RunTests, Goto
    <2>4. \A i \in DOMAIN rows : rows[i].date <= now
      BY <1>1
    <2>5. QED
      BY <2>2, <2>3, <2>4 DEF BookJob
  <1>9. CASE previousSubmission(w)
    <2> DEFINE kind == job[w].kind
               new == job'[w].sub
    <2>1. /\ pc[w] = "previous" /\ pc'[w] = "create" /\ UNCHANGED rows /\ job'[w].kind = kind
          /\ kind # "manual" =>
                /\ new.score = job[w].sub.score
                /\ kind # "rebuild" => new.date = job[w].sub.date
                /\ rows # <<>> => /\ new.grades = SetGradesIfApproved(rows[1].grades, job[w].sub.score)
                                  /\ kind = "rebuild" => new.date = rows[1].date
          /\ kind = "manual" =>
                /\ new.date = now
                /\ rows = <<>> => new.score = 0
                /\ rows # <<>> => new.score = rows[1].score /\ new.grades = rows[1].grades
      BY <1>9, Combined
    <2>2. kind \in {"push", "manual", "rebuild"} /\ (kind = "rebuild" => rows # <<>>)
      BY <1>1, <2>1 DEF JobInv
    <2>3. /\ kind # "manual" => job[w].sub.score \in Scores
          /\ kind = "push" => \A i \in DOMAIN rows : rows[i].date <= job[w].sub.date
      BY <1>1, <2>1 DEF BookJob
    <2>4. \A i \in DOMAIN rows : i = 1 /\ rows # <<>>
      BY <1>1
    <2> HIDE DEF new, kind
    <2>5. /\ kind # "manual" => /\ new.score \in Scores
                                /\ \A i \in DOMAIN rows :
                                      new.grades = SetGradesIfApproved(rows[i].grades, new.score)
          /\ kind = "manual" => /\ rows = <<>> => new.score = 0
                                /\ \A i \in DOMAIN rows : /\ new.score = rows[i].score
                                                          /\ new.grades = rows[i].grades
          /\ kind = "rebuild" => rows # <<>> /\ \A i \in DOMAIN rows : new.date = rows[i].date
      BY <2>1, <2>2, <2>3, <2>4
    <2>6. kind # "rebuild" => \A i \in DOMAIN rows : rows[i].date <= new.date
      BY <1>1, <2>1, <2>2, <2>3, <2>4
    <2>7. QED
      BY <2>1, <2>5, <2>6 DEF BookJob, new
  <1>10. CASE CreateSubmission(w)
    <2>1. /\ pc'[w] \in {"idle", "readSlipDays"} /\ DOMAIN rows' = {1} /\ rows' # <<>>
          /\ job'[w].sub.score = rows'[1].score /\ job'[w].sub.date = rows'[1].date
          /\ job'[w].sub.grades = rows'[1].grades
      BY <1>10, Created
    <2>2. QED
      BY <2>1 DEF BookJob
  <1>11. CASE ReadSlipDays(w)
    <2>1. pc'[w] = "saveSlipDays" /\ pc[w] = "readSlipDays" /\ UNCHANGED <<rows, members>>
      BY <1>1, <1>11 DEF ReadSlipDays, Goto
    <2>2. job' = [job EXCEPT ![w] = [job[w] EXCEPT !.used = slip, !.todo = members]]
      BY <1>11 DEF ReadSlipDays
    <2>3. job'[w].sub = job[w].sub /\ job'[w].todo = members
      BY <1>1, <2>2 DEF Job
    <2>4. QED
      BY <1>1, <2>1, <2>3 DEF BookJob
  <1>12. CASE SaveSlipDays(w)
    <2>1. PICK u \in job[w].todo : job' = [job EXCEPT ![w] = [job[w] EXCEPT !.todo = @ \ {u}]]
      BY <1>12 DEF SaveSlipDays
    <2>2. pc[w] = "saveSlipDays" /\ UNCHANGED <<pc, rows, members>>
      BY <1>12 DEF SaveSlipDays
    <2>3. job'[w].sub = job[w].sub /\ job'[w].todo = job[w].todo \ {u}
      BY <1>1, <2>1 DEF Job
    <2>4. QED
      BY <1>1, <2>2, <2>3 DEF BookJob
  <1>13. CASE GetSubmission(w)
    <2>1. pc'[w] = "grade" /\ UNCHANGED rows
      BY <1>1, <1>13 DEF GetSubmission, Goto
    <2>2. PICK i \in 1 .. Len(rows) :
            job' = [job EXCEPT ![w] = [NoJob EXCEPT !.kind = "grade", !.row = i, !.sub = rows[i]]]
      BY <1>13 DEF GetSubmission
    <2>3. job'[w] = [NoJob EXCEPT !.kind = "grade", !.row = i, !.sub = rows[i]]
      BY <1>1, <2>2
    <2>4. job'[w].row = i /\ job'[w].sub = rows[i]
      BY <2>3 DEF NoJob
    <2>5. QED
      BY <2>1, <2>4 DEF BookJob
  <1>14. QED
    BY <1>1, <1>3, <1>4, <1>5, <1>6, <1>7, <1>8, <1>9, <1>10, <1>11, <1>12, <1>13 DEF Next, Handler

LEMMA BookInvStep ==
  ASSUME NEW w, Workers = {w}
  PROVE  BookInv /\ [Next]_vars => BookInv'
  <1> SUFFICES ASSUME BookInv, [Next]_vars PROVE BookInv'
    OBVIOUS
  <1>1. SerialInv'
    BY SerialStep DEF BookInv
  <1>2. BookJob(w)'
    BY BookJobStep
  <1>3. QED
    BY <1>1, <1>2 DEF BookInv


(* What the entry is, by the row. *)
LEMMA EntryOf ==
  ASSUME NEW rs \in Seq(Row), Len(rs) \in {0, 1}, NEW ms \in SUBSET Users,
         \A i \in DOMAIN rs, u \in Users : rs[i].grades[u] # Absent <=> u \in ms
  PROVE  /\ rs = <<>> => [i \in DOMAIN rs |-> Shown(rs[i])] = <<>>
         /\ rs # <<>> => [i \in DOMAIN rs |-> Shown(rs[i])] =
                <<[score |-> rs[1].score, date |-> rs[1].date,
                   grades |-> [u \in ms |-> rs[1].grades[u]]]>>
  <1>1. [i \in DOMAIN rs |-> Shown(rs[i])] = IF rs = <<>> THEN <<>> ELSE <<Shown(rs[1])>>
    BY OneEntry
  <1>2. ASSUME rs # <<>>
        PROVE  Shown(rs[1]) = [score |-> rs[1].score, date |-> rs[1].date,
                               grades |-> [u \in ms |-> rs[1].grades[u]]]
    <2>1. 1 \in DOMAIN rs /\ rs[1] \in Row
      BY <1>2
    <2>2. QED
      BY <2>1, ShownOf
  <1>3. QED
    BY <1>1, <1>2

(* An entry with this result, as a function of the score, date and grades. *)
EntryWith(score, date, grades) == <<[score |-> score, date |-> date, grades |-> grades]>>

LEMMA EntryFields ==
  ASSUME NEW s, NEW d, NEW g
  PROVE  /\ EntryWith(s, d, g) # <<>> /\ DOMAIN EntryWith(s, d, g) = {1}
         /\ EntryWith(s, d, g)[1].score = s /\ EntryWith(s, d, g)[1].date = d
         /\ EntryWith(s, d, g)[1].grades = g
  BY DEF EntryWith

LEMMA EntryChanges ==
  ASSUME NEW s, NEW d, NEW g, NEW x
  PROVE  /\ <<[EntryWith(s, d, g)[1] EXCEPT !.date = x]>> = EntryWith(s, x, g)
         /\ <<[EntryWith(s, d, g)[1] EXCEPT !.score = x]>> = EntryWith(x, d, g)
  BY DEF EntryWith

LEMMA EntryGraded ==
  ASSUME NEW e, NEW s, NEW d, NEW g, e = EntryWith(s, d, g), NEW x
  PROVE  <<[e[1] EXCEPT !.grades = x]>> = EntryWith(s, d, x)
  BY DEF EntryWith

(* The entry before and after a step. *)
LEMMA Entries ==
  ASSUME NEW w, Workers = {w}, BookInv, BookInv'
  PROVE  /\ rows = <<>> => Entry = <<>>
         /\ rows # <<>> => Entry = EntryWith(rows[1].score, rows[1].date,
                                             [u \in members |-> rows[1].grades[u]])
         /\ rows' = <<>> => Entry' = <<>>
         /\ rows' # <<>> => Entry' = EntryWith(rows'[1].score, rows'[1].date,
                                               [u \in members' |-> rows'[1].grades[u]])
  <1>1. /\ rows \in Seq(Row) /\ Len(rows) <= 1 /\ members \in SUBSET Users
        /\ \A i \in DOMAIN rows, u \in Users : rows[i].grades[u] # Absent <=> u \in members
    BY DEF BookInv, SerialInv, IInv, TypeOK, OneSubmission, GradesOfMembers
  <1>2. /\ rows' \in Seq(Row) /\ Len(rows') <= 1 /\ members' \in SUBSET Users
        /\ \A i \in DOMAIN rows', u \in Users : rows'[i].grades[u] # Absent <=> u \in members'
    BY DEF BookInv, SerialInv, IInv, TypeOK, OneSubmission, GradesOfMembers
  <1>3. Len(rows) \in {0, 1} /\ Len(rows') \in {0, 1}
    <2>1. Len(rows) \in Nat /\ Len(rows') \in Nat
      BY <1>1, <1>2
    <2>2. \A n \in Nat : n <= 1 => n \in {0, 1}
      OBVIOUS
    <2>3. Len(rows) <= 1 /\ Len(rows') <= 1
      BY <1>1, <1>2
    <2>4. QED
      BY <2>1, <2>2, <2>3
  <1>4. /\ rows = <<>> => Entry = <<>>
        /\ rows # <<>> => Entry = EntryWith(rows[1].score, rows[1].date,
                                            [u \in members |-> rows[1].grades[u]])
    BY <1>1, <1>3, EntryOf DEF Entry, EntryWith
  <1>5. /\ rows' = <<>> => Entry' = <<>>
        /\ rows' # <<>> => Entry' = EntryWith(rows'[1].score, rows'[1].date,
                                              [u \in members' |-> rows'[1].grades[u]])
    BY <1>2, <1>3, EntryOf DEF Entry, EntryWith
  <1>6. QED
    BY <1>4, <1>5

(* Who has to be charged, before and after a step. *)
LEMMA Dues ==
  ASSUME NEW w, Workers = {w}, BookInv
  PROVE  /\ pc[w] \notin {"readSlipDays", "saveSlipDays"} => Due = {}
         /\ pc[w] = "readSlipDays" => Due = members
         /\ pc[w] = "saveSlipDays" => Due = job[w].todo
         /\ pc'[w] \notin {"readSlipDays", "saveSlipDays"} => Due' = {}
         /\ pc'[w] = "readSlipDays" /\ members' \subseteq Users => Due' = members'
         /\ pc'[w] = "saveSlipDays" /\ job'[w].todo \subseteq Users => Due' = job'[w].todo
  <1>1. members \subseteq Users /\ job[w].todo \subseteq Users
    BY BookFacts
  <1>2. Due' = {u \in Users : \/ pc'[w] = "readSlipDays" /\ u \in members'
                              \/ pc'[w] = "saveSlipDays" /\ u \in job'[w].todo}
    BY DEF Due
  <1>3. QED
    BY <1>1, <1>2, DueOf

LEMMA DaysAre == \A h \in Int : UsedDays(h) = Book!Days(h)
  BY DEF UsedDays, Book!Days

(* The grades of a first result, and of a later one. *)
LEMMA GradedAre ==
  ASSUME NEW s \in Nat, NEW g \in Grades, NEW ms \in SUBSET Users,
         \A u \in Users : g[u] # Absent <=> u \in ms
  PROVE  [u \in ms |-> SetGradesIfApproved(g, s)[u]] =
         [u \in ms |-> IF Book!Passes(s) THEN "APPROVED" ELSE [v \in ms |-> g[v]][u]]
  BY ApprovedGrade DEF Book!Passes

(* The step that records a result. *)
LEMMA DeliverStep ==
  ASSUME NEW w, Workers = {w}, BookInv, BookInv', CreateSubmission(w)
  PROVE  Book!Next
  <1> DEFINE kind == job[w].kind
             s == job[w].sub.score
             d == job[w].sub.date
             shown == [u \in members |-> rows[1].grades[u]]
             after == [u \in members |-> rows'[1].grades[u]]
  <1>1. /\ pc[w] = "create" /\ UNCHANGED <<members, now, slip>>
        /\ pc'[w] = IF kind = "rebuild" THEN "idle" ELSE "readSlipDays"
        /\ rows' # <<>> /\ rows'[1].score = s /\ rows'[1].date = d
        /\ rows'[1].grades = IF rows = <<>> THEN SetGradesIfApproved(NewGrades(members), s)
                             ELSE job[w].sub.grades
    BY Created
  <1>2. /\ BookJob(w) /\ JobInv(w) /\ s \in Nat /\ d \in Times /\ members \in SUBSET Users
        /\ rows # <<>> => /\ DOMAIN rows = {1} /\ rows[1].grades \in Grades
                          /\ \A u \in Users : rows[1].grades[u] # Absent <=> u \in members
        /\ \A t \in delivered : t <= now
    BY BookFacts
  <1>3. kind \in {"push", "manual", "rebuild"} /\ d <= now
    BY <1>1, <1>2 DEF JobInv
  <1>4. Entry' = EntryWith(s, d, after)
    BY <1>1, Entries
  <1>5. /\ Due = {}
        /\ kind = "rebuild" => Due' = {}
        /\ kind # "rebuild" => Due' = members
    BY <1>1, <1>2, Dues
  <1>6. CASE rows = <<>>
    <2>1. kind # "rebuild" /\ s \in Scores \cup {0}
      BY <1>1, <1>2, <1>3, <1>6 DEF BookJob
    <2>2. after = Book!Graded(Book!Ungraded, s)
      <3>1. NewGrades(members) \in Grades
        BY <1>2 DEF NewGrades, Grades, Status
      <3>2. \A u \in Users : NewGrades(members)[u] = IF u \in members THEN "NONE" ELSE Absent
        BY DEF NewGrades
      <3>3. after = [u \in members |-> SetGradesIfApproved(NewGrades(members), s)[u]]
        BY <1>1, <1>6
      <3>4. [v \in members |-> NewGrades(members)[v]] = Book!Ungraded
        BY <1>2, <3>2 DEF Book!Ungraded
      <3>5. \A u \in Users : NewGrades(members)[u] # Absent <=> u \in members
        BY <3>2 DEF Absent
      <3>6. QED
        BY <1>2, <3>1, <3>3, <3>4, <3>5, GradedAre DEF Book!Graded
    <2>3. Entry = <<>>
      BY <1>6, Entries
    <2> HIDE DEF after, s, d, kind
    <2>4. Book!DeliverFirst(s, d)
      BY <1>1, <1>3, <1>4, <1>5, <2>1, <2>2, <2>3 DEF Book!DeliverFirst, EntryWith
    <2>5. QED
      BY <1>2, <2>1, <2>4 DEF Book!Next
  <1>7. CASE rows # <<>>
    <2>1. Entry = EntryWith(rows[1].score, rows[1].date, shown)
      BY <1>7, Entries
    <2>2. /\ Entry # <<>> /\ Entry[1].date = rows[1].date /\ Entry[1].grades = shown
          /\ <<[Entry[1] EXCEPT !.date = d]>> = EntryWith(rows[1].score, d, shown)
      <3> HIDE DEF shown, d
      <3>1. Entry # <<>> /\ Entry[1].date = rows[1].date /\ Entry[1].grades = shown
        BY <2>1, EntryFields
      <3>2. <<[Entry[1] EXCEPT !.date = d]>> = EntryWith(rows[1].score, d, shown)
        BY <2>1, EntryChanges
      <3>3. QED
        BY <3>1, <3>2
    <2>3. kind # "manual" => s \in Scores /\ after = Book!Graded(shown, s)
      <3>1. SUFFICES ASSUME kind # "manual" PROVE s \in Scores /\ after = Book!Graded(shown, s)
        OBVIOUS
      <3>2. s \in Scores /\ rows'[1].grades = SetGradesIfApproved(rows[1].grades, s)
        BY <1>1, <1>2, <1>7, <3>1 DEF BookJob
      <3>3. after = [u \in members |-> SetGradesIfApproved(rows[1].grades, s)[u]]
        BY <3>2
      <3>4. QED
        BY <1>2, <1>7, <3>2, <3>3, GradedAre DEF Book!Graded
    <2>4. kind = "manual" => s = rows[1].score /\ after = shown
      BY <1>1, <1>2, <1>7 DEF BookJob
    <2>5. /\ kind # "rebuild" => rows[1].date <= d
          /\ kind = "rebuild" => d = rows[1].date
      BY <1>1, <1>2, <1>7 DEF BookJob
    <2> HIDE DEF after, shown, s, d, kind
    <2>6. CASE kind = "push"
      <3>1. Book!DeliverTested(s, d)
        BY <1>1, <1>3, <1>4, <1>5, <2>2, <2>3, <2>5, <2>6 DEF Book!DeliverTested, EntryWith
      <3>2. QED
        BY <1>2, <2>3, <2>6, <3>1 DEF Book!Next
    <2>7. CASE kind = "manual"
      <3>1. Book!DeliverForReview(d)
        BY <1>1, <1>3, <1>4, <1>5, <2>2, <2>4, <2>5, <2>7 DEF Book!DeliverForReview
      <3>2. QED
        BY <1>2, <3>1 DEF Book!Next
    <2>8. CASE kind = "rebuild"
      <3>1. Book!Rebuild(s)
        BY <1>1, <1>4, <1>5, <2>2, <2>3, <2>5, <2>8 DEF Book!Rebuild, EntryWith
      <3>2. QED
        BY <2>3, <2>8, <3>1 DEF Book!Next
    <2>9. QED
      BY <1>3, <2>6, <2>7, <2>8
  <1>8. QED
    BY <1>6, <1>7

(* The step that charges a member. *)
LEMMA ChargeStep ==
  ASSUME NEW w, Workers = {w}, BookInv, BookInv', SaveSlipDays(w)
  PROVE  Book!Next
  <1> DEFINE sub == job[w].sub
             shown == [v \in members |-> rows[1].grades[v]]
  <1>1. /\ w \in Workers /\ BookJob(w) /\ SerialJob(w) /\ job \in [Workers -> Job] /\ job[w] \in Job
        /\ sub \in Row /\ sub.date \in Int /\ sub.score \in Nat
        /\ job[w].todo \subseteq Users /\ members \in SUBSET Users
        /\ slip \in [Users -> Seq(Nat)]
        /\ rows # <<>> => DOMAIN rows = {1}
        /\ ChargedOnce
    BY BookFacts DEF SerialInv
  <1>2. pc[w] = "saveSlipDays" /\ UNCHANGED <<pc, rows, members, now>>
    BY DEF SaveSlipDays
  <1>3. PICK u \in job[w].todo :
          /\ slip' = [slip EXCEPT ![u] =
             [i \in DOMAIN @ |-> IF i \in DOMAIN job[w].used[u]
                                 THEN UpdateSlipDays(job[w].used[u], sub, u)[i] ELSE @[i]]
             \o SubSeq(UpdateSlipDays(job[w].used[u], sub, u), Len(job[w].used[u]) + 1,
                       Len(UpdateSlipDays(job[w].used[u], sub, u)))]
          /\ job' = [job EXCEPT ![w] = [job[w] EXCEPT !.todo = @ \ {u}]]
    BY DEF SaveSlipDays
  <1> DEFINE read == slip[u]
             save == UpdateSlipDays(read, sub, u)
  <1>4. /\ u \in Users /\ u \in members /\ job[w].used[u] = slip[u] /\ read \in Seq(Nat)
        /\ Len(read) <= 1
    BY <1>1, <1>2 DEF SerialJob, BookJob, ChargedOnce
  <1>5. /\ rows # <<>> /\ sub.score = rows[1].score /\ sub.date = rows[1].date
        /\ sub.grades = rows[1].grades
    BY <1>1, <1>2 DEF BookJob
  <1>6. save = IF sub.score < ScoreLimit /\ sub.grades[u] # "APPROVED" /\ sub.date > 0
               THEN <<Book!Days(sub.date)>> ELSE read
    <2>1. CASE read = <<>>
      BY <1>1, <2>1, DaysAre DEF UpdateSlipDays
    <2>2. CASE read # <<>>
      <3>1. \A x : [read EXCEPT ![1] = x] = <<x>>
        BY <1>4, <2>2
      <3>2. QED
        BY <1>1, <2>2, <3>1, DaysAre DEF UpdateSlipDays
    <2>3. QED
      BY <2>1, <2>2
  <1>7. slip' = [slip EXCEPT ![u] = save]
    <2>1. save \in Seq(Nat) /\ Len(save) <= 1 /\ Len(read) <= Len(save)
      BY <1>1, <1>4, OneRecord
    <2>2. slip' = [slip EXCEPT ![u] =
             [i \in DOMAIN read |-> IF i \in DOMAIN read THEN save[i] ELSE read[i]]
             \o SubSeq(save, Len(read) + 1, Len(save))]
      BY <1>1, <1>3, <1>4
    <2> HIDE DEF save, read
    <2>3. QED
      BY <1>4, <2>1, <2>2, SavedAsComputed
  <1> HIDE DEF save
  <1>8. Due = job[w].todo /\ Due' = job[w].todo \ {u}
    <2>1. job'[w].todo = job[w].todo \ {u}
      BY <1>1, <1>3 DEF Job
    <2>2. QED
      BY <1>1, <1>2, <2>1, Dues
  <1>9. /\ Entry' = Entry /\ Entry[1].score = sub.score /\ Entry[1].date = sub.date
        /\ Entry[1].grades[u] = sub.grades[u]
    <2>1. Entry = EntryWith(rows[1].score, rows[1].date, shown)
      BY <1>5, Entries
    <2>2. Entry[1].score = rows[1].score /\ Entry[1].date = rows[1].date /\ Entry[1].grades = shown
      BY <2>1, EntryFields
    <2>3. Entry' = Entry
      BY <1>2 DEF Entry
    <2>4. QED
      BY <1>4, <1>5, <2>2, <2>3
  <1>10. slip' = IF sub.score < ScoreLimit /\ sub.grades[u] # "APPROVED" /\ sub.date > 0
                 THEN [slip EXCEPT ![u] = <<Book!Days(sub.date)>>] ELSE slip
    <2>1. [slip EXCEPT ![u] = slip[u]] = slip
      BY <1>1
    <2>2. QED
      BY <1>6, <1>7, <2>1
  <1> HIDE DEF sub
  <1>11. u \in Due /\ Book!Charge(u)
    BY <1>2, <1>8, <1>9, <1>10 DEF Book!Charge
  <1>12. QED
    BY <1>11 DEF Book!Next

(* The steps of teachers. *)
LEMMA GradeStep ==
  ASSUME NEW w, Workers = {w}, BookInv, BookInv', UpdateSubmission(w)
  PROVE  Book!Next
  <1>1. /\ job[w].sub \in Row /\ job[w].sub.grades \in Grades /\ members \in SUBSET Users
        /\ rows # <<>> => \A u \in Users : rows[1].grades[u] # Absent <=> u \in members
    BY BookFacts
  <1>2. PICK ids \in {{u} : u \in Users} \cup {Users}, status \in TeacherStatus :
          SaveSubmission(w, [job[w].sub EXCEPT !.grades = SetGrade(@, ids, status)])
    BY DEF UpdateSubmission
  <1> DEFINE sub == [job[w].sub EXCEPT !.grades = SetGrade(@, ids, status)]
             shown == [u \in members |-> rows[1].grades[u]]
             after == [u \in members |-> rows'[1].grades[u]]
  <1>3. status \in Status
    BY TeacherAssumption
  <1>4. /\ sub \in Row /\ sub.grades = SetGrade(job[w].sub.grades, ids, status)
        /\ sub.date = job[w].sub.date /\ sub.score = job[w].sub.score
    <2>1. SetGrade(job[w].sub.grades, ids, status) \in Grades
      BY <1>1, <1>3, GradesType, 0 \in Nat
    <2>2. QED
      BY <1>1, <2>1 DEF Row
  <1>5. \A u \in Users : sub.grades[u] =
            IF u \in ids /\ job[w].sub.grades[u] # Absent THEN status ELSE job[w].sub.grades[u]
    BY <1>1, <1>4, GradesOf, 0 \in Nat
  <1>6. SaveSubmission(w, sub)
    BY <1>2
  <1> HIDE DEF sub
  <1>7. \A u \in Users : sub.grades[u] = Absent => job[w].sub.grades[u] = Absent
    BY <1>3, <1>5 DEF Status, Absent
  <1>8. pc[w] = "grade"
    BY DEF UpdateSubmission
  <1>9. /\ pc'[w] = "idle" /\ UNCHANGED <<members, now, slip>>
        /\ rows # <<>> /\ rows' # <<>> /\ job[w].sub = rows[1]
        /\ rows'[1].score = sub.score /\ rows'[1].date = rows[1].date
        /\ rows'[1].grades = sub.grades
    BY <1>4, <1>6, <1>7, <1>8, Saved
  <1>10. /\ Entry = EntryWith(rows[1].score, rows[1].date, shown)
         /\ Entry' = EntryWith(rows[1].score, rows[1].date, after)
    BY <1>4, <1>9, Entries
  <1>11. Due = {} /\ Due' = {}
    BY <1>8, <1>9, Dues
  <1>12. after = [u \in members |-> IF u \in ids THEN status ELSE shown[u]]
    BY <1>1, <1>5, <1>9
  <1> HIDE DEF shown, after
  <1>13. /\ Entry # <<>> /\ Entry[1].grades = shown
         /\ \A g : <<[Entry[1] EXCEPT !.grades = g]>> = EntryWith(rows[1].score, rows[1].date, g)
    <2>1. Entry # <<>> /\ Entry[1].grades = shown
      BY <1>10, EntryFields
    <2>2. \A g : <<[Entry[1] EXCEPT !.grades = g]>> = EntryWith(rows[1].score, rows[1].date, g)
      BY <1>10, EntryGraded
    <2>3. QED
      BY <2>1, <2>2
  <1>14. Entry' = <<[Entry[1] EXCEPT !.grades =
                        [u \in members |-> IF u \in ids THEN status ELSE Entry[1].grades[u]]]>>
    BY <1>10, <1>12, <1>13
  <1>15. Book!SetGrade(ids, status)
    BY <1>9, <1>11, <1>13, <1>14 DEF Book!SetGrade
  <1>16. QED
    BY <1>15 DEF Book!Next

LEMMA ReviewStep ==
  ASSUME NEW w, Workers = {w}, BookInv, BookInv', UpdateReview(w)
  PROVE  Book!Next
  <1>1. job[w].sub \in Row
    BY BookFacts
  <1>2. PICK s \in Scores : SaveSubmission(w, [job[w].sub EXCEPT !.score = s])
    BY DEF UpdateReview
  <1> DEFINE sub == [job[w].sub EXCEPT !.score = s]
             shown == [u \in members |-> rows[1].grades[u]]
  <1>3. /\ sub \in Row /\ sub.grades = job[w].sub.grades
        /\ sub.date = job[w].sub.date /\ sub.score = s
    BY <1>1, ScoresAssumption DEF Row
  <1>4. SaveSubmission(w, sub)
    BY <1>2
  <1> HIDE DEF sub
  <1>5. pc[w] = "grade"
    BY DEF UpdateReview
  <1>6. /\ pc'[w] = "idle" /\ UNCHANGED <<members, now, slip>>
        /\ rows # <<>> /\ rows' # <<>> /\ job[w].sub = rows[1]
        /\ rows'[1].score = sub.score /\ rows'[1].date = rows[1].date
        /\ rows'[1].grades = sub.grades
    BY <1>3, <1>4, <1>5, Saved
  <1>7. /\ Entry = EntryWith(rows[1].score, rows[1].date, shown)
        /\ Entry' = EntryWith(s, rows[1].date, shown)
    BY <1>3, <1>6, Entries
  <1>8. Due = {} /\ Due' = {}
    BY <1>5, <1>6, Dues
  <1> HIDE DEF shown
  <1>9. Entry # <<>> /\ Entry' = <<[Entry[1] EXCEPT !.score = s]>>
    BY <1>7, EntryFields, EntryChanges
  <1>10. Book!Review(s)
    BY <1>6, <1>8, <1>9 DEF Book!Review
  <1>11. QED
    BY <1>10 DEF Book!Next

(* The step that changes the group. *)
LEMMA RegroupStep ==
  ASSUME NEW w, Workers = {w}, BookInv, BookInv', UpdateGroup
  PROVE  Book!Next
  <1>1. PICK ids \in SUBSET Users \ {{}} :
          members' = ids /\ rows' = [i \in DOMAIN rows |-> syncGroupGrades(rows[i], ids)]
    BY DEF UpdateGroup
  <1>2. pc[w] = "idle" /\ UNCHANGED <<pc, now, slip>>
    BY DEF UpdateGroup
  <1>3. Due = {} /\ Due' = {}
    BY <1>2, Dues
  <1> DEFINE regrouped(i) == [u \in ids |-> IF Book!Passes(Entry[i].score) THEN "APPROVED"
                                ELSE IF u \in members THEN Entry[i].grades[u] ELSE "NONE"]
  <1>4. Entry' = [i \in DOMAIN Entry |-> [Entry[i] EXCEPT !.grades = regrouped(i)]]
    <2>1. CASE rows = <<>>
      <3>1. rows' = <<>> /\ Entry = <<>>
        <4>1. rows' \in Seq(Row)
          BY DEF BookInv, SerialInv, IInv, TypeOK
        <4>2. DOMAIN rows = {}
          BY <2>1
        <4>3. DOMAIN rows' = {}
          BY <1>1, <4>2
        <4>4. rows' = <<>>
          BY <4>1, <4>3
        <4>5. Entry = <<>>
          BY <2>1, Entries
        <4>6. QED
          BY <4>4, <4>5
      <3>2. Entry' = <<>>
        BY <3>1, Entries
      <3>3. QED
        BY <3>1, <3>2
    <2>2. CASE rows # <<>>
      <3> DEFINE shown == [u \in members |-> rows[1].grades[u]]
                 after == [u \in ids |-> rows'[1].grades[u]]
                 g == [v \in Users |-> IF v \notin ids THEN Absent
                         ELSE IF rows[1].grades[v] = Absent THEN "NONE" ELSE rows[1].grades[v]]
      <3>1. /\ rows[1] \in Row /\ rows[1].grades \in Grades /\ rows[1].score \in Nat
            /\ DOMAIN rows = {1} /\ members \in SUBSET Users
            /\ \A u \in Users : rows[1].grades[u] # Absent <=> u \in members
        BY <2>2, BookFacts
      <3>2. DOMAIN rows' = {1} /\ rows' # <<>> /\ rows'[1] = syncGroupGrades(rows[1], ids)
        BY <1>1, <3>1
      <3>3. /\ rows'[1].score = rows[1].score /\ rows'[1].date = rows[1].date
            /\ rows'[1].grades = SetGradesIfApproved(g, rows[1].score)
        BY <3>1, <3>2 DEF syncGroupGrades, Row
      <3>4. /\ Entry = EntryWith(rows[1].score, rows[1].date, shown)
            /\ Entry' = EntryWith(rows[1].score, rows[1].date, after)
        BY <1>1, <2>2, <3>2, <3>3, Entries
      <3>5. after = [u \in ids |-> IF Book!Passes(rows[1].score) THEN "APPROVED"
                                   ELSE IF u \in members THEN shown[u] ELSE "NONE"]
        <4>1. g \in Grades
          BY <3>1 DEF Grades, Status
        <4>2. \A u \in ids : /\ g[u] # Absent
                             /\ g[u] = IF u \in members THEN shown[u] ELSE "NONE"
          BY <3>1 DEF Absent
        <4> HIDE DEF g, shown
        <4>3. \A u \in ids : SetGradesIfApproved(g, rows[1].score)[u] =
                               IF Book!Passes(rows[1].score) THEN "APPROVED" ELSE g[u]
          BY <3>1, <4>1, <4>2, ApprovedGrade DEF Book!Passes
        <4>4. QED
          BY <3>3, <4>2, <4>3
      <3> HIDE DEF shown, after, g
      <3>6. /\ DOMAIN Entry = {1} /\ Entry[1].score = rows[1].score /\ Entry[1].grades = shown
            /\ \A x : <<[Entry[1] EXCEPT !.grades = x]>> = EntryWith(rows[1].score, rows[1].date, x)
        <4>1. DOMAIN Entry = {1} /\ Entry[1].score = rows[1].score /\ Entry[1].grades = shown
          BY <3>4, EntryFields
        <4>2. \A x : <<[Entry[1] EXCEPT !.grades = x]>> = EntryWith(rows[1].score, rows[1].date, x)
          BY <3>4, EntryGraded
        <4>3. QED
          BY <4>1, <4>2
      <3>7. regrouped(1) = after
        BY <3>5, <3>6
      <3>8. [i \in DOMAIN Entry |-> [Entry[i] EXCEPT !.grades = regrouped(i)]]
              = <<[Entry[1] EXCEPT !.grades = regrouped(1)]>>
        <4> HIDE DEF regrouped
        <4>1. DOMAIN <<[Entry[1] EXCEPT !.grades = regrouped(1)]>> = {1}
          OBVIOUS
        <4>2. QED
          BY <3>6, <4>1
      <3>9. QED
        BY <3>4, <3>6, <3>7, <3>8
    <2>3. QED
      BY <2>1, <2>2
  <1>5. Book!Regroup(ids)
    BY <1>1, <1>2, <1>3, <1>4 DEF Book!Regroup
  <1>6. QED
    BY <1>5 DEF Book!Next

(* Every step of the only handler is one of the gradebook, or invisible. *)
LEMMA BookStep ==
  ASSUME NEW w, Workers = {w}
  PROVE  BookInv /\ BookInv' /\ [Next]_vars => [Book!Next]_(Book!vars)
  <1> SUFFICES ASSUME BookInv, BookInv', [Next]_vars
               PROVE  Book!Next \/ UNCHANGED <<now, members, Entry, Due, slip>>
    BY DEF Book!vars
  <1>1. /\ w \in Workers /\ pc \in [Workers -> PC] /\ job \in [Workers -> Job]
        /\ job[w] \in Job /\ members \in SUBSET Users
    BY BookFacts
  <1>2. CASE Tick
    <2>1. UNCHANGED <<rows, pc, job, members, slip>> /\ \E t \in Times : t > now /\ now' = t
      BY <1>2 DEF Tick
    <2>2. Entry' = Entry /\ Due' = Due
      BY <2>1 DEF Entry, Due
    <2>3. QED
      BY <2>1, <2>2 DEF Book!Next, Book!TimePasses
  <1>3. CASE UpdateGroup
    BY <1>3, RegroupStep
  <1>4. CASE CreateSubmission(w)
    BY <1>4, DeliverStep
  <1>5. CASE SaveSlipDays(w)
    BY <1>5, ChargeStep
  <1>6. CASE UpdateSubmission(w)
    BY <1>6, GradeStep
  <1>7. CASE UpdateReview(w)
    BY <1>7, ReviewStep
  <1>8. CASE Push \/ UNCHANGED vars
    <2>1. UNCHANGED <<now, members, rows, pc, job, slip>>
      BY <1>8 DEF Push, vars
    <2>2. QED
      BY <2>1 DEF Entry, Due
  <1>9. CASE StartPush(w) \/ StartRebuild(w) \/ Clone(w) \/ RunTests(w) \/ RunFails(w)
             \/ previousSubmission(w) \/ GetSubmission(w)
    <2>1. /\ UNCHANGED <<now, members, rows, slip>>
          /\ pc[w] \in {"idle", "clone", "test", "previous"}
      BY <1>9 DEF StartPush, StartRebuild, Clone, RunTests, RunFails, previousSubmission, GetSubmission
    <2>2. pc'[w] \in {"idle", "clone", "test", "previous", "create", "grade"}
      BY <1>1, <1>9 DEF StartPush, StartRebuild, Clone, RunTests, RunFails, previousSubmission,
         GetSubmission, Goto
    <2>3. Due = {} /\ Due' = {}
      BY <2>1, <2>2, Dues
    <2>4. QED
      BY <2>1, <2>3 DEF Entry
  <1>10. CASE ReadSlipDays(w)
    <2>1. /\ UNCHANGED <<now, members, rows, slip>> /\ pc[w] = "readSlipDays"
          /\ pc'[w] = "saveSlipDays"
      BY <1>1, <1>10 DEF ReadSlipDays, Goto
    <2>2. job' = [job EXCEPT ![w] = [job[w] EXCEPT !.used = slip, !.todo = members]]
      BY <1>10 DEF ReadSlipDays
    <2>3. job'[w].todo = members
      BY <1>1, <2>2 DEF Job
    <2>4. Due' = Due
      BY <1>1, <2>1, <2>3, Dues
    <2>5. QED
      BY <2>1, <2>4 DEF Entry
  <1>11. CASE RecordResultsReturn(w)
    <2>1. /\ UNCHANGED <<now, members, rows, slip>> /\ pc[w] = "saveSlipDays"
          /\ job[w].todo = {} /\ pc'[w] = "idle"
      BY <1>1, <1>11 DEF RecordResultsReturn, Goto
    <2>2. Due' = Due
      BY <2>1, Dues
    <2>3. QED
      BY <2>1, <2>2 DEF Entry
  <1>12. QED
    BY <1>2, <1>3, <1>4, <1>5, <1>6, <1>7, <1>8, <1>9, <1>10, <1>11 DEF Next, Handler

(* With handlers that do not overlap, for any group and any times and scores:    *)
(* the copies, rows and steps of RunTests, RecordResults, UpdateSubmission,      *)
(* UpdateReview and UpdateGroup implement the gradebook, in which each of them   *)
(* is one step on the one entry there is.                                      *)
THEOREM SubmissionsImplementGradebook ==
  ASSUME NEW w, Workers = {w}
  PROVE  Spec => GradebookSpec
  <1>1. Init => Book!Init
    <2>1. ASSUME Init PROVE Entry = <<>> /\ Due = {}
      BY <2>1 DEF Init, Entry, Due
    <2>2. QED
      BY <2>1 DEF Init, Book!Init
  <1>2. BookInv /\ [Next]_vars => BookInv'
    BY BookInvStep
  <1>3. BookInv /\ BookInv' /\ [Next]_vars => [Book!Next]_(Book!vars)
    BY BookStep
  <1>4. QED
    BY <1>1, <1>2, <1>3, InitBook, PTL DEF Spec, GradebookSpec, Book!Spec
=============================================================================
