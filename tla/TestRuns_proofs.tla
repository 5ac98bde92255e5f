-------------------------- MODULE TestRuns_proofs ---------------------------
(***************************************************************************)
(* Proofs about the updates from the tests repository and the test runs of   *)
(* a course, hist, for any number of updates, runs, rebuilds and failures, and any *)
(* Dockerfiles; and about the scores of a test run, for any tests, maxima,   *)
(* weights and output.                                                      *)
(***************************************************************************)
EXTENDS TestRuns, Scores, FiniteSetTheorems, SequenceTheorems, WellFoundedInduction, TLAPS

(* Each push to the tests repository makes one version.                      *)
Pushed == {u \in Updates : update[u].pc # "idle"}
PushesCounted == upstream = 1 + Cardinality(Pushed)

(* An update from the lock to its return.                                    *)
Cloned == {"Pull", "UpdateDockerfile", "ImageRemove", "buildImage", "UpdateCourse",
           "UpdateAssignments"}
Locked == Cloned \union {"Clone"}

(* One update at a time is under the course's lock, with a version that        *)
(* exists.                                                                   *)
LockInv ==
    \A u \in Updates :
        /\ update[u].pc \in Locked => lock = {u}
        /\ update[u].pc \in Cloned => update[u].version \in 1..upstream /\ tree # Missing

(* The working copy has a version that exists, unless it is being written.     *)
WorkingCopy ==
    /\ tree \in {Missing, Partial} \union 1..upstream
    /\ \A r \in Runs :
        run[r].fetched <= upstream /\ (run[r].pc = "cloneMissing" => run[r].fetched > 0)

(* The working copy is that of the update that has just written it.          *)
TreeInv ==
    Undisturbed => \A u \in Updates : update[u].pc = "UpdateDockerfile" => tree = update[u].version

(* The image is that of the digest, but for the update that replaces both.    *)
ImageInv ==
    Undisturbed =>
        /\ \A u \in Updates : update[u].pc = "UpdateCourse" => image = Docker[update[u].version]
        /\ (\A u \in Updates : update[u].pc \notin {"buildImage", "UpdateCourse"}) =>
              image = digest

(* Unless it compared with a digest that was replaced, the image is that of the *)
(* version to be stored.                                                     *)
DockerInv ==
    Undisturbed => \A u \in Updates :
        update[u].pc = "UpdateAssignments" /\ ~ stale => image = Docker[update[u].version]

(* An update that will store the last version.                               *)
Pending(u) ==
    \/ update[u].pc \in {"Lock", "Clone"}
    \/ update[u].pc \in Cloned /\ update[u].version = upstream

(* Without one, the last version is stored with its image, and nobody is about  *)
(* to store another.                                                         *)
StoredInv ==
    Undisturbed /\ (\A u \in Updates : ~ Pending(u)) =>
        /\ stored = upstream /\ \A u \in Updates : update[u].pc \notin Locked
        /\ stale \/ image = Docker[upstream]

(* The containers are those of the runs at work, which have different names.   *)
InContainer == {r \in Runs : run[r].pc \in {"waitForContainer", "remove"}}
ContainerInv ==
    faults = 0 =>
        /\ containers = {JobName[r] : r \in InContainer}
        /\ \A r, s \in InContainer : JobName[r] = JobName[s] => r = s

(* The rebuilds wait for the request.                                         *)
RebuildInv == rebuild = "idle" => \A r \in Rebuilds : run[r].pc = "idle"

IInv ==
    /\ TypeOK /\ RebuildInv /\ PushesCounted /\ LockInv /\ WorkingCopy
    /\ TreeInv /\ ImageInv /\ DockerInv /\ StoredInv /\ ContainerInv

LEMMA Bounds ==
  /\ Partial \in Nat /\ Partial > 1
  /\ \A v \in Version : Docker[v] \in Dockerfile
  /\ NoImage \in Dockerfile
  <1>1. Cardinality(Updates) \in Nat
    BY TestRunsAssumption, FS_CardinalityType
  <1>2. Partial \in Nat /\ Partial > 1
    BY <1>1 DEF Partial
  <1>3. \A v \in Version : v \in DOMAIN Docker
    BY TestRunsAssumption DEF Version
  <1>4. QED
    BY <1>2, <1>3 DEF Dockerfile, Range

(* The invariant holds when the server starts.                               *)
LEMMA InitIInv == Init => IInv
  <1> SUFFICES ASSUME Init PROVE IInv
    OBVIOUS
  <1> USE DEF Init
  <1>1. 1 \in Version
    BY Bounds DEF Version
  <1>2. TypeOK
    <2> USE DEF TypeOK
    <2>1. update \in [Updates -> Update]
      BY Bounds DEF Update, UpdatePC
    <2>2. run \in [Runs -> Run]
      BY DEF Run, RunPC
    <2>3. image \in Dockerfile /\ digest \in Dockerfile
      BY <1>1, Bounds
    <2>4. Missing \in Missing..Partial
      BY Bounds DEF Missing
    <2>5. tree \in Missing..Partial /\ faults \in 0..MaxFaults
      BY <2>4, TestRunsAssumption
    <2>6. stuck \in BOOLEAN /\ stale \in BOOLEAN
      OBVIOUS
    <2>7. QED
      BY <1>1, <2>1, <2>2, <2>3, <2>5, <2>6
  <1>3. PushesCounted
    <2>1. Pushed = {}
      BY DEF Pushed
    <2>2. QED
      BY <2>1, FS_EmptySet DEF PushesCounted
  <1>4. \A u \in Updates : update[u].pc = "idle"
    OBVIOUS
  <1>5. \A r \in Runs : run[r].pc = "idle"
    OBVIOUS
  <1>6. LockInv /\ WorkingCopy /\ TreeInv /\ RebuildInv
    BY <1>4, <1>5 DEF RebuildInv, Runs, LockInv, WorkingCopy, TreeInv, Locked, Cloned, Missing
  <1>7. ImageInv /\ StoredInv
    BY <1>4 DEF ImageInv, StoredInv, Locked, Cloned
  <1>8. ContainerInv
    <2>1. InContainer = {}
      BY <1>5 DEF InContainer
    <2>2. QED
      BY <2>1 DEF ContainerInv
  <1>9. DockerInv
    BY <1>4 DEF DockerInv
  <1>10. QED
    BY <1>2, <1>3, <1>6, <1>7, <1>8, <1>9 DEF IInv

LEMMA FaultCounted == ASSUME TypeOK, Fault PROVE faults' \in 0..MaxFaults /\ faults' # 0
  BY TestRunsAssumption DEF TypeOK, Fault

(* A push is one more of the updates, of which there are finitely many.        *)
LEMMA PushKeeps ==
  ASSUME IInv, NEW u \in Updates, handlePush(u)
  PROVE  IInv'
  <1> USE DEF IInv, handlePush
  <1>1. /\ update'[u] = [pc |-> "Lock", digest |-> digest, version |-> 0]
        /\ \A w \in Updates \ {u} : update'[w] = update[w]
    BY DEF TypeOK, Update, Run
  <1>2. PushesCounted' /\ upstream' \in Version
    <2>1. Pushed' = Pushed \union {u} /\ u \notin Pushed
      BY <1>1 DEF Pushed
    <2>2. IsFiniteSet(Pushed) /\ IsFiniteSet(Pushed') /\ Pushed' \subseteq Updates
      BY TestRunsAssumption, FS_Subset DEF Pushed
    <2>3. Cardinality(Pushed') = Cardinality(Pushed) + 1
      BY <2>1, <2>2, FS_AddElement
    <2>4. Cardinality(Pushed') <= Cardinality(Updates) /\ Cardinality(Updates) \in Nat
      BY <2>2, TestRunsAssumption, FS_Subset, FS_CardinalityType
    <2>5. Cardinality(Pushed) \in Nat
      BY <2>2, FS_CardinalityType
    <2>6. QED
      BY <2>3, <2>4, <2>5 DEF PushesCounted, Version, Partial
  <1>3. TypeOK'
    BY <1>2 DEF TypeOK, Update, UpdatePC, course, hist
  <1>4. upstream' = upstream + 1 /\ upstream \in Nat
    BY Bounds DEF TypeOK, Update, Run, Version
  <1>5. LockInv' /\ WorkingCopy'
    BY <1>1, <1>4
       DEF LockInv, WorkingCopy, Locked, Cloned, course, hist, Missing, TypeOK, Update, Run, Version
  <1>6. Undisturbed' => Undisturbed
    BY <1>4 DEF Undisturbed
  <1>7. TreeInv' /\ ImageInv' /\ DockerInv'
    BY <1>1, <1>6 DEF TreeInv, ImageInv, DockerInv, course, hist
  <1>8. StoredInv'
    BY <1>1 DEF StoredInv, Pending
  <1>9. ContainerInv' /\ RebuildInv'
    BY DEF ContainerInv, InContainer, RebuildInv
  <1>10. QED
    BY <1>2, <1>3, <1>5, <1>7, <1>8, <1>9

(* What the steps of an update leave alone.                                   *)
LEMMA UpdateFrame ==
  ASSUME IInv, NEW u \in Updates, UpdateFromTestsRepo(u)
  PROVE  /\ TypeOK' /\ RebuildInv' /\ PushesCounted' /\ LockInv' /\ WorkingCopy' /\ ContainerInv'
         /\ Undisturbed' => Undisturbed
         /\ upstream' = upstream
         /\ \A w \in Updates \ {u} : update'[w] = update[w]
  <1> USE DEF IInv, UpdateFromTestsRepo
  <1>1. TypeOK'
    <2> USE Bounds, FaultCounted DEF TypeOK, Update, UpdatePC, Unlock, course, hist
    <2>0. update[u].pc \in Cloned => update[u].version \in Version
      BY DEF LockInv, Version
    <2>1. CASE Lock(u)
      BY <2>1 DEF Lock
    <2>2. CASE Clone(u)
      <3>1. upstream \in Version /\ Partial \in Missing..Partial
        BY DEF Missing
      <3>2. QED
        <4>1. update' \in [Updates -> Update]
          BY <2>2, <3>1 DEF Clone
        <4>2. QED
          BY <2>2, <3>1, <4>1 DEF Clone
    <2>3. CASE Pull(u)
      BY <2>0, <2>3 DEF Pull, Missing, Version, Cloned
    <2>4. CASE UpdateDockerfile(u)
      <3>1. tree # Partial => tree \in Version
        BY <2>4 DEF UpdateDockerfile, LockInv, Cloned, WorkingCopy, Version
      <3>2. update' \in [Updates -> Update]
        BY <2>4, <3>1 DEF UpdateDockerfile, readTestsRepositoryContent
      <3>3. QED
        BY <2>4, <3>2 DEF UpdateDockerfile
    <2>5. CASE ImageRemove(u)
      BY <2>5 DEF ImageRemove, Dockerfile
    <2>6. CASE buildImage(u)
      <3>1. update' \in [Updates -> Update]
        BY <2>6 DEF buildImage
      <3>2. QED
        BY <2>0, <2>6, <3>1 DEF buildImage, Cloned
    <2>7. CASE UpdateCourse(u)
      <3>1. update' \in [Updates -> Update]
        BY <2>7 DEF UpdateCourse
      <3>2. QED
        BY <2>0, <2>7, <3>1 DEF UpdateCourse, Cloned
    <2>8. CASE UpdateAssignments(u)
      <3>1. update' \in [Updates -> Update]
        BY <2>8 DEF UpdateAssignments
      <3>2. QED
        BY <2>0, <2>8, <3>1 DEF UpdateAssignments, Cloned
    <2>9. QED
      BY <2>1, <2>2, <2>3, <2>4, <2>5, <2>6, <2>7, <2>8
  <1>2. /\ upstream' = upstream /\ run' = run /\ containers' = containers /\ rebuild' = rebuild
        /\ \A w \in Updates \ {u} : update'[w] = update[w]
        /\ update[u].pc # "idle" /\ update'[u].pc # "idle"
        /\ faults \in Nat /\ (faults' = faults \/ faults' = faults + 1)
    <2> USE DEF TypeOK, Update, Run, Unlock, Fault, course, hist
    <2>1. CASE Lock(u)
      BY <2>1 DEF Lock
    <2>2. CASE Clone(u)
      BY <2>2 DEF Clone
    <2>3. CASE Pull(u)
      BY <2>3 DEF Pull
    <2>4. CASE UpdateDockerfile(u)
      BY <2>4 DEF UpdateDockerfile
    <2>5. CASE ImageRemove(u)
      BY <2>5 DEF ImageRemove
    <2>6. CASE buildImage(u)
      BY <2>6 DEF buildImage
    <2>7. CASE UpdateCourse(u)
      BY <2>7 DEF UpdateCourse
    <2>8. CASE UpdateAssignments(u)
      BY <2>8 DEF UpdateAssignments
    <2>9. QED
      BY <2>1, <2>2, <2>3, <2>4, <2>5, <2>6, <2>7, <2>8
  <1>3. PushesCounted'
    <2>1. Pushed' = Pushed
      BY <1>2 DEF Pushed
    <2>2. QED
      BY <1>2, <2>1 DEF PushesCounted
  <1>4. ContainerInv' /\ RebuildInv' /\ (Undisturbed' => Undisturbed)
    BY <1>2 DEF ContainerInv, InContainer, RebuildInv, Undisturbed
  <1>5. LockInv' /\ WorkingCopy'
    <2> USE <1>2 DEF TypeOK, Update, Run, LockInv, WorkingCopy, Unlock, Locked, Cloned, course,
                     hist,
                     Missing
    <2>0. upstream \in Nat /\ upstream >= 1 /\ upstream < Partial /\ Partial > 1
      BY Bounds DEF Version
    <2>1. CASE Lock(u)
      BY <2>1 DEF Lock
    <2>2. CASE Clone(u)
      BY <2>0, <2>2 DEF Clone
    <2>3. CASE Pull(u)
      BY <2>0, <2>3 DEF Pull
    <2>4. CASE UpdateDockerfile(u)
      BY <2>0, <2>4 DEF UpdateDockerfile, readTestsRepositoryContent
    <2>5. CASE ImageRemove(u)
      BY <2>5 DEF ImageRemove
    <2>6. CASE buildImage(u)
      BY <2>6 DEF buildImage
    <2>7. CASE UpdateCourse(u)
      BY <2>7 DEF UpdateCourse
    <2>8. CASE UpdateAssignments(u)
      BY <2>8 DEF UpdateAssignments
    <2>9. QED
      BY <2>1, <2>2, <2>3, <2>4, <2>5, <2>6, <2>7, <2>8
  <1>6. QED
    BY <1>1, <1>2, <1>3, <1>4, <1>5

(* The update under the lock is alone.                                        *)
LEMMA UpdateKeeps ==
  ASSUME IInv, NEW u \in Updates, UpdateFromTestsRepo(u)
  PROVE  IInv'
  <1>1. /\ TypeOK' /\ RebuildInv' /\ PushesCounted' /\ LockInv' /\ WorkingCopy' /\ ContainerInv'
        /\ Undisturbed' => Undisturbed
        /\ upstream' = upstream
        /\ \A w \in Updates \ {u} : update'[w] = update[w]
    BY UpdateFrame
  <1>2. \A w \in Updates \ {u} : update[w].pc \notin Locked
    <2>1. update[u].pc \in Locked \/ lock = {}
      BY DEF UpdateFromTestsRepo, Lock, Clone, Pull, UpdateDockerfile, ImageRemove, buildImage,
             UpdateCourse, UpdateAssignments, Locked, Cloned
    <2>2. QED
      BY <2>1 DEF IInv, LockInv
  <1>3. SUFFICES ASSUME Undisturbed' PROVE TreeInv' /\ ImageInv' /\ DockerInv' /\ StoredInv'
    BY <1>1 DEF IInv, TreeInv, ImageInv, DockerInv, StoredInv
  <1>4. /\ Undisturbed /\ faults = 0 /\ faults' = 0
        /\ update[u].pc \in Cloned => Docker[update[u].version] \notin Broken
    BY <1>1, <1>3 DEF Undisturbed, IInv, LockInv
  <1>5. tree # Partial => readTestsRepositoryContent(u)
    BY DEF readTestsRepositoryContent
  <1>6. update[u].version \in Nat /\ upstream \in Nat
    BY Bounds DEF IInv, TypeOK, Update, Run, Version
  <1> USE <1>1, <1>2, <1>4 DEF IInv, TypeOK, Update, Run, TreeInv, ImageInv, DockerInv,
                               StoredInv, Pending,
          Locked, Cloned, Unlock, Fault, course, hist
  <1>7. CASE Lock(u)
    BY <1>7 DEF Lock
  <1>8. CASE Clone(u)
    BY <1>8 DEF Clone
  <1>9. CASE Pull(u)
    BY <1>9 DEF Pull
  <1>10. CASE UpdateDockerfile(u)
    <2>1. tree = update[u].version /\ tree # Partial
      BY <1>10, Bounds DEF UpdateDockerfile, LockInv, Version
    <2>2. QED
      BY <1>5, <1>10, <2>1 DEF UpdateDockerfile
  <1>11. CASE ImageRemove(u)
    BY <1>11 DEF ImageRemove
  <1>12. CASE buildImage(u)
    <2>1. /\ image' = Docker[update[u].version]
          /\ update' = [update EXCEPT ![u].pc = "UpdateCourse"]
          /\ UNCHANGED <<digest, stored, stale, tree>>
      BY <1>12 DEF buildImage, hist
    <2>2. TreeInv' /\ ImageInv' /\ DockerInv'
      BY <1>12, <2>1
    <2>3. StoredInv'
      BY <1>12, <2>1 DEF buildImage
    <2>4. QED
      BY <2>2, <2>3
  <1>13. CASE UpdateCourse(u)
    BY <1>13 DEF UpdateCourse
  <1>14. CASE UpdateAssignments(u)
    BY <1>14 DEF UpdateAssignments
  <1>15. QED
    BY <1>7, <1>8, <1>9, <1>10, <1>11, <1>12, <1>13, <1>14 DEF UpdateFromTestsRepo

(* The steps of the runs, of a push and of a rebuild.                          *)
RunStep(r) == runAssignmentTests(r) \/ internalRebuildSubmission(r) \/ RunTests(r)

LEMMA RunKeeps ==
  ASSUME IInv, NEW r \in Runs, RunStep(r)
  PROVE  IInv'
  <1> USE DEF IInv, RunStep
  <1>1. /\ update' = update /\ upstream' = upstream /\ UNCHANGED course /\ UNCHANGED hist
        /\ \A s \in Runs \ {r} : run'[s] = run[s]
        /\ faults \in Nat /\ (faults' = faults \/ faults' = faults + 1)
        /\ run'[r].fetched \in {run[r].fetched, upstream}
        /\ rebuild' = rebuild /\ (r \in Pushes \/ run[r].pc # "idle")
    BY DEF runAssignmentTests, internalRebuildSubmission, RunTests, clone, cloneMissingRepositories,
           loadRunScript, createImage, waitForContainer, ContainerRemove, RecordResults, SendTo,
           Continue, RunReturns, Fault, course, hist, TypeOK, Update, Run
  <1>2. TypeOK'
    <2> USE FaultCounted DEF TypeOK, Run, RunPC, Continue, RunReturns, course, hist
    <2>1. CASE runAssignmentTests(r)
      BY <2>1 DEF runAssignmentTests
    <2>2. CASE internalRebuildSubmission(r)
      BY <2>2 DEF internalRebuildSubmission
    <2>3. CASE clone(r)
      <3>1. Partial \in Missing..Partial
        BY Bounds DEF Missing
      <3>2. QED
        BY <2>3, <3>1 DEF clone
    <2>4. CASE cloneMissingRepositories(r)
      BY <2>4, Bounds DEF cloneMissingRepositories, Missing, Version
    <2>5. CASE loadRunScript(r)
      BY <2>5 DEF loadRunScript
    <2>6. CASE createImage(r)
      BY <2>6, TestRunsAssumption DEF createImage, Range
    <2>7. CASE waitForContainer(r)
      BY <2>7 DEF waitForContainer
    <2>8. CASE ContainerRemove(r)
      <3>1. run' \in [Runs -> Run]
        BY <2>8 DEF ContainerRemove
      <3>2. QED
        BY <2>8, <3>1 DEF ContainerRemove
    <2>9. CASE RecordResults(r) \/ SendTo(r)
      BY <2>9 DEF RecordResults, SendTo
    <2>10. QED
      BY <2>1, <2>2, <2>3, <2>4, <2>5, <2>6, <2>7, <2>8, <2>9 DEF RunTests
  <1>3. PushesCounted' /\ RebuildInv' /\ (Undisturbed' => Undisturbed)
    BY <1>1, TestRunsAssumption
       DEF PushesCounted, Pushed, RebuildInv, Runs, Undisturbed, TypeOK, Update, Run, Version
  <1>4. WorkingCopy' /\ (tree # Missing => tree' # Missing) /\ (Undisturbed' => tree' = tree)
    <2>0. upstream \in Nat /\ upstream >= 1 /\ run[r].fetched \in Nat
      BY Bounds DEF TypeOK, Update, Run, Version
    <2> USE DEF TypeOK, Update, Run, WorkingCopy, Continue, RunReturns, Fault, course, hist,
                Missing, Undisturbed
    <2>1. CASE clone(r)
      BY <2>0, <2>1, Bounds DEF clone
    <2>2. CASE cloneMissingRepositories(r)
      BY <2>0, <2>2 DEF cloneMissingRepositories
    <2>3. CASE runAssignmentTests(r) \/ internalRebuildSubmission(r)
      BY <2>3 DEF runAssignmentTests, internalRebuildSubmission
    <2>4. CASE loadRunScript(r) \/ createImage(r)
      BY <2>4 DEF loadRunScript, createImage
    <2>5. CASE waitForContainer(r) \/ ContainerRemove(r)
      BY <2>5 DEF waitForContainer, ContainerRemove
    <2>6. CASE RecordResults(r) \/ SendTo(r)
      BY <2>6 DEF RecordResults, SendTo
    <2>7. QED
      BY <2>1, <2>2, <2>3, <2>4, <2>5, <2>6 DEF RunTests
  <1>5. LockInv' /\ TreeInv' /\ ImageInv' /\ DockerInv' /\ StoredInv'
    BY <1>1, <1>3, <1>4 DEF LockInv, TreeInv, ImageInv, DockerInv, StoredInv, Pending, course, hist
  <1>6. ContainerInv'
    <2>1. SUFFICES ASSUME faults' = 0 PROVE ContainerInv'
      BY DEF ContainerInv
    <2>2. faults = 0
      BY <1>1, <2>1
    <2> USE <2>1, <2>2, <1>1 DEF ContainerInv, InContainer, TypeOK, Update, Run, Continue,
                                       RunReturns, Fault
    <2>3. CASE createImage(r)
      <3>1. CASE UNCHANGED containers /\ RunReturns(r)
        BY <2>3, <3>1 DEF createImage
      <3>2. CASE /\ JobName[r] \notin containers /\ Continue(r, "waitForContainer")
                 /\ containers' = containers \union {JobName[r]}
        <4>1. InContainer' = InContainer \union {r}
          BY <3>2
        <4>2. \A s \in InContainer : JobName[s] # JobName[r]
          BY <3>2
        <4>3. QED
          BY <3>2, <4>1, <4>2
      <3>3. QED
        BY <2>3, <3>1, <3>2 DEF createImage
    <2>4. CASE ContainerRemove(r)
      <3>1. InContainer' = InContainer \ {r} /\ r \in InContainer
        BY <2>4 DEF ContainerRemove
      <3>2. containers' = containers \ {JobName[r]}
        BY <2>4 DEF ContainerRemove
      <3>3. QED
        BY <3>1, <3>2
    <2>5. CASE waitForContainer(r)
      <3>1. InContainer' = InContainer /\ containers' = containers
        BY <2>5 DEF waitForContainer
      <3>2. QED
        BY <3>1
    <2>6. CASE runAssignmentTests(r) \/ internalRebuildSubmission(r) \/ loadRunScript(r)
      <3>1. InContainer' = InContainer /\ containers' = containers
        BY <2>6 DEF runAssignmentTests, internalRebuildSubmission, loadRunScript
      <3>2. QED
        BY <3>1
    <2>7. CASE clone(r) \/ cloneMissingRepositories(r)
      <3>1. InContainer' = InContainer /\ containers' = containers
        BY <2>7 DEF clone, cloneMissingRepositories
      <3>2. QED
        BY <3>1
    <2>8. CASE RecordResults(r) \/ SendTo(r)
      <3>1. InContainer' = InContainer /\ containers' = containers
        BY <2>8 DEF RecordResults, SendTo
      <3>2. QED
        BY <3>1
    <2>9. QED
      BY <2>3, <2>4, <2>5, <2>6, <2>7, <2>8 DEF RunTests
  <1>7. QED
    BY <1>2, <1>3, <1>4, <1>5, <1>6

(* The request to rebuild all submissions, a client that leaves, and a stop.   *)
LEMMA RequestKeeps ==
  ASSUME IInv, internalRebuildAllSubmissions \/ Wait \/ Disconnect \/ Stop
  PROVE  IInv'
  <1> USE DEF IInv
  <1>1. CASE internalRebuildAllSubmissions
    <2>1. /\ \A r \in Pushes : run'[r] = run[r]
          /\ \A r \in Rebuilds : run'[r] = [run[r] EXCEPT !.pc = "queued"]
          /\ \A r \in Rebuilds : run[r].pc = "idle"
      BY <1>1, TestRunsAssumption DEF internalRebuildAllSubmissions, Runs, RebuildInv
    <2>2. TypeOK'
      BY <1>1 DEF internalRebuildAllSubmissions, TypeOK, Run, RunPC, course, hist
    <2>3. /\ \A r \in Runs : run'[r].fetched = run[r].fetched
          /\ \A r \in Runs : run'[r].pc = run[r].pc \/ run'[r].pc = "queued"
      <3>1. \A r \in Runs : r \in Pushes \/ r \in Rebuilds
        BY DEF Runs
      <3>2. \A r \in Rebuilds : run'[r].fetched = run[r].fetched /\ run'[r].pc = "queued"
        <4>1. SUFFICES ASSUME NEW r \in Rebuilds
                       PROVE  run'[r].fetched = run[r].fetched /\ run'[r].pc = "queued"
          OBVIOUS
        <4>2. run[r] \in Run
          BY DEF TypeOK, Runs
        <4>3. QED
          BY <2>1, <4>2 DEF Run
      <3>3. QED
        BY <2>1, <3>1, <3>2
    <2>4. InContainer' = InContainer
      BY <2>1, <2>3 DEF InContainer, Runs
    <2>5. RebuildInv' /\ PushesCounted' /\ LockInv' /\ WorkingCopy' /\ (Undisturbed' => Undisturbed)
      BY <1>1, <2>3 DEF internalRebuildAllSubmissions, RebuildInv, PushesCounted, Pushed, LockInv,
                        WorkingCopy, Undisturbed, course, hist
    <2>6. TreeInv' /\ ImageInv' /\ DockerInv' /\ StoredInv' /\ ContainerInv'
      BY <1>1, <2>3, <2>4, <2>5 DEF internalRebuildAllSubmissions, TreeInv, ImageInv, DockerInv,
                                    StoredInv,
                                   Pending, ContainerInv, course, hist
    <2>7. QED
      BY <2>2, <2>5, <2>6
  <1>2. CASE Wait
    BY <1>2 DEF Wait, TypeOK, Update, Run, RebuildInv, PushesCounted, Pushed, LockInv,
                WorkingCopy, TreeInv, ImageInv, DockerInv, StoredInv, Pending, ContainerInv,
                InContainer, Undisturbed,
                course, hist
  <1>3. CASE Stop
    <2>1. faults' # 0
      BY <1>3, FaultCounted DEF Stop
    <2>2. \A u \in Updates :
            /\ update'[u].pc \in {"idle", "returned"}
            /\ update'[u].pc = "idle" <=> update[u].pc = "idle"
      BY <1>3 DEF Stop, TypeOK, Update
    <2>3. \A r \in Runs :
            /\ run'[r].pc \in {"idle", "returned"}
            /\ run[r].pc = "idle" => run'[r].pc = "idle"
            /\ run'[r].fetched = run[r].fetched
      <3>1. SUFFICES ASSUME NEW r \in Runs
                     PROVE  /\ run'[r].pc \in {"idle", "returned"}
                            /\ run[r].pc = "idle" => run'[r].pc = "idle"
                            /\ run'[r].fetched = run[r].fetched
        OBVIOUS
      <3>2. run[r] \in Run
        BY DEF TypeOK
      <3>3. run'[r] = IF run[r].pc \in {"idle", "returned"} THEN run[r]
                      ELSE [run[r] EXCEPT !.pc = "returned", !.result = "none"]
        BY <1>3 DEF Stop
      <3>4. QED
        BY <3>2, <3>3 DEF Run
    <2>4. TypeOK'
      <3>1. update' \in [Updates -> Update]
        BY <1>3 DEF Stop, TypeOK, Update, UpdatePC, Dockerfile
      <3>2. run' \in [Runs -> Run]
        <4>1. \A x \in Run : [x EXCEPT !.pc = "returned", !.result = "none"] \in Run
          BY DEF Run, RunPC
        <4>2. QED
          BY <1>3, <4>1 DEF Stop, TypeOK
      <3>3. QED
        BY <1>3, <3>1, <3>2, FaultCounted DEF Stop, TypeOK, Update, Run
    <2>5. PushesCounted'
      <3>1. Pushed' = Pushed
        BY <2>2 DEF Pushed
      <3>2. QED
        BY <1>3, <3>1 DEF Stop, PushesCounted
    <2>6. RebuildInv' /\ LockInv' /\ WorkingCopy'
      <3>1. RebuildInv'
        BY <1>3, <2>3 DEF Stop, RebuildInv, Runs
      <3>2. LockInv'
        BY <2>2 DEF LockInv, Locked, Cloned
      <3>3. WorkingCopy'
        <4>1. \A r \in Runs : run'[r].pc # "cloneMissing"
          BY <2>3
        <4>2. tree' = tree /\ upstream' = upstream
          BY <1>3 DEF Stop
        <4>3. QED
          BY <2>3, <4>1, <4>2 DEF WorkingCopy
      <3>4. QED
        BY <3>1, <3>2, <3>3
    <2>7. TreeInv' /\ ImageInv' /\ DockerInv' /\ StoredInv' /\ ContainerInv'
      BY <2>1 DEF TreeInv, ImageInv, DockerInv, StoredInv, ContainerInv, Undisturbed
    <2>8. QED
      BY <2>4, <2>5, <2>6, <2>7
  <1>4. CASE Disconnect
    BY <1>4 DEF Disconnect, TypeOK, Update, Run, RebuildInv, PushesCounted, Pushed, LockInv,
                WorkingCopy, TreeInv, ImageInv, DockerInv, StoredInv, Pending, ContainerInv,
                InContainer, Undisturbed, course
  <1>5. QED
    BY <1>1, <1>2, <1>3, <1>4

LEMMA StepIInv == IInv /\ [Next]_vars => IInv'
  <1> SUFFICES ASSUME IInv, [Next]_vars PROVE IInv'
    OBVIOUS
  <1>1. CASE UNCHANGED vars
    BY <1>1 DEF vars, IInv, TypeOK, Update, Run, RebuildInv, PushesCounted, Pushed, LockInv,
                WorkingCopy, TreeInv, ImageInv, DockerInv, StoredInv, Pending, ContainerInv,
                InContainer, Undisturbed
  <1>2. CASE Next
    BY <1>2, PushKeeps, UpdateKeeps, RunKeeps, RequestKeeps DEF Next, RunStep
  <1>3. QED
    BY <1>1, <1>2

LEMMA IInvImplies == IInv => LastVersionStored /\ ContainersRemoved
  <1> SUFFICES ASSUME IInv PROVE LastVersionStored /\ ContainersRemoved
    OBVIOUS
  <1>1. LastVersionStored
    BY DEF IInv, LastVersionStored, Quiet, Undisturbed, StoredInv, ImageInv, Pending, Cloned
  <1>2. ContainersRemoved
    BY DEF IInv, ContainersRemoved, Quiet, ContainerInv, InContainer
  <1>3. QED
    BY <1>1, <1>2

(* For any updates, runs and rebuilds, in any order: unless something failed,  *)
(* the last version of the assignments is stored when all updates have         *)
(* returned (UpdateFromTestsRepo), the image is that of the saved digest, and   *)
(* it is the last version's unless the last update compared its Dockerfile      *)
(* with a digest that another had replaced (push.go:33).                        *)
THEOREM TestRunsSafety == Spec => [](TypeOK /\ LastVersionStored)
  <1>1. IInv => TypeOK /\ LastVersionStored
    BY IInvImplies DEF IInv
  <1>2. QED
    BY <1>1, InitIInv, StepIInv, PTL DEF Spec

(* The same runs: no container is left when all of them are past its removal,  *)
(* however their waits ended (Docker.Run).                                     *)
THEOREM TestRunsContainers == Spec => []ContainersRemoved
  <1>1. IInv => ContainersRemoved
    BY IInvImplies
  <1>2. QED
    BY <1>1, InitIInv, StepIInv, PTL DEF Spec

-----------------------------------------------------------------------------
(* The scores of a test run.  What its recursive definitions compute is proved *)
(* by induction over sets of numbers.                                         *)

(* Induction up to n, over the set of the numbers that have a property: the   *)
(* least number without it would have a predecessor.                          *)
LEMMA UpTo ==
  ASSUME NEW n \in Nat, NEW S, 0 \in S, \A i \in 1..n : i - 1 \in S => i \in S
  PROVE  0..n \subseteq S
  <1> DEFINE T == (0..n) \ S
             R == OpToRel(<, Nat)
  <1>1. SUFFICES ASSUME T # {} PROVE FALSE
    OBVIOUS
  <1>2. IsWellFoundedOn(R, Nat)
    BY NatLessThanWellFounded
  <1>3. T \subseteq Nat
    OBVIOUS
  <1>4. \A x, y \in T : y < x => <<y, x>> \in R
    BY DEF OpToRel
  <1> HIDE DEF R
  <1>5. PICK x \in T : \A y \in T : ~ (<<y, x>> \in R)
    BY <1>1, <1>2, <1>3, WFMin
  <1>6. x \in 1..n /\ x - 1 \in 0..n /\ x - 1 < x
    OBVIOUS
  <1>7. x - 1 \in T
    BY <1>6
  <1>8. QED
    BY <1>4, <1>5, <1>6, <1>7

(* A function on 0..n that begins with b and takes the steps G.               *)
Follows(f, b, G, n) == f[0] = b /\ \A i \in 1..n : f[i] = G[<<i, f[i - 1]>>]

(* A recursive definition on 0..n, whose step is a function of the position    *)
(* and of the value before it, has a solution: each initial segment has.      *)
LEMMA RecursionUpTo ==
  ASSUME NEW n \in Nat, NEW D, NEW b \in D, NEW G \in [(1..n) \X D -> D]
  PROVE  \E f \in [0..n -> D] : Follows(f, b, G, n)
  <1> DEFINE S == {m \in 0..n : \E f \in [0..n -> D] : Follows(f, b, G, m)}
  <1>1. 0 \in S
    <2> DEFINE f == [i \in 0..n |-> b]
    <2>1. f \in [0..n -> D] /\ Follows(f, b, G, 0) /\ 0 \in 0..n
      BY DEF Follows
    <2> HIDE DEF f
    <2>2. QED
      BY <2>1
  <1>2. ASSUME NEW m \in 1..n, m - 1 \in S PROVE m \in S
    <2>1. PICK f \in [0..n -> D] : Follows(f, b, G, m - 1)
      BY <1>2
    <2> DEFINE g == [f EXCEPT ![m] = G[<<m, f[m - 1]>>]]
    <2>2. f[m - 1] \in D /\ <<m, f[m - 1]>> \in (1..n) \X D
      OBVIOUS
    <2>3. g \in [0..n -> D]
      BY <2>2
    <2>4. g[0] = b
      BY <2>1 DEF Follows
    <2>5. \A i \in 1..m : g[i] = G[<<i, g[i - 1]>>]
      <3>1. TAKE i \in 1..m
      <3>2. g[i - 1] = f[i - 1]
        OBVIOUS
      <3>3. CASE i = m
        <4>1. g[m] = G[<<m, f[m - 1]>>] /\ g[i] = g[m] /\ f[i - 1] = f[m - 1]
          BY <3>3
        <4>2. QED
          BY <4>1, <3>2, <3>3
      <3>4. CASE i # m
        <4>1. i \in 1..(m - 1) /\ g[i] = f[i]
          BY <3>4
        <4>2. QED
          BY <4>1, <3>2, <2>1 DEF Follows
      <3>5. QED
        BY <3>3, <3>4
    <2>6. Follows(g, b, G, m) /\ m \in 0..n
      BY <2>4, <2>5 DEF Follows
    <2> HIDE DEF g
    <2>7. QED
      BY <2>3, <2>6
  <1>3. n \in S
    <2> HIDE DEF S
    <2>1. 0..n \subseteq S
      BY <1>1, <1>2, UpTo
    <2>2. QED
      BY <2>1
  <1>4. QED
    BY <1>3

(* The sums from the first value on.                                         *)
LEMMA SumSteps ==
  ASSUME NEW n \in Nat, NEW f \in [1..n -> Int]
  PROVE  \E s \in [0..n -> Int] :
            s[0] = 0 /\ (\A i \in 1..n : s[i] = s[i - 1] + f[i]) /\ s[n] = SumOf(f, n)
  <1> DEFINE G == [x \in (1..n) \X Int |-> x[2] + f[x[1]]]
             Eqn(g) == g = [i \in 0..n |-> IF i = 0 THEN 0 ELSE g[i - 1] + f[i]]
             s == CHOOSE g : Eqn(g)
  <1>1. PICK h \in [0..n -> Int] : Follows(h, 0, G, n)
    <2>1. G \in [(1..n) \X Int -> Int]
      OBVIOUS
    <2> HIDE DEF G
    <2>2. QED
      BY <2>1, RecursionUpTo, 0 \in Int
  <1>2. \A i \in 1..n : h[i - 1] \in Int /\ h[i] = h[i - 1] + f[i]
    <2>1. TAKE i \in 1..n
    <2>2. h[i - 1] \in Int /\ <<i, h[i - 1]>> \in (1..n) \X Int
      OBVIOUS
    <2>3. QED
      BY <2>2, <1>1 DEF Follows
  <1>3. Eqn(h)
    BY <1>1, <1>2 DEF Follows
  <1>4. Eqn(s)
    BY <1>3
  <1>5. SumOf(f, n) = s[n]
    BY DEF SumOf
  <1> HIDE DEF s
  <1>6. s[0] = 0 /\ \A i \in 1..n : s[i] = s[i - 1] + f[i]
    BY <1>4
  <1> DEFINE S == {i \in 0..n : s[i] \in Int}
  <1>7. 0..n \subseteq S
    <2>1. 0 \in S
      BY <1>6
    <2>2. ASSUME NEW i \in 1..n, i - 1 \in S PROVE i \in S
      BY <2>2, <1>6
    <2> HIDE DEF S
    <2>3. QED
      BY <2>1, <2>2, UpTo
  <1>8. s \in [0..n -> Int]
    BY <1>4, <1>7
  <1>9. QED
    BY <1>5, <1>6, <1>8

(* A sum is between zero and that of larger values, and short of it by what    *)
(* any one of them is.                                                        *)
LEMMA SumGap ==
  ASSUME NEW n \in Nat, NEW f \in [1..n -> Nat], NEW h \in [1..n -> Nat],
         \A i \in 1..n : f[i] <= h[i], NEW k \in 1..n
  PROVE  /\ SumOf(f, n) \in Nat /\ SumOf(h, n) \in Nat
         /\ SumOf(f, n) + (h[k] - f[k]) <= SumOf(h, n)
  <1>1. f \in [1..n -> Int] /\ h \in [1..n -> Int]
    OBVIOUS
  <1>2. PICK s \in [0..n -> Int] :
          s[0] = 0 /\ (\A i \in 1..n : s[i] = s[i - 1] + f[i]) /\ s[n] = SumOf(f, n)
    BY <1>1, SumSteps
  <1>3. PICK r \in [0..n -> Int] :
          r[0] = 0 /\ (\A i \in 1..n : r[i] = r[i - 1] + h[i]) /\ r[n] = SumOf(h, n)
    BY <1>1, SumSteps
  <1> DEFINE S == {i \in 0..n : /\ 0 <= s[i] /\ s[i] <= r[i]
                                /\ k <= i => s[i] + (h[k] - f[k]) <= r[i]}
  <1>4. 0 \in S
    BY <1>2, <1>3
  <1>5. ASSUME NEW i \in 1..n, i - 1 \in S PROVE i \in S
    <2>1. PICK a \in Int, b \in Int : a = s[i - 1] /\ b = r[i - 1]
      <3>1. i - 1 \in 0..n
        OBVIOUS
      <3>2. s[i - 1] \in Int /\ r[i - 1] \in Int
        BY <3>1
      <3>3. QED
        BY <3>2, Zenon
    <2>2. PICK x \in Nat, y \in Nat : x = f[i] /\ y = h[i] /\ x <= y
      OBVIOUS
    <2>3. PICK g \in Int : g = h[k] - f[k]
      OBVIOUS
    <2>4. s[i] = a + x /\ r[i] = b + y
      BY <1>2, <1>3, <2>1, <2>2
    <2>5. 0 <= a /\ a <= b /\ (k <= i - 1 => a + g <= b)
      BY <1>5, <2>1, <2>3
    <2>6. 0 <= a + x /\ a + x <= b + y
      BY <2>2, <2>5
    <2>7. k <= i => a + x + g <= b + y
      <3>1. CASE i = k
        BY <3>1, <2>2, <2>3, <2>5
      <3>2. CASE i # k
        <4>1. k <= i => k <= i - 1
          BY <3>2
        <4>2. a + g <= b => (a + g) + x <= b + y
          BY <2>2
        <4>3. (a + g) + x = a + x + g
          OBVIOUS
        <4>4. QED
          BY <4>1, <4>2, <4>3, <2>5
      <3>3. QED
        BY <3>1, <3>2
    <2>8. 0 <= s[i] /\ s[i] <= r[i]
      BY <2>4, <2>6
    <2>9. k <= i => s[i] + (h[k] - f[k]) <= r[i]
      BY <2>3, <2>4, <2>7
    <2>10. QED
      BY <2>8, <2>9
  <1>6. 0..n \subseteq S
    <2> HIDE DEF S
    <2>1. QED
      BY <1>4, <1>5, UpTo
  <1>7. n \in S
    BY <1>6
  <1>8. QED
    BY <1>2, <1>3, <1>7

(* A common factor may be taken out of a sum.                                 *)
LEMMA SumScaled ==
  ASSUME NEW n \in Nat, NEW g \in [1..n -> Nat], NEW c \in Nat
  PROVE  SumOf([i \in 1..n |-> c * g[i]], n) = c * SumOf(g, n)
  <1> DEFINE h == [i \in 1..n |-> c * g[i]]
  <1>1. g \in [1..n -> Int]
    OBVIOUS
  <1>2. PICK s \in [0..n -> Int] :
          s[0] = 0 /\ (\A i \in 1..n : s[i] = s[i - 1] + g[i]) /\ s[n] = SumOf(g, n)
    BY <1>1, SumSteps
  <1>3. h \in [1..n -> Int] /\ \A i \in 1..n : h[i] = c * g[i]
    OBVIOUS
  <1> HIDE DEF h
  <1>4. PICK r \in [0..n -> Int] :
          r[0] = 0 /\ (\A i \in 1..n : r[i] = r[i - 1] + h[i]) /\ r[n] = SumOf(h, n)
    BY <1>3, SumSteps
  <1> DEFINE S == {i \in 0..n : r[i] = c * s[i]}
  <1>5. 0 \in S
    BY <1>2, <1>4
  <1>6. ASSUME NEW i \in 1..n, i - 1 \in S PROVE i \in S
    <2>1. g[i] \in Int /\ s[i - 1] \in Int /\ r[i - 1] = c * s[i - 1]
      BY <1>6
    <2>2. r[i] = c * s[i - 1] + c * g[i] /\ s[i] = s[i - 1] + g[i]
      BY <2>1, <1>2, <1>3, <1>4
    <2>3. c * (s[i - 1] + g[i]) = c * s[i - 1] + c * g[i]
      BY <2>1
    <2>4. QED
      BY <2>2, <2>3
  <1>7. 0..n \subseteq S
    <2> HIDE DEF S
    <2>1. QED
      BY <1>5, <1>6, UpTo
  <1>8. n \in S
    BY <1>7
  <1>9. QED
    BY <1>2, <1>4, <1>8 DEF h

(* A product with a larger factor is larger.                                  *)
LEMMA LargerFactor ==
  ASSUME NEW a \in Nat, NEW x \in Int, NEW y \in Int, x <= y
  PROVE  a * x <= a * y
  <1>1. PICK d \in Nat : y = x + d
    <2>1. y - x \in Nat /\ y = x + (y - x)
      OBVIOUS
    <2>2. QED
      BY <2>1
  <1>2. a * (x + d) = a * x + a * d /\ a * d >= 0
    OBVIOUS
  <1>3. QED
    BY <1>1, <1>2

(* A share of at most everything is rounded to a percentage, and to 100 only   *)
(* when less than half a percent is missing.                                  *)
LEMMA RoundBounds ==
  ASSUME NEW p \in Nat, NEW d \in Nat \ {0}, p <= d
  PROVE  /\ Round(100 * p, d) \in 0..100
         /\ Round(100 * p, d) = 100 => 200 * p >= 199 * d
  <1> DEFINE q == (2 * (100 * p) + d) \div (2 * d)
  <1>1. q \in Int /\ q >= 0
    OBVIOUS
  <1>2. (2 * d) * q <= 200 * p + d /\ 200 * p + d < (2 * d) * q + 2 * d
    OBVIOUS
  <1>3. Round(100 * p, d) = q
    BY DEF Round
  <1> HIDE DEF q
  <1>4. q <= 100
    <2>1. SUFFICES ASSUME 101 <= q PROVE FALSE
      BY <1>1
    <2>2. (2 * d) * 101 <= (2 * d) * q
      BY <2>1, <1>1, LargerFactor
    <2>3. (2 * d) * 101 = 202 * d /\ (2 * d) * q \in Int
      BY <1>1
    <2>4. QED
      BY <2>2, <2>3, <1>2
  <1>5. QED
    BY <1>1, <1>2, <1>3, <1>4
-----------------------------------------------------------------------------
(* What the tests print: their own lines, with a score within their maximum.   *)
ScoreLines == {l \in Score : \E t \in Tests : \E n \in 0..MaxScore[t] : l = json(t, n)}

(* Score objects and lines stay within the maxima, and the results are those   *)
(* that the output gives.                                                     *)
ScoresInv ==
    /\ phase \in {"registered", "running", "over", "truncated", "extracted"}
    /\ scores \in [Tests -> [score : Int, state : {"ready", "begun", "failed"}]]
    /\ \A t \in Tests : scores[t].score \in 0..MaxScore[t]
    /\ prints \in 0..MaxPrints
    /\ out \in Seq(ScoreLines)
    /\ results = IF phase = "extracted" THEN extracted(out) ELSE <<>>

LEMMA Maxima ==
  ASSUME NEW t \in Tests
  PROVE  /\ MaxScore[t] \in Nat \ {0} /\ Weight[t] \in Nat \ {0}
         /\ \A n \in 0..MaxScore[t] : json(t, n) \in ScoreLines
  <1>1. MaxScore[t] \in Nat \ {0} /\ Weight[t] \in Nat \ {0}
    BY ScoresAssumption
  <1>2. ASSUME NEW n \in 0..MaxScore[t] PROVE json(t, n) \in ScoreLines
    <2>1. n \in Int /\ Task[t] \in {Task[u] : u \in Tests}
      BY <1>1
    <2>2. json(t, n) \in Score
      BY <1>1, <2>1 DEF json, Score
    <2>3. QED
      BY <2>2 DEF ScoreLines
  <1>3. QED
    BY <1>1, <1>2

LEMMA RegistryInit == ScoresInit => ScoresInv
  <1>1. SUFFICES ASSUME ScoresInit PROVE ScoresInv
    OBVIOUS
  <1>2. ASSUME NEW t \in Tests PROVE scores[t].score \in 0..MaxScore[t]
    BY <1>1, Maxima DEF ScoresInit
  <1>3. scores \in [Tests -> [score : Int, state : {"ready", "begun", "failed"}]]
    BY <1>1 DEF ScoresInit
  <1>4. out \in Seq(ScoreLines) /\ prints \in 0..MaxPrints
    BY <1>1, ScoresAssumption DEF ScoresInit
  <1>5. QED
    BY <1>1, <1>2, <1>3, <1>4 DEF ScoresInit, ScoresInv

LEMMA TestInfoStep ==
  ASSUME ScoresInv, PrintTestInfo PROVE ScoresInv'
  <1>1. ASSUME NEW i \in DOMAIN Registered PROVE json(Registered[i], 0) \in ScoreLines
    <2>1. Registered[i] \in Tests
      BY DEF Tests, Range
    <2>2. QED
      BY <2>1, Maxima
  <1>2. [i \in DOMAIN Registered |-> json(Registered[i], 0)] \in Seq(ScoreLines)
    <2>1. PICK n \in Nat : DOMAIN Registered = 1..n
      BY ScoresAssumption
    <2>2. QED
      BY <1>1, <2>1
  <1>3. out' \in Seq(ScoreLines)
    <2>1. out' = <<>> \/ out' = [i \in DOMAIN Registered |-> json(Registered[i], 0)]
      BY DEF PrintTestInfo
    <2>2. <<>> \in Seq(ScoreLines)
      BY EmptySeq
    <2> HIDE DEF ScoreLines
    <2>3. QED
      BY <1>2, <2>1, <2>2
  <1>4. QED
    BY <1>3 DEF PrintTestInfo, ScoresInv

(* A score object gets another score, within its maximum.                     *)
LEMMA ObjectStep ==
  ASSUME ScoresInv, NEW t \in Tests, NEW n \in 0..MaxScore[t], NEW state \in {"ready", "begun", "failed"},
         phase = "running",
         scores' = [scores EXCEPT ![t] = [score |-> n, state |-> state]]
  PROVE  /\ scores' \in [Tests -> [score : Int, state : {"ready", "begun", "failed"}]]
         /\ \A u \in Tests : scores'[u].score \in 0..MaxScore[u]
  <1>1. n \in Int
    BY Maxima
  <1>2. scores' \in [Tests -> [score : Int, state : {"ready", "begun", "failed"}]]
    BY <1>1 DEF ScoresInv
  <1>3. ASSUME NEW u \in Tests PROVE scores'[u].score \in 0..MaxScore[u]
    <2>1. CASE u = t
      BY <2>1 DEF ScoresInv
    <2>2. CASE u # t
      BY <2>2 DEF ScoresInv
    <2>3. QED
      BY <2>1, <2>2
  <1>4. QED
    BY <1>2, <1>3

LEMMA BeginStep ==
  ASSUME ScoresInv, NEW t \in Tests, NEW n \in 0..MaxScore[t], Begin(t, n)
  PROVE  ScoresInv'
  <1>1. scores' = [scores EXCEPT ![t] = [score |-> n, state |-> "begun"]]
    BY DEF Begin, ScoresInv
  <1>2. phase = "running" /\ phase' = phase /\ out' = out /\ results' = results /\ prints' = prints
    BY DEF Begin
  <1>3. QED
    BY <1>1, <1>2, ObjectStep DEF ScoresInv

LEMMA SetScoreStep ==
  ASSUME ScoresInv, NEW t \in Tests, NEW n \in 0..MaxScore[t], SetScore(t, n)
  PROVE  ScoresInv'
  <1>1. scores' = [scores EXCEPT ![t] = [score |-> n, state |-> "begun"]]
    <2>1. scores[t] \in [score : Int, state : {"ready", "begun", "failed"}] /\ scores[t].state = "begun"
      BY DEF SetScore, ScoresInv
    <2>2. [scores[t] EXCEPT !.score = n] = [score |-> n, state |-> "begun"]
      BY <2>1
    <2>3. scores' = [scores EXCEPT ![t] = [scores[t] EXCEPT !.score = n]]
      BY DEF SetScore
    <2>4. QED
      BY <2>2, <2>3
  <1>2. phase = "running" /\ phase' = phase /\ out' = out /\ results' = results /\ prints' = prints
    BY DEF SetScore
  <1>3. QED
    BY <1>1, <1>2, ObjectStep DEF ScoresInv

LEMMA PrintStep ==
  ASSUME ScoresInv, NEW t \in Tests, NEW panics \in BOOLEAN, Print_(t, panics)
  PROVE  ScoresInv'
  <1> DEFINE n == IF panics THEN 0 ELSE scores[t].score
  <1>1. n \in 0..MaxScore[t]
    BY Maxima DEF ScoresInv
  <1>2. /\ phase = "running" /\ phase' = phase /\ results' = results
        /\ prints < MaxPrints /\ prints' = prints + 1
        /\ out' = Append(out, json(t, n))
        /\ scores' = [scores EXCEPT ![t] = [score |-> n, state |-> IF panics THEN "failed" ELSE "begun"]]
    BY DEF Print_
  <1> HIDE DEF n
  <1>3. out' \in Seq(ScoreLines)
    BY <1>1, <1>2, Maxima DEF ScoresInv
  <1>4. prints' \in 0..MaxPrints
    BY <1>2, ScoresAssumption DEF ScoresInv
  <1>5. (IF panics THEN "failed" ELSE "begun") \in {"ready", "begun", "failed"}
    OBVIOUS
  <1>6. QED
    BY <1>1, <1>2, <1>3, <1>4, <1>5, ObjectStep DEF ScoresInv

LEMMA TruncateStep ==
  ASSUME ScoresInv, truncateLog PROVE ScoresInv'
  <1>1. PICK i \in 1..Len(out) : \E j \in i..Len(out) :
          out' = SubSeq(out, 1, i - 1) \o SubSeq(out, j + 1, Len(out))
    BY DEF truncateLog
  <1>2. PICK j \in i..Len(out) : out' = SubSeq(out, 1, i - 1) \o SubSeq(out, j + 1, Len(out))
    BY <1>1
  <1>3. out \in Seq(ScoreLines) /\ Len(out) \in Nat
    BY DEF ScoresInv
  <1>4. SubSeq(out, 1, i - 1) \in Seq(ScoreLines) /\ SubSeq(out, j + 1, Len(out)) \in Seq(ScoreLines)
    BY <1>3
  <1>5. out' \in Seq(ScoreLines)
    BY <1>2, <1>4
  <1>6. QED
    BY <1>5 DEF truncateLog, ScoresInv

LEMMA ScoresStep == ScoresInv /\ [ScoresNext]_scoreVars => ScoresInv'
  <1>1. SUFFICES ASSUME ScoresInv, [ScoresNext]_scoreVars PROVE ScoresInv'
    OBVIOUS
  <1>2. CASE RunEnds
    BY <1>1, <1>2 DEF RunEnds, ScoresInv
  <1>3. CASE ExtractResults
    BY <1>1, <1>3 DEF ExtractResults, ScoresInv
  <1>4. CASE UNCHANGED scoreVars
    BY <1>1, <1>4 DEF scoreVars, ScoresInv
  <1>5. ASSUME NEW t \in Tests,
               MinByName(t) \/ MaxByName(t) \/ \E k \in 1..2 : IncBy(t, k) \/ DecBy(t, k)
        PROVE  ScoresInv'
    <2>1. scores[t].score \in 0..MaxScore[t] /\ MaxScore[t] \in Nat
      BY <1>1, Maxima DEF ScoresInv
    <2>2. CASE MinByName(t)
      BY <1>1, <2>1, <2>2, BeginStep DEF MinByName
    <2>3. CASE MaxByName(t)
      BY <1>1, <2>1, <2>3, BeginStep DEF MaxByName
    <2>4. ASSUME NEW k \in 1..2, IncBy(t, k) \/ DecBy(t, k) PROVE ScoresInv'
      <3>1. /\ (IF scores[t].score + k < MaxScore[t] THEN scores[t].score + k ELSE MaxScore[t])
                    \in 0..MaxScore[t]
            /\ (IF scores[t].score - k > 0 THEN scores[t].score - k ELSE 0) \in 0..MaxScore[t]
        BY <2>1
      <3>2. QED
        BY <1>1, <2>4, <3>1, SetScoreStep DEF IncBy, DecBy
    <2>5. QED
      BY <1>5, <2>2, <2>3, <2>4
  <1>6. QED
    BY <1>1, <1>2, <1>3, <1>4, <1>5, TestInfoStep, PrintStep, TruncateStep DEF ScoresNext

-----------------------------------------------------------------------------
(* Adding a score.                                                          *)

LEMMA AddScoreType ==
  ASSUME NEW r \in Seq(Score), NEW sc \in Score
  PROVE  addScore(r, sc) \in Seq(Score)
  <1>1. Append(r, sc) \in Seq(Score)
    OBVIOUS
  <1>2. DOMAIN r = 1..Len(r) /\ Len(r) \in Nat /\ \A i \in DOMAIN r : r[i] \in Score
    OBVIOUS
  <1>3. [sc EXCEPT !.Score = -1] \in Score
    <2>1. -1 \in Int
      OBVIOUS
    <2>2. PICK n \in Int : n = -1
      BY <2>1
    <2>3. [sc EXCEPT !.Score = n] \in Score
      BY DEF Score
    <2>4. QED
      BY <2>2, <2>3
  <1> DEFINE s == [i \in DOMAIN r |->
                     IF i \notin Recorded(r, sc) THEN r[i]
                     ELSE IF r[i].Score # 0 THEN [sc EXCEPT !.Score = -1] ELSE sc]
  <1>4. \A i \in 1..Len(r) : s[i] \in Score
    BY <1>2, <1>3
  <1>5. s \in Seq(Score)
    BY <1>2, <1>4
  <1>6. QED
    BY <1>1, <1>5 DEF addScore

LEMMA ZeroScoresAre ==
  /\ ZeroScoreTests \in Seq(Score) /\ DOMAIN ZeroScoreTests = 1..Len(Expected)
  /\ \A i \in 1..Len(Expected) :
        /\ Expected[i] \in Tests
        /\ ZeroScoreTests[i] = [TestName |-> Expected[i], TaskName |-> NoTask, Score |-> 0,
                               MaxScore |-> MaxScore[Expected[i]], Weight |-> Weight[Expected[i]]]
  <1>1. Expected \in Seq(Tests) /\ Len(Expected) \in Nat /\ DOMAIN Expected = 1..Len(Expected)
    BY ScoresAssumption
  <1>2. ASSUME NEW i \in 1..Len(Expected)
        PROVE  /\ Expected[i] \in Tests /\ ZeroScoreTests[i] \in Score
               /\ ZeroScoreTests[i] = [TestName |-> Expected[i], TaskName |-> NoTask, Score |-> 0,
                    MaxScore |-> MaxScore[Expected[i]], Weight |-> Weight[Expected[i]]]
    <2>1. Expected[i] \in Tests
      BY <1>1
    <2>2. ZeroScoreTests[i] = [json(Expected[i], 0) EXCEPT !.TaskName = NoTask]
      BY <1>1 DEF ZeroScoreTests
    <2>3. ZeroScoreTests[i] = [TestName |-> Expected[i], TaskName |-> NoTask, Score |-> 0,
                    MaxScore |-> MaxScore[Expected[i]], Weight |-> Weight[Expected[i]]]
      BY <2>2 DEF json
    <2>4. ZeroScoreTests[i] \in Score
      <3>1. MaxScore[Expected[i]] \in Nat \ {0} /\ Weight[Expected[i]] \in Nat \ {0}
        BY <2>1, Maxima
      <3>2. NoTask \in {NoTask} \union {Task[t] : t \in Tests} /\ 0 \in Int
        OBVIOUS
      <3>3. PICK m \in Nat \ {0}, w \in Nat \ {0} : m = MaxScore[Expected[i]] /\ w = Weight[Expected[i]]
        BY <3>1
      <3>4. QED
        BY <2>1, <2>3, <3>2, <3>3 DEF Score
    <2>5. QED
      BY <2>1, <2>3, <2>4
  <1>3. ZeroScoreTests = [i \in 1..Len(Expected) |-> ZeroScoreTests[i]]
    BY <1>1 DEF ZeroScoreTests
  <1>4. ZeroScoreTests \in Seq(Score)
    <2>1. \A i \in 1..Len(Expected) : ZeroScoreTests[i] \in Score
      BY <1>2
    <2> HIDE DEF Score
    <2>2. QED
      BY <1>1, <1>3, <2>1
  <1>5. QED
    BY <1>2, <1>3, <1>4

(* The expected tests have different names, so each adds its zero score.       *)
LEMMA ExpectedFirst == expectedResults = ZeroScoreTests
  <1> DEFINE n == Len(Expected)
             Z == ZeroScoreTests
             G == [x \in (1..n) \X Seq(Score) |-> addScore(x[2], Z[x[1]])]
             Eqn(g) == g = [i \in 0..n |-> IF i = 0 THEN <<>> ELSE addScore(g[i - 1], Z[i])]
             s == CHOOSE g : Eqn(g)
  <1>1. n \in Nat
    BY ScoresAssumption
  <1>2. Z \in Seq(Score) /\ DOMAIN Z = 1..n /\ \A i \in 1..n : Z[i] \in Score
    <2>1. Z \in Seq(Score) /\ DOMAIN Z = 1..n
      BY ZeroScoresAre
    <2> HIDE DEF Z, n
    <2>2. \A i \in DOMAIN Z : Z[i] \in Score
      BY <2>1, LenProperties
    <2>3. QED
      BY <2>1, <2>2
  <1>3. \A i, j \in 1..n : Z[i].TestName = Z[j].TestName => i = j
    <2>1. \A i \in 1..n : Z[i].TestName = Expected[i]
      <3>1. TAKE i \in 1..n
      <3>2. Z[i] = [TestName |-> Expected[i], TaskName |-> NoTask, Score |-> 0,
                    MaxScore |-> MaxScore[Expected[i]], Weight |-> Weight[Expected[i]]]
        BY ZeroScoresAre
      <3> HIDE DEF Z
      <3>3. QED
        BY <3>2
    <2>2. DOMAIN Expected = 1..n
      BY ScoresAssumption
    <2> HIDE DEF Z, n
    <2>3. QED
      BY <2>1, <2>2, ScoresAssumption
  <1>4. expectedResults = s[n]
    BY DEF expectedResults
  <1> HIDE DEF n, Z
  <1>5. PICK h \in [0..n -> Seq(Score)] : Follows(h, <<>>, G, n)
    <2>1. G \in [(1..n) \X Seq(Score) -> Seq(Score)]
      <3>1. ASSUME NEW x \in (1..n) \X Seq(Score) PROVE addScore(x[2], Z[x[1]]) \in Seq(Score)
        BY <1>2, AddScoreType
      <3>2. QED
        BY <3>1
    <2>2. <<>> \in Seq(Score)
      BY EmptySeq
    <2> HIDE DEF G
    <2>3. QED
      BY <1>1, <2>1, <2>2, RecursionUpTo
  <1>6. \A i \in 1..n : h[i] = addScore(h[i - 1], Z[i])
    <2>1. TAKE i \in 1..n
    <2>2. h[i - 1] \in Seq(Score) /\ <<i, h[i - 1]>> \in (1..n) \X Seq(Score)
      BY <1>1
    <2>3. QED
      BY <2>2, <1>5 DEF Follows
  <1>7. Eqn(h)
    BY <1>5, <1>6 DEF Follows
  <1>8. Eqn(s)
    BY <1>7
  <1> HIDE DEF s
  <1> DEFINE First(i) == [k \in 1..i |-> Z[k]]
             S == {i \in 0..n : s[i] = First(i)}
  <1>9. 0 \in S
    BY <1>1, <1>8
  <1>10. ASSUME NEW i \in 1..n, i - 1 \in S PROVE i \in S
    <2>1. s[i] = addScore(First(i - 1), Z[i])
      BY <1>8, <1>10
    <2>2. i - 1 \in Nat /\ DOMAIN First(i - 1) = 1..(i - 1)
      BY <1>1
    <2>3. \A k \in 1..(i - 1) : k \in 1..n /\ k # i /\ First(i - 1)[k] = Z[k]
      BY <1>1
    <2>4. First(i - 1) \in Seq(Score) /\ Len(First(i - 1)) = i - 1
      BY <1>2, <2>2, <2>3
    <2>5. Recorded(First(i - 1), Z[i]) = {}
      BY <1>3, <2>2, <2>3 DEF Recorded
    <2>6. s[i] = Append(First(i - 1), Z[i])
      BY <2>1, <2>5 DEF addScore
    <2>7. Append(First(i - 1), Z[i]) = First(i)
      <3>1. /\ DOMAIN Append(First(i - 1), Z[i]) = 1..i
            /\ Append(First(i - 1), Z[i]) = [k \in 1..i |-> Append(First(i - 1), Z[i])[k]]
        BY <2>4, <1>2
      <3>2. ASSUME NEW k \in 1..i PROVE Append(First(i - 1), Z[i])[k] = Z[k]
        <4>1. CASE k = i
          BY <2>4, <4>1
        <4>2. CASE k # i
          <5>1. k \in 1..(i - 1)
            BY <4>2
          <5>2. Append(First(i - 1), Z[i])[k] = First(i - 1)[k]
            BY <2>4, <5>1
          <5>3. QED
            BY <5>1, <5>2
        <4>3. QED
          BY <4>1, <4>2
      <3>3. QED
        BY <3>1, <3>2
    <2>8. i \in 0..n
      OBVIOUS
    <2> HIDE DEF First
    <2>9. QED
      BY <2>6, <2>7, <2>8
  <1>11. n \in S
    <2> HIDE DEF S
    <2>1. 0..n \subseteq S
      BY <1>1, <1>9, <1>10, UpTo
    <2>2. QED
      BY <1>1, <2>1
  <1>12. s[n] = Z
    BY <1>2, <1>11
  <1>13. QED
    BY <1>4, <1>12 DEF Z

-----------------------------------------------------------------------------
(* What is recorded for a test after the first i lines.                       *)

LinesBefore(t, i) == {j \in 1..i : out[j].TestName = t}

(* The line j is the last one of t among the first i, and its only score.       *)
Final(t, i, j) ==
    /\ j \in LinesBefore(t, i) /\ out[j].Score > 0
    /\ \A k \in LinesBefore(t, i) \ {j} : k < j /\ out[k].Score = 0

(* A line of t among the first i follows one that is not zero.                 *)
Faulty(t, i) == \E j, k \in LinesBefore(t, i) : j < k /\ out[j].Score > 0

ResultOf(sc, t, i) ==
    /\ sc.TestName = t /\ sc.MaxScore = MaxScore[t] /\ sc.Weight = Weight[t]
    /\ sc.TaskName = IF LinesBefore(t, i) = {} THEN NoTask ELSE Task[t]
    /\ \/ sc.Score = 0 /\ \A j \in LinesBefore(t, i) : out[j].Score = 0
       \/ \E j \in 1..i : Final(t, i, j) /\ sc.Score = out[j].Score
       \/ sc.Score = -1 /\ Faulty(t, i)

ResultsOf(r, i) ==
    /\ r \in Seq(Score) /\ Len(r) = Len(Expected)
    /\ \A k \in 1..Len(Expected) : ResultOf(r[k], Expected[k], i)

LEMMA PrintedLine ==
  ASSUME out \in Seq(ScoreLines), NEW i \in 1..Len(out)
  PROVE  \E t \in Tests : \E n \in 0..MaxScore[t] :
            /\ out[i] \in Score
            /\ out[i] = [TestName |-> t, TaskName |-> Task[t], Score |-> n,
                         MaxScore |-> MaxScore[t], Weight |-> Weight[t]]
  <1>1. out[i] \in ScoreLines
    BY ElementOfSeq
  <1>2. QED
    BY <1>1 DEF ScoreLines, json

LEMMA BeforeNext ==
  ASSUME NEW t, NEW i \in Nat \ {0}
  PROVE  LinesBefore(t, i) = IF out[i].TestName = t THEN LinesBefore(t, i - 1) \union {i}
                             ELSE LinesBefore(t, i - 1)
  <1>1. 1..i = 1..(i - 1) \union {i}
    OBVIOUS
  <1>2. QED
    BY <1>1 DEF LinesBefore

(* A line of another test changes nothing.                                    *)
LEMMA OtherLine ==
  ASSUME NEW t, NEW i \in Nat \ {0}, NEW sc, ResultOf(sc, t, i - 1), out[i].TestName # t
  PROVE  ResultOf(sc, t, i)
  <1>1. LinesBefore(t, i) = LinesBefore(t, i - 1)
    BY BeforeNext
  <1>2. \A j : Final(t, i, j) <=> Final(t, i - 1, j)
    BY <1>1 DEF Final
  <1>3. Faulty(t, i) <=> Faulty(t, i - 1)
    BY <1>1 DEF Faulty
  <1>4. 1..(i - 1) \subseteq 1..i
    OBVIOUS
  <1>5. QED
    BY <1>1, <1>2, <1>3, <1>4 DEF ResultOf

(* The scores of lines that were read are natural numbers.                    *)
LEMMA OwnLine ==
  ASSUME NEW t, NEW i \in Nat \ {0}, NEW sc, NEW n \in Nat, ResultOf(sc, t, i - 1), sc.Score \in Int,
         out[i] = [TestName |-> t, TaskName |-> Task[t], Score |-> n,
                   MaxScore |-> MaxScore[t], Weight |-> Weight[t]]
  PROVE  ResultOf(IF sc.Score # 0 THEN [out[i] EXCEPT !.Score = -1] ELSE out[i], t, i)
  <1> DEFINE L == LinesBefore(t, i - 1)
  <1>1. LinesBefore(t, i) = L \union {i} /\ L \subseteq 1..(i - 1)
    BY BeforeNext DEF LinesBefore
  <1>2. /\ out[i].TestName = t /\ out[i].TaskName = Task[t] /\ out[i].Score = n
        /\ out[i].MaxScore = MaxScore[t] /\ out[i].Weight = Weight[t]
    OBVIOUS
  <1>3. CASE sc.Score = 0
    <2>1. \A j \in L : out[j].Score = 0
      BY <1>3 DEF ResultOf, Final
    <2>2. CASE n = 0
      <3>1. \A j \in LinesBefore(t, i) : out[j].Score = 0
        BY <1>1, <1>2, <2>1, <2>2
      <3>2. QED
        BY <3>1, <1>1, <1>2, <1>3, <2>2 DEF ResultOf
    <2>3. CASE n # 0
      <3>1. \A k \in LinesBefore(t, i) \ {i} : k < i /\ out[k].Score = 0
        BY <1>1, <2>1
      <3>2. Final(t, i, i)
        BY <1>1, <1>2, <2>3, <3>1 DEF Final
      <3>3. i \in 1..i
        OBVIOUS
      <3>4. QED
        BY <3>2, <3>3, <1>1, <1>2, <1>3 DEF ResultOf
    <2>4. QED
      BY <2>2, <2>3
  <1>4. CASE sc.Score # 0
    <2>1. Faulty(t, i)
      <3>1. CASE \E j \in 1..(i - 1) : Final(t, i - 1, j) /\ sc.Score = out[j].Score
        <4>1. PICK j \in 1..(i - 1) : Final(t, i - 1, j)
          BY <3>1
        <4>2. j \in L /\ out[j].Score > 0 /\ j < i
          BY <4>1 DEF Final
        <4>3. QED
          BY <1>1, <4>2 DEF Faulty
      <3>2. CASE Faulty(t, i - 1)
        BY <1>1, <3>2 DEF Faulty
      <3>3. QED
        BY <1>4, <3>1, <3>2 DEF ResultOf
    <2> DEFINE fault == [out[i] EXCEPT !.Score = -1]
    <2>2. /\ fault.TestName = t /\ fault.TaskName = Task[t] /\ fault.Score = -1
          /\ fault.MaxScore = MaxScore[t] /\ fault.Weight = Weight[t]
      OBVIOUS
    <2> HIDE DEF fault
    <2>3. ResultOf(fault, t, i)
      BY <2>1, <2>2, <1>1 DEF ResultOf
    <2>4. QED
      BY <1>4, <2>3 DEF fault
  <1>5. QED
    BY <1>3, <1>4

(* One more line: it is added if it is of an expected test.                    *)
LEMMA LineAdded ==
  ASSUME out \in Seq(ScoreLines), NEW i \in 1..Len(out), NEW r, ResultsOf(r, i - 1)
  PROVE  ResultsOf(IF parse(out[i]) THEN addScore(r, out[i]) ELSE r, i)
  <1> DEFINE n == Len(Expected)
             l == out[i]
  <1>1. PICK t \in Tests : \E m \in 0..MaxScore[t] :
          /\ l \in Score
          /\ l = [TestName |-> t, TaskName |-> Task[t], Score |-> m,
                  MaxScore |-> MaxScore[t], Weight |-> Weight[t]]
    BY PrintedLine
  <1>2. PICK m \in 0..MaxScore[t] :
          l = [TestName |-> t, TaskName |-> Task[t], Score |-> m,
               MaxScore |-> MaxScore[t], Weight |-> Weight[t]]
    BY <1>1
  <1>3. l.TestName = t /\ isValid(l)
    BY <1>2, Maxima DEF isValid
  <1>4. n \in Nat /\ DOMAIN Expected = 1..n /\ \A j, k \in 1..n : Expected[j] = Expected[k] => j = k
    BY ScoresAssumption
  <1>5. /\ r \in Seq(Score) /\ Len(r) = n /\ DOMAIN r = 1..n
        /\ \A k \in 1..n : ResultOf(r[k], Expected[k], i - 1) /\ r[k].TestName = Expected[k]
    <2>1. r \in Seq(Score) /\ Len(r) = n /\ \A k \in 1..n : ResultOf(r[k], Expected[k], i - 1)
      BY DEF ResultsOf
    <2>2. \A k \in 1..n : r[k].TestName = Expected[k]
      BY <2>1 DEF ResultOf
    <2>3. DOMAIN r = 1..n
      BY <2>1, LenProperties
    <2>4. QED
      BY <2>1, <2>2, <2>3
  <1>6. m \in Nat /\ i \in Nat \ {0} /\ \A k \in 1..n : r[k].Score \in Int
    <2>1. \A k \in 1..n : r[k] \in Score
      BY <1>5, ElementOfSeq
    <2>2. \A k \in 1..n : r[k].Score \in Int
      BY <2>1 DEF Score
    <2>3. QED
      BY <2>2, Maxima
  <1> HIDE DEF n
  <1>7. ASSUME NEW k \in 1..n, Expected[k] # t PROVE ResultOf(r[k], Expected[k], i)
    BY <1>3, <1>5, <1>6, <1>7, OtherLine
  <1>8. CASE \E k \in 1..n : Expected[k] = t
    <2>1. PICK k \in 1..n : Expected[k] = t
      BY <1>8
    <2> DEFINE new == IF r[k].Score # 0 THEN [l EXCEPT !.Score = -1] ELSE l
               s == addScore(r, l)
    <2>2. parse(l)
      BY <1>3, <1>4, <2>1 DEF parse
    <2>3. Recorded(r, l) = {k}
      BY <1>3, <1>4, <1>5, <2>1 DEF Recorded
    <2>4. s = [j \in 1..n |-> IF j \notin {k} THEN r[j]
                             ELSE IF r[j].Score # 0 THEN [l EXCEPT !.Score = -1] ELSE l]
      BY <1>5, <2>3 DEF addScore
    <2>5. ResultOf(new, Expected[k], i)
      BY <1>2, <1>5, <1>6, <2>1, OwnLine
    <2>6. s \in Seq(Score)
      BY <1>1, <1>5, AddScoreType
    <2>7. Len(s) = n /\ s[k] = new /\ \A j \in 1..n : j # k => s[j] = r[j]
      <3>1. DOMAIN s = 1..n
        BY <2>4
      <3>2. Len(s) = n
        BY <1>4, <2>6, <3>1
      <3>3. QED
        BY <2>4, <3>2
    <2> HIDE DEF s, new
    <2>8. ASSUME NEW j \in 1..n PROVE ResultOf(s[j], Expected[j], i)
      <3>1. CASE j = k
        BY <2>5, <2>7, <3>1
      <3>2. CASE j # k
        BY <1>4, <1>7, <2>1, <2>7, <3>2
      <3>3. QED
        BY <3>1, <3>2
    <2>9. ResultsOf(s, i)
      BY <2>6, <2>7, <2>8 DEF ResultsOf, n
    <2>10. QED
      BY <2>2, <2>9 DEF s
  <1>9. CASE ~ \E k \in 1..n : Expected[k] = t
    <2>1. ~ parse(l)
      BY <1>3, <1>4, <1>9 DEF parse
    <2>2. ResultsOf(r, i)
      BY <1>5, <1>7, <1>9 DEF ResultsOf, n
    <2>3. QED
      BY <2>1, <2>2
  <1>10. QED
    BY <1>8, <1>9

LEMMA ExtractedResults ==
  ASSUME out \in Seq(ScoreLines)
  PROVE  ResultsOf(extracted(out), Len(out))
  <1> DEFINE n == Len(out)
             Step(r, i) == IF parse(out[i]) THEN addScore(r, out[i]) ELSE r
             G == [x \in (1..n) \X Seq(Score) |-> Step(x[2], x[1])]
             Eqn(g) == g = [i \in 0..n |-> IF i = 0 THEN expectedResults
                                           ELSE IF parse(out[i]) THEN addScore(g[i - 1], out[i])
                                           ELSE g[i - 1]]
             s == CHOOSE g : Eqn(g)
  <1>1. n \in Nat
    OBVIOUS
  <1>2. extracted(out) = s[n]
    BY DEF extracted
  <1>3. PICK h \in [0..n -> Seq(Score)] : Follows(h, expectedResults, G, n)
    <2>1. ASSUME NEW x \in (1..n) \X Seq(Score) PROVE Step(x[2], x[1]) \in Seq(Score)
      <3>1. x[1] \in 1..n /\ x[2] \in Seq(Score)
        OBVIOUS
      <3>2. out[x[1]] \in Score
        BY <3>1, PrintedLine
      <3>3. QED
        BY <3>1, <3>2, AddScoreType
    <2> HIDE DEF Step
    <2>2. G \in [(1..n) \X Seq(Score) -> Seq(Score)]
      BY <2>1
    <2>3. expectedResults \in Seq(Score)
      BY ExpectedFirst, ZeroScoresAre
    <2> HIDE DEF G, n
    <2>4. QED
      BY <1>1, <2>2, <2>3, RecursionUpTo
  <1>4. \A i \in 1..n : h[i] = Step(h[i - 1], i)
    <2>1. TAKE i \in 1..n
    <2>2. h[i - 1] \in Seq(Score) /\ <<i, h[i - 1]>> \in (1..n) \X Seq(Score)
      <3> HIDE DEF n
      <3>1. i - 1 \in 0..n
        BY <1>1
      <3>2. QED
        BY <3>1
    <2> HIDE DEF Step
    <2>3. QED
      BY <2>2, <1>3 DEF Follows
  <1>5. Eqn(h)
    BY <1>3, <1>4 DEF Follows
  <1>6. Eqn(s)
    BY <1>5
  <1> HIDE DEF s
  <1>7. s[0] = ZeroScoreTests /\ \A i \in 1..n : s[i] = Step(s[i - 1], i)
    <2>1. s[0] = expectedResults
      BY <1>1, <1>6
    <2>2. ASSUME NEW i \in 1..n PROVE s[i] = Step(s[i - 1], i)
      <3>1. i \in 0..n /\ i # 0
        OBVIOUS
      <3>2. s = [j \in 0..n |-> IF j = 0 THEN expectedResults ELSE Step(s[j - 1], j)]
        BY <1>6
      <3> HIDE DEF Step, n
      <3>3. QED
        BY <3>1, <3>2
    <2>3. QED
      BY <2>1, <2>2, ExpectedFirst
  <1> DEFINE S == {i \in 0..n : ResultsOf(s[i], i)}
  <1>8. 0 \in S
    <2>1. Len(ZeroScoreTests) = Len(Expected)
      BY ZeroScoresAre, ScoresAssumption
    <2>2. ASSUME NEW k \in 1..Len(Expected) PROVE ResultOf(ZeroScoreTests[k], Expected[k], 0)
      <3>1. LinesBefore(Expected[k], 0) = {}
        BY DEF LinesBefore
      <3>2. QED
        BY <3>1, ZeroScoresAre DEF ResultOf
    <2>3. ResultsOf(ZeroScoreTests, 0)
      BY <2>1, <2>2, ZeroScoresAre DEF ResultsOf
    <2>4. QED
      BY <1>1, <1>7, <2>3
  <1>9. ASSUME NEW i \in 1..n, i - 1 \in S PROVE i \in S
    BY <1>7, <1>9, LineAdded
  <1>10. n \in S
    <2> HIDE DEF S, Step
    <2>1. 0..n \subseteq S
      BY <1>1, <1>8, <1>9, UpTo
    <2>2. QED
      BY <1>1, <2>1
  <1>11. QED
    BY <1>2, <1>10

-----------------------------------------------------------------------------
(* What the tests have earned is what counts of their results.                 *)

LEMMA ResultEarned ==
  ASSUME out \in Seq(ScoreLines), NEW t \in Tests, NEW sc \in Score, ResultOf(sc, t, Len(out))
  PROVE  testScore(sc) = Earned(t) /\ Earned(t) \in 0..MaxScore[t]
  <1> DEFINE n == Len(out)
             F == {i \in LinesOf(t) :
                     out[i].Score > 0 /\ \A j \in LinesOf(t) \ {i} : j < i /\ out[j].Score = 0}
  <1>1. n \in Nat /\ LinesOf(t) = LinesBefore(t, n) /\ LinesOf(t) \subseteq 1..n
    BY DEF LinesOf, LinesBefore
  <1>2. Earned(t) = IF F = {} THEN 0 ELSE out[CHOOSE i \in F : TRUE].Score
    BY DEF Earned
  <1>3. \A i : i \in F <=> Final(t, n, i)
    BY <1>1 DEF Final
  <1>4. ASSUME NEW i \in F, NEW j \in F PROVE i = j
    <2>1. i \in 1..n /\ j \in 1..n /\ (i # j => i < j /\ j < i)
      BY <1>1, <1>4
    <2>2. QED
      BY <2>1
  <1>5. \A i \in F : out[i].Score \in 1..MaxScore[t]
    <2>1. TAKE i \in F
    <2>2. i \in 1..Len(out) /\ out[i].TestName = t /\ out[i].Score > 0
      BY <1>1 DEF LinesOf
    <2>3. PICK u \in Tests : \E m \in 0..MaxScore[u] :
            out[i] = [TestName |-> u, TaskName |-> Task[u], Score |-> m,
                      MaxScore |-> MaxScore[u], Weight |-> Weight[u]]
      BY <2>2, PrintedLine
    <2>4. out[i].TestName = u /\ out[i].Score \in 0..MaxScore[u]
      BY <2>3
    <2>5. QED
      BY <2>2, <2>4, Maxima
  <1>6. sc.MaxScore = MaxScore[t] /\ MaxScore[t] \in Nat \ {0}
    BY Maxima DEF ResultOf
  <1> HIDE DEF F
  <1>7. CASE F = {}
    <2>1. Earned(t) = 0
      BY <1>2, <1>7
    <2>2. sc.Score = 0 \/ sc.Score = -1
      BY <1>3, <1>7 DEF ResultOf
    <2>3. QED
      BY <2>1, <2>2, <1>6 DEF testScore
  <1>8. CASE F # {}
    <2>1. PICK i \in F : i = CHOOSE j \in F : TRUE
      BY <1>8
    <2>2. Earned(t) = out[i].Score /\ out[i].Score \in 1..MaxScore[t]
      BY <1>2, <1>5, <1>8, <2>1
    <2>3. Final(t, n, i)
      BY <1>3
    <2>4. ~ \A j \in LinesBefore(t, n) : out[j].Score = 0
      BY <2>3 DEF Final
    <2>5. ~ Faulty(t, n)
      <3>1. SUFFICES ASSUME NEW j \in LinesBefore(t, n), NEW k \in LinesBefore(t, n),
                            j < k, out[j].Score > 0
                     PROVE  FALSE
        BY DEF Faulty
      <3>2. j \in 1..n /\ k \in 1..n /\ i \in 1..n /\ (k # i => k < i) /\ (j # i => out[j].Score = 0)
        BY <2>3 DEF Final, LinesBefore
      <3>3. QED
        BY <3>1, <3>2
    <2>6. \A j : Final(t, n, j) => j = i
      BY <1>3, <1>4
    <2>7. sc.Score = out[i].Score
      BY <2>4, <2>5, <2>6 DEF ResultOf
    <2>8. QED
      BY <2>2, <2>7, <1>6 DEF testScore
  <1>9. QED
    BY <1>7, <1>8

LEMMA ExpectedEarned ==
  ASSUME out \in Seq(ScoreLines), NEW k \in DOMAIN Expected
  PROVE  LET r == extracted(out) IN
         /\ r \in Seq(Score) /\ Len(r) = Len(Expected) /\ DOMAIN r = DOMAIN Expected
         /\ r[k].Weight = Weight[Expected[k]] /\ r[k].MaxScore = MaxScore[Expected[k]]
         /\ r[k].TaskName = IF LinesOf(Expected[k]) = {} THEN NoTask ELSE Task[Expected[k]]
         /\ testScore(r[k]) = Earned(Expected[k])
         /\ Earned(Expected[k]) \in 0..MaxScore[Expected[k]]
  <1> DEFINE r == extracted(out)
  <1>1. r \in Seq(Score) /\ Len(r) = Len(Expected)
        /\ \A i \in 1..Len(Expected) : ResultOf(r[i], Expected[i], Len(out))
    BY ExtractedResults DEF ResultsOf
  <1>2. Expected \in Seq(Tests) /\ DOMAIN Expected = 1..Len(Expected)
    BY ScoresAssumption
  <1> HIDE DEF r
  <1>3. DOMAIN r = DOMAIN Expected
    BY <1>1, <1>2, LenProperties
  <1>4. r[k] \in Score /\ Expected[k] \in Tests /\ ResultOf(r[k], Expected[k], Len(out))
    BY <1>1, <1>2, <1>3, ElementOfSeq
  <1>5. LinesBefore(Expected[k], Len(out)) = LinesOf(Expected[k])
    BY DEF LinesBefore, LinesOf
  <1>6. testScore(r[k]) = Earned(Expected[k]) /\ Earned(Expected[k]) \in 0..MaxScore[Expected[k]]
    BY <1>4, ResultEarned
  <1>7. QED
    BY <1>1, <1>3, <1>4, <1>5, <1>6 DEF ResultOf, r

(* The weights and the points of the expected tests at the positions in T.      *)
Weights(T) == [i \in DOMAIN Expected |-> IF i \in T THEN Weight[Expected[i]] ELSE 0]
Points(T) ==
    [i \in DOMAIN Expected |->
        Earned(Expected[i]) * (Unit \div MaxScore[Expected[i]])
          * (IF i \in T THEN Weight[Expected[i]] ELSE 0)]

LEMMA WeightedIsShare ==
  ASSUME out \in Seq(ScoreLines), NEW T \in SUBSET DOMAIN Expected
  PROVE  weightedSum(extracted(out), T) = Share(T)
  <1> DEFINE r == extracted(out)
             w == [i \in DOMAIN r |-> IF i \in T THEN r[i].Weight ELSE 0]
             p == [i \in DOMAIN r |-> testScore(r[i]) * (Unit \div r[i].MaxScore) * w[i]]
  <1>1. weightedSum(r, T) = IF T = {} THEN 0
                            ELSE Round(100 * SumOf(p, Len(r)), Unit * SumOf(w, Len(r)))
    BY DEF weightedSum
  <1>2. ASSUME NEW k \in DOMAIN Expected
        PROVE  /\ Len(r) = Len(Expected) /\ DOMAIN r = DOMAIN Expected
               /\ r[k].Weight = Weight[Expected[k]] /\ r[k].MaxScore = MaxScore[Expected[k]]
               /\ testScore(r[k]) = Earned(Expected[k])
    BY ExpectedEarned
  <1> HIDE DEF r
  <1>3. CASE T = {}
    BY <1>1, <1>3 DEF Share, r
  <1>4. CASE T # {}
    <2>1. Len(r) = Len(Expected) /\ DOMAIN r = DOMAIN Expected
      BY <1>2, <1>4
    <2>2. w = Weights(T)
      BY <2>1, <1>2 DEF Weights
    <2>3. p = Points(T)
      <3>1. ASSUME NEW k \in DOMAIN Expected PROVE p[k] = Points(T)[k]
        <4>1. p[k] = testScore(r[k]) * (Unit \div r[k].MaxScore) * w[k]
          BY <2>1
        <4>2. w[k] = IF k \in T THEN Weight[Expected[k]] ELSE 0
          BY <2>1, <1>2
        <4> HIDE DEF w, p
        <4>3. QED
          BY <4>1, <4>2, <1>2 DEF Points
      <3>2. QED
        BY <3>1, <2>1 DEF Points
    <2> HIDE DEF w, p
    <2>4. QED
      BY <1>4, <2>1, <1>1, <2>2, <2>3 DEF Share, EarnedBy, WeightOf, Weights, Points, r
  <1>5. QED
    BY <1>3, <1>4

(* The units of one point.                                                   *)
LEMMA UnitsPerPoint ==
  ASSUME NEW t \in Tests
  PROVE  /\ Unit \div MaxScore[t] \in Nat \ {0}
         /\ (Unit \div MaxScore[t]) * MaxScore[t] = Unit
  <1>1. PICK m \in Nat \ {0} : m = MaxScore[t] /\ Unit % m = 0
    BY ScoresAssumption
  <1>2. PICK u \in Nat \ {0} : u = Unit
    BY ScoresAssumption
  <1>3. u \div m \in Int /\ u % m \in Int
    OBVIOUS
  <1>4. u = m * (u \div m) + (u % m)
    OBVIOUS
  <1>5. u % m = 0
    BY <1>1, <1>2
  <1>6. PICK q \in Int : q = u \div m
    BY <1>3
  <1>7. q = u \div m /\ u = m * q
    BY <1>4, <1>5, <1>6
  <1>8. q > 0
    <2>1. SUFFICES ASSUME q <= 0 PROVE FALSE
      OBVIOUS
    <2>2. m * q <= m * 0
      BY <2>1, LargerFactor
    <2>3. QED
      BY <1>7, <2>2
  <1>9. q * m = m * q
    OBVIOUS
  <1>10. QED
    BY <1>1, <1>2, <1>7, <1>8, <1>9

(* The points of a test are the whole of its weight, or what is missing is a    *)
(* unit of a point at least.                                                  *)
LEMMA PointsOf ==
  ASSUME NEW t \in Tests, NEW e \in 0..MaxScore[t], NEW w \in Nat
  PROVE  /\ e * (Unit \div MaxScore[t]) * w \in Nat
         /\ e * (Unit \div MaxScore[t]) * w <= Unit * w
         /\ e # MaxScore[t] =>
              e * (Unit \div MaxScore[t]) * w + (Unit \div MaxScore[t]) * w <= Unit * w
  <1>1. PICK m \in Nat \ {0} : m = MaxScore[t]
    BY Maxima
  <1>2. PICK q \in Nat \ {0} : q = Unit \div MaxScore[t] /\ q * m = Unit
    BY <1>1, UnitsPerPoint
  <1>3. e \in Nat /\ e <= m
    BY <1>1
  <1>4. PICK v \in Nat : v = q * w
    OBVIOUS
  <1>5. e * q * w = v * e /\ Unit * w = v * m
    <2>1. e * q * w = (q * w) * e
      BY <1>3
    <2>2. q * m * w = (q * w) * m
      OBVIOUS
    <2>3. QED
      BY <2>1, <2>2, <1>2, <1>4
  <1>6. v * e \in Nat /\ v * e <= v * m
    BY <1>3, LargerFactor
  <1>7. e # m => v * e + v <= v * m
    <2>1. SUFFICES ASSUME e + 1 <= m PROVE v * e + v <= v * m
      BY <1>3
    <2>2. v * (e + 1) <= v * m
      BY <1>3, <2>1, LargerFactor
    <2>3. v * (e + 1) = v * e + v
      BY <1>3
    <2>4. QED
      BY <2>2, <2>3
  <1>8. QED
    BY <1>1, <1>2, <1>4, <1>5, <1>6, <1>7

(* A share is a percentage, and 100 leaves nothing out that is worth half a     *)
(* percent of the weight.                                                     *)
LEMMA ShareInRange ==
  ASSUME out \in Seq(ScoreLines),
         \A i \in DOMAIN Expected : Earned(Expected[i]) \in 0..MaxScore[Expected[i]],
         NEW T \in SUBSET DOMAIN Expected
  PROVE  /\ Share(T) \in 0..100
         /\ Share(T) = 100 =>
              \A k \in T : \/ Earned(Expected[k]) = MaxScore[Expected[k]]
                           \/ 200 * Weight[Expected[k]] <= MaxScore[Expected[k]] * WeightOf(T)
  <1> DEFINE n == Len(Expected)
             h == [i \in 1..n |-> Unit * Weights(T)[i]]
  <1>1. n \in Nat /\ DOMAIN Expected = 1..n /\ Unit \in Nat \ {0}
        /\ \A i \in 1..n : Expected[i] \in Tests
    BY ScoresAssumption, ElementOfSeq
  <1> HIDE DEF n
  <1>2. CASE T = {}
    BY <1>2 DEF Share
  <1>3. CASE T # {}
    <2>1. ASSUME NEW i \in 1..n
          PROVE  /\ Weights(T)[i] \in Nat /\ Weights(T)[i] = IF i \in T THEN Weight[Expected[i]] ELSE 0
                 /\ Points(T)[i] = Earned(Expected[i]) * (Unit \div MaxScore[Expected[i]]) * Weights(T)[i]
      <3>1. Weights(T)[i] = IF i \in T THEN Weight[Expected[i]] ELSE 0
        BY <1>1 DEF Weights
      <3>2. Weights(T)[i] \in Nat
        BY <1>1, <3>1, Maxima
      <3>3. Points(T)[i] = Earned(Expected[i]) * (Unit \div MaxScore[Expected[i]])
                            * (IF i \in T THEN Weight[Expected[i]] ELSE 0)
        BY <1>1 DEF Points
      <3>4. QED
        BY <3>1, <3>2, <3>3
    <2>2. ASSUME NEW i \in 1..n
           PROVE  /\ Points(T)[i] \in Nat /\ Points(T)[i] <= Unit * Weights(T)[i]
                  /\ Earned(Expected[i]) # MaxScore[Expected[i]] =>
                       Points(T)[i] + (Unit \div MaxScore[Expected[i]]) * Weights(T)[i]
                         <= Unit * Weights(T)[i]
      <3>1. PICK t \in Tests : t = Expected[i]
        BY <1>1
      <3>2. PICK e \in 0..MaxScore[t], w \in Nat : e = Earned(t) /\ w = Weights(T)[i]
        BY <1>1, <2>1, <3>1
      <3>3. Points(T)[i] = e * (Unit \div MaxScore[t]) * w
        BY <2>1, <3>1, <3>2
      <3>4. QED
        BY <3>1, <3>2, <3>3, PointsOf
    <2>3. Weights(T) \in [1..n -> Nat]
      BY <1>1, <2>1 DEF Weights
    <2>4. Points(T) \in [1..n -> Nat]
      BY <1>1, <2>2 DEF Points
    <2>5. h \in [1..n -> Nat] /\ \A i \in 1..n : h[i] = Unit * Weights(T)[i]
      BY <1>1, <2>1
    <2>6. SumOf(h, n) = Unit * WeightOf(T) /\ WeightOf(T) = SumOf(Weights(T), n)
          /\ EarnedBy(T) = SumOf(Points(T), n)
      BY <1>1, <2>3, SumScaled DEF WeightOf, EarnedBy, Weights, Points, n
    <2> HIDE DEF h
    <2>7. \A i \in 1..n : Points(T)[i] <= h[i]
      BY <2>5, <2>2
    <2>8. ASSUME NEW k \in 1..n
          PROVE  /\ EarnedBy(T) \in Nat /\ Unit * WeightOf(T) \in Nat
                 /\ EarnedBy(T) + (h[k] - Points(T)[k]) <= Unit * WeightOf(T)
      BY <1>1, <2>4, <2>5, <2>6, <2>7, SumGap
    <2>9. PICK k0 \in T : k0 \in 1..n
      BY <1>1, <1>3
    <2>10. WeightOf(T) \in Nat \ {0}
      <3> DEFINE none == [i \in 1..n |-> 0]
      <3>1. none \in [1..n -> Nat] /\ \A i \in 1..n : none[i] = 0 /\ none[i] <= Weights(T)[i]
        BY <2>1
      <3> HIDE DEF none
      <3>2. SumOf(none, n) \in Nat /\ WeightOf(T) \in Nat
            /\ SumOf(none, n) + (Weights(T)[k0] - none[k0]) <= WeightOf(T)
        BY <1>1, <2>3, <2>6, <2>9, <3>1, SumGap
      <3>3. Weights(T)[k0] \in Nat \ {0} /\ none[k0] = 0
        BY <1>1, <2>1, <2>9, <3>1, Maxima
      <3>4. QED
        BY <3>2, <3>3
    <2>11. PICK d \in Nat \ {0} : d = Unit * WeightOf(T)
      BY <1>1, <2>10
    <2>12. PICK p \in Nat : p = EarnedBy(T) /\ p <= d
      <3>1. h[k0] - Points(T)[k0] \in Nat
        BY <2>4, <2>5, <2>7, <2>9
      <3>2. QED
        BY <2>8, <2>9, <2>11, <3>1
    <2>13. Share(T) = Round(100 * p, d)
      BY <1>3, <2>11, <2>12 DEF Share
    <2>14. Share(T) \in 0..100 /\ (Share(T) = 100 => 200 * p >= 199 * d)
      BY <2>12, <2>13, RoundBounds
    <2>15. ASSUME Share(T) = 100, NEW k \in T, Earned(Expected[k]) # MaxScore[Expected[k]]
           PROVE  200 * Weight[Expected[k]] <= MaxScore[Expected[k]] * WeightOf(T)
      <3>1. k \in 1..n /\ Expected[k] \in Tests
        BY <1>1
      <3>2. PICK q \in Nat \ {0}, m \in Nat \ {0}, w \in Nat, W \in Nat :
              /\ q = Unit \div MaxScore[Expected[k]] /\ m = MaxScore[Expected[k]] /\ q * m = Unit
              /\ w = Weight[Expected[k]] /\ W = WeightOf(T)
        BY <3>1, <2>10, UnitsPerPoint, Maxima
      <3>3. Weights(T)[k] = w /\ h[k] = Unit * w
        BY <2>1, <2>5, <3>1, <3>2
      <3>4. Points(T)[k] + q * w <= h[k]
        BY <2>15, <2>2, <3>1, <3>2, <3>3
      <3>5. p + q * w <= d
        BY <2>4, <2>5, <2>8, <2>11, <2>12, <3>1, <3>4
      <3>6. 200 * (q * w) <= d
        BY <2>14, <2>15, <3>5
      <3>7. d = q * (m * W)
        BY <2>11, <3>2
      <3>8. 200 * w <= m * W
        <4>1. SUFFICES ASSUME m * W + 1 <= 200 * w PROVE FALSE
          OBVIOUS
        <4>2. q * (m * W + 1) <= q * (200 * w)
          BY <4>1, LargerFactor
        <4>3. q * (m * W + 1) = q * (m * W) + q /\ q * (200 * w) = 200 * (q * w)
          OBVIOUS
        <4>4. QED
          BY <3>6, <3>7, <4>2, <4>3
      <3>9. QED
        BY <3>2, <3>8
    <2>16. QED
      BY <2>14, <2>15
  <1>4. QED
    BY <1>2, <1>3

LEMMA SumIsShare ==
  ASSUME ScoresInv, phase = "extracted", NEW task, NEW T \in SUBSET DOMAIN Expected,
         T = {i \in DOMAIN results : task = NoTask \/ results[i].TaskName = task}
  PROVE  TaskSum(results, task) = Share(T) /\ Share(T) \in 0..100
  <1>1. out \in Seq(ScoreLines) /\ results = extracted(out)
    BY DEF ScoresInv
  <1>2. \A i \in DOMAIN Expected : Earned(Expected[i]) \in 0..MaxScore[Expected[i]]
    BY <1>1, ExpectedEarned
  <1>3. Share(T) \in 0..100
    BY <1>1, <1>2, ShareInRange
  <1>4. TaskSum(results, task) = ToUint32(Share(T))
    BY <1>1, WeightedIsShare DEF TaskSum
  <1>5. ToUint32(Share(T)) = Share(T)
    BY <1>3 DEF ToUint32
  <1>6. QED
    BY <1>3, <1>4, <1>5

LEMMA ResultsOfExpected ==
  ASSUME ScoresInv, phase = "extracted"
  PROVE  /\ DOMAIN results = DOMAIN Expected
         /\ \A i \in DOMAIN Expected :
              results[i].TaskName = IF LinesOf(Expected[i]) = {} THEN NoTask ELSE Task[Expected[i]]
  <1>1. out \in Seq(ScoreLines) /\ results = extracted(out)
    BY DEF ScoresInv
  <1>2. \A i \in DOMAIN Expected :
          results[i].TaskName = IF LinesOf(Expected[i]) = {} THEN NoTask ELSE Task[Expected[i]]
    BY <1>1, ExpectedEarned
  <1>3. results \in Seq(Score) /\ Len(results) = Len(Expected)
    BY <1>1, ExtractedResults DEF ResultsOf
  <1>4. DOMAIN results = DOMAIN Expected
    BY <1>3, ScoresAssumption, LenProperties
  <1>5. QED
    BY <1>2, <1>4

LEMMA SumsFollow == ScoresInv => SumOfExpectedTests /\ TaskSumCountsAll /\ SumInRange
  <1>1. SUFFICES ASSUME ScoresInv, phase = "extracted"
                 PROVE  SumOfExpectedTests /\ TaskSumCountsAll /\ SumInRange
    BY DEF SumOfExpectedTests, TaskSumCountsAll, SumInRange
  <1>2. DOMAIN results = DOMAIN Expected
    BY <1>1, ResultsOfExpected
  <1>3. TaskSum(results, NoTask) = Share(DOMAIN Expected) /\ Share(DOMAIN Expected) \in 0..100
    <2>1. DOMAIN Expected = {i \in DOMAIN results : NoTask = NoTask \/ results[i].TaskName = NoTask}
      BY <1>2
    <2>2. QED
      BY <1>1, <2>1, SumIsShare
  <1>4. TaskSumCountsAll
    <2>1. SUFFICES ASSUME \A i \in DOMAIN Expected : LinesOf(Expected[i]) # {},
                          NEW task \in {Task[t] : t \in Tests} \ {NoTask}
                   PROVE  TaskSum(results, task) = Share({i \in DOMAIN Expected : Task[Expected[i]] = task})
      BY DEF TaskSumCountsAll
    <2>2. \A i \in DOMAIN Expected : results[i].TaskName = Task[Expected[i]]
      BY <1>1, <2>1, ResultsOfExpected
    <2> DEFINE T == {i \in DOMAIN Expected : Task[Expected[i]] = task}
    <2>3. T \in SUBSET DOMAIN Expected
          /\ T = {i \in DOMAIN results : task = NoTask \/ results[i].TaskName = task}
      BY <1>2, <2>2
    <2> HIDE DEF T
    <2>4. TaskSum(results, task) = Share(T)
      BY <1>1, <2>3, SumIsShare
    <2>5. QED
      BY <2>4 DEF T
  <1>5. SumInRange
    <2>1. out \in Seq(ScoreLines)
      BY <1>1 DEF ScoresInv
    <2>2. \A i \in DOMAIN Expected : Earned(Expected[i]) \in 0..MaxScore[Expected[i]]
      BY <2>1, ExpectedEarned
    <2>3. Share(DOMAIN Expected) = 100 =>
            \A k \in DOMAIN Expected :
              \/ Earned(Expected[k]) = MaxScore[Expected[k]]
              \/ 200 * Weight[Expected[k]] <= MaxScore[Expected[k]] * WeightOf(DOMAIN Expected)
      BY <2>1, <2>2, ShareInRange
    <2>4. QED
      BY <1>3, <2>3 DEF SumInRange
  <1>6. QED
    BY <1>3, <1>4, <1>5 DEF SumOfExpectedTests

(* ScoresSafety: the score objects and the lines of the output stay within the *)
(* maxima of their tests, and the results are those that the output gives.    *)
THEOREM ScoresSafety == ScoresSpec => []ScoresInv
  <1>1. QED
    BY RegistryInit, ScoresStep, PTL DEF ScoresSpec

(* ScoresTotal: the score of a submission is the weighted share that the        *)
(* expected tests have earned, for any tests, weights, maxima, order of the    *)
(* lines, panics and truncation (ExtractResults, Sum).                        *)
THEOREM ScoresTotal == ScoresSpec => []SumOfExpectedTests
  <1>1. QED
    BY ScoresSafety, SumsFollow, PTL

(* ScoresTasks: the score of a task counts all its tests, if each of them has   *)
(* printed a line (TaskSum).                                                 *)
THEOREM ScoresTasks == ScoresSpec => []TaskSumCountsAll
  <1>1. QED
    BY ScoresSafety, SumsFollow, PTL

(* ScoresRange: a score is in 0..100, also with faulty tests, and is 100 only   *)
(* if no test has lost half a percent of the weight (internalSum).            *)
THEOREM ScoresRange == ScoresSpec => []SumInRange
  <1>1. QED
    BY ScoresSafety, SumsFollow, PTL
=============================================================================
