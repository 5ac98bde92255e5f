------------------------------ MODULE TestRuns ------------------------------
(***************************************************************************)
(* The test runs of a course and the updates of what they use.  A push to  *)
(* the course's tests repository updates, under the course's lock, the     *)
(* working copy on disk, the Docker image and the assignments in the       *)
(* database.  Test runs, of pushes and of rebuilds, take no lock: they     *)
(* clone the working copy if it is missing, mount it in a container, and   *)
(* run the image.                                                          *)
(*                                                                         *)
(* The tests repository is a number, its version; version v has the        *)
(* Dockerfile Docker[v], and those in Broken do not build.  A working copy *)
(* that is being written is Partial.  Every version has the assignment.    *)
(*                                                                         *)
(* A run that has its results records them and sends them on the stream of *)
(* submissions.  Of that service only one thing is kept: a connection that *)
(* breaks may leave a send, and all that follow it, waiting forever, as    *)
(* SubmissionStream shows.                                                 *)
(***************************************************************************)
EXTENDS Naturals, FiniteSets, Functions

CONSTANTS
    Updates,        \* pushes to the tests repository
    Pushes,         \* test runs of pushes
    Rebuilds,       \* test runs of one request to rebuild all submissions
    JobName,        \* run -> the name of its container
    Docker,         \* version -> Dockerfile
    Broken,         \* Dockerfiles that do not build
    maxContainers,  \* rebuilds at a time
    MaxFaults       \* failing calls and stops

Runs == Pushes \union Rebuilds
Missing == 0
Partial == Cardinality(Updates) + 2
NoImage == "none"

ASSUME TestRunsAssumption ==
    /\ Pushes \cap Rebuilds = {}
    /\ maxContainers \in Nat \ {0} /\ MaxFaults \in Nat
    /\ IsFiniteSet(Updates) /\ IsFiniteSet(Runs)
    /\ 1..(Partial - 1) \subseteq DOMAIN Docker
    /\ Runs \subseteq DOMAIN JobName

VARIABLES
    upstream,    \* version of the tests repository on GitHub
    tree,        \* the working copy on the server
    image,       \* Dockerfile of the course's image
    digest,      \* Dockerfile whose digest is in the course's record
    stored,      \* version of the assignments in the database
    lock,        \* the updates that hold the course's lock
    update,      \* update -> [pc, digest, version]
    run,         \* run -> [pc, fetched, result]
    containers,  \* names of the containers that exist
    rebuild,     \* the request to rebuild: "idle", "waiting" or "returned"
    faults,
    stuck,       \* whether a send holds the service's lock forever
    stale        \* history: the last update to compare Dockerfiles used a digest
                 \* that another had replaced since

course == <<image, digest, stored, lock>>
hist == <<stuck, stale>>
vars == <<upstream, tree, image, digest, stored, lock, update, run, containers, rebuild, faults,
          stuck, stale>>

Init ==
    /\ upstream = 1 /\ tree = Missing
    /\ image = Docker[1] /\ digest = Docker[1] /\ stored = 1
    /\ lock = {}
    /\ update = [u \in Updates |-> [pc |-> "idle", digest |-> NoImage, version |-> 0]]
    /\ run = [r \in Runs |-> [pc |-> "idle", fetched |-> 0, result |-> "none"]]
    /\ containers = {}
    /\ rebuild = "idle"
    /\ faults = 0
    /\ stuck = FALSE /\ stale = FALSE

UpdatePC == {"idle", "Lock", "Clone", "Pull", "UpdateDockerfile", "ImageRemove", "buildImage",
             "UpdateCourse", "UpdateAssignments", "returned"}
RunPC == {"idle", "queued", "clone", "cloneMissing", "loadRunScript", "createImage",
          "waitForContainer", "remove", "RecordResults", "SendTo", "returned"}
Version == 1..(Partial - 1)
Dockerfile == Range(Docker) \union {NoImage}
Update == [pc : UpdatePC, digest : Dockerfile, version : Version \union {0}]
Run == [pc : RunPC, fetched : Version \union {0}, result : {"none", "output", "timeout"}]

TypeOK ==
    /\ upstream \in Version /\ tree \in Missing..Partial /\ stored \in Version
    /\ image \in Dockerfile /\ digest \in Dockerfile
    /\ lock \subseteq Updates
    /\ update \in [Updates -> Update] /\ run \in [Runs -> Run]
    /\ containers \subseteq Range(JobName)
    /\ rebuild \in {"idle", "waiting", "returned"} /\ faults \in 0..MaxFaults
    /\ stuck \in BOOLEAN /\ stale \in BOOLEAN

Fault == faults < MaxFaults /\ faults' = faults + 1

-----------------------------------------------------------------------------
(* Updates from the tests repository.                                      *)

\* A push; a teacher's request does the same.  The course is read before it is
\* locked.
handlePush(u) ==
    /\ update[u].pc = "idle"
    /\ upstream' = upstream + 1
    /\ update' = [update EXCEPT ![u] = [pc |-> "Lock", digest |-> digest, version |-> 0]]
    /\ UNCHANGED <<tree, course, run, containers, rebuild, faults, hist>>

\* Mutation: The course is not locked.
LockNothing(u) ==
    /\ update[u].pc = "Lock"
    /\ update' = [update EXCEPT ![u].pc = "Clone"]
    /\ UNCHANGED <<upstream, tree, course, run, containers, rebuild, faults, hist>>

Lock(u) ==
    /\ update[u].pc = "Lock" /\ lock = {}
    /\ lock' = {u}
    /\ update' = [update EXCEPT ![u].pc = "Clone"]
    /\ UNCHANGED <<upstream, tree, image, digest, stored, run, containers, rebuild, faults, hist>>

\* The update returns, and unlocks the course.
Unlock(u) ==
    /\ lock' = lock \ {u}
    /\ update' = [update EXCEPT ![u] = [pc |-> "returned", digest |-> NoImage, version |-> 0]]

\* A clone, or a pull into the working copy that is there.
Clone(u) ==
    /\ update[u].pc = "Clone"
    /\ \/ tree' = Partial /\ update' = [update EXCEPT ![u].pc = "Pull", ![u].version = upstream]
          /\ UNCHANGED <<lock, faults>>
       \/ Fault /\ Unlock(u) /\ UNCHANGED tree
    /\ UNCHANGED <<upstream, image, digest, stored, run, containers, rebuild, hist>>

Pull(u) ==
    /\ update[u].pc = "Pull"
    /\ tree' = update[u].version
    /\ update' = [update EXCEPT ![u].pc = "UpdateDockerfile"]
    /\ UNCHANGED <<upstream, course, run, containers, rebuild, faults, hist>>

\* Fails on a working copy that a test run is still cloning.
readTestsRepositoryContent(u) == tree # Partial

\* The image is rebuilt if the Dockerfile differs from the course as read.
UpdateDockerfile(u) ==
    /\ update[u].pc = "UpdateDockerfile"
    /\ IF readTestsRepositoryContent(u)
       THEN /\ update' = [update EXCEPT ![u].version = tree,
                             ![u].pc = IF Docker[tree] # update[u].digest THEN "ImageRemove"
                                       ELSE "UpdateAssignments"]
            /\ stale' = (update[u].digest # digest)
            /\ UNCHANGED lock
       ELSE Unlock(u) /\ UNCHANGED stale
    /\ UNCHANGED <<upstream, tree, image, digest, stored, run, containers, rebuild, faults, stuck>>

\* The old image is removed before the new one is built.
ImageRemove(u) ==
    /\ update[u].pc = "ImageRemove"
    /\ image' = NoImage
    /\ update' = [update EXCEPT ![u].pc = "buildImage"]
    /\ UNCHANGED <<upstream, tree, digest, stored, lock, run, containers, rebuild, faults, hist>>

\* The new image is then run once; that may fail too.
buildImage(u) ==
    /\ update[u].pc = "buildImage"
    /\ LET d == Docker[update[u].version] IN
       \/ d \notin Broken /\ image' = d /\ update' = [update EXCEPT ![u].pc = "UpdateCourse"]
          /\ UNCHANGED <<lock, faults>>
       \/ d \in Broken /\ Unlock(u) /\ UNCHANGED <<image, faults>>
       \/ Fault /\ Unlock(u) /\ image' \in ({image, d} \ Broken)
    /\ UNCHANGED <<upstream, tree, digest, stored, run, containers, rebuild, hist>>

UpdateCourse(u) ==
    /\ update[u].pc = "UpdateCourse"
    /\ \/ digest' = Docker[update[u].version]
          /\ update' = [update EXCEPT ![u].pc = "UpdateAssignments"] /\ UNCHANGED <<lock, faults>>
       \/ Fault /\ Unlock(u) /\ UNCHANGED digest
    /\ UNCHANGED <<upstream, tree, image, stored, run, containers, rebuild, hist>>

UpdateAssignments(u) ==
    /\ update[u].pc = "UpdateAssignments"
    /\ \/ stored' = update[u].version /\ UNCHANGED faults
       \/ Fault /\ UNCHANGED stored
    /\ Unlock(u)
    /\ UNCHANGED <<upstream, tree, image, digest, run, containers, rebuild, hist>>

UpdateFromTestsRepo(u) ==
    \/ Lock(u) \/ Clone(u) \/ Pull(u) \/ UpdateDockerfile(u) \/ ImageRemove(u)
    \/ buildImage(u) \/ UpdateCourse(u) \/ UpdateAssignments(u)

-----------------------------------------------------------------------------
(* Test runs.                                                              *)

Continue(r, pc) == run' = [run EXCEPT ![r].pc = pc]
RunReturns(r) ==
    run' = [run EXCEPT ![r].pc = "returned", ![r].result = "none"]

\* Mutation: A rebuild keeps its place in the semaphore.
HoldingOn == {r \in Rebuilds : run[r].pc \notin {"idle", "queued"}}

Holding == {r \in Rebuilds : run[r].pc \notin {"idle", "queued", "returned"}}

runAssignmentTests(r) ==
    /\ r \in Pushes /\ run[r].pc = "idle"
    /\ Continue(r, "clone")
    /\ UNCHANGED <<upstream, tree, course, update, containers, rebuild, faults, hist>>

\* A teacher rebuilds all submissions: one goroutine for each, and the request
\* waits for them, whatever becomes of them.
internalRebuildAllSubmissions ==
    /\ rebuild = "idle" /\ rebuild' = "waiting"
    /\ run' = [r \in Runs |-> IF r \in Rebuilds THEN [run[r] EXCEPT !.pc = "queued"] ELSE run[r]]
    /\ UNCHANGED <<upstream, tree, course, update, containers, faults, hist>>

internalRebuildSubmission(r) ==
    /\ run[r].pc = "queued" /\ Cardinality(Holding) < maxContainers
    /\ Continue(r, "clone")
    /\ UNCHANGED <<upstream, tree, course, update, containers, rebuild, faults, hist>>

Wait ==
    /\ rebuild = "waiting" /\ \A r \in Rebuilds : run[r].pc = "returned"
    /\ rebuild' = "returned"
    /\ UNCHANGED <<upstream, tree, course, update, run, containers, faults, hist>>

\* The student's repository is cloned, or that fails; a missing working copy
\* of the tests is cloned without the course's lock.
clone(r) ==
    /\ run[r].pc = "clone"
    /\ \/ tree = Missing /\ tree' = Partial
          /\ run' = [run EXCEPT ![r].pc = "cloneMissing", ![r].fetched = upstream]
          /\ UNCHANGED faults
       \/ tree # Missing /\ Continue(r, "loadRunScript") /\ UNCHANGED <<tree, faults>>
       \/ Fault /\ RunReturns(r) /\ UNCHANGED tree
    /\ UNCHANGED <<upstream, course, update, containers, rebuild, hist>>

cloneMissingRepositories(r) ==
    /\ run[r].pc = "cloneMissing"
    /\ tree' = run[r].fetched
    /\ Continue(r, "loadRunScript")
    /\ UNCHANGED <<upstream, course, update, containers, rebuild, faults, hist>>

\* A partial working copy may not have the assignment's directory yet.
mayMissAssignment == tree = Partial

\* Reads run.sh from the working copy.
loadRunScript(r) ==
    /\ run[r].pc = "loadRunScript"
    /\ \/ Continue(r, "createImage")
       \/ mayMissAssignment /\ RunReturns(r)
    /\ UNCHANGED <<upstream, tree, course, update, containers, rebuild, faults, hist>>

\* A name in use is a conflict, and an image that is not here, nor to be
\* pulled, an error; both end the run.
createImage(r) ==
    /\ run[r].pc = "createImage"
    /\ IF JobName[r] \in containers \/ image = NoImage
       THEN RunReturns(r) /\ UNCHANGED containers
       ELSE Continue(r, "waitForContainer") /\ containers' = containers \union {JobName[r]}
    /\ UNCHANGED <<upstream, tree, course, update, rebuild, faults, hist>>

\* The container is started.  It exits, or is stopped at the deadline; either way
\* there is some output.  An error of Docker leaves the container behind.
waitForContainer(r) ==
    /\ run[r].pc = "waitForContainer"
    /\ \/ /\ \E result \in {"output", "timeout"} :
                run' = [run EXCEPT ![r].pc = "remove", ![r].result = result]
          /\ UNCHANGED faults
       \/ Fault /\ RunReturns(r)
    /\ UNCHANGED <<upstream, tree, course, update, containers, rebuild, hist>>

\* Mutation: A container that is stopped at its deadline is not removed.
KeepStopped(r) ==
    /\ run[r].pc = "remove"
    /\ containers' = IF run[r].result = "timeout" THEN containers ELSE containers \ {JobName[r]}
    /\ Continue(r, "RecordResults")
    /\ UNCHANGED <<upstream, tree, course, update, rebuild, faults, hist>>

\* The output is read after the container is removed; that may fail too.
ContainerRemove(r) ==
    /\ run[r].pc = "remove"
    /\ \/ containers' = containers \ {JobName[r]} /\ Continue(r, "RecordResults")
          /\ UNCHANGED faults
       \/ Fault /\ RunReturns(r) /\ containers' \in {containers, containers \ {JobName[r]}}
    /\ UNCHANGED <<upstream, tree, course, update, rebuild, hist>>

\* What is recorded is in module Submissions.  A run that does not get the owners
\* of the submission sends nothing.
RecordResults(r) ==
    /\ run[r].pc = "RecordResults"
    /\ \/ Continue(r, "SendTo") /\ UNCHANGED faults
       \/ Fault /\ RunReturns(r)
    /\ UNCHANGED <<upstream, tree, course, update, containers, rebuild, hist>>

\* Waits forever once another send holds the service's lock forever.
SendTo(r) ==
    /\ run[r].pc = "SendTo" /\ ~ stuck
    /\ RunReturns(r)
    /\ UNCHANGED <<upstream, tree, course, update, containers, rebuild, faults, hist>>

\* A client goes away while one of the runs is sending to it.
Disconnect ==
    /\ ~ stuck /\ \E r \in Runs : run[r].pc = "SendTo"
    /\ stuck' = TRUE
    /\ UNCHANGED <<upstream, tree, course, update, run, containers, rebuild, faults, stale>>

RunTests(r) ==
    \/ clone(r) \/ cloneMissingRepositories(r) \/ loadRunScript(r)
    \/ createImage(r) \/ waitForContainer(r) \/ ContainerRemove(r)
    \/ RecordResults(r) \/ SendTo(r)

\* The server stops; containers and what is on disk stay.
Stop ==
    /\ Fault
    /\ lock' = {}
    /\ update' = [u \in Updates |-> IF update[u].pc = "idle" THEN update[u]
                                    ELSE [pc |-> "returned", digest |-> NoImage, version |-> 0]]
    /\ run' = [r \in Runs |-> IF run[r].pc \in {"idle", "returned"} THEN run[r]
                              ELSE [run[r] EXCEPT !.pc = "returned", !.result = "none"]]
    /\ rebuild' = IF rebuild = "idle" THEN "idle" ELSE "returned"
    /\ stuck' = FALSE
    /\ UNCHANGED <<upstream, tree, image, digest, stored, containers, stale>>

Next ==
    \/ \E u \in Updates : handlePush(u) \/ UpdateFromTestsRepo(u)
    \/ \E r \in Runs : runAssignmentTests(r) \/ internalRebuildSubmission(r) \/ RunTests(r)
    \/ internalRebuildAllSubmissions \/ Wait \/ Disconnect \/ Stop

Spec == Init /\ [][Next]_vars

\* The goroutines of the rebuilds run, and that of the request.
FairSpec ==
    /\ Spec
    /\ \A r \in Rebuilds : WF_vars(internalRebuildSubmission(r) \/ RunTests(r))
    /\ WF_vars(Wait)

-----------------------------------------------------------------------------
Quiet(S, f) == \A x \in S : f[x].pc \in {"idle", "returned"}

\* Nothing has failed, every Dockerfile builds, and no test run has cloned the
\* working copy, which it does without the lock.
Undisturbed ==
    /\ faults = 0
    /\ \A v \in 1..upstream : Docker[v] \notin Broken
    /\ \A r \in Runs : run[r].fetched = 0

\* The updates of a course: when all have returned, in whatever order the pushes
\* got the lock, the database has the assignments of the last version
\* (UpdateFromTestsRepo), the course's image is the one whose digest is saved, which
\* is all that UpdateDockerfile compares with (qf/course.go:30), and it is built from
\* the last version's Dockerfile.  That last part fails, as ImageOfLastVersion shows,
\* after an update whose course was read before another one replaced the digest.
LastVersionStored ==
    Undisturbed /\ Quiet(Updates, update) =>
        /\ stored = upstream /\ image = digest
        /\ stale \/ image = Docker[upstream]

\* What qf/course.go:17 says of the digest, and assignments.go:24 of concurrent calls.
\* False: handlePush reads the course before the lock (push.go:33), so that an update
\* may find its Dockerfile equal to a digest that is no longer the course's, and leave
\* the image of an older version.
ImageOfLastVersion ==
    Undisturbed /\ Quiet(Updates, update) => image = Docker[upstream]

\* Test runs leave no container behind whose name would be a conflict for the
\* next run of the commit: Docker.Run and waitForContainer remove it, also when
\* it is stopped at the deadline, before the results are recorded and sent.
ContainersRemoved ==
    (faults = 0 /\ \A r \in Runs : run[r].pc \notin {"waitForContainer", "remove"}) =>
        containers = {}

\* A request to rebuild all submissions returns, when all of them have ended: the
\* semaphore, the wait group, and the error returns of the runs.  Not when a client
\* goes away during a send, which then waits forever (module SubmissionStream).
RebuildReturns ==
    rebuild = "waiting" ~> (rebuild = "returned" /\ Quiet(Rebuilds, run)) \/ stuck
=============================================================================
