# QuickFeed in TLA+

QuickFeed is a server for courses with programming assignments. Students push
to their repositories on GitHub; GitHub tells the server about each push over a
webhook; the server clones the repository, runs the course's tests in a
container, records the result as a *submission* and sends it to the browsers of
those who own it. Teachers grade, review and regroup through an RPC service.
Assignments, tests, tasks and grading criteria come from a repository of the
course, again by pushes.

This directory holds TLA+ modules translated from the Go source (`src/`), TLC
configurations that check them on small instances, and TLAPS proofs of what
holds on all instances. `PROJECT.json` maps every definition to the lines it
stands for and lists the hazards of the code with the properties aimed at them.

    tlc -workers 2 -config Stream.cfg MCSubmissionStream.tla
    tlapm SubmissionStream_proofs.tla

Contents: [the system](#the-system), [the modules](#the-modules),
[the runs](#the-runs), [where code and words disagree](#where-code-and-words-disagree),
[the proofs](#the-proofs), [what is not modelled](#what-is-not-modelled),
[the plan](#the-plan).

## The system

### Parts, state and operations

| Part (source) | State it keeps | Operations | What makes it correct |
|---|---|---|---|
| Submission streams (`web/stream`) | `Service.streams`: one `Stream` per user under `Service.mu`; each stream's `closed` and its unbuffered channel under `Stream.mu` | `Add`, `SendTo`, `Close`, `CloseBy`, `Stream.Run`, `Send`, `Close` | nobody sends on a closed channel; a new tab replaces the old one; submissions arrive once and in order; every goroutine goes on |
| Webhook (`web/hooks/github.go`, `duplicate_map.go`) | the map of commits in progress, a semaphore of five tokens | `Handle`, a goroutine per push | one run per commit at a time, no push lost, nobody starved |
| Push handling (`web/hooks/push.go`) | none; reads assignments, repositories, enrollments | `handlePush`, `runAssignmentTests`, `updateLastActivityDate` | each kind of repository gets what it needs |
| Test runs and results (`ci`) | rows of submissions, build info, scores, slip days | `RunTests`, `RecordResults`, `updateSlipDays` | one submission per owner; results follow the newest files; approvals survive; lateness is charged once |
| Test runners (`ci/docker.go`, `clone_repositories.go`) | containers, images, clones on disk | `Docker.Run`, `createImage`, `waitForContainer`, `CloneRepositories` | nothing is left behind |
| Rebuilds (`web/rebuild.go`) | none; a semaphore and a wait group per request | one rebuild, all rebuilds of an assignment | the request returns, whichever of the runs fail |
| Assignments (`assignments`, `qf/course.go`) | the course's clone of the tests repository under the course's lock, the Dockerfile cache, rows of assignments | `UpdateFromTestsRepo`, `UpdateDockerfile`, `UpdateAssignments` | the last version wins, whatever the order of the pushes |
| Tasks and issues (`assignments/tasks.go`, `scm/github_issues.go`) | rows of tasks and issues, issues on GitHub | `synchronizeTasksWithIssues` | the issues mirror the tasks |
| Pull requests (`web/hooks/pull_request.go`, `assignments/pull_requests.go`) | stage of each pull request; review counters in memory | open, close, review, push, `AssignReviewers` | reviewers are assigned once and share the work; an approval stays; a row says what was done on GitHub |
| Reviews, criteria (`qf/review.go`, `database`) | reviews, benchmarks and criteria of assignments and of reviews | `CreateReview`, `UpdateReview`, `UpdateSubmission`, `updateGradingCriteria` | bounded in number, never a mixture of two versions |
| Scores (`kit/score`) | a run's registry of score objects, then the results by test | `Add`, `Print`, `ExtractResults`, `Sum`, `TaskSum` | what counts is what the expected tests have earned, within 0..100 |
| Courses, enrollments (`web/courses.go`, `web/hooks/installation.go`) | courses, enrollments; the organization on GitHub | installation event, enrol, accept, promote, demote, reject | who is enrolled has a repository and may push to it |
| Groups (`web/groups.go`, `database/gormdb_group.go`) | groups and the group ID of enrollments; repositories on GitHub | create, update, approve, rename, delete | an approved group has a repository for its members |
| SCM clients (`scm`) | a client per organization, a cached token per client | `GetOrCreateSCM`, `Token`, multi-step operations on GitHub | a token outlives its use; steps that fail half-way can be repeated |
| Forks (`web/hooks/sync.go`) | none; the forks are GitHub's | `syncStudentRepos`, `SyncFork` with retries | each fork is updated or counted as an error |
| Session tokens, interceptors (`web/auth`, `web/interceptor`) | a list of users in memory, a flag per user in the database, signed claims in cookies | sign-in, `UpdateCookie`, `Add`, `Remove`, the interceptors | a user whose rights have changed gets a new cookie with the next request |
| Start and stop (`main.go`, `web/server.go`, `web/manifest`, `internal/env`) | `.env`, its backup, the App's key, the environment of the process | load, `EnsureAuthSecret`, the App-creation flow, `Save`, `Serve`, `Shutdown` | a stop at any step loses no settings; key and ID are of one App |
| Live reload, certificates, front end, tools, kit for course tests | - | - | not modelled, see below |

### How they meet

* GitHub → webhook → a goroutine per push → `RunTests` → `RecordResults` →
  database, then `SendTo` → the streams of the owners (`GetOwners`: a student, or the
  members of a group).
  The goroutine keeps its semaphore token until `SendTo` has returned.
* A push to the tests repository → `UpdateFromTestsRepo` under the course's lock →
  working copy, image, assignments, criteria, tasks and issues. A push to the
  assignments repository → working copy, then every student's fork.
* Pushes and reviews of pull requests → stages and reviewers, by the score of
  the task (`TaskSum`).
* Browser → interceptors → RPC handler → database and GitHub; a rebuild goes
  into the same `RunTests`/`RecordResults`.
* Goroutines share: the duplicate map and semaphore, the stream service, the
  token list, the review counters and the Dockerfile cache (the last three without
  a mutex), the working copies on disk, and the database. A method of `GormDB` is
  one statement or transaction; handlers read with one, compute, and write whole
  records back with another.

### What is hard here

Handlers have no lock between reading a row and writing it back; goroutines of
pushes have no order; GitHub redelivers; the stream service holds two mutexes
while it waits on a channel; methods on groups and enrollments change GitHub and
the database one after the other and roll nothing back; test runs use the working
copies and the image while they are replaced; the list of users is kept twice, in
memory and in the database, and the settings in files that are rewritten line by
line; the server may stop anywhere. `PROJECT.json` lists each of these at its line
under `hazards`.

## The modules

Each MC module extends the module of its name and gives values to its
constants. An operator described as a mutation or mutant stands before the
definition it alters, in the way a plausible bug would: `PROJECT.json` pairs each property
with the one that breaks it, and no next-state relation uses them.

A failing call to GitHub, Docker or the disk is one disjunct of its action, and
`Stop` ends all handlers between any two steps; together they happen at most
`MaxFaults` times.

### SubmissionStream, SubmissionFeed

`SubmissionStream` has a process for every goroutine: callers of `SendTo`
(`Senders`), RPC handlers (`Conns`, from `NewStream` over `Service.Add` to the
end of `Stream.Run`) and callers of `Close` and `CloseBy` (`Closers`). Its
variables are the two kinds of mutex (`svcMu`, `mu`), the map (`streams`),
`closed`, broken connections (`gone`), and per goroutine its place (`pc`) and
locals. An unbuffered channel is a rendezvous, so `SendChannel` moves the sender
and the stream's `Run` together. `closed` is also what `Run` sees of the closed
channel: `Stream.Close` takes `mu`, closes `ch`, sets `closed` and releases
without blocking, hence one step.

| Action | Code |
|---|---|
| `CallSendTo`, `SendTo`, `SendToReturn` | `Service.SendTo`: its lock, the broadcast when no ID is given, its unlock |
| `SendLock`, `SendChannel`, `SendUnlock` | `Stream.Send` |
| `Add`, `AddReturn`, `internalRemove` | `Service.Add`, which closes the user's old stream first |
| `Close`, `CloseReturn`, `internalRemove` | `Service.Close`, `Service.CloseBy` |
| `RunStops`, `RunSends`, `RunReturn` | the `select` of `Stream.Run`, the transport, the deferred `Close` |
| `Disconnect` | the context of the request is done; a transport error also ends `Run` and marks the connection |

As in the code a stream whose `Run` has returned stays in the map until the user
connects again or the service closes it.

`SubmissionFeed` is the promise to a browser, without goroutines or locks: one
current connection per user; a submission is handed only to current
connections, at most once, in the order of publication; a connection that was
replaced never comes back. The refinement maps `feed` to `streams`, the
connections that have been current to those past `Add`, and publication to the
moment `SendTo` gets `Service.mu`.

### PushWebhook

One process per delivery. `IgnoreDuplicate` and `StartPush` are the two outcomes
of `Duplicate` (one critical section), `Acquire`/`Release` the operations on the
semaphore channel, `RemoveCommit` the deferred removal from the map. `HandlePush` is a
single step here: what a push does is in the modules of what it changes
(`Submissions`, `TestRuns`, `ForkSync`, `PullRequests`), what it sends in
`SubmissionStream`.

### Submissions, Gradebook

The submissions of one owner (a student or a group) to one assignment. A handler
in flight is a *worker*: with one worker operations follow each other, with two
they interleave. Each database method is a step, so what a handler has read
stays in its `job` while others write.

| Actions | Code |
|---|---|
| `Push`, `StartPush` | a commit on the branch; `runAssignmentTests` for any waiting push, in any order |
| `Clone`, `RunTests`, `RunFails` | `RunTests`: it clones the head of the branch, whatever commit it was started for, and dates the result when the tests end |
| `previousSubmission` | `GetSubmission` in `RecordResults`, then `newTestRunSubmission` or `newManualReviewSubmission` |
| `CreateSubmission` | the transaction of `GormDB.CreateSubmission`, including the grades made for a new row |
| `ReadSlipDays`, `SaveSlipDays`, `RecordResultsReturn` | `updateSlipDays` over the members of the owner, skipped for rebuilds |
| `StartRebuild` | `internalRebuildSubmission` |
| `GetSubmission`, `UpdateSubmission`, `UpdateReview` | the RPCs of teachers: read a row, change it, save all of it |
| `UpdateGroup` | the transaction of `GormDB.UpdateGroup` with `syncGroupGrades` |

Time is in hours after the deadline. A commit is its position on the branch.
`tree` is the commit whose files were tested; the program does not store it, the
properties compare it with `commit`. `GradedManually` is the set of answers that
`assignment.Reviewers > 0` gives over the run: `{FALSE, TRUE}` lets teachers
switch an assignment between the two kinds. `delivered` and `overruled` are
history variables for the properties.

`Gradebook` is the promise to owners and teachers, without handlers, copies of rows,
commits or IDs: one entry, whose score, date and grades change in one step per operation;
a grade for each member and nobody else; each member charged once for a delivery that did
not pass. `Submissions` with one worker implements it (`GradebookSpec`). The mapping:

| `Gradebook` | `Submissions` |
|---|---|
| `entry` | the row of the database (`Shown`) with its score, date and grades |
| `due`, `charged` | the members that `updateSlipDays` has still to charge (`Due`), and `slip` |
| `DeliverFirst`, `DeliverTested`, `DeliverForReview`, `Rebuild` | `CreateSubmission`, for a first row, a test result, a push that teachers grade, a rebuild |
| `Charge`, `SetGrade`, `Review`, `Regroup`, `TimePasses` | `SaveSlipDays`, `UpdateSubmission`, `UpdateReview`, `UpdateGroup`, `Tick` |

All other steps stutter: what a handler reads, clones or computes changes nothing that anybody sees.

### TokenManager

Users with several sessions, some of them programs that send a GitHub token
(`lookupToken`, for which the server keeps the claims), in a course with one group.
Every unary RPC goes through the interceptors in their order: `Receive` (claims from
the cookie or the API token, `updateRequired`), `NewAuthCookie` … `RemoveWrite`
(`UpdateCookie` with `Remove`), `AccessControl`, `AddFlag` … `Announced`
(`TokenManager.Add` for each user the method names), `Handle`, `Respond`, `Fail`.
`OAuth2Callback` and `OAuth2Logout` are signing in and out. The list is read and
written in separate steps, as the code has no mutex around it. `Restart` empties
the handlers and reads the list from the flags; `Expire` makes a cookie's claims run
out. All four `tokenUpdateMethods` are called. `lost` remembers the sessions that a new
cookie of their user did not reach: it was lost with an answer, or went to another
session of the user. `unlisted` remembers the users whom `UpdateGroup` has removed from
the group without listing them.

### GitHub, CourseAdmin

`GitHub` is one organization as the code expects it to answer: members and their
roles, repositories with IDs and collaborators, and the effect of each call,
taken from the repository's own fake (`scm/github_mock.go`).

`CourseAdmin` is a course: its creation, enrollments, groups and their
repositories. Each request is a *job* whose `pc` names its next step, a database
statement or a call to GitHub; a job keeps what it has read.

| Actions | Code |
|---|---|
| `handleInstallationCreated`, `createCourseRepo`, `createCourse`, `CreateCourse` | the event of the App's installation, `CreateCourse` of `scm/github.go`, then of the database |
| `CreateEnrollment`, `UpdateEnrollments` | a student's request; a teacher's, which becomes one of the next four |
| `enrollStudent`, `acceptOrgInvitation`, `ExchangeAndUpdateToken`, `UpdateUser`, `createForkedRepo`, `waitForRepository`, `addUser`, `CreateRepository` | accepting: invitation in the student's name, fork, collaborator, repository record |
| `enrollTeacher`, `revokeTeacherStatus`, `UpdateEnrollment` | promotion and demotion |
| `rejectEnrollment`, `DeleteRepository`, `RejectEnrollment`, `deleteRepository` | rejection: record, then repository record, then GitHub |
| `UpdateCourseVisibility`, `updateLastActivityDate` | whole enrollments that are written back |
| `CreateGroup`, `dbCreateGroup`, `internalUpdateGroup`, `createRepo`, `UpdateGroupMembers`, `UpdateGroup`, `internalDeleteGroup`, `DeleteGroup` | groups, with `checkGroupName`, `ContainsOnly`, `ContainsAll` as the checks |
| `SignIn`, `Stop` | a new refresh token; the end of the process |

An enrollment without a record has status `NONE`. Repository IDs are fresh: GitHub
never uses one again, so one that nothing refers to may stand for a new one.

### TestRuns

What a course's test runs use, and who replaces it: the working copy of the tests
repository (a version, or `Partial` while it is written), the Docker image, the
digest of its Dockerfile in the course's record, the stored assignments and the containers by
name. `stale` remembers that an update had read a digest which another one replaced before
it had the lock. `UpdateFromTestsRepo` is `Lock`, `Clone`, `Pull`, `UpdateDockerfile`,
`ImageRemove`, `buildImage`, `UpdateCourse`, `UpdateAssignments`; the course is read in
`handlePush`, before the lock, as in the code. A test run takes no lock:
`clone` and `cloneMissingRepositories`, `loadRunScript`, `createImage`,
`waitForContainer`, `ContainerRemove`, then `RecordResults`, whose effect is in
`Submissions`, and `SendTo`. `internalRebuildAllSubmissions`,
`internalRebuildSubmission` and `Wait` are the fan-out with its semaphore and wait
group; a rebuild keeps its token until `SendTo` has returned. `Disconnect` is the client that
goes away while a run sends to it: that send and all later ones wait forever, as
`SubmissionStream` shows (`stuck`).

### PullRequests

Tasks, issues and pull requests of group repositories. `synchronizeTasksWithIssues`
writes rows and issues step by step for each repository; GitHub's side
(`Open`, `Push`, `Approve`, `Close`) sends events; `HandleEvent` takes one in any order and reads
the row it is about, which `UpdatePullRequest` later writes as a whole, by its ID; `handlePullRequestOpened`, `CreatePullRequest`,
`handlePullRequestPush`, `AssignReviewers`, `RequestReviewers`, `SetReview`,
`CreateIssueComment`, `SetComment`, `handlePullRequestReview` and `HandleMergingPR` are
the handlers' steps. `maxHandlers` bounds the handlers at work.

### Scores

A test run from the other side: `PrintTestInfo` and the score objects of
registered tests (`MinByName`, `MaxByName`, `IncBy`, `DecBy`), `Print_` with a panic, the end
of the run (`RunEnds`), `truncateLog`, and `ExtractResults` with what it does about unexpected
tests, repeated lines, faulty tests and missing ones: its two loops, over the expected tests and
over the lines, are the recursive functions in `expectedResults` and `extracted`. `TaskSum`
is the weighted mean with its rounding; the sums are by position (`SumOf`), and fractions are
whole numbers of units (`Unit`), of which every test's maximum divides a full score. The
reference is `Share`, test by test of what each has `Earned` in the output.

### Reviews

The manual reviews of one submission. Each teacher has a browser with the copy it
last loaded and at most one request: `CreateReview`, `ReadBenchmarks`,
`ReadCriteria`, `InsertReview` (the count and the creation are statements apart);
`UpdateReview`, `SaveReview`; `UpdateSubmission`, `SaveGrade`, which save all reviews
along. `NewReview` is what a browser sends for a new review: one without benchmarks, of which
`CreateReview` computes the score before it reads the assignment's. One table has the benchmarks of the assignment and those of reviews;
`updateGradingCriteria` replaces the former. `ComputeScore` is the score of a review.

### Startup

`main.go` from the first line to the last, over three files that outlive the
process: `.env`, its backup, the App's key. `EnsureAuthSecret`,
`runAppCreation` with the handlers of its web server (`Callback`, `Convert`, `WriteKey`,
`SaveApp`, `AppSaved`) and its end (`ReceiveResult`, `FlowDone`, `Shutdown`), `CheckAppData`, `Serve`
with its `Request`s, `gracefulShutdown`, `ServeReturns`. `SaveStep` is `env.Save`,
step by step: remove the older backup, rename to the backup, create, write line after line.
`Exit` is possible between any two steps.

The flow saves three kinds of variables of an App: its ID and URL, its client, and the secret
of its webhook. `NeedsAppCreation` and `CheckAppData` ask for the first two (`Checked`) and the
key file. A flow may create several Apps, one for each tab that GitHub sends back: each handler keeps
the App it has converted (`app`), and `twice` remembers that this has happened.

### ForkSync

Pushes to the assignments repository (`PushAssignments`): `GetOrCreateSCM` and `newGithubAppClient`
(the manager's cache under its mutex), `Token` and `requestNewToken` (the cached
installation token, renewed a minute before it expires, under the mutex of its manager),
`Clone`, `GetRepositories`, then `syncStudentRepos` with `SyncFork` and `Wait` for each
fork: at most three attempts under GitHub's delays and a deadline. Meanwhile
`createForkedRepo` and `CreateRepository` enrol students, and time passes.

## The runs

All runs switch the deadlock check off: every model stops once its bounded
deliveries, pushes, edits or starts are spent, and goroutines that wait forever are
looked for with liveness instead.

| Run | Instance | Properties and what they show |
|---|---|---|
| `stream` | two users, one with two tabs, two senders, a closer, a breakable connection, two sends | `SendsOnOpenChannel`: no send panics. `FeedSpec`: the service refines `SubmissionFeed`. `SendToReturns`, `Delivered`, `ClosedRunReturns`: goroutines go on |
| `stream_disconnect` | the same, two breakable connections | `UnconnectedIgnored` is violated, see below |
| `webhook` | six deliveries of three commits (three, two, one), two tokens | `OneGoroutinePerCommit`, `DroppedOnlyWhenActive`, `PushesProcessed` |
| `submissions_serial` | a group of at most two, two pushes, one rebuild, one grading or review, one change of the group, one worker | `GradebookSpec`: the handlers implement `Gradebook`; `ChargedOnce`, `ApprovalSurvives`: what else holds of operations that do not overlap; `TestedTreeCoversCommit`, `DeliveryDateFromPush`: what holds of those that do as well |
| `tokens` | a teacher, a student with a browser and a program; signing in and out, one request at a time, which may fail; a restart in the middle of one; two changes of rights, by any of the methods | `StaleIsListed`, `ListMatchesFlags`, `ClearedWithCurrentCookie` |
| `courses` | the creator and a student, a group, two group names; one handler, two failures or stops | `EnrolledHaveRepo`, `RowsHaveOwnRepo`, `ApprovedGroupCanPush` between any two steps; `AcceptSettles`: repeating succeeds in the end |
| `test_runs` | two updates, Dockerfiles D1, D2, D1; a push and two rebuilds under a semaphore of one, two of them with the same container name; one failure or stop; a client that goes away | `LastVersionStored`, `ContainersRemoved`, `RebuildReturns` |
| `pull_requests` | two repositories of two students, two teachers, tasks A and B, then A changed and B gone; four events, one failure, events handled one at a time | `IssuesMirrorTasks`, `AssignedOnce`, `ReviewsBalanced`, `RecordedWasDone` |
| `scores` | four tests, one not expected, two of one task; up to three score lines, panics, truncation | `SumOfExpectedTests`, `TaskSumCountsAll`, `SumInRange` |
| `reviews` | two teachers, one reviewer wanted, two versions of the criteria which share one, two grades set | `ReviewsBounded`, `StoredAsSent`, `ReviewsKeepCriteria` |
| `startup` | three starts, two browsers, three Apps, two of them in one flow or each in its own, `-secret` or not | `Recoverable`, `SavedAppMatchesKey`, `SecretSurvives`, `FlowEnds` |
| `fork_sync` | two handlers, two students, two pushes; tokens live two units, delays of 1 and 4 under a deadline of 3 | `SyncedOrCounted`, `TokenOutlivesClone`, `SyncReturns` |

**Why the bounds are enough.**

* *Streams*: replacement needs two connections of one user; a broadcast that meets it
  needs another user; the order of hand-overs and contention for `Service.mu` need two
  senders and two sends; `Close` needs one closer.
* *Webhook*: two tokens with three commits in flight fill the semaphore; three deliveries
  of one commit allow a drop, a finish and a new start.
* *Submissions*: the three times lie before the deadline, within the grace period of the
  second late day and past it, so days 0, 1 and 2 occur; the scores lie below and
  exactly at the limit; two pushes, a rebuild, a grading and a change of the group let each
  kind precede and follow each other one.
* *Tokens*: two changes let a right be taken and given back, with a cookie of either
  state in between; the second session of a user is what misses a renewal. `UpdateEnrollments`,
  `UpdateGroup` and `DeleteGroup` change the rights in courses and groups, `UpdateUser` those
  of an admin, `GetUser` none.
* *Courses*: a failure and a stop, or two failures, interrupt a request and then its
  repetition; two names let a group be renamed. One
  handler: the properties are promises about failures, not about overlap.
* *Test runs*: the third Dockerfile is the first one again, so a digest that was read too
  early is equal to the wrong thing; two runs of one commit conflict over the name of
  their container.
* *Pull requests*: four events are opening, two pushes or a review, and closing; two
  repositories are what the teachers' counters are shared by, and each has its own counter of students.
* *Scores*: three lines are a repeated test next to another one; the weights and maxima
  make the sum round both ways.
* *Reviews*: one review wanted and two teachers are the smallest overlap of count and
  creation; two edits let a stale copy be written over an edit.
* *Startup*: a start that is cut short, the next one over what it left, and one more over
  what that one made of it; three Apps are two of one flow and one of another.
* *Forks*: a delay that fits the deadline more than once and one that does not; a token
  that is fresh, about to expire, and expired; a student who enrols during a push.

The proofs remove the bounds where they reach. `TestedTreeCoversCommit` and
`DeliveryDateFromPush` are proved for any number of overlapping workers; TLC
confirms them with `Workers = {w1, w2}` and `Users = {u1}`.

**Fairness.** A goroutine that can run does: `WF` of each goroutine's next step, as Go's
scheduler is preemptive, and GitHub, Docker and the disk answer every call in some way.
Clients, GitHub's events and connections that break are the environment and owe
nothing.

* `stream`: `WF` of each goroutine. `SendToReturns` and `Delivered` are promised only
  while no connection has broken (`gone = {}`); that this excuse is needed is what
  `stream_disconnect` shows. `ClosedRunReturns` has no excuse. Weak fairness is
  enough for the mutexes: with finitely many sends, a waiting goroutine is
  eventually alone.
* `webhook`: a goroutine blocked on the full semaphore channel gets `SF` for `Acquire`,
  because Go serves the waiters of a channel first in, first out.
* `courses`: `WF` of the handlers' steps. `AcceptSettles` is a promise to those who try
  again, so its fairness is theirs: whoever lost the refresh token signs in (`WF`), and
  teachers repeat the acceptance whenever a handler is free again and again (`SF`).
* `test_runs`: `WF` of the rebuilds' goroutines and of the waiting request; none
  for the updates and pushes, on which the request does not depend. Weak fairness is
  enough for the semaphore, since each rebuild needs it once. `RebuildReturns` is promised
  until a client goes away during a send (`stuck`).
* `startup`: `WF` of the main goroutine, of `Save`, of the flow's handlers and of responses; none for
  browsers, starts and ends.
* `fork_sync`: `WF` of each handler's next step.
* the other modules state none and have no liveness property.

## Where code and words disagree

`stream_disconnect` is a run whose counterexample TLC prints, and has an entry under
`findings`:

**A send to a client that has just gone away never returns.** `Send` waits on the
channel with `Stream.mu` and `Service.mu` held; `Run` has left its `select` because the
context is done, and its deferred `Close` waits for `Stream.mu`. `service.go:47` says
"Unconnected clients are ignored". Every later `SendTo` and `Add` waits too, and the
goroutine of the push keeps its semaphore token.

The models show, or the translation came upon, the following as well. Where a
constant or a property is named, that change of a `.cfg` makes TLC print the behaviour.

*Submissions* (set `Workers = {w1, w2}`):

* Two first pushes that overlap leave two submissions: the transaction looks up the
  last row and does not use it (`OneSubmission`). `gormdb_submission.go:25` says it
  "updates the most recent submission".
* A push that overlaps a review undoes it, as score and grades are copied from the
  row read before the transaction (`ManualPushKeepsResult`). `run_tests_test.go:248`
  expects them to stay.
* Two overlapping late runs charge twice: each finds no slip day record and inserts one
  (`ChargedOnce`), against `gormdb_enrollment.go:125`.
* A change of the group between the read and the transaction of `RecordResults`
  brings back the grade of a removed member (`GradesOfMembers`).
* Slip days are computed from the end of the run, where `lab-submission.md:163`
  promises the time of the push. `DeliveryDateFromPush` says no more than the code does.

*Tokens*:

* `UpdateGroup` does not list those it removes (`RemovedAreListed`, as a property of the run),
  against `tokens.go:31`, "Users added to a group or removed from
  a group": the request names the new members only, and the removed keep cookies with the
  group. `StaleIsListed` excuses them, with `unlisted`, until something else lists
  them. `CreateGroup` lists nobody.
* A request that fails after `UpdateCookie` loses the new cookie while its user is off
  the list, and so do all other sessions of the user; they keep their claims until these expire.
  `StaleIsListed` excuses these sessions, with `lost`; so it does the other sessions of a
  user whose first request after the change, which took the user off the list, succeeded.
* With two requests in flight a user is listed before the handler changes the rights
  (`tokens.go:67`, `:75`), so a request in between takes the user off the list with the
  old rights in the new cookie, and the halves of `Add` and `Remove` may lose each other's
  entries. `UpdateUser` and the sign-in save the whole user, the flag included.

*Courses and groups*:

* `github.go:577` says "if repo is found, it is safe to reuse it". A group named like a
  student's repository shares it (`GroupNames = {"team", "a-labs"}`, `RowsHaveOwnRepo`).
* `UpdateCourseVisibility` and `updateLastActivityDate` write back a whole enrollment,
  over what a teacher has changed since it was read (two handlers).
* After an `UpdateGroup` that failed on GitHub, saving the old members again skips
  GitHub, because the database has them already. `ApprovedGroupCanPush` therefore asks for
  `faults = 0` in its second part.
* Rejecting an enrollment deletes it, and with it the student's place in a group, but not the
  student's grades for the group's submissions, which `syncGroupGrades` would remove: it is called from
  `UpdateGroup` only (`gormdb_enrollment.go:40`, `gormdb_group.go:93`). `SubmissionsGrades`
  is about groups that `UpdateGroup` changes.
* A group none of whose members is enrolled any more can be neither fetched nor deleted.
* A refresh token that was exchanged and then not saved is lost: the student has to sign
  in again before the enrollment can be accepted.

*Test runs and assignments*:

* `UpdateDockerfile` saves the digest only after the build, so after a build that failed the old
  image is gone and the next update with the old Dockerfile does not rebuild it.
  `LastVersionStored` is about Dockerfiles that build.
* The course is read before the lock is taken (`push.go:33`). With Dockerfiles D1, D2, D1 an update
  that has read the digest of D1, and gets the lock when another one has built D2,
  finds D1 unchanged and leaves the image of D2: the older version wins
  (`ImageOfLastVersion`, as an invariant of the run), against `qf/course.go:17` and
  `assignments.go:24`. `LastVersionStored` asks for the image of the last version unless
  an update had read such a digest (`stale`), and in any case for the image
  of the digest and the last assignments.
* The cache is a map of all courses without a
  mutex, the lock is per course.
* A missing working copy is cloned by a test run without the course's lock, and mounted
  in containers while it is being updated.
* An error of Docker, or a stop, leaves a container behind whose name is a conflict for
  the commit's next run; a rebuild that overlaps a run of the same commit fails on it.
* A request to rebuild all submissions never returns when a client goes away while one of the
  rebuilds, or another run, sends to it: `RebuildReturns` excuses it with `stuck`, and
  the rebuilds that wait keep their tokens of the semaphore.
* Assignments that are gone from the repository are never deleted; nor are expected tests.

*Pull requests and tasks*:

* "We do not assign reviewers if the pull request has already been assigned reviewers"
  (`hooks/pull_request.go:43`) does not hold of overlapping pushes (`maxHandlers = 2`,
  `AssignedOnce`).
* An approval does not survive a push whose handler has read the row before: it saves the draft or
  the stage of review over it (`maxHandlers = 2`, `ApprovalKept` as a property). With one
  handler the row that is written is the one just read, so that nothing of this kind
  can go wrong, and `ApprovalKept` is not among the run's properties.
* The row of a merged pull request whose task or issue cannot be found stays. The issue of a deleted task is
  not closed on GitHub (`tasks.go:120`). An issue that could not be created is not tried
  again, and groups that come later get none.
* The review counters are in memory, shared without a mutex, and start at zero with the
  process.

*Scores*:

* `results.go:47` says "We reach here only if a second non-zero score is found", but any
  line after one that is not zero makes the test faulty, a zero too; that is why `Earned` asks for
  the one scored line to be the last.
* The zero scores made for tests that did not run carry no task name, so the score of a
  task whose test did not even register is too high (`TaskSumCountsAll` asks for a line of each).
* A submission is scored 100 although a test failed, if the test counts for half a percent
  of the total or less: the sum is rounded, not cut off. `SumInRange` says which tests.
* A maximum score of zero divides by zero; `ScoresAssumption` excludes it. That no test is expected
  twice is the unique index of `TestInfo` (`qf/types.pb.go:1387`).

*Reviews*:

* Overlapping `CreateReview`s exceed the number of reviewers, by one each
  (`ReviewsBounded` says by no more). That a teacher reviews a submission once (`teacher.md:375`) is not
  checked.
* `gormdb_assignment.go:181` says "remove old grading criteria and related reviews", but
  no review is removed. A review created between the deletion of the old criteria and the
  creation of the new ones is without criteria.
* `UpdateSubmission` saves all reviews from the teacher's copy, so of two reviewers who
  work at the same time one may lose an edit; `StoredAsSent` says that
  what is stored is at least one of the versions.
* `ComputeScore` may exceed 100, as points are only added up; a review without criteria
  keeps the score it had.

*Start and stop*:

* Loading `.env` does not override variables that are set, so after `-secret`, and after
  the App has been created, the process goes on with the old values until its next start
  (`RunsAsSaved`), against `main.go:34`, `doc/deploy.md:191` and `auth_secret.go:36`.
* `Serve` returns as soon as the listener is closed, so `main` exits while `Shutdown`
  still waits for the requests (`RequestsDrained`, `main.go:114`).
* The flow saves `QUICKFEED_WEBHOOK_SECRET` (`manifest.go:136`), which no start asks for
  (`ready.go:91`, `:111`): a `Save` that is cut off before that line, and after the others,
  leaves a server that runs without its App's webhook secret (`WebhookSecretSaved`, as an
  invariant). `SavedAppMatchesKey` asks for the key's App in the lines that are
  checked, and for no other App's webhook secret.
* Two tabs may each create an App in one flow, as `manifest.go:98` looks at nothing but the code.
  Each handler writes the key before the rest, so the key of one App may be left with the ID
  of the other (`SavedAppMatchesKey` without `~twice`), and the second
  `Save` replaces the first one's backup while `.env` may be half-written (`Recoverable` without
  `~twice`).
* A second callback waits on the unbuffered channel that is read once; `Shutdown` without a
  deadline waits for it (`manifest.go:78`). `FlowEnds` says so.
* A start over a half-written `.env` replaces the backup that still has the operator's
  lines (`save.go:37`). Errors of `Fprintf` are ignored (`save.go:74`).
* `Serve` turns `ErrServerClosed` into nil, so `main` never reports that the server was
  closed prematurely.

*Forks and clients*:

* `SyncFork` says "retrying … until the operation succeeds or the provided context is
  canceled" (`github.go:402`) and gives up after three attempts, waiting once more after
  the last.
* A fork made before a push and recorded after the handler read the list is not
  synchronised until the next push; `SyncedOrCounted` is about those listed.
* Two first uses of an organization make two clients (`manager.go:94`). After the App is
  installed anew the cached client keeps the old installation's ID.

## The proofs

Every theorem is proved for all values of the constants, from the assumptions named
in the modules; TLC evaluates these in every run. They say what the code fixes (kinds of
a value, that a bound is a number) and nothing about the size of an instance. Some
theorems have hypotheses of their own, which are stated in the theorem and named here:

| Hypothesis | Theorems about | Without it |
|---|---|---|
| one handler at a time (`Workers = {w}`, `Handlers = {h}`, `OneHandler`) | serial operations of `Submissions`, rows and requests of `PullRequests`, `CourseAdmin`, `TokenManager` | overlapping handlers break the properties: see the section above, and below for `ReviewsBalanced` |
| `NamesApart`: no two owners have the same repository name | `CourseAdmin` | `checkGroupName` lets a group call itself `<login>-labs`, and then "if repo is found, it is safe to reuse it" (`scm/github.go:577`) fails |
| `TeachersApart`: no teacher is a member of a group | `PullsBalanced` | a teacher in a group is asked as a member too, which the teachers' counter does not count |

A theorem about one handler still covers any number of requests, in any order and with a
failure or a stop between any two steps of each.

An invariant that is to be proved inductive was first checked with TLC, as an invariant of the run's
instance (states in parentheses below).

**Submission streams** (`SubmissionStream_proofs`).

* **`StreamSafety`**: `SendsOnOpenChannel`,
  `StreamLockUnderServiceLock`, `OpenStreamIsReachable`. They are not inductive: that
  nobody closes a channel under a sender needs that a sender inside `Send` holds
  that stream's mutex (`StreamHeld`), and that holders and places of the service
  mutex match (`ServiceHeld`); that an open running stream is the registered one needs
  that the map holds streams of the right user which have started
  (`RegisteredStarted`), that loops visit registered users only (`TodoRegistered`)
  and that `Add` has the old stream on its list (`AddRemovesFirst`). `IInv` is their
  conjunction; `IInvStep` goes through every action.
* **`StreamClosedForGood`**: from `IInv`, no step opens a closed stream or hands it anything.
* **`StreamImplementsFeed`**: the refinement. `FInv` adds to `IInv` that the sender
  in the service carries the latest publication and no stream it has still to visit
  has it (`HandOver`), and that no stream was handed a publication that is yet to come
  (`NothingAhead`). `FeedStep` maps `AddReturn` to `Attach`, `internalRemove` to
  `Detach`, `SendTo` to `Publish`, `SendChannel` to `Hand`, and the rest to stutters.

**Webhook handlers** (`Hooks_proofs`: `PushWebhook`, `ForkSync`, `PullRequests`).

* **`WebhookSafety`**, **`WebhookDrops`**: for any set of
  deliveries, finite or not, and any capacity. The bound on runs needs that the
  tokens are exactly the goroutines between send and receive, counted with
  `Cardinality` (`TokensHeld`), whose steps are given by the lemma `StepSets`.
* **`ForkSyncSafety`**, **`ForkSyncTokens`**: `SyncedOrCounted` and `TokenOutlivesClone` for any
  handlers, students, delays and pushes. A client that a handler has was made and is counted, at
  any interleaving of those that make one (`ClientsCounted`); the token a handler is about
  to clone with was good for more than a unit when it was fetched, and the clock moved at most
  one since (`CloneInv`); and each fork that was listed is still to do, or counted,
  or the present one, or has the version (`ForksInv`), which later steps keep
  because versions only grow.
* **`PullsIssues`**: `IssuesMirrorTasks` for any groups, any sequence of pushes of any
  assignments and any number of handlers of pull requests. `Mirrored` says what
  the rows and GitHub's issues are at each place of the synchronisation: of which tasks there are
  rows in which repositories, which issues are made and not yet recorded (`BetweenInv`,
  `DuringInv`), and that an issue is found by its number, for which GitHub's numbers have to be
  1 to n in each repository, whoever takes the next one, an issue or a pull request
  (`NumbersInv`). Part of it is `PlacesInv`: rows and handlers' copies are of pull
  requests that GitHub has (3,587,149 states).
* **`PullsRecorded`**: `RecordedWasDone` for any number of overlapping handlers and any failures.
  `DidInv` says that the copies handlers have, as well as the rows, are of pull requests on
  GitHub where what they say was done: so an old copy may be saved over any row, and
  GitHub takes back no request and no comment (3,587,149 states; 612,269 with two handlers and
  three events).
* **`PullsAsked`** (one handler): `AssignedOnce`. `RowsInv` says that the handler's copy is
  the row it has read, but for the column that it is about to write, and that a row which is
  being assigned reviewers is a draft; `OnceInv` that a pull request is recorded at most
  once, by the one event of its opening; `Asked`, that requests on GitHub and the
  stage of the row agree except between `RequestReviewers` and `SetReview`.
* **`PullsBalanced`** (one handler, `TeachersApart`): `ReviewsBalanced`. `Counts`: each
  teacher's counter is the number of requests on GitHub plus the one about to be sent, and all of
  them are `m` or `m + 1` for some `m`. That the choice of `getNextReviewer` exists
  for any set of teachers follows from the well-foundedness of the numbers (`LeastNumber`).
  With several handlers the property lasts no longer than `AssignedOnce`: two overlapping pushes to one
  pull request are counted twice and ask for one review.

**Submissions** (`Submissions_proofs`).

* **`SubmissionsSafety`**, **`SubmissionsDates`**: `TestedTreeCoversCommit`
  and `DeliveryDateFromPush` for any group, number of overlapping handlers, times, scores and bounds,
  with `UpdateGroup` interleaved as well. `IInv` adds, per handler, what its local
  copy of a submission satisfies at each place (`JobInv`): a copy read long ago is still
  good enough to be written back, because `head` and `delivered` only grow.
* **`SubmissionsGrades`**, **`SubmissionsCharged`**, **`SubmissionsApprovals`**,
  **`SubmissionsManual`** (one handler): a grade for each member and nobody else, one
  charge per member and no more days than have passed, an approval that only teachers and reviewers take
  away, a manual push that leaves the result. `SerialInv` adds to `IInv` what the copy and
  the rows have in common as nobody else is at work: the grades to be saved are the
  stored ones or approvals of them, the slip days read are the ones stored
  (472,163 states).
* **`SubmissionsImplementGradebook`** (one handler): the refinement. `BookInv` adds to `SerialInv`
  what a handler's copy has in common with the row at each place (`BookJob`): once read, the
  row is the one copied; a copy that is about to be saved is the row with a new
  score, date and grades, these dates between the row's and the present; and while slip days are
  charged the copy is the row again, so that whom the loop has still to visit is
  whom the abstract `due` names (472,163 states). `BookStep` maps `CreateSubmission` to one of the
  three deliveries or the rebuild (`DeliverStep`), `SaveSlipDays`, `UpdateSubmission`, `UpdateReview` and
  `UpdateGroup` to the steps of the table above (`ChargeStep`, `GradeStep`, `ReviewStep`,
  `RegroupStep`), and the rest to stutters.

**Test runs** (`TestRuns_proofs`).

* **`TestRunsSafety`**, **`TestRunsContainers`**: `LastVersionStored` and `ContainersRemoved`
  for any number of updates, Dockerfiles, test runs, rebuilds and faults. `PushesCounted` says that the
  version on GitHub is one more than the updates that have started, counted with `Cardinality`,
  so no version is ever mistaken for `Partial`; `LockInv`, that an update past `Lock` is alone there. As
  long as nothing has failed, every Dockerfile builds and no run has cloned the working copy itself
  (`Fine`), the image is the one of the digest but for the update that replaces both (`TreeInv`,
  `ImageInv`), it is built from the version about to be stored unless an outdated digest was
  compared (`DockerInv`), and the last version is stored unless an update is about to store it
  (`StoredInv`). As long as nothing has failed, the containers are exactly those of the runs that
  wait for one or remove it, with different names (`ContainerInv`).

**Scores** (also in `TestRuns_proofs`).

* **`ScoresSafety`**, **`ScoresTotal`**, **`ScoresTasks`**, **`ScoresRange`**: `SumOfExpectedTests`,
  `TaskSumCountsAll` and `SumInRange` for any tests, maxima, weights and tasks, any output
  and any place where it was cut. The invariant is `ScoresInv`: every object of the
  registry has a score from 0 to its test's maximum, every line of the output was printed for
  a test with its maximum and weight, and the results are `extracted(out)` (1,576,637 states).
  The rest is about the operators. That their recursive definitions have a solution is `RecursionUpTo`,
  from the well-foundedness of the numbers, without an operator as a parameter. By induction over the
  lines, `ExtractedResults` says what the results are after each: one for each expected
  test, in order, which is the zero score, the last line of the test, or that with -1;
  `ResultEarned` and `ExpectedEarned` conclude that each counts what its test has earned. `WeightedIsShare` is
  the equality of the two weighted means; `ShareInRange` that the mean is from 0 to 100, and that
  100 leaves a gap no larger than the rounding (`SumGap`).

**Session tokens** (`TokenManager_proofs`).

* **`TokensSafety`**, **`TokensList`**, **`TokensChanges`**: `StaleIsListed`, `ListMatchesFlags`,
  `AffectedAreListed` and `ClearedWithCurrentCookie` for any users and sessions, with failures and restarts.
  The first and the third excuse the users whom `UpdateGroup` removes.
  With two requests at work TLC finds each of the four violated. `ListInv` gives
  the difference between the list and the flags at each step of `Add` and `Remove`;
  `CookieInv` says that a cookie in the making is true, or its user flagged since;
  `AnnounceInv`, that those a request affects are flagged before the handler; and `StaleInv`
  that a session with old claims has a flagged or an unlisted user or waits for its cookie, at
  any step, so that a restart at any step finds the users it must (10,713,493 states).

**Courses and groups** (`CourseAdmin_proofs`).

* **`CoursesEnrolled`**, **`CoursesRows`**: `EnrolledHaveRepo` and `RowsHaveOwnRepo` for any users,
  groups and names, any number of failing calls and stops. Neither is inductive. `IInv` says which repository
  a record is of and who may push to it (`RowInv`, `Owns`), that no two repositories and
  no two records share an ID (`IDsApart`), and, for each place of a request, which record,
  repository and collaborator are there already (`CreateInv`, `ForkInv`, `GroupJobInv`): a
  request that ends there, by a failure or a stop, has undone none of them. A new
  repository's ID is fresh by `FreshID`.
* **`CoursesPush`**: `ApprovedGroupCanPush`. `IInvPush` adds that a request on a group gives
  the members access before it saves them, and that the repositories of other groups
  have other IDs, so that what it removes is none of theirs (159,984 states, with two users and
  two groups).

**Reviews** (`Reviews_proofs`).

* **`ReviewsSafety`**: `ReviewsBounded` for any finite set of teachers and any
  criteria. It needs to count the requests that are past their check: reviews and requests
  about to create one are together at most `Reviewers + Cardinality(Teachers) - 1` (`CountInv`),
  since one that passes the check has found fewer than `Reviewers` reviews and there are at most
  `Cardinality(Teachers) - 1` others. `ReviewIDs` (IDs without gaps) and `CopyInv` (a browser's copy has
  reviews that exist) say that a new review has a new ID and saving a copy adds none.
* **`ReviewsWhole`**, **`ReviewsCriteria`**: `StoredAsSent` and `ReviewsKeepCriteria`, with
  any overlap. `CopiesInv` says that every copy there is, in a browser or in a request, is of
  reviews that were sent or answered (`Held`), and that each of those, however old, has
  exactly the benchmarks that the review has in the table, each with the same criteria (`Whole`);
  so saving one puts all of a review back to one version and leaves no criterion of another
  (2,104,378 states).

**Start** (`Startup_proofs`).

* **`StartupSafety`**, **`StartupMatches`**: `Recoverable` and `SavedAppMatchesKey` for any
  number of starts, Apps and browsers, with an end between any two steps. `Phases` ties the places of
  the main goroutine, the handlers and `Save` together, as long as one handler of a flow gets past
  `Convert`; `Kept` says in which of the two files the operator's lines are at each step
  of `Save`; `Matched` relates the App in `.env` and the one of the key at each place,
  including the leftovers of flows that were cut short. They hold until a flow creates a second App
  (`twice`), from where on only the types are kept (`UpToTwice`), which is what the two properties
  excuse.
* **`StartupSecret`**: `SecretSurvives`, with any number of Apps in a flow. `Secret` follows the
  secret through `.env`, the environment of the process and the content that `Save` has read: the
  flow's `Save` writes back what it read, at each of its lines. A `Save` that fails may leave no
  `.env` for another handler's `Save` to read, but then its error stays to be reported (`Calls`)
  and the flow ends the process instead of going on (1,294,667 states).

**Only model-checked:** liveness, which needs fairness and `ENABLED` and is beyond the prover:
`SendToReturns`, `Delivered`, `ClosedRunReturns`, `PushesProcessed`, `AcceptSettles`, `RebuildReturns`,
`FlowEnds` and `SyncReturns`. Every other property of a passing run, the two refinements
included, is stated by a theorem. The library's induction theorems take an operator as a
parameter and cannot be instantiated by the provers, so inductions over data (`LeastNumber`,
`UpTo`, the lines of `Scores`) are arguments about the set of counterexamples, which has
a least element. No module declares a recursive operator, which would take the SMT solver away.

## What is not modelled

`PROJECT.json` has a status and a note for each part. Left out on purpose:

* live reload and self-signed certificates, which are for development; the React
  front end, whose state follows the server's answers; the command line tools
  (`cmd`) and the helpers for course tests (`kit`, but for `score`), which are
  single-threaded and keep no state; generated code beyond the records.
* queries: RPC methods that change nothing, and statements of the database that are a step inside
  the handlers that use them. A statement that fails is modelled in `TestRuns` and
  `PullRequests`; in `Submissions` it would stop a handler between two steps, as `RunFails`
  does earlier.
* text: run scripts, detection of languages, parsing of `assignment.json` and criteria,
  log lines, comments on GitHub. A run ends with one of `Scores` or fails.
* Docker, git and GitHub's own failures beyond a call that does not succeed; GitHub is
  the module `GitHub`, and what it does in `PullRequests` and `ForkSync`.
* in `Submissions`: the choice of assignments from the changed files, branches other than the
  default one, and other assignments of the same owner.
* in `PushWebhook`: signatures and unknown events; a stop of the server, after which nothing
  of a push is known.
* in `TokenManager`: streaming RPCs, the access tables of methods that change no rights, several
  courses; the order of the elements in the list.
* in `CourseAdmin`: changes of logins, several courses in one organization, editing a course.
* in `Startup`: two calls of `Save` at the same moment, which would write one file together: the
  second tab's `SaveApp` waits for the first one's to return, although nothing in the code makes it;
  `ListenAndServe` that fails.

Hazards without a property have a note in `PROJECT.json`.

## The plan

What would come next, in this order:

1. **PushPipeline**: `PushWebhook` and `SubmissionStream` composed, so that the waiting
   `SendTo` is seen to keep tokens of the semaphore until no push is handled any more.
2. **Fetcher**: the working copies of all courses, their clones and pulls under the locks
   that are taken and those that are not, as a module that `TestRuns` and `ForkSync` share.
3. Theorems to add: the step of `AcceptSettles` that a repeated acceptance changes nothing it need not;
   and for two handlers, which parts of `RowsInv` are left.
4. Several groups and several handlers in `CourseAdmin`, with an excuse for each of the
   overlaps described above.
