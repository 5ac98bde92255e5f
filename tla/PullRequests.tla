---------------------------- MODULE PullRequests ----------------------------
(***************************************************************************)
(* Tasks, issues and pull requests of group repositories.  A push to the   *)
(* tests repository synchronizes the tasks of the assignments with the     *)
(* database and with an issue in every group's repository.  Students open  *)
(* pull requests that fix an issue; each push to their branch is tested,   *)
(* and when the task's score reaches the limit a teacher and another       *)
(* member of the group are asked for a review, the one with the fewest     *)
(* reviews so far.  A teacher's approval is recorded, and merging deletes  *)
(* the record.                                                             *)
(*                                                                         *)
(* Webhook events are handled concurrently, in any order; each handler     *)
(* reads a row, calls GitHub, and writes the whole row back.  The          *)
(* synchronization runs under the course's lock.  The text of a task is a  *)
(* number; a task's ID is its name and the version that introduced it.     *)
(***************************************************************************)
EXTENDS Naturals, Sequences, FiniteSets, SequencesExt

CONSTANTS
    Group,          \* repository -> the group's members
    Teachers,
    Branches,
    Content,        \* version of the tests repository -> (name of a task -> text)
    maxHandlers,    \* events handled at a time
    MaxEvents,      \* events of students and teachers
    MaxFaults       \* failing calls and stops

Repos == DOMAIN Group
Users == Teachers \union UNION {Group[repo] : repo \in Repos}
Handlers == 1..maxHandlers
NoPull == [number |-> 0]
NoHandler == [pc |-> "idle", event |-> "none", id |-> 0, pull |-> NoPull, reviewers |-> {}]
NoSync == [pc |-> "idle", created |-> {}, updated |-> {}, repos |-> {}, made |-> {}]

ASSUME PullRequestsAssumption == maxHandlers \in Nat \ {0} /\ Len(Content) \in Nat \ {0}
ASSUME ContentAssumption == \A v \in 1..Len(Content) : IsFiniteSet(DOMAIN Content[v])

VARIABLES
    tests,      \* version of the tests repository
    tasks,      \* rows of tasks
    issues,     \* rows of issues
    pulls,      \* table of pull requests: ID -> row
    teacherReviewCounter,   \* user -> reviews; 0 is no entry
    groupReviewCounter,     \* repository -> (user -> reviews)
    ghIssues,   \* GitHub: issues
    ghPulls,    \* GitHub: pull requests, with the reviewers requested and the comments
    events,     \* events on their way
    sent,       \* number of events so far
    handler,    \* handler -> [at, event, id, pull (the row as read), reviewers]
    sync,       \* synchronization of tasks: [at, created, updated, repos (to do), made]
    faults

db == <<tasks, issues, pulls>>
counters == <<teacherReviewCounter, groupReviewCounter>>
github == <<ghIssues, ghPulls>>
vars == <<tests, tasks, issues, pulls, teacherReviewCounter, groupReviewCounter,
          ghIssues, ghPulls, events, sent, handler, sync, faults>>

Task == [id : (UNION {DOMAIN Content[v] : v \in DOMAIN Content}) \X DOMAIN Content, text : Nat]
Issue == [repo : Repos, number : Nat, task : {t.id : t \in tasks}]
PullRequest == [repo : Repos, number : Nat, branch : Branches, user : Users,
                task : (UNION {DOMAIN Content[v] : v \in DOMAIN Content}) \X DOMAIN Content,
                stage : {"draft", "review", "approved"}, comment : BOOLEAN]

Init ==
    /\ tests = 0
    /\ tasks = {} /\ issues = {} /\ pulls = <<>>
    /\ teacherReviewCounter = [u \in Teachers |-> 0]
    /\ groupReviewCounter = [repo \in Repos |-> [u \in Group[repo] |-> 0]]
    /\ ghIssues = {} /\ ghPulls = {}
    /\ events = {} /\ sent = 0
    /\ handler = [h \in Handlers |-> NoHandler]
    /\ sync = NoSync
    /\ faults = 0

Fault == faults < MaxFaults /\ faults' = faults + 1

\* GitHub numbers the issues and the pull requests of a repository together.
nextIssueNumber(repo) ==
    1 + Cardinality({i \in ghIssues : i.repo = repo} \union {p \in ghPulls : p.repo = repo})

-----------------------------------------------------------------------------
(* Tasks and issues.                                                       *)

PushTests ==
    /\ sync.pc = "idle" /\ tests < Len(Content)
    /\ tests' = tests + 1
    /\ sync' = [sync EXCEPT !.pc = "SynchronizeAssignmentTasks"]
    /\ UNCHANGED <<db, counters, github, events, sent, handler, faults>>

TaskNamed(name) == {t \in tasks : t.id[1] = name}
HasChanged(t) == t.text # Content[tests][t.id[1]]

\* One transaction; a task that is gone is deleted with the rows of its issues.
SynchronizeAssignmentTasks ==
    LET deleted == {t \in tasks : t.id[1] \notin DOMAIN Content[tests]}
        changed == {t \in tasks \ deleted : HasChanged(t)}
        updated == {[t EXCEPT !.text = Content[tests][t.id[1]]] : t \in changed}
        created == {[id |-> <<name, tests>>, text |-> Content[tests][name]] :
                        name \in {n \in DOMAIN Content[tests] : TaskNamed(n) = {}}}
    IN
    /\ sync.pc = "SynchronizeAssignmentTasks"
    /\ \/ /\ tasks' = (tasks \ (deleted \union changed)) \union updated \union created
          /\ issues' = {i \in issues : i.task \notin {t.id : t \in deleted}}
          /\ sync' = [pc |-> "synchronizeRepos", created |-> created, updated |-> updated,
                      repos |-> Repos, made |-> {}]
          /\ UNCHANGED faults
       \/ Fault /\ sync' = NoSync /\ UNCHANGED <<tasks, issues>>
    /\ UNCHANGED <<tests, pulls, counters, github, events, sent, handler>>

\* The rows of new issues in a repository; GitHub numbers them as they come.
createIssues(repo, created) ==
    LET order == SetToSeq(created) IN
    {[repo |-> repo, number |-> nextIssueNumber(repo) + i - 1, task |-> order[i].id] :
        i \in DOMAIN order}

\* What GitHub has of these issues.
CreateIssue(rows) ==
    {[repo |-> i.repo, number |-> i.number,
      text |-> (CHOOSE t \in tasks : t.id = i.task).text] : i \in rows}

\* Mutation: It keeps its text.
KeepText(g, updated) == g

\* An issue of an updated task gets its text.
UpdateIssue(g, updated) ==
    LET mine == {t \in updated : \E i \in issues :
                    i.repo = g.repo /\ i.number = g.number /\ i.task = t.id}
    IN  IF mine = {} THEN g ELSE [g EXCEPT !.text = (CHOOSE t \in mine : TRUE).text]

updateIssues(repo, updated) ==
    {IF g.repo = repo THEN UpdateIssue(g, updated) ELSE g : g \in ghIssues}

\* One group repository after the other.  A call that fails ends it all, and what
\* was created so far is not recorded.
synchronizeRepo(repo) ==
    /\ sync.pc = "synchronizeRepos" /\ repo \in sync.repos
    /\ \/ LET rows == createIssues(repo, sync.created) IN
          /\ ghIssues' = updateIssues(repo, sync.updated) \union CreateIssue(rows)
          /\ sync' = [sync EXCEPT !.repos = @ \ {repo}, !.made = @ \union rows]
          /\ UNCHANGED faults
       \/ \E created \in SUBSET sync.created, updated \in SUBSET sync.updated :
            /\ created # sync.created => updated = {}
            /\ Fault /\ sync' = NoSync
            /\ ghIssues' = updateIssues(repo, updated) \union
                               CreateIssue(createIssues(repo, created))
    /\ UNCHANGED <<tests, db, counters, ghPulls, events, sent, handler>>

CreateIssues ==
    /\ sync.pc = "synchronizeRepos" /\ sync.repos = {}
    /\ sync' = NoSync
    /\ \/ issues' = issues \union sync.made /\ UNCHANGED faults
       \/ Fault /\ UNCHANGED issues
    /\ UNCHANGED <<tests, tasks, pulls, counters, github, events, sent, handler>>

synchronizeTasksWithIssues ==
    SynchronizeAssignmentTasks \/ CreateIssues \/ \E repo \in Repos : synchronizeRepo(repo)

-----------------------------------------------------------------------------
(* Students and teachers on GitHub.                                        *)

Send(event) ==
    /\ sent < MaxEvents /\ sent' = sent + 1
    /\ events' = events \union {event}
    /\ UNCHANGED <<tests, db, counters, ghIssues, handler, sync, faults>>

\* A pull request that fixes an issue.
Open(repo, user, branch, issue) ==
    LET pull == [repo |-> repo, number |-> nextIssueNumber(repo), branch |-> branch,
                 user |-> user, requests |-> <<>>, comments |-> 0, open |-> TRUE] IN
    /\ user \in Group[repo] /\ issue.repo = repo
    /\ ~ \E p \in ghPulls : p.repo = repo /\ p.branch = branch /\ p.open
    /\ ghPulls' = ghPulls \union {pull}
    /\ Send([type |-> "opened", repo |-> repo, number |-> pull.number, fixes |-> issue.number])

\* A push to the branch of a pull request, whose task's tests reach the limit or not.
Push(pull, pass) ==
    /\ pull.open
    /\ Send([type |-> "push", repo |-> pull.repo, branch |-> pull.branch, pass |-> pass])
    /\ UNCHANGED ghPulls

\* By a teacher or by another student.
Approve(pull, teacher) ==
    /\ pull.open
    /\ Send([type |-> "review", repo |-> pull.repo, number |-> pull.number, teacher |-> teacher])
    /\ UNCHANGED ghPulls

Close(pull, merged) ==
    /\ pull.open
    /\ ghPulls' = (ghPulls \ {pull}) \union {[pull EXCEPT !.open = FALSE]}
    /\ Send([type |-> "closed", repo |-> pull.repo, number |-> pull.number, merged |-> merged])

-----------------------------------------------------------------------------
(* Handlers of events.                                                     *)

\* The last of some rows; 0 if there is none.
GetPullRequest(rows) == Max(rows \union {0})
ByNumber(e) ==
    GetPullRequest({i \in DOMAIN pulls : pulls[i].repo = e.repo /\ pulls[i].number = e.number})
ByBranch(e) ==
    GetPullRequest({i \in DOMAIN pulls : pulls[i].repo = e.repo /\ pulls[i].branch = e.branch})

\* Select("*") by ID: the whole row, if it is still there.
UpdatePullRequest(h, pull) ==
    pulls' = [i \in DOMAIN pulls |-> IF i = handler[h].id THEN pull ELSE pulls[i]]

Goto(h, at, pull) == handler' = [handler EXCEPT ![h].pc = at, ![h].pull = pull]
Return(h) == handler' = [handler EXCEPT ![h] = NoHandler]

\* The rows the event is about are read; nothing is done without them.
HandleEvent(h) ==
    /\ handler[h].pc = "idle"
    /\ \E e \in events :
        LET i == IF e.type = "push" THEN ByBranch(e) ELSE ByNumber(e)
            start(at) == handler' = [handler EXCEPT
                ![h] = [pc |-> at, event |-> e, id |-> i, pull |-> pulls[i], reviewers |-> {}]]
        IN
        /\ events' = events \ {e}
        /\ \/ /\ e.type = "opened"
              /\ handler' = [handler EXCEPT ![h].pc = "opened", ![h].event = e]
           \/ e.type = "review" /\ i # 0 /\ start("review")
           \/ e.type = "closed" /\ i # 0 /\ e.merged /\ start("closed")
           \/ e.type = "push" /\ i # 0 /\ start("push")
           \/ /\ e.type # "opened" /\ (i = 0 \/ (e.type = "closed" /\ ~ e.merged))
              /\ UNCHANGED handler
    /\ UNCHANGED <<tests, db, counters, github, sent, sync, faults>>
\* The issue that the pull request fixes, and its task.
findIssue(e) == {i \in issues : i.repo = e.repo /\ i.number = e.fixes}

handlePullRequestOpened(h) ==
    LET e == handler[h].event IN
    /\ handler[h].pc = "opened"
    /\ IF findIssue(e) = {} THEN Return(h)
       ELSE \E i \in findIssue(e), g \in ghPulls :
                /\ g.repo = e.repo /\ g.number = e.number
                /\ Goto(h, "CreatePullRequest",
                        [repo |-> g.repo, number |-> g.number, branch |-> g.branch,
                         user |-> g.user, task |-> i.task, stage |-> "draft", comment |-> FALSE])
    /\ UNCHANGED <<tests, db, counters, github, events, sent, sync, faults>>

\* A new row has an ID after those of the others.  (The database also passes over the
\* IDs of deleted rows; the one handler that knows such an ID is the one that deleted it
\* and has returned, when events are handled one at a time.)
CreatePullRequest(h) ==
    LET id == Max(DOMAIN pulls \union {0}) + 1 IN
    /\ handler[h].pc = "CreatePullRequest"
    /\ \/ pulls' = [i \in DOMAIN pulls \union {id} |->
                        IF i = id THEN handler[h].pull ELSE pulls[i]]
          /\ UNCHANGED faults
       \/ Fault /\ UNCHANGED pulls
    /\ Return(h)
    /\ UNCHANGED <<tests, tasks, issues, counters, github, events, sent, sync>>

HasReviewers(pull) == pull.stage \in {"review", "approved"}

\* The task is looked up, and the reviewers are asked if the score reaches the limit.
handlePullRequestPush(h) ==
    LET pull == handler[h].pull IN
    /\ handler[h].pc = "push"
    /\ IF pull.task \notin {t.id : t \in tasks} THEN Return(h)
       ELSE Goto(h, IF handler[h].event.pass /\ ~ HasReviewers(pull)
                    THEN "AssignReviewers" ELSE "CreateIssueComment", pull)
    /\ UNCHANGED <<tests, db, counters, github, events, sent, sync, faults>>

\* Mutation: Always the same one.
getSameReviewer(users, counter) == CHOOSE u \in users : TRUE

\* Someone without an entry, or else with the lowest count.
getNextReviewer(users, counter) ==
    CHOOSE u \in users : \A v \in users : counter[u] <= counter[v]

\* The teacher is counted before it is known that there is a student.
AssignReviewers(h) ==
    LET pull == handler[h].pull
        students == Group[pull.repo] \ {pull.user}
        teacher == getNextReviewer(Teachers, teacherReviewCounter)
        student == getNextReviewer(students, groupReviewCounter[pull.repo])
    IN
    /\ handler[h].pc = "AssignReviewers"
    /\ teacherReviewCounter' = [teacherReviewCounter EXCEPT ![teacher] = @ + 1]
    /\ IF students = {} THEN Return(h) /\ UNCHANGED groupReviewCounter
       ELSE /\ groupReviewCounter' = [groupReviewCounter EXCEPT ![pull.repo][student] = @ + 1]
            /\ handler' = [handler EXCEPT ![h].pc = "RequestReviewers",
                                          ![h].reviewers = {teacher, student}]
    /\ UNCHANGED <<tests, db, github, events, sent, sync, faults>>

\* The pull request of a row on GitHub.
AtGitHub(pull) == CHOOSE g \in ghPulls : g.repo = pull.repo /\ g.number = pull.number

\* Mutation: An error is not looked at.
IgnoreError(h) ==
    LET pull == handler[h].pull g == AtGitHub(pull) IN
    /\ handler[h].pc = "RequestReviewers"
    /\ Goto(h, "SetReview", [pull EXCEPT !.stage = "review"])
    /\ \/ /\ ghPulls' = (ghPulls \ {g})
                 \union {[g EXCEPT !.requests = Append(@, handler[h].reviewers)]}
          /\ UNCHANGED faults
       \/ Fault /\ UNCHANGED ghPulls
    /\ UNCHANGED <<tests, db, counters, ghIssues, events, sent, sync>>

RequestReviewers(h) ==
    LET pull == handler[h].pull g == AtGitHub(pull) IN
    /\ handler[h].pc = "RequestReviewers"
    /\ \/ /\ ghPulls' = (ghPulls \ {g})
                 \union {[g EXCEPT !.requests = Append(@, handler[h].reviewers)]}
          /\ Goto(h, "SetReview", [pull EXCEPT !.stage = "review"])
          /\ UNCHANGED faults
       \/ Fault /\ Return(h) /\ UNCHANGED ghPulls
    /\ UNCHANGED <<tests, db, counters, ghIssues, events, sent, sync>>

\* Mutation: The stage is not saved.
KeepDraft(h) ==
    /\ handler[h].pc = "SetReview"
    /\ Goto(h, "CreateIssueComment", [handler[h].pull EXCEPT !.stage = "draft"])
    /\ UNCHANGED <<tests, db, counters, github, events, sent, sync, faults>>

SetReview(h) ==
    LET pull == handler[h].pull IN
    /\ handler[h].pc = "SetReview"
    /\ \/ UpdatePullRequest(h, pull) /\ Goto(h, "CreateIssueComment", pull) /\ UNCHANGED faults
       \/ Fault /\ Return(h) /\ UNCHANGED pulls
    /\ UNCHANGED <<tests, tasks, issues, counters, github, events, sent, sync>>

\* A comment on the first push, that later ones change.
CreateIssueComment(h) ==
    LET pull == handler[h].pull g == AtGitHub(pull) IN
    /\ handler[h].pc = "CreateIssueComment"
    /\ \/ pull.comment /\ Return(h) /\ UNCHANGED <<ghPulls, faults>>
       \/ /\ ~ pull.comment
          /\ ghPulls' = (ghPulls \ {g}) \union {[g EXCEPT !.comments = @ + 1]}
          /\ Goto(h, "SetComment", [pull EXCEPT !.comment = TRUE])
          /\ UNCHANGED faults
       \/ Fault /\ Return(h) /\ UNCHANGED ghPulls
    /\ UNCHANGED <<tests, db, counters, ghIssues, events, sent, sync>>

SetComment(h) ==
    /\ handler[h].pc = "SetComment"
    /\ \/ UpdatePullRequest(h, handler[h].pull) /\ UNCHANGED faults
       \/ Fault /\ UNCHANGED pulls
    /\ Return(h)
    /\ UNCHANGED <<tests, tasks, issues, counters, github, events, sent, sync>>

\* Only a teacher's approval counts.
handlePullRequestReview(h) ==
    /\ handler[h].pc = "review"
    /\ \/ handler[h].event.teacher
          /\ UpdatePullRequest(h, [handler[h].pull EXCEPT !.stage = "approved"]) /\ UNCHANGED faults
       \/ ~ handler[h].event.teacher /\ UNCHANGED <<pulls, faults>>
       \/ Fault /\ UNCHANGED pulls
    /\ Return(h)
    /\ UNCHANGED <<tests, tasks, issues, counters, github, events, sent, sync>>

\* The row of an approved pull request is not deleted: its issue is read into a
\* nil pointer, which is an error.
HandleMergingPR(h) ==
    LET pull == handler[h].pull IN
    /\ handler[h].pc = "closed"
    /\ \/ pull.stage # "approved"
          /\ pulls' = [i \in DOMAIN pulls \ {handler[h].id} |-> pulls[i]]
          /\ UNCHANGED faults
       \/ pull.stage = "approved" /\ UNCHANGED <<pulls, faults>>
       \/ Fault /\ UNCHANGED pulls
    /\ Return(h)
    /\ UNCHANGED <<tests, tasks, issues, counters, github, events, sent, sync>>

\* The server stops: handlers are lost, and the counts of reviews.
Stop ==
    /\ Fault
    /\ handler' = [h \in Handlers |-> NoHandler] /\ sync' = NoSync
    /\ teacherReviewCounter' = [u \in Teachers |-> 0]
    /\ groupReviewCounter' = [repo \in Repos |-> [u \in Group[repo] |-> 0]]
    /\ UNCHANGED <<tests, db, github, events, sent>>

GitHubStep ==
    \/ PushTests
    \/ \E repo \in Repos, branch \in Branches, issue \in ghIssues :
            \E user \in Group[repo] : Open(repo, user, branch, issue)
    \/ \E pull \in ghPulls :
            \/ \E pass \in BOOLEAN : Push(pull, pass)
            \/ \E teacher \in BOOLEAN : Approve(pull, teacher)
            \/ \E merged \in BOOLEAN : Close(pull, merged)

HandlerStep(h) ==
    \/ HandleEvent(h) \/ handlePullRequestOpened(h) \/ CreatePullRequest(h)
    \/ handlePullRequestPush(h) \/ AssignReviewers(h) \/ RequestReviewers(h) \/ SetReview(h)
    \/ CreateIssueComment(h) \/ SetComment(h) \/ handlePullRequestReview(h) \/ HandleMergingPR(h)

Next ==
    \/ GitHubStep \/ synchronizeTasksWithIssues \/ Stop
    \/ \E h \in Handlers : HandlerStep(h)

Spec == Init /\ [][Next]_vars

-----------------------------------------------------------------------------
TypeOK ==
    /\ tasks \subseteq Task /\ issues \subseteq Issue
    /\ \A i \in DOMAIN pulls : pulls[i] \in PullRequest

\* Between synchronizations, if none of them failed, every task has one issue in
\* every group's repository, with the task's text, and there is no row of another
\* (synchronizeTasksWithIssues).
IssuesMirrorTasks ==
    (sync.pc = "idle" /\ faults = 0) =>
        \A repo \in Repos : \A t \in tasks : \E i \in issues :
            /\ i.repo = repo
            /\ {j \in issues : j.repo = repo /\ j.task = t.id} = {i}
            /\ \E g \in ghIssues : g.repo = repo /\ g.number = i.number /\ g.text = t.text

\* "We do not assign reviewers if the pull request has already been assigned
\* reviewers" (hooks/pull_request.go:43), unless the first assignment was not recorded.
AssignedOnce == faults = 0 => \A g \in ghPulls : Len(g.requests) <= 1

\* The teacher with the fewest reviews is next: the requests on GitHub are spread
\* evenly, unless a request fails or finds no other student, which counts, or the
\* server stops (getNextReviewer).
ReviewsBalanced ==
    (faults = 0 /\ \A repo \in Repos : Cardinality(Group[repo]) > 1) =>
        \A t, u \in Teachers :
            LET requested(x) == Cardinality({g \in ghPulls :
                    \E i \in DOMAIN g.requests : x \in g.requests[i]})
            IN  requested(t) <= requested(u) + 1 + Cardinality({h \in Handlers :
                    handler[h].pc = "RequestReviewers" /\ u \in handler[h].reviewers})

\* What a row records was done at GitHub, whichever calls failed, however handlers
\* overlap and whichever row a copy is written to: where no reviewer was requested, or
\* no comment made, the row must not say so, since no later push would make up for it
\* (AssignReviewers, assignments/pull_requests.go:52; CreateIssueComment).
RecordedWasDone ==
    \A i \in DOMAIN pulls : \E g \in ghPulls :
        /\ g.repo = pulls[i].repo /\ g.number = pulls[i].number
        /\ pulls[i].stage = "review" => g.requests # <<>>
        /\ pulls[i].comment => g.comments > 0

\* A teacher's approval is not undone while the pull request exists.  So it is when
\* events are handled one at a time; a handler of a push that overlaps that of the
\* review writes its older copy of the row over the approval (UpdatePullRequest).
ApprovalKept ==
    [][\A i \in DOMAIN pulls :
        pulls[i].stage = "approved" =>
            \E j \in DOMAIN pulls' : /\ pulls'[j].number = pulls[i].number
                                     /\ pulls'[j].repo = pulls[i].repo
                                     /\ pulls'[j].stage = "approved"]_pulls
=============================================================================
