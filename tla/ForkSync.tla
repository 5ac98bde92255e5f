------------------------------ MODULE ForkSync ------------------------------
(***************************************************************************)
(* Pushes to the assignments repository of a course: the handler fetches the  *)
(* course's SCM client (scm/manager.go), updates the local working copy with   *)
(* a token of the client (scm/github_app.go, scm/fetcher.go), and then brings  *)
(* the students' forks up to date, one after the other (web/hooks/sync.go).    *)
(* Meanwhile students enrol, which makes forks (web/courses.go), and other     *)
(* pushes are handled.                                                       *)
(*                                                                          *)
(* Versions of the repository are numbers, as are clients, and the time, of    *)
(* which a token lives TokenLife units and is renewed a unit (a minute) before *)
(* it expires.  How long a call waits under GitHub's rate limit is counted in  *)
(* units of its own; the time may pass at any rate meanwhile.                  *)
(***************************************************************************)
EXTENDS Naturals

CONSTANTS
    Pushes,         \* bound: the pushes being handled
    Students,       \* each has at most one fork
    MaxPushes,      \* bound: the pushes to the assignments repository
    TokenLife,      \* how long GitHub lets a token live
    MaxTime,        \* bound: the time
    Delays,         \* how long GitHub may ask to wait
    Deadline,       \* the timeout of SyncFork
    Nobody

maxSyncRetries == 3

ASSUME DelaysAssumption == Delays \subseteq Nat \ {0} /\ Deadline \in Nat
ASSUME MaxPushesAssumption == MaxPushes \in Nat
ASSUME TokenAssumption == TokenLife \in Nat /\ TokenLife > 1 /\ MaxTime \in Nat \ {0}
ASSUME NobodyAssumption == Nobody \notin Pushes \cup Students

VARIABLES
    upstream,   \* the version of the assignments repository
    fork,       \* the version of each student's fork, 0 if there is none
    repos,      \* the database: students whose repository is recorded
    scms,       \* Manager.scms: the course's client, 0 if none
    clients,    \* the number of clients made
    expiresAt,  \* of each client's token at GitHub, 0 if it has none
    holder,     \* who holds the mutex of each client's token manager
    now,        \* the time
    pc,         \* where each handler is
    job         \* its local variables

course == <<upstream, fork, repos>>
tokens == <<expiresAt, holder>>
syncVars == <<course, scms, clients, tokens, now, pc, job>>

Clients == 1 .. MaxPushes

(* listed and errs, the repositories that were to be synchronised and those   *)
(* counted as errors, are kept until the handler returns.                     *)
Job == [version : Nat, client : {0} \cup Clients, expires : Nat, got : Nat,
        listed : SUBSET Students, todo : SUBSET Students, errs : SUBSET Students,
        repo : Students \cup {Nobody}, attempt : 0 .. maxSyncRetries, left : 0 .. Deadline]
NoJob == [version |-> 0, client |-> 0, expires |-> 0, got |-> 0, listed |-> {}, todo |-> {},
          errs |-> {}, repo |-> Nobody, attempt |-> 0, left |-> 0]

SyncTypeOK ==
    /\ upstream \in 1 .. MaxPushes + 1
    /\ fork \in [Students -> 0 .. upstream]
    /\ repos \subseteq Students
    /\ scms \in {0} \cup Clients /\ clients \in 0 .. MaxPushes
    /\ expiresAt \in [Clients -> Nat]
    /\ holder \in [Clients -> Pushes \cup {Nobody}]
    /\ now \in 1 .. MaxTime
    /\ pc \in [Pushes -> {"idle", "client", "create", "token", "request", "clone", "list",
                            "sync", "merge", "wait", "return"}]
    /\ job \in [Pushes -> Job]

SyncInit ==
    /\ upstream = 1
    /\ fork = [s \in Students |-> 0]
    /\ repos = {}
    /\ scms = 0
    /\ clients = 0
    /\ expiresAt = [c \in Clients |-> 0]
    /\ holder = [c \in Clients |-> Nobody]
    /\ now = 1
    /\ pc = [h \in Pushes |-> "idle"]
    /\ job = [h \in Pushes |-> NoJob]

SyncGoto(h, at) == pc' = [pc EXCEPT ![h] = at]

(* A git client authenticates less than a unit after it was given its token.  *)
Tick ==
    /\ now < MaxTime
    /\ \A h \in Pushes : pc[h] = "clone" => now = job[h].got
    /\ now' = now + 1
    /\ UNCHANGED <<course, scms, clients, tokens, pc, job>>

(* A student enrols: the fork is made from the repository as it is ...       *)
createForkedRepo(s) ==
    /\ fork[s] = 0
    /\ fork' = [fork EXCEPT ![s] = upstream]
    /\ UNCHANGED <<upstream, repos, scms, clients, tokens, now, pc, job>>

(* ... and recorded in the database afterwards.                              *)
CreateRepository(s) ==
    /\ fork[s] # 0
    /\ s \notin repos
    /\ repos' = repos \cup {s}
    /\ UNCHANGED <<upstream, fork, scms, clients, tokens, now, pc, job>>

(* The teachers push to the default branch of the assignments repository, and *)
(* the event reaches a handler.                                              *)
PushAssignments(h) ==
    /\ upstream <= MaxPushes
    /\ pc[h] = "idle"
    /\ upstream' = upstream + 1
    /\ job' = [job EXCEPT ![h] = [NoJob EXCEPT !.version = upstream + 1]]
    /\ SyncGoto(h, "client")
    /\ UNCHANGED <<fork, repos, scms, clients, tokens, now>>

SyncReturn(h) ==
    /\ pc[h] = "return"
    /\ job' = [job EXCEPT ![h] = NoJob]
    /\ SyncGoto(h, "idle")
    /\ UNCHANGED <<course, scms, clients, tokens, now>>

(* An error, which is logged, ends the handler.                              *)
Fails(h) == SyncGoto(h, "idle") /\ job' = [job EXCEPT ![h] = NoJob]

----------------------------------------------------------------------------
(* The client.                                                               *)

(* The mutex of the manager is held for the lookup, ...                      *)
GetOrCreateSCM(h) ==
    /\ pc[h] = "client"
    /\ job' = [job EXCEPT ![h].client = scms]
    /\ SyncGoto(h, IF scms = 0 THEN "create" ELSE "token")
    /\ UNCHANGED <<course, scms, clients, tokens, now>>

(* ... not while a client is made, and again to store it.                    *)
newGithubAppClient(h) ==
    /\ pc[h] = "create"
    /\ \/ /\ clients' = clients + 1
          /\ scms' = clients + 1
          /\ job' = [job EXCEPT ![h].client = clients + 1]
          /\ SyncGoto(h, "token")
       \/ Fails(h) /\ UNCHANGED <<clients, scms>>
    /\ UNCHANGED <<course, tokens, now>>

----------------------------------------------------------------------------
(* Its token.                                                                *)

(* Mutant: a token is used to the end. *)
ValidToTheEnd(c) == now < expiresAt[c]

(* The cached token has a unit left.                                         *)
Valid(c) == expiresAt[c] # 0 /\ now < expiresAt[c] - 1

(* Token holds the client's mutex, also while it requests a new token.        *)
Token(h) ==
    LET c == job[h].client IN
    /\ pc[h] = "token"
    /\ holder[c] = Nobody
    /\ IF Valid(c)
       THEN /\ job' = [job EXCEPT ![h].expires = expiresAt[c], ![h].got = now]
            /\ SyncGoto(h, "clone")
            /\ UNCHANGED holder
       ELSE /\ holder' = [holder EXCEPT ![c] = h]
            /\ SyncGoto(h, "request")
            /\ UNCHANGED job
    /\ UNCHANGED <<course, scms, clients, expiresAt, now>>

requestNewToken(h) ==
    LET c == job[h].client IN
    /\ pc[h] = "request"
    /\ holder' = [holder EXCEPT ![c] = Nobody]
    /\ \/ /\ expiresAt' = [expiresAt EXCEPT ![c] = now + TokenLife]
          /\ job' = [job EXCEPT ![h].expires = now + TokenLife, ![h].got = now]
          /\ SyncGoto(h, "clone")
       \/ Fails(h) /\ UNCHANGED expiresAt
    /\ UNCHANGED <<course, scms, clients, now>>

(* The working copy is cloned or updated, on which the forks do not depend.    *)
Clone(h) ==
    /\ pc[h] = "clone"
    /\ \/ job' = [job EXCEPT ![h].client = 0, ![h].expires = 0, ![h].got = 0] /\ SyncGoto(h, "list")
       \/ Fails(h)
    /\ UNCHANGED <<course, scms, clients, tokens, now>>

----------------------------------------------------------------------------
(* syncStudentRepos.                                                         *)

GetRepositories(h) ==
    /\ pc[h] = "list"
    /\ \/ /\ job' = [job EXCEPT ![h].listed = repos, ![h].todo = repos]
          /\ SyncGoto(h, "sync")
       \/ Fails(h)
    /\ UNCHANGED <<course, scms, clients, tokens, now>>

(* The repositories come in the order of the database.                       *)
First(repositories) == CHOOSE s \in repositories : TRUE

syncStudentRepos(h) ==
    /\ pc[h] = "sync"
    /\ IF job[h].todo = {} THEN SyncGoto(h, "return") /\ UNCHANGED job
       ELSE LET s == First(job[h].todo) IN
            /\ job' = [job EXCEPT ![h].repo = s, ![h].todo = @ \ {s}, ![h].left = Deadline]
            /\ SyncGoto(h, "merge")
    /\ UNCHANGED <<course, scms, clients, tokens, now>>

(* Mutant: the first error ends the loop. *)
StopAtError(h, errs) ==
    /\ SyncGoto(h, IF errs = {} THEN "sync" ELSE "return")
    /\ job' = [job EXCEPT ![h].errs = @ \cup errs, ![h].repo = Nobody, ![h].attempt = 0,
                          ![h].left = 0]

(* Mutant: a fork that failed has its turn again. *)
TryAgain(h, errs) ==
    /\ SyncGoto(h, "sync")
    /\ job' = [job EXCEPT ![h].todo = @ \cup errs, ![h].repo = Nobody, ![h].attempt = 0,
                          ![h].left = 0]

(* SyncFork returns: an error is counted, and the next fork's turn comes.     *)
Synced(h, errs) ==
    /\ SyncGoto(h, "sync")
    /\ job' = [job EXCEPT ![h].errs = @ \cup errs, ![h].repo = Nobody, ![h].attempt = 0,
                          ![h].left = 0]

Error(h) == Synced(h, {job[h].repo})

(* rateLimitDelay: the call is to be repeated after a delay.                  *)
rateLimitDelay(h) ==
    /\ job' = [job EXCEPT ![h].attempt = @ + 1]
    /\ SyncGoto(h, "wait")

(* GitHub merges what is upstream now; or it reports a conflict or another     *)
(* error; or that it has been called too often.                              *)
SyncFork(h) ==
    /\ pc[h] = "merge"
    /\ \/ fork' = [fork EXCEPT ![job[h].repo] = upstream] /\ Synced(h, {})
       \/ Error(h) /\ UNCHANGED fork
       \/ rateLimitDelay(h) /\ UNCHANGED fork
    /\ UNCHANGED <<upstream, repos, scms, clients, tokens, now>>

(* The select after it: the timeout comes first, or the delay is over, which   *)
(* the last attempt waits for too.                                            *)
Wait(h) ==
    /\ pc[h] = "wait"
    /\ \E delay \in Delays :
        IF delay > job[h].left \/ job[h].attempt = maxSyncRetries
        THEN Error(h)
        ELSE job' = [job EXCEPT ![h].left = @ - delay] /\ SyncGoto(h, "merge")
    /\ UNCHANGED <<course, scms, clients, tokens, now>>

handlePush(h) ==
    \/ GetOrCreateSCM(h) \/ newGithubAppClient(h) \/ Token(h) \/ requestNewToken(h) \/ Clone(h)
    \/ GetRepositories(h) \/ syncStudentRepos(h) \/ SyncFork(h) \/ Wait(h) \/ SyncReturn(h)

SyncNext ==
    \/ Tick
    \/ \E s \in Students : createForkedRepo(s) \/ CreateRepository(s)
    \/ \E h \in Pushes : PushAssignments(h) \/ handlePush(h)

(* GitHub answers every call, in some way.                                   *)
SyncSpec == SyncInit /\ [][SyncNext]_syncVars /\ \A h \in Pushes : WF_syncVars(handlePush(h))

----------------------------------------------------------------------------
(* When the handler of a push has gone through the forks, each one that was   *)
(* recorded when it began has the version of that push or a later one, or has  *)
(* been counted as an error: one fork's conflict or a rate limit keeps no      *)
(* other from being updated (sync.go:46).                                     *)
SyncedOrCounted ==
    \A h \in Pushes : pc[h] = "return" =>
        \A s \in job[h].listed \ job[h].errs : fork[s] >= job[h].version

(* GitHub still takes the token when git comes to use it, also one that        *)
(* another handler requested long before (github_app.go:88).                  *)
TokenOutlivesClone == \A h \in Pushes : pc[h] = "clone" => now < job[h].expires

(* The handler of a push ends, whatever GitHub answers, and so gives back its  *)
(* slot of the webhook's semaphore (web/hooks/github.go:88).                            *)
SyncReturns == \A h \in Pushes : pc[h] = "client" ~> pc[h] = "idle"
=============================================================================
