---------------------------- MODULE Hooks_proofs ----------------------------
(***************************************************************************)
(* Proofs about the handlers of webhook events.  First the webhook, which       *)
(* starts a goroutine for each push, for every set of deliveries (finite or     *)
(* not), every assignment of commits to them and every semaphore capacity.      *)
(* Then the handlers of pushes to the assignments repository, for any students, *)
(* handlers and delays, any number of pushes, and every life of a token that    *)
(* is longer than the unit it is renewed early.  Last the tasks, their issues   *)
(* and the pull requests, for any groups, teachers and assignments: the issues  *)
(* for any number of handlers, the rest for one.                              *)
(***************************************************************************)
EXTENDS PushWebhook, ForkSync, PullRequests, FiniteSetTheorems,
        WellFoundedInduction, TLAPS

-----------------------------------------------------------------------------
(* The webhook.                                                              *)

(* The channel holds a token for every goroutine past its send and before its *)
(* receive.                                                                   *)
TokensHeld == IsFiniteSet(Holding) /\ sem = Cardinality(Holding)

WebhookIInv ==
    /\ WebhookTypeOK
    /\ OneGoroutinePerCommit
    /\ MapIsActiveCommits
    /\ TokensHeld

(* The invariant holds when the server starts: no commit and no token. *)
LEMMA InitWebhookIInv == WebhookInit => WebhookIInv
  <1> SUFFICES ASSUME WebhookInit PROVE WebhookIInv
    OBVIOUS
  <1>1. WebhookTypeOK
    BY MaxRunsAssumption DEF WebhookInit, WebhookTypeOK, PC
  <1>2. Active = {} /\ Holding = {}
    BY DEF WebhookInit, Active, Holding
  <1>3. TokensHeld
    BY <1>2, FS_EmptySet DEF WebhookInit, TokensHeld
  <1>4. OneGoroutinePerCommit /\ MapIsActiveCommits
    BY <1>2 DEF WebhookInit, OneGoroutinePerCommit, MapIsActiveCommits
  <1>5. QED
    BY <1>1, <1>3, <1>4 DEF WebhookIInv

(* What each step does to the goroutines in flight and to the tokens. *)
LEMMA StepSets ==
  ASSUME WebhookTypeOK, NEW d \in Deliveries
  PROVE  /\ IgnoreDuplicate(d) => Active' = Active /\ Holding' = Holding
         /\ StartPush(d) => d \notin Active /\ Active' = Active \cup {d} /\ Holding' = Holding
         /\ Acquire(d) => d \notin Holding /\ Active' = Active /\ Holding' = Holding \cup {d}
         /\ HandlePush(d) => Active' = Active /\ Holding' = Holding
         /\ Release(d) => d \in Holding /\ Active' = Active /\ Holding' = Holding \ {d}
         /\ RemoveCommit(d) => d \in Active /\ Active' = Active \ {d} /\ Holding' = Holding
  <1> USE DEF WebhookTypeOK, Active, Holding
  <1>1. IgnoreDuplicate(d) => Active' = Active /\ Holding' = Holding
    BY DEF IgnoreDuplicate
  <1>2. StartPush(d) => d \notin Active /\ Active' = Active \cup {d} /\ Holding' = Holding
    BY DEF StartPush
  <1>3. Acquire(d) => d \notin Holding /\ Active' = Active /\ Holding' = Holding \cup {d}
    BY DEF Acquire
  <1>4. HandlePush(d) => Active' = Active /\ Holding' = Holding
    BY DEF HandlePush
  <1>5. Release(d) => d \in Holding /\ Active' = Active /\ Holding' = Holding \ {d}
    BY DEF Release
  <1>6. RemoveCommit(d) => d \in Active /\ Active' = Active \ {d} /\ Holding' = Holding
    BY DEF RemoveCommit
  <1>7. QED
    BY <1>1, <1>2, <1>3, <1>4, <1>5, <1>6

(* Every step keeps the invariant. *)
LEMMA WebhookIInvStep == WebhookIInv /\ [WebhookNext]_webhookVars => WebhookIInv'
  <1> SUFFICES ASSUME WebhookIInv, [WebhookNext]_webhookVars PROVE WebhookIInv'
    OBVIOUS
  <1> USE DEF WebhookIInv
  <1>1. ASSUME NEW d \in Deliveries, IgnoreDuplicate(d) PROVE WebhookIInv'
    <2>1. Active' = Active /\ Holding' = Holding
      BY <1>1, StepSets
    <2>2. WebhookTypeOK'
      BY <1>1 DEF IgnoreDuplicate, WebhookTypeOK, PC
    <2>3. QED
      BY <1>1, <2>1, <2>2
      DEF IgnoreDuplicate, OneGoroutinePerCommit, MapIsActiveCommits, TokensHeld
  <1>2. ASSUME NEW d \in Deliveries, StartPush(d) PROVE WebhookIInv'
    <2>1. d \notin Active /\ Active' = Active \cup {d} /\ Holding' = Holding
      BY <1>2, StepSets
    <2>2. WebhookTypeOK'
      BY <1>2 DEF StartPush, WebhookTypeOK, PC
    <2>3. TokensHeld'
      BY <1>2, <2>1 DEF StartPush, TokensHeld
    <2>4. \A e \in Active : CommitOf[e] # CommitOf[d]
      BY <1>2 DEF StartPush, MapIsActiveCommits
    <2>5. OneGoroutinePerCommit'
      BY <2>1, <2>4 DEF OneGoroutinePerCommit
    <2>6. MapIsActiveCommits'
      BY <1>2, <2>1 DEF StartPush, MapIsActiveCommits
    <2>7. QED
      BY <2>2, <2>3, <2>5, <2>6
  <1>3. ASSUME NEW d \in Deliveries, Acquire(d) PROVE WebhookIInv'
    <2>1. d \notin Holding /\ Active' = Active /\ Holding' = Holding \cup {d}
      BY <1>3, StepSets
    <2>2. WebhookTypeOK'
      BY <1>3, MaxRunsAssumption DEF Acquire, WebhookTypeOK, PC
    <2>3. TokensHeld'
      BY <1>3, <2>1, FS_AddElement DEF Acquire, TokensHeld
    <2>4. QED
      BY <1>3, <2>1, <2>2, <2>3 DEF Acquire, OneGoroutinePerCommit, MapIsActiveCommits
  <1>4. ASSUME NEW d \in Deliveries, HandlePush(d) PROVE WebhookIInv'
    <2>1. Active' = Active /\ Holding' = Holding
      BY <1>4, StepSets
    <2>2. WebhookTypeOK'
      BY <1>4 DEF HandlePush, WebhookTypeOK, PC
    <2>3. QED
      BY <1>4, <2>1, <2>2
      DEF HandlePush, OneGoroutinePerCommit, MapIsActiveCommits, TokensHeld
  <1>5. ASSUME NEW d \in Deliveries, Release(d) PROVE WebhookIInv'
    <2>1. d \in Holding /\ Active' = Active /\ Holding' = Holding \ {d}
      BY <1>5, StepSets
    <2>2. TokensHeld'
      BY <1>5, <2>1, FS_RemoveElement DEF Release, TokensHeld
    <2>3. sem' \in Nat
      BY <2>2, FS_CardinalityType DEF TokensHeld
    <2>4. sem' \in 0 .. maxConcurrentTestRuns
      BY <1>5, <2>3, MaxRunsAssumption DEF Release, WebhookTypeOK
    <2>5. WebhookTypeOK'
      BY <1>5, <2>4 DEF Release, WebhookTypeOK, PC
    <2>6. QED
      BY <1>5, <2>1, <2>2, <2>5 DEF Release, OneGoroutinePerCommit, MapIsActiveCommits
  <1>6. ASSUME NEW d \in Deliveries, RemoveCommit(d) PROVE WebhookIInv'
    <2>1. d \in Active /\ Active' = Active \ {d} /\ Holding' = Holding
      BY <1>6, StepSets
    <2>2. WebhookTypeOK'
      BY <1>6 DEF RemoveCommit, WebhookTypeOK, PC
    <2>3. TokensHeld' /\ OneGoroutinePerCommit'
      BY <1>6, <2>1 DEF RemoveCommit, TokensHeld, OneGoroutinePerCommit
    <2>4. \A e \in Active \ {d} : CommitOf[e] # CommitOf[d]
      BY <2>1 DEF OneGoroutinePerCommit
    <2>5. MapIsActiveCommits'
      BY <1>6, <2>1, <2>4 DEF RemoveCommit, MapIsActiveCommits
    <2>6. QED
      BY <2>2, <2>3, <2>5
  <1>7. CASE UNCHANGED webhookVars
    BY <1>7
    DEF webhookVars, WebhookTypeOK, OneGoroutinePerCommit, MapIsActiveCommits, TokensHeld,
        Active, Holding
  <1>8. QED
    BY <1>1, <1>2, <1>3, <1>4, <1>5, <1>6, <1>7 DEF WebhookNext, Handle, Goroutine

(* The tokens in the channel bound the pushes being handled. *)
LEMMA TokensBound == WebhookIInv => TestRunsBounded
  <1> SUFFICES ASSUME WebhookIInv PROVE TestRunsBounded
    OBVIOUS
  <1> DEFINE H == {d \in Deliveries : stage[d] = "handlePush"}
  <1>1. H \in SUBSET Holding
    BY DEF Holding
  <1>2. IsFiniteSet(Holding) /\ sem = Cardinality(Holding)
    BY DEF WebhookIInv, TokensHeld
  <1>3. IsFiniteSet(H) /\ Cardinality(H) <= Cardinality(Holding)
    BY <1>1, <1>2, FS_Subset
  <1>4. Cardinality(H) \in Nat /\ Cardinality(Holding) \in Nat
    BY <1>2, <1>3, FS_CardinalityType
  <1>5. sem <= maxConcurrentTestRuns /\ maxConcurrentTestRuns \in Nat
    BY MaxRunsAssumption DEF WebhookIInv, WebhookTypeOK
  <1> HIDE DEF H
  <1>6. Cardinality(H) <= maxConcurrentTestRuns
    BY <1>2, <1>3, <1>4, <1>5
  <1>7. QED
    BY <1>6 DEF TestRunsBounded, H

(* No commit is processed twice at a time, the duplicate map holds exactly   *)
(* the commits in flight, and the semaphore bounds the test runs: whatever   *)
(* GitHub delivers, and however often (Handle, Duplicate and RemoveCommit).        *)
THEOREM WebhookSafety ==
    WebhookSpec =>
        [](WebhookTypeOK /\ OneGoroutinePerCommit /\ MapIsActiveCommits /\ TestRunsBounded)
  <1>1. WebhookIInv =>
            WebhookTypeOK /\ OneGoroutinePerCommit /\ MapIsActiveCommits /\ TestRunsBounded
    BY TokensBound DEF WebhookIInv
  <1>2. QED
    BY InitWebhookIInv, WebhookIInvStep, <1>1, PTL DEF WebhookSpec

(* Each step drops a delivery, and removes a commit from the map, only as     *)
(* DroppedOnlyWhenActive allows.                                              *)
LEMMA DroppedStep ==
    WebhookIInv /\ [WebhookNext]_webhookVars =>
        [\A d \in Deliveries :
            /\ stage[d] = "new" /\ stage'[d] = "ignored" =>
                \E e \in Active \ {d} : CommitOf[e] = CommitOf[d]
            /\ CommitOf[d] \in dup \ dup' =>
                \E e \in Active \ Active' : CommitOf[e] = CommitOf[d]]_webhookVars
  <1> SUFFICES ASSUME WebhookIInv, WebhookNext, NEW d \in Deliveries
               PROVE  /\ stage[d] = "new" /\ stage'[d] = "ignored" =>
                          \E e \in Active \ {d} : CommitOf[e] = CommitOf[d]
                      /\ CommitOf[d] \in dup \ dup' =>
                          \E e \in Active \ Active' : CommitOf[e] = CommitOf[d]
    OBVIOUS
  <1>1. PICK a \in Deliveries : Handle(a) \/ Goroutine(a)
    BY DEF WebhookNext
  <1>2. ASSUME stage[d] = "new", stage'[d] = "ignored"
        PROVE  \E e \in Active \ {d} : CommitOf[e] = CommitOf[d]
    <2>1. a = d /\ IgnoreDuplicate(d)
      BY <1>1, <1>2
      DEF WebhookIInv, WebhookTypeOK, Handle, Goroutine, IgnoreDuplicate, StartPush, Acquire,
          HandlePush, Release, RemoveCommit
    <2>2. d \notin Active
      BY <1>2 DEF Active
    <2>3. QED
      BY <2>1, <2>2 DEF WebhookIInv, MapIsActiveCommits, IgnoreDuplicate
  <1>3. ASSUME CommitOf[d] \in dup \ dup'
        PROVE  \E e \in Active \ Active' : CommitOf[e] = CommitOf[d]
    <2>1. RemoveCommit(a) /\ CommitOf[a] = CommitOf[d]
      BY <1>1, <1>3
      DEF Handle, Goroutine, IgnoreDuplicate, StartPush, Acquire, HandlePush, Release, RemoveCommit
    <2>2. a \in Active \ Active'
      BY <2>1, StepSets DEF WebhookIInv
    <2>3. QED
      BY <2>1, <2>2
  <1>4. QED
    BY <1>2, <1>3

(* A redelivered push is dropped only while the same commit is in flight, and *)
(* a commit leaves the duplicate map only with the goroutine that put it      *)
(* there (Handle and the goroutine it starts).                                *)
THEOREM WebhookDrops == WebhookSpec => DroppedOnlyWhenActive
  <1>1. QED
    BY InitWebhookIInv, WebhookIInvStep, DroppedStep, PTL DEF WebhookSpec, DroppedOnlyWhenActive

-----------------------------------------------------------------------------
(* The forks.                                                                *)

(* The handlers that may still make a client.                                *)
Making == {h \in Pushes : pc[h] \in {"client", "create"}}

(* Each push makes one client at most.                                       *)
ClientsCounted == IsFiniteSet(Making) /\ Cardinality(Making) + clients < upstream

InLoop(h) == pc[h] \in {"sync", "merge", "wait", "return"}

(* What a handler's local variables satisfy at each place.                   *)
ClientInv(h) == pc[h] \in {"token", "request"} => job[h].client \in Clients
CloneInv(h) ==
    pc[h] = "clone" =>
        now \in job[h].got .. job[h].got + 1 /\ job[h].got + 1 < job[h].expires
LoopInv(h) ==
    /\ pc[h] \in {"sync", "return"} => job[h].repo = Nobody
    /\ pc[h] = "return" => job[h].todo = {}
    /\ pc[h] \in {"merge", "wait"} => job[h].repo \in Students
    /\ pc[h] = "merge" => job[h].attempt < maxSyncRetries

(* Before the loop.                                                          *)
FreshInv(h) ==
    pc[h] \in {"client", "create", "token", "request", "clone", "list", "sync"} =>
        job[h].repo = Nobody /\ job[h].attempt = 0

(* The forks that the loop has behind it.                                    *)
ForksInv(h) ==
    InLoop(h) =>
        \A s \in job[h].listed :
            \/ s \in job[h].todo \cup job[h].errs
            \/ s = job[h].repo
            \/ fork[s] >= job[h].version

JobInv(h) ==
    /\ job[h].version <= upstream
    /\ ClientInv(h) /\ CloneInv(h) /\ FreshInv(h) /\ LoopInv(h) /\ ForksInv(h)

SyncIInv == SyncTypeOK /\ ClientsCounted /\ \A h \in Pushes : JobInv(h)

(* The invariant holds when the server starts.                               *)
LEMMA InitSyncIInv == SyncInit => SyncIInv
  <1> SUFFICES ASSUME SyncInit PROVE SyncIInv
    OBVIOUS
  <1> USE DEF SyncInit
  <1>1. NoJob \in Job
    BY DelaysAssumption DEF NoJob, Job, maxSyncRetries
  <1>2. SyncTypeOK
    BY <1>1, MaxPushesAssumption, TokenAssumption DEF SyncTypeOK
  <1>3. Making = {}
    BY DEF Making
  <1>4. ClientsCounted
    BY <1>3, FS_EmptySet DEF ClientsCounted
  <1>5. ASSUME NEW h \in Pushes PROVE JobInv(h)
    <2>1. pc[h] = "idle" /\ job[h].version = 0
      BY DEF NoJob
    <2>2. QED
      BY <2>1 DEF JobInv, FreshInv, ClientInv, CloneInv, LoopInv, ForksInv, InLoop
  <1>6. QED
    BY <1>2, <1>4, <1>5 DEF SyncIInv

(* A step of one handler, or of the environment, that lets the versions of the  *)
(* repository and of the forks only grow, keeps what the others rely on.       *)
LEMMA OthersKept ==
  ASSUME SyncTypeOK, NEW k \in Pushes, JobInv(k),
         upstream \in Nat, upstream' \in Nat, upstream' >= upstream, now' = now,
         \A s \in Students : fork'[s] \in Nat /\ fork'[s] >= fork[s],
         pc'[k] = pc[k], job'[k] = job[k]
  PROVE  JobInv(k)'
  <1>1. job[k] \in Job
    BY DEF SyncTypeOK
  <1>2. /\ job[k].version \in Nat
        /\ job[k].listed \subseteq Students
        /\ \A s \in Students : fork[s] \in Nat
    BY <1>1 DEF SyncTypeOK, Job
  <1>3. job'[k].version <= upstream'
    BY <1>2 DEF JobInv
  <1>4. ClientInv(k)' /\ CloneInv(k)' /\ FreshInv(k)' /\ LoopInv(k)'
    BY DEF JobInv, FreshInv, ClientInv, CloneInv, LoopInv
  <1>5. ForksInv(k)'
    BY <1>2 DEF JobInv, ForksInv, InLoop
  <1>6. QED
    BY <1>3, <1>4, <1>5 DEF JobInv

(* The same for all handlers after a step of one of them.                     *)
LEMMA AllKept ==
  ASSUME SyncTypeOK, SyncTypeOK', \A k \in Pushes : JobInv(k),
         NEW h \in Pushes, JobInv(h)',
         upstream' >= upstream, now' = now, \A s \in Students : fork'[s] >= fork[s],
         \A k \in Pushes \ {h} : pc'[k] = pc[k] /\ job'[k] = job[k]
  PROVE  \A k \in Pushes : JobInv(k)'
  <1>1. /\ upstream \in Nat /\ upstream' \in Nat
        /\ \A s \in Students : fork'[s] \in Nat
    BY MaxPushesAssumption DEF SyncTypeOK
  <1>2. ASSUME NEW k \in Pushes, k # h PROVE JobInv(k)'
    BY <1>1, <1>2, OthersKept
  <1>3. QED
    BY <1>2

(* A step after which no more handlers may make a client.                     *)
LEMMA CountKept ==
  ASSUME SyncTypeOK, ClientsCounted, Making' \subseteq Making, clients' = clients, upstream' = upstream
  PROVE  ClientsCounted'
  <1>1. IsFiniteSet(Making') /\ Cardinality(Making') <= Cardinality(Making)
    BY FS_Subset DEF ClientsCounted
  <1>2. /\ Cardinality(Making') \in Nat /\ Cardinality(Making) \in Nat
        /\ clients \in Nat /\ upstream \in Nat
    BY <1>1, FS_CardinalityType, MaxPushesAssumption DEF ClientsCounted, SyncTypeOK
  <1>3. QED
    BY <1>1, <1>2 DEF ClientsCounted

(* An error ends a handler: its variables are those of a free one.            *)
LEMMA FailsKeeps ==
  ASSUME SyncTypeOK, NEW h \in Pushes, Fails(h), upstream' \in Nat
  PROVE  /\ job' \in [Pushes -> Job] /\ JobInv(h)'
         /\ pc' = [pc EXCEPT ![h] = "idle"]
         /\ \A k \in Pushes \ {h} : job'[k] = job[k]
         /\ Making' \subseteq Making
  <1> USE DEF Fails, SyncGoto, SyncTypeOK
  <1>1. NoJob \in Job /\ NoJob.version = 0
    BY DelaysAssumption DEF NoJob, Job, maxSyncRetries
  <1>2. pc'[h] = "idle" /\ job'[h] = NoJob
    OBVIOUS
  <1>3. JobInv(h)'
    BY <1>1, <1>2 DEF JobInv, FreshInv, ClientInv, CloneInv, LoopInv, ForksInv, InLoop
  <1>4. QED
    BY <1>1, <1>3 DEF Making

(* Time passes: a git client that has its token is not far behind it.         *)
LEMMA TickKeeps == SyncIInv /\ Tick => SyncIInv'
  <1> SUFFICES ASSUME SyncIInv, Tick PROVE SyncIInv'
    OBVIOUS
  <1> USE DEF Tick, SyncIInv, course, tokens
  <1>1. SyncTypeOK'
    BY TokenAssumption DEF SyncTypeOK
  <1>2. ClientsCounted'
    BY CountKept DEF Making
  <1>3. ASSUME NEW h \in Pushes PROVE JobInv(h)'
    <2>1. job[h] \in Job /\ now \in Nat
      BY TokenAssumption DEF SyncTypeOK
    <2>2. CloneInv(h)'
      BY <2>1 DEF JobInv, FreshInv, CloneInv, Job
    <2>3. QED
      BY <2>2 DEF JobInv, FreshInv, ClientInv, LoopInv, ForksInv, InLoop
  <1>4. QED
    BY <1>1, <1>2, <1>3

(* A student enrols.                                                         *)
LEMMA EnrolKeeps ==
  ASSUME SyncIInv, NEW s \in Students, createForkedRepo(s) \/ CreateRepository(s)
  PROVE  SyncIInv'
  <1> USE DEF SyncIInv, createForkedRepo, CreateRepository, course, tokens
  <1>1. upstream \in Nat /\ upstream' = upstream
    BY MaxPushesAssumption DEF SyncTypeOK
  <1>2. fork' \in [Students -> 0 .. upstream] /\ \A t \in Students : fork'[t] >= fork[t]
    BY <1>1 DEF SyncTypeOK
  <1>3. SyncTypeOK'
    BY <1>1, <1>2 DEF SyncTypeOK
  <1>4. ClientsCounted'
    BY CountKept DEF Making
  <1>5. ASSUME NEW h \in Pushes PROVE JobInv(h)'
    BY <1>1, <1>2, OthersKept
  <1>6. QED
    BY <1>3, <1>4, <1>5

(* The handler of a new push: it may make one more client.                    *)
LEMMA PushKeeps ==
  ASSUME SyncIInv, NEW h \in Pushes, PushAssignments(h)
  PROVE  SyncIInv'
  <1> USE DEF SyncIInv, PushAssignments, SyncGoto, tokens
  <1>1. job[h] \in Job /\ upstream \in Nat /\ upstream' = upstream + 1
    BY MaxPushesAssumption DEF SyncTypeOK
  <1>2. [NoJob EXCEPT !.version = upstream + 1] \in Job
    BY <1>1, DelaysAssumption DEF NoJob, Job, maxSyncRetries
  <1>3. SyncTypeOK'
    BY <1>1, <1>2, MaxPushesAssumption DEF SyncTypeOK
  <1>4. ClientsCounted'
    <2>1. Making' = Making \cup {h} /\ h \notin Making
      BY DEF Making, SyncTypeOK
    <2>2. IsFiniteSet(Making') /\ Cardinality(Making') = Cardinality(Making) + 1
      BY <2>1, FS_AddElement DEF ClientsCounted
    <2>3. clients \in Nat /\ Cardinality(Making) \in Nat
      BY FS_CardinalityType DEF ClientsCounted, SyncTypeOK
    <2>4. QED
      BY <1>1, <2>2, <2>3 DEF ClientsCounted
  <1>5. JobInv(h)'
    <2>1. /\ pc'[h] = "client" /\ job'[h].version = upstream'
          /\ job'[h].repo = Nobody /\ job'[h].attempt = 0
      BY <1>1 DEF SyncTypeOK, NoJob
    <2>2. QED
      BY <1>1, <2>1 DEF JobInv, FreshInv, ClientInv, CloneInv, LoopInv, ForksInv, InLoop
  <1>6. /\ \A t \in Students : fork'[t] >= fork[t]
        /\ \A k \in Pushes \ {h} : pc'[k] = pc[k] /\ job'[k] = job[k]
    BY <1>1 DEF SyncTypeOK
  <1>7. \A k \in Pushes : JobInv(k)'
    BY <1>1, <1>3, <1>5, <1>6, AllKept
  <1>8. QED
    BY <1>3, <1>4, <1>7

(* A step of a handler that leaves the forks and the time alone.              *)
LEMMA LocalStep ==
  ASSUME SyncIInv, NEW h \in Pushes, SyncTypeOK', ClientsCounted', JobInv(h)',
         UNCHANGED <<upstream, fork, now>>,
         \A k \in Pushes \ {h} : pc'[k] = pc[k] /\ job'[k] = job[k]
  PROVE  SyncIInv'
  <1>1. upstream \in Nat /\ \A t \in Students : fork[t] \in Nat
    BY MaxPushesAssumption DEF SyncIInv, SyncTypeOK
  <1>2. \A k \in Pushes : JobInv(k)'
    BY <1>1, AllKept DEF SyncIInv
  <1>3. QED
    BY <1>2 DEF SyncIInv

(* The client is looked up, or the handler goes to make one.                  *)
LEMMA LookupKeeps ==
  ASSUME SyncIInv, NEW h \in Pushes, GetOrCreateSCM(h)
  PROVE  SyncIInv'
  <1> USE DEF SyncIInv, GetOrCreateSCM, SyncGoto, course, tokens
  <1>1. job[h] \in Job /\ scms \in {0} \cup Clients
    BY DEF SyncTypeOK
  <1>2. [job[h] EXCEPT !.client = scms] \in Job
    BY <1>1 DEF Job
  <1>3. SyncTypeOK'
    BY <1>2 DEF SyncTypeOK
  <1>4. ClientsCounted'
    BY CountKept DEF Making, SyncTypeOK
  <1>5. JobInv(h)'
    <2>1. /\ pc'[h] = IF scms = 0 THEN "create" ELSE "token"
          /\ job'[h].version = job[h].version /\ job'[h].client = scms
          /\ job'[h].repo = job[h].repo /\ job'[h].attempt = job[h].attempt
      BY <1>1 DEF SyncTypeOK, Job
    <2>2. QED
      BY <1>1, <2>1 DEF JobInv, FreshInv, ClientInv, CloneInv, LoopInv, ForksInv, InLoop
  <1>6. QED
    BY <1>3, <1>4, <1>5, LocalStep DEF SyncTypeOK

(* A client is made: there have been enough pushes for one more.              *)
LEMMA CreateKeeps ==
  ASSUME SyncIInv, NEW h \in Pushes, newGithubAppClient(h)
  PROVE  SyncIInv'
  <1> USE DEF SyncIInv, newGithubAppClient, SyncGoto, course, tokens
  <1>1. job[h] \in Job /\ clients \in Nat /\ upstream \in 1 .. MaxPushes + 1
    BY DEF SyncTypeOK
  <1>2. h \in Making
    BY DEF Making
  <1>3. CASE Fails(h) /\ UNCHANGED <<clients, scms>>
    <2>1. SyncTypeOK'
      BY <1>3, FailsKeeps, MaxPushesAssumption DEF SyncTypeOK
    <2>2. ClientsCounted'
      BY <1>1, <1>3, FailsKeeps, CountKept, MaxPushesAssumption
    <2>3. QED
      BY <1>1, <1>3, <2>1, <2>2, FailsKeeps, LocalStep, MaxPushesAssumption DEF SyncTypeOK
  <1>4. CASE /\ clients' = clients + 1 /\ scms' = clients + 1
             /\ job' = [job EXCEPT ![h].client = clients + 1]
             /\ pc' = [pc EXCEPT ![h] = "token"]
    <2>1. Making' = Making \ {h}
      BY <1>4 DEF Making, SyncTypeOK
    <2>2. /\ IsFiniteSet(Making') /\ Cardinality(Making') = Cardinality(Making) - 1
          /\ Cardinality(Making) \in Nat /\ Cardinality(Making') \in Nat
      BY <1>2, <2>1, FS_RemoveElement, FS_CardinalityType DEF ClientsCounted
    <2>3. ClientsCounted' /\ clients + 1 \in Clients
      BY <1>1, <1>4, <2>2, MaxPushesAssumption DEF ClientsCounted, Clients
    <2>4. [job[h] EXCEPT !.client = clients + 1] \in Job
      BY <1>1, <2>3 DEF Job
    <2>5. clients' \in 0 .. MaxPushes
      BY <1>4, <2>3 DEF Clients
    <2>6. SyncTypeOK'
      BY <1>4, <2>3, <2>4, <2>5 DEF SyncTypeOK
    <2>7. JobInv(h)'
      <3>1. /\ pc'[h] = "token"
            /\ job'[h].version = job[h].version /\ job'[h].client = clients + 1
            /\ job'[h].repo = job[h].repo /\ job'[h].attempt = job[h].attempt
        BY <1>1, <1>4 DEF SyncTypeOK, Job
      <3>2. QED
        BY <2>3, <3>1 DEF JobInv, FreshInv, ClientInv, CloneInv, LoopInv, ForksInv, InLoop
    <2>8. QED
      BY <1>4, <2>3, <2>6, <2>7, LocalStep DEF SyncTypeOK
  <1>5. QED
    BY <1>3, <1>4

(* The cached token is used with a unit left; or the mutex is kept for a new   *)
(* one.                                                                      *)
LEMMA TokenKeeps ==
  ASSUME SyncIInv, NEW h \in Pushes, Token(h)
  PROVE  SyncIInv'
  <1> USE DEF SyncIInv, Token, SyncGoto, course, tokens
  <1>1. job[h] \in Job /\ job[h].client \in Clients /\ now \in Nat
    BY TokenAssumption DEF SyncTypeOK, JobInv, ClientInv
  <1>2. expiresAt[job[h].client] \in Nat
    BY <1>1 DEF SyncTypeOK
  <1>3. ClientsCounted'
    BY CountKept DEF Making, SyncTypeOK
  <1>4. CASE Valid(job[h].client)
    <2>1. now < expiresAt[job[h].client] - 1
      BY <1>4 DEF Valid
    <2>2. [job[h] EXCEPT !.expires = expiresAt[job[h].client], !.got = now] \in Job
      BY <1>1, <1>2 DEF Job
    <2>3. SyncTypeOK'
      BY <1>4, <2>2 DEF SyncTypeOK
    <2>4. /\ pc'[h] = "clone" /\ job'[h].version = job[h].version /\ now' = now
          /\ job'[h].got = now /\ job'[h].expires = expiresAt[job[h].client]
          /\ job'[h].repo = job[h].repo /\ job'[h].attempt = job[h].attempt
      BY <1>1, <1>4 DEF SyncTypeOK, Job
    <2>5. CloneInv(h)'
      BY <1>1, <1>2, <2>1, <2>4 DEF CloneInv
    <2>6. JobInv(h)'
      BY <2>4, <2>5 DEF JobInv, FreshInv, ClientInv, LoopInv, ForksInv, InLoop
    <2>7. QED
      BY <1>3, <1>4, <2>3, <2>6, LocalStep DEF SyncTypeOK
  <1>5. CASE ~ Valid(job[h].client)
    <2>1. SyncTypeOK'
      BY <1>5 DEF SyncTypeOK
    <2>2. pc'[h] = "request" /\ job'[h] = job[h]
      BY <1>5 DEF SyncTypeOK
    <2>3. JobInv(h)'
      BY <1>1, <2>2 DEF JobInv, FreshInv, ClientInv, CloneInv, LoopInv, ForksInv, InLoop
    <2>4. QED
      BY <1>3, <1>5, <2>1, <2>3, LocalStep DEF SyncTypeOK
  <1>6. QED
    BY <1>4, <1>5

(* A new token lives longer than the unit.                                   *)
LEMMA RequestKeeps ==
  ASSUME SyncIInv, NEW h \in Pushes, requestNewToken(h)
  PROVE  SyncIInv'
  <1> USE DEF SyncIInv, requestNewToken, SyncGoto, course
  <1>1. job[h] \in Job /\ now \in Nat /\ now + TokenLife \in Nat
    BY TokenAssumption DEF SyncTypeOK
  <1>2. CASE Fails(h) /\ UNCHANGED expiresAt
    <2>0. job' \in [Pushes -> Job] /\ pc' = [pc EXCEPT ![h] = "idle"]
      BY <1>2, FailsKeeps, MaxPushesAssumption DEF SyncTypeOK
    <2>1. SyncTypeOK'
      BY <1>2, <2>0 DEF SyncTypeOK
    <2>2. ClientsCounted'
      BY <1>2, FailsKeeps, CountKept, MaxPushesAssumption DEF SyncTypeOK
    <2>3. QED
      BY <1>2, <2>1, <2>2, FailsKeeps, LocalStep, MaxPushesAssumption DEF SyncTypeOK
  <1>3. CASE /\ expiresAt' = [expiresAt EXCEPT ![job[h].client] = now + TokenLife]
             /\ job' = [job EXCEPT ![h].expires = now + TokenLife, ![h].got = now]
             /\ pc' = [pc EXCEPT ![h] = "clone"]
    <2>1. [job[h] EXCEPT !.expires = now + TokenLife, !.got = now] \in Job
      BY <1>1 DEF Job
    <2>2. SyncTypeOK'
      BY <1>1, <1>3, <2>1 DEF SyncTypeOK
    <2>3. /\ pc'[h] = "clone" /\ job'[h].version = job[h].version /\ now' = now
          /\ job'[h].got = now /\ job'[h].expires = now + TokenLife
          /\ job'[h].repo = job[h].repo /\ job'[h].attempt = job[h].attempt
      BY <1>1, <1>3 DEF SyncTypeOK, Job
    <2>4. CloneInv(h)'
      BY <1>1, <2>3, TokenAssumption DEF CloneInv
    <2>5. JobInv(h)'
      BY <2>3, <2>4 DEF JobInv, FreshInv, ClientInv, LoopInv, ForksInv, InLoop
    <2>6. ClientsCounted'
      BY <1>3, CountKept DEF Making, SyncTypeOK
    <2>7. QED
      BY <1>3, <2>2, <2>5, <2>6, LocalStep DEF SyncTypeOK
  <1>4. QED
    BY <1>2, <1>3

(* The working copy is updated, or the handler fails.                         *)
LEMMA CloneKeeps ==
  ASSUME SyncIInv, NEW h \in Pushes, Clone(h)
  PROVE  SyncIInv'
  <1> USE DEF SyncIInv, Clone, SyncGoto, course, tokens
  <1>1. job[h] \in Job
    BY DEF SyncTypeOK
  <1>2. CASE Fails(h)
    <2>1. SyncTypeOK'
      BY <1>2, FailsKeeps, MaxPushesAssumption DEF SyncTypeOK
    <2>2. ClientsCounted'
      BY <1>2, FailsKeeps, CountKept, MaxPushesAssumption DEF SyncTypeOK
    <2>3. QED
      BY <1>2, <2>1, <2>2, FailsKeeps, LocalStep, MaxPushesAssumption DEF SyncTypeOK
  <1>3. CASE /\ job' = [job EXCEPT ![h].client = 0, ![h].expires = 0, ![h].got = 0]
             /\ pc' = [pc EXCEPT ![h] = "list"]
    <2>1. [job[h] EXCEPT !.client = 0, !.expires = 0, !.got = 0] \in Job
      BY <1>1 DEF Job
    <2>2. SyncTypeOK'
      BY <1>3, <2>1 DEF SyncTypeOK
    <2>3. /\ pc'[h] = "list" /\ job'[h].version = job[h].version
          /\ job'[h].repo = job[h].repo /\ job'[h].attempt = job[h].attempt
      BY <1>1, <1>3 DEF SyncTypeOK, Job
    <2>4. JobInv(h)'
      BY <2>3 DEF JobInv, FreshInv, ClientInv, CloneInv, LoopInv, ForksInv, InLoop
    <2>5. ClientsCounted'
      BY <1>3, CountKept DEF Making, SyncTypeOK
    <2>6. QED
      BY <1>3, <2>2, <2>4, <2>5, LocalStep DEF SyncTypeOK
  <1>4. QED
    BY <1>2, <1>3

(* The list of the forks is what the handler goes through.                    *)
LEMMA ListKeeps ==
  ASSUME SyncIInv, NEW h \in Pushes, GetRepositories(h)
  PROVE  SyncIInv'
  <1> USE DEF SyncIInv, GetRepositories, SyncGoto, course, tokens
  <1>1. job[h] \in Job /\ repos \subseteq Students
    BY DEF SyncTypeOK
  <1>2. CASE Fails(h)
    <2>1. SyncTypeOK'
      BY <1>2, FailsKeeps, MaxPushesAssumption DEF SyncTypeOK
    <2>2. ClientsCounted'
      BY <1>2, FailsKeeps, CountKept, MaxPushesAssumption DEF SyncTypeOK
    <2>3. QED
      BY <1>2, <2>1, <2>2, FailsKeeps, LocalStep, MaxPushesAssumption DEF SyncTypeOK
  <1>3. CASE /\ job' = [job EXCEPT ![h].listed = repos, ![h].todo = repos]
             /\ pc' = [pc EXCEPT ![h] = "sync"]
    <2>1. [job[h] EXCEPT !.listed = repos, !.todo = repos] \in Job
      BY <1>1 DEF Job
    <2>2. SyncTypeOK'
      BY <1>3, <2>1 DEF SyncTypeOK
    <2>3. /\ pc'[h] = "sync" /\ job'[h].version = job[h].version
          /\ job'[h].listed = repos /\ job'[h].todo = repos
          /\ job'[h].repo = job[h].repo /\ job'[h].attempt = job[h].attempt
      BY <1>1, <1>3 DEF SyncTypeOK, Job
    <2>4. job[h].repo = Nobody /\ job[h].attempt = 0
      BY DEF JobInv, FreshInv
    <2>5. JobInv(h)'
      BY <2>3, <2>4 DEF JobInv, FreshInv, ClientInv, CloneInv, LoopInv, ForksInv, InLoop
    <2>6. ClientsCounted'
      BY <1>3, CountKept DEF Making, SyncTypeOK
    <2>7. QED
      BY <1>3, <2>2, <2>5, <2>6, LocalStep DEF SyncTypeOK
  <1>4. QED
    BY <1>2, <1>3

(* The next fork's turn; or none is left, and all are behind the loop.        *)
LEMMA NextForkKeeps ==
  ASSUME SyncIInv, NEW h \in Pushes, syncStudentRepos(h)
  PROVE  SyncIInv'
  <1> USE DEF SyncIInv, syncStudentRepos, SyncGoto, course, tokens
  <1>1. job[h] \in Job /\ job[h].repo = Nobody /\ job[h].attempt = 0
    BY DEF SyncTypeOK, JobInv, FreshInv
  <1>2. ClientsCounted'
    BY CountKept DEF Making, SyncTypeOK
  <1>3. CASE job[h].todo = {}
    <2>1. SyncTypeOK'
      BY <1>3 DEF SyncTypeOK
    <2>2. pc'[h] = "return" /\ job'[h] = job[h]
      BY <1>3 DEF SyncTypeOK
    <2>3. JobInv(h)'
      BY <1>1, <1>3, <2>2 DEF JobInv, FreshInv, ClientInv, CloneInv, LoopInv, ForksInv, InLoop
    <2>4. QED
      BY <1>2, <1>3, <2>1, <2>3, LocalStep DEF SyncTypeOK
  <1>4. CASE job[h].todo # {}
    <2> DEFINE s == First(job[h].todo)
    <2>1. s \in job[h].todo /\ s \in Students
      BY <1>1, <1>4 DEF First, Job
    <2> HIDE DEF s
    <2>2. job' = [job EXCEPT ![h].repo = s, ![h].todo = @ \ {s}, ![h].left = Deadline]
          /\ pc' = [pc EXCEPT ![h] = "merge"]
      BY <1>4 DEF s
    <2>3. [job[h] EXCEPT !.repo = s, !.todo = @ \ {s}, !.left = Deadline] \in Job
      <3>1. job[h].todo \ {s} \in SUBSET Students /\ Deadline \in 0 .. Deadline
        BY <1>1, DelaysAssumption DEF Job
      <3>2. QED
        BY <1>1, <2>1, <3>1 DEF Job
    <2>4. SyncTypeOK'
      BY <2>2, <2>3 DEF SyncTypeOK
    <2>5. /\ pc'[h] = "merge" /\ job'[h].version = job[h].version
          /\ job'[h].listed = job[h].listed /\ job'[h].errs = job[h].errs
          /\ job'[h].todo = job[h].todo \ {s} /\ job'[h].repo = s /\ job'[h].attempt = 0
      BY <1>1, <2>2 DEF SyncTypeOK, Job
    <2>6. ForksInv(h)'
      BY <1>1, <2>5, NobodyAssumption DEF JobInv, ForksInv, InLoop, Job
    <2>7. JobInv(h)'
      BY <2>1, <2>5, <2>6 DEF JobInv, FreshInv, ClientInv, CloneInv, LoopInv, maxSyncRetries
    <2>8. QED
      BY <1>2, <2>2, <2>4, <2>7, LocalStep DEF SyncTypeOK
  <1>5. QED
    BY <1>3, <1>4

(* The local variables of a handler whose attempt is over are well-typed.      *)
LEMMA SyncedJob ==
  ASSUME NEW j \in Job, NEW errs \in SUBSET Students
  PROVE  [j EXCEPT !.errs = @ \cup errs, !.repo = Nobody, !.attempt = 0, !.left = 0] \in Job
  <1>1. j.errs \subseteq Students
    BY DEF Job
  <1>2. j.errs \cup errs \in SUBSET Students
    BY <1>1
  <1>3. 0 \in 0 .. Deadline /\ 0 \in 0 .. maxSyncRetries
    BY DelaysAssumption DEF maxSyncRetries
  <1>4. QED
    BY <1>2, <1>3 DEF Job

(* After an attempt the fork has the upstream version, which is that of the push *)
(* or a later one; or it is counted; or it stays the loop's present fork.       *)
LEMMA SyncedKeeps ==
  ASSUME SyncIInv, NEW h \in Pushes, NEW errs \in SUBSET Students, Synced(h, errs),
         pc[h] \in {"merge", "wait"}, UNCHANGED <<upstream, repos, scms, clients, tokens, now>>,
         \/ fork' = [fork EXCEPT ![job[h].repo] = upstream]
         \/ fork' = fork /\ errs = {job[h].repo}
  PROVE  SyncIInv'
  <1> USE DEF SyncIInv, Synced, SyncGoto, tokens
  <1>1. /\ job[h] \in Job /\ job[h].repo \in Students /\ upstream \in Nat
        /\ job[h].version \in Nat /\ job[h].version <= upstream
    BY MaxPushesAssumption DEF SyncTypeOK, JobInv, LoopInv, Job
  <1>2. fork' \in [Students -> 0 .. upstream] /\ \A t \in Students : fork'[t] >= fork[t]
    BY <1>1 DEF SyncTypeOK
  <1>3. [job[h] EXCEPT !.errs = @ \cup errs, !.repo = Nobody, !.attempt = 0, !.left = 0] \in Job
    BY <1>1, SyncedJob
  <1>4. SyncTypeOK'
    BY <1>2, <1>3 DEF SyncTypeOK
  <1>5. ClientsCounted'
    BY CountKept DEF Making, SyncTypeOK
  <1>6. /\ pc'[h] = "sync" /\ job'[h].version = job[h].version
        /\ job'[h].listed = job[h].listed /\ job'[h].errs = job[h].errs \cup errs
        /\ job'[h].todo = job[h].todo /\ job'[h].repo = Nobody /\ job'[h].attempt = 0
    BY <1>1 DEF SyncTypeOK, Job
  <1>7. ForksInv(h)'
    <2>1. SUFFICES ASSUME NEW t \in job[h].listed, t \notin job[h].todo \cup job'[h].errs
                   PROVE  fork'[t] >= job[h].version
      BY <1>6 DEF ForksInv
    <2>2. t \in Students /\ (t = job[h].repo \/ fork[t] >= job[h].version)
      BY <1>1, <1>6, <2>1 DEF JobInv, ForksInv, InLoop, Job
    <2>3. CASE t = job[h].repo
      BY <1>1, <1>6, <2>1, <2>3 DEF SyncTypeOK
    <2>4. CASE fork[t] >= job[h].version
      <3>1. fork[t] \in Nat /\ fork'[t] \in Nat /\ fork'[t] >= fork[t]
        BY <1>1, <1>2, <2>2 DEF SyncTypeOK
      <3>2. QED
        BY <1>1, <2>4, <3>1
    <2>5. QED
      BY <2>2, <2>3, <2>4
  <1>8. JobInv(h)'
    BY <1>1, <1>6, <1>7 DEF JobInv, FreshInv, ClientInv, CloneInv, LoopInv
  <1>9. \A k \in Pushes \ {h} : pc'[k] = pc[k] /\ job'[k] = job[k]
    BY DEF SyncTypeOK
  <1>10. upstream' >= upstream /\ now' = now /\ SyncTypeOK /\ \A k \in Pushes : JobInv(k)
    BY <1>1
  <1>11. \A k \in Pushes : JobInv(k)'
    BY <1>2, <1>4, <1>8, <1>9, <1>10, AllKept
  <1>12. QED
    BY <1>4, <1>5, <1>11 DEF SyncIInv

(* An attempt at a fork. *)
LEMMA SyncForkKeeps ==
  ASSUME SyncIInv, NEW h \in Pushes, SyncFork(h)
  PROVE  SyncIInv'
  <1> USE DEF SyncIInv, SyncFork, tokens
  <1>1. job[h] \in Job /\ job[h].repo \in Students /\ job[h].attempt < maxSyncRetries
    BY DEF SyncTypeOK, JobInv, LoopInv
  <1>2. CASE fork' = [fork EXCEPT ![job[h].repo] = upstream] /\ Synced(h, {})
    BY <1>2, SyncedKeeps
  <1>3. CASE Error(h) /\ UNCHANGED fork
    BY <1>1, <1>3, SyncedKeeps DEF Error
  <1>4. CASE rateLimitDelay(h) /\ UNCHANGED fork
    <2> USE DEF rateLimitDelay, SyncGoto
    <2>1. [job[h] EXCEPT !.attempt = @ + 1] \in Job
      BY <1>1 DEF Job, maxSyncRetries
    <2>2. SyncTypeOK'
      BY <1>4, <2>1 DEF SyncTypeOK
    <2>3. ClientsCounted'
      BY <1>4, CountKept DEF Making, SyncTypeOK
    <2>4. /\ pc'[h] = "wait" /\ job'[h].version = job[h].version
          /\ job'[h].listed = job[h].listed /\ job'[h].errs = job[h].errs
          /\ job'[h].todo = job[h].todo /\ job'[h].repo = job[h].repo
      BY <1>1, <1>4 DEF SyncTypeOK, Job
    <2>5. JobInv(h)'
      BY <1>1, <1>4, <2>4
      DEF JobInv, FreshInv, ClientInv, CloneInv, LoopInv, ForksInv, InLoop
    <2>6. QED
      BY <1>4, <2>2, <2>3, <2>5, LocalStep DEF SyncTypeOK
  <1>5. QED
    BY <1>2, <1>3, <1>4

(* The wait after it. *)
LEMMA WaitKeeps ==
  ASSUME SyncIInv, NEW h \in Pushes, Wait(h)
  PROVE  SyncIInv'
  <1> USE DEF SyncIInv, Wait, course, tokens
  <1>1. job[h] \in Job /\ job[h].repo \in Students
    BY DEF SyncTypeOK, JobInv, LoopInv
  <1>2. PICK delay \in Delays :
            IF delay > job[h].left \/ job[h].attempt = maxSyncRetries
            THEN Error(h)
            ELSE job' = [job EXCEPT ![h].left = @ - delay] /\ SyncGoto(h, "merge")
    OBVIOUS
  <1>3. CASE Error(h)
    BY <1>1, <1>3, SyncedKeeps DEF Error
  <1>4. CASE /\ ~ (delay > job[h].left \/ job[h].attempt = maxSyncRetries)
             /\ job' = [job EXCEPT ![h].left = @ - delay] /\ SyncGoto(h, "merge")
    <2> USE DEF SyncGoto
    <2>1. job[h].left - delay \in 0 .. Deadline /\ job[h].attempt < maxSyncRetries
      BY <1>1, <1>4, DelaysAssumption DEF Job, maxSyncRetries
    <2>2. [job[h] EXCEPT !.left = @ - delay] \in Job
      BY <1>1, <2>1 DEF Job
    <2>3. SyncTypeOK'
      BY <1>4, <2>2 DEF SyncTypeOK
    <2>4. ClientsCounted'
      BY <1>4, CountKept DEF Making, SyncTypeOK
    <2>5. /\ pc'[h] = "merge" /\ job'[h].version = job[h].version
          /\ job'[h].listed = job[h].listed /\ job'[h].errs = job[h].errs
          /\ job'[h].todo = job[h].todo /\ job'[h].repo = job[h].repo
          /\ job'[h].attempt = job[h].attempt
      BY <1>1, <1>4 DEF SyncTypeOK, Job
    <2>6. JobInv(h)'
      BY <1>1, <1>4, <2>1, <2>5
      DEF JobInv, FreshInv, ClientInv, CloneInv, LoopInv, ForksInv, InLoop
    <2>7. QED
      BY <1>4, <2>3, <2>4, <2>6, LocalStep DEF SyncTypeOK
  <1>5. QED
    BY <1>2, <1>3, <1>4

(* The handler returns and is free again. *)
LEMMA ReturnKeeps ==
  ASSUME SyncIInv, NEW h \in Pushes, SyncReturn(h)
  PROVE  SyncIInv'
  <1> USE DEF SyncIInv, SyncReturn, course, tokens
  <1>1. Fails(h)
    BY DEF Fails
  <1>2. job' \in [Pushes -> Job] /\ pc' = [pc EXCEPT ![h] = "idle"]
    BY <1>1, FailsKeeps, MaxPushesAssumption DEF SyncTypeOK
  <1>3. SyncTypeOK'
    BY <1>2 DEF SyncTypeOK
  <1>4. ClientsCounted'
    BY <1>1, FailsKeeps, CountKept, MaxPushesAssumption DEF SyncTypeOK
  <1>5. JobInv(h)' /\ \A k \in Pushes \ {h} : pc'[k] = pc[k] /\ job'[k] = job[k]
    BY <1>1, <1>2, FailsKeeps, MaxPushesAssumption DEF SyncTypeOK
  <1>6. QED
    BY <1>3, <1>4, <1>5, LocalStep

(* Every step keeps the invariant. *)
LEMMA IInvStep == SyncIInv /\ [SyncNext]_syncVars => SyncIInv'
  <1> SUFFICES ASSUME SyncIInv, [SyncNext]_syncVars PROVE SyncIInv'
    OBVIOUS
  <1>1. CASE Tick
    BY <1>1, TickKeeps
  <1>2. ASSUME NEW s \in Students, createForkedRepo(s) \/ CreateRepository(s) PROVE SyncIInv'
    BY <1>2, EnrolKeeps
  <1>3. ASSUME NEW h \in Pushes, PushAssignments(h) \/ handlePush(h) PROVE SyncIInv'
    BY <1>3, PushKeeps, LookupKeeps, CreateKeeps, TokenKeeps, RequestKeeps, CloneKeeps,
       ListKeeps, NextForkKeeps, SyncForkKeeps, WaitKeeps, ReturnKeeps DEF handlePush
  <1>4. CASE UNCHANGED syncVars
    <2>1. Making' = Making
      BY <1>4 DEF syncVars, Making
    <2>2. QED
      BY <1>4, <2>1 DEF syncVars, course, tokens, SyncIInv, SyncTypeOK, ClientsCounted, JobInv, FreshInv,
         ClientInv, CloneInv, LoopInv, ForksInv, InLoop
  <1>5. QED
    BY <1>1, <1>2, <1>3, <1>4 DEF SyncNext

(* What the invariant says of a handler that returns and of a git client. *)
LEMMA IInvSafe == SyncIInv => SyncedOrCounted /\ TokenOutlivesClone
  <1> SUFFICES ASSUME SyncIInv PROVE SyncedOrCounted /\ TokenOutlivesClone
    OBVIOUS
  <1>1. SyncedOrCounted
    <2> SUFFICES ASSUME NEW h \in Pushes, pc[h] = "return",
                        NEW s \in job[h].listed \ job[h].errs
                 PROVE  fork[s] >= job[h].version
      BY DEF SyncedOrCounted
    <2>1. job[h].todo = {} /\ job[h].repo = Nobody /\ s # Nobody
      BY NobodyAssumption DEF SyncIInv, SyncTypeOK, Job, JobInv, LoopInv
    <2>2. QED
      BY <2>1 DEF SyncIInv, JobInv, ForksInv, InLoop
  <1>2. TokenOutlivesClone
    <2> SUFFICES ASSUME NEW h \in Pushes, pc[h] = "clone" PROVE now < job[h].expires
      BY DEF TokenOutlivesClone
    <2>1. job[h].got \in Nat /\ job[h].expires \in Nat /\ now \in Nat
      BY TokenAssumption DEF SyncIInv, SyncTypeOK, Job
    <2>2. QED
      BY <2>1 DEF SyncIInv, JobInv, CloneInv
  <1>3. QED
    BY <1>1, <1>2

(* Whatever fails, and however handlers and enrolments interleave: a handler    *)
(* that has gone through the forks has synchronised or counted each of those it  *)
(* listed (web/hooks/sync.go).                                               *)
THEOREM ForkSyncSafety == SyncSpec => [](SyncTypeOK /\ SyncedOrCounted)
  <1>1. SyncIInv => SyncTypeOK
    BY DEF SyncIInv
  <1>2. QED
    BY <1>1, InitSyncIInv, IInvStep, IInvSafe, PTL DEF SyncSpec

(* No token expires under the clone it was fetched for: config() renews it in   *)
(* time for any token lifetime longer than a clone (scm/github_app.go).        *)
THEOREM ForkSyncTokens == SyncSpec => []TokenOutlivesClone
  <1>1. QED
    BY InitSyncIInv, IInvStep, IInvSafe, PTL DEF SyncSpec
-----------------------------------------------------------------------------
(* The rows of pull requests.                                              *)

Same(x, y) == x.repo = y.repo /\ x.number = y.number

Row(p) == p = [repo |-> p.repo, number |-> p.number, branch |-> p.branch, user |-> p.user,
               task |-> p.task, stage |-> p.stage, comment |-> p.comment]

HandlerType == handler = [h \in Handlers |-> handler[h]]

\* A handler of an event of a recorded pull request has read its row, and changes
\* one column of it.
RowRead(h) ==
    LET at == handler[h].pc pull == handler[h].pull row == pulls[handler[h].id] IN
    /\ handler[h] = [pc |-> at, event |-> handler[h].event, id |-> handler[h].id,
                     pull |-> pull, reviewers |-> handler[h].reviewers]
    /\ at = "CreatePullRequest" => Row(pull)
    /\ at \notin {"idle", "opened", "CreatePullRequest"} =>
        /\ handler[h].id \in DOMAIN pulls
        /\ at \in {"AssignReviewers", "RequestReviewers", "SetReview"} => ~ HasReviewers(row)
        /\ pull = IF at = "SetReview" THEN [row EXCEPT !.stage = "review"]
                  ELSE IF at = "SetComment" THEN [row EXCEPT !.comment = TRUE]
                  ELSE row

TableInv ==
    /\ \E n \in Nat : DOMAIN pulls \subseteq 1..n
    /\ \A i \in DOMAIN pulls : Row(pulls[i])

RowsInv == HandlerType /\ TableInv /\ \A h \in Handlers : RowRead(h)

-----------------------------------------------------------------------------
(* The numbers that GitHub gives.                                          *)

Items(repo) == {i \in ghIssues : i.repo = repo} \union {p \in ghPulls : p.repo = repo}

Numbered(S) == IsFiniteSet(S) /\ {x.number : x \in S} = 1..Cardinality(S)

IssueRecord(g) == g = [repo |-> g.repo, number |-> g.number, text |-> g.text]
PullRecord(g) == g = [repo |-> g.repo, number |-> g.number, branch |-> g.branch, user |-> g.user,
                      requests |-> g.requests, comments |-> g.comments, open |-> g.open]

NumbersInv ==
    /\ \A repo \in Repos : Numbered(Items(repo))
    /\ \A g \in ghIssues : g.repo \in Repos /\ IssueRecord(g)
    /\ \A g \in ghPulls : g.repo \in Repos /\ PullRecord(g)

SyncType ==
    /\ tests \in 0..Len(Content)
    /\ sync = [pc |-> sync.pc, created |-> sync.created, updated |-> sync.updated,
               repos |-> sync.repos, made |-> sync.made]
    /\ sync.pc # "idle" => tests # 0
    /\ IsFiniteSet(sync.created) /\ sync.repos \subseteq Repos

OnGitHub(x) == \E g \in ghPulls : Same(g, x)

\* The rows, and the copies that handlers have, are of pull requests on GitHub.
Known(h) ==
    LET pull == handler[h].pull IN
    /\ handler[h] = [pc |-> handler[h].pc, event |-> handler[h].event, id |-> handler[h].id,
                     pull |-> pull, reviewers |-> handler[h].reviewers]
    /\ handler[h].pc \notin {"idle", "opened"} => Row(pull) /\ OnGitHub(pull)

PlacesInv ==
    /\ HandlerType /\ TableInv /\ SyncType /\ NumbersInv
    /\ \A i \in DOMAIN pulls : OnGitHub(pulls[i])
    /\ \A h \in Handlers : Known(h)

-----------------------------------------------------------------------------
(* What a row, or a handler's copy of one, says was done.                  *)

Did(G, x) ==
    \E g \in G : /\ Same(g, x)
                 /\ x.stage = "review" => g.requests # <<>>
                 /\ x.comment => g.comments > 0

\* On GitHub no request and no comment is taken back.
Grows(G, H) ==
    \A g \in G : \E k \in H : /\ Same(k, g)
                              /\ g.requests # <<>> => k.requests # <<>>
                              /\ g.comments > 0 => k.comments > 0

Counted(G) == \A g \in G : (\E S : g.requests \in Seq(S)) /\ g.comments \in Nat

DidInv ==
    /\ PlacesInv /\ Counted(ghPulls)
    /\ \A i \in DOMAIN pulls : Did(ghPulls, pulls[i])
    /\ \A h \in Handlers :
        handler[h].pc \notin {"idle", "opened"} => Did(ghPulls, handler[h].pull)

-----------------------------------------------------------------------------
(* Each pull request is recorded once.                                     *)

Opened == {e \in events : e.type = "opened"}

\* A handler has the event of this pull request, and has not recorded it yet.
Recording(h, x) ==
    \/ handler[h].pc = "opened" /\ Same(handler[h].event, x)
    \/ handler[h].pc = "CreatePullRequest" /\ Same(handler[h].pull, x)

Recorded(x) == \E i \in DOMAIN pulls : Same(pulls[i], x)

OnceInv ==
    /\ \A i, j \in DOMAIN pulls : Same(pulls[i], pulls[j]) => i = j
    /\ \A e \in Opened : OnGitHub(e) /\ ~ Recorded(e) /\ \A h \in Handlers : ~ Recording(h, e)
    /\ \A e, f \in Opened : Same(e, f) => e = f
    /\ \A h \in Handlers :
        /\ handler[h].pc = "opened" => OnGitHub(handler[h].event)
        /\ \A g \in ghPulls : Recording(h, g) => ~ Recorded(g)

\* Nobody is asked before the row says that someone will be.
Unasked(g) ==
    \/ \E e \in Opened : Same(e, g)
    \/ \E h \in Handlers : Recording(h, g)
    \/ \E i \in DOMAIN pulls :
        /\ Same(pulls[i], g) /\ ~ HasReviewers(pulls[i])
        /\ \A h \in Handlers : ~ (handler[h].pc = "SetReview" /\ handler[h].id = i)

Asked ==
    \A g \in ghPulls :
        /\ g.requests = <<>> \/ Len(g.requests) = 1
        /\ Unasked(g) => g.requests = <<>>

AskedInv ==
    /\ PlacesInv /\ RowsInv /\ OnceInv
    /\ faults \in Nat /\ (faults = 0 => Asked)

-----------------------------------------------------------------------------
(* Tasks and issues.                                                       *)

TasksInv ==
    /\ \A t \in tasks : t = [id |-> t.id, text |-> t.text]
    /\ \A t, u \in tasks : t.id[1] = u.id[1] => t = u

\* One row for the task in the repository, of an issue.
HasIssue(rows, repo, t) ==
    \E i \in rows : /\ i.repo = repo
                    /\ {j \in rows : j.repo = repo /\ j.task = t.id} = {i}

HasText(rows, repo, t) ==
    \A i \in rows : i.repo = repo /\ i.task = t.id =>
        \E g \in ghIssues : Same(g, i) /\ g.text = t.text

IssueRows ==
    /\ \A i \in issues \union sync.made :
        /\ i = [repo |-> i.repo, number |-> i.number, task |-> i.task]
        /\ \E g \in ghIssues : Same(g, i)
    /\ \A i, j \in issues \union sync.made : Same(i, j) => i = j
    /\ \A i \in issues : \E t \in tasks : t.id = i.task
    /\ \A i \in sync.made : \E t \in sync.created : t.id = i.task

BetweenInv ==
    sync.pc # "synchronizeRepos" =>
        /\ sync.made = {}
        /\ \A repo \in Repos, t \in tasks : HasIssue(issues, repo, t) /\ HasText(issues, repo, t)

DuringInv ==
    sync.pc = "synchronizeRepos" =>
        /\ sync.created \subseteq tasks /\ sync.updated \subseteq tasks \ sync.created
        /\ \A repo \in Repos, t \in tasks \ sync.created :
            /\ HasIssue(issues, repo, t)
            /\ (repo \notin sync.repos \/ t \notin sync.updated) => HasText(issues, repo, t)
        /\ \A t \in sync.created, i \in issues : i.task # t.id
        /\ \A i \in sync.made : i.repo \in Repos \ sync.repos
        /\ \A repo \in Repos \ sync.repos, t \in sync.created :
            HasIssue(sync.made, repo, t) /\ HasText(sync.made, repo, t)

Mirrored == TasksInv /\ IssueRows /\ BetweenInv /\ DuringInv

MirrorInv == PlacesInv /\ faults \in Nat /\ (faults = 0 => Mirrored)

-----------------------------------------------------------------------------
(* Reviews are spread.                                                     *)

\* A group's members review each other's pull requests; no teacher is one of them.
TeachersApart == \A repo \in Repos : Group[repo] \cap Teachers = {}
GroupsOfTwo == \A repo \in Repos : Cardinality(Group[repo]) > 1

Requested(u) == {g \in ghPulls : \E i \in DOMAIN g.requests : u \in g.requests[i]}

Pending(u) == {h \in Handlers : handler[h].pc = "RequestReviewers" /\ u \in handler[h].reviewers}

Counts ==
    /\ IsFiniteSet(ghPulls)
    /\ DOMAIN groupReviewCounter = Repos
    /\ \A repo \in Repos : groupReviewCounter[repo] \in [Group[repo] -> Nat]
    /\ DOMAIN teacherReviewCounter = Teachers
    /\ teacherReviewCounter = [u \in Teachers |-> teacherReviewCounter[u]]
    /\ \E m \in Nat : \A u \in Teachers : teacherReviewCounter[u] \in {m, m + 1}
    /\ \A u \in Teachers :
        teacherReviewCounter[u] = Cardinality(Requested(u)) + Cardinality(Pending(u))

CountsInv == AskedInv /\ (faults = 0 => Counts)


\* A handler goes on to another place, with another copy of the row; the others stay.
Moved(h) == HandlerType' /\ \A k \in Handlers \ {h} : handler'[k] = handler[k]

LEMMA Goes ==
  ASSUME NEW h \in Handlers, HandlerType, NEW place, NEW copy, Goto(h, place, copy),
         handler[h] = [pc |-> handler[h].pc, event |-> handler[h].event, id |-> handler[h].id,
                       pull |-> handler[h].pull, reviewers |-> handler[h].reviewers]
  PROVE  /\ Moved(h)
         /\ handler'[h] = [pc |-> place, event |-> handler[h].event, id |-> handler[h].id,
                           pull |-> copy, reviewers |-> handler[h].reviewers]
  <1>1. handler = [k \in Handlers |-> handler[k]]
    BY DEF HandlerType
  <1>2. handler' = [handler EXCEPT ![h].pc = place, ![h].pull = copy]
    BY DEF Goto
  <1>3. handler'[h] = [[handler[h] EXCEPT !.pc = place] EXCEPT !.pull = copy]
    BY <1>1, <1>2
  <1>4. DOMAIN handler' = Handlers /\ handler' = [k \in DOMAIN handler' |-> handler'[k]]
        /\ \A k \in Handlers \ {h} : handler'[k] = handler[k]
    BY <1>1, <1>2
  <1>5. Moved(h)
    BY <1>4 DEF Moved, HandlerType, Handlers
  <1>6. QED
    BY <1>3, <1>5

LEMMA Returns ==
  ASSUME NEW h \in Handlers, HandlerType, Return(h)
  PROVE  Moved(h) /\ handler'[h] = NoHandler
  <1>1. handler = [k \in Handlers |-> handler[k]] /\ handler' = [handler EXCEPT ![h] = NoHandler]
    BY DEF HandlerType, Return
  <1>2. handler' = [k \in Handlers |-> handler'[k]] /\ handler'[h] = NoHandler
        /\ \A k \in Handlers \ {h} : handler'[k] = handler[k]
    BY <1>1
  <1>3. QED
    BY <1>2 DEF Moved, HandlerType, Handlers

LEMMA GotoIs ==
  ASSUME NEW w, Handlers = {w}, RowsInv, NEW place, NEW copy, Goto(w, place, copy)
  PROVE  /\ HandlerType'
         /\ handler'[w] = [pc |-> place, event |-> handler[w].event, id |-> handler[w].id,
                           pull |-> copy, reviewers |-> handler[w].reviewers]
  <1>1. /\ HandlerType /\ w \in Handlers
        /\ handler[w] = [pc |-> handler[w].pc, event |-> handler[w].event, id |-> handler[w].id,
                         pull |-> handler[w].pull, reviewers |-> handler[w].reviewers]
    BY DEF RowsInv, RowRead
  <1>2. QED
    BY <1>1, Goes DEF Moved

LEMMA ReturnIs ==
  ASSUME NEW w, Handlers = {w}, RowsInv, Return(w)
  PROVE  HandlerType' /\ handler'[w] = NoHandler
  BY Returns DEF RowsInv, Moved

LEMMA IdleReads ==
  ASSUME NEW w, handler'[w] = NoHandler
  PROVE  RowRead(w)'
  BY DEF RowRead, NoHandler

\* The invariant is that of the one handler.
LEMMA RowsSuffice ==
  ASSUME NEW w, Handlers = {w}, HandlerType', TableInv', RowRead(w)'
  PROVE  RowsInv'
  BY DEF RowsInv, Handlers

\* The table stays as it is.
LEMMA SameTable ==
  ASSUME RowsInv, pulls' = pulls
  PROVE  TableInv'
  BY DEF RowsInv, TableInv, Row

\* One column of the row that was read is written.
LEMMA RowWritten ==
  ASSUME NEW w, w \in Handlers, RowsInv, NEW copy, UpdatePullRequest(w, copy),
         handler[w].id \in DOMAIN pulls, Row(copy)
  PROVE  /\ TableInv' /\ DOMAIN pulls' = DOMAIN pulls /\ pulls'[handler[w].id] = copy
         /\ \A i \in DOMAIN pulls : i # handler[w].id => pulls'[i] = pulls[i]
  <1>1. /\ DOMAIN pulls' = DOMAIN pulls
        /\ \A i \in DOMAIN pulls : pulls'[i] = IF i = handler[w].id THEN copy ELSE pulls[i]
    BY DEF UpdatePullRequest
  <1>2. QED
    BY <1>1 DEF RowsInv, TableInv, Row

\* A row with another stage, or with a comment, is a row.
LEMMA RowColumns ==
  ASSUME NEW row, Row(row)
  PROVE  /\ \A s : /\ Row([row EXCEPT !.stage = s]) /\ Same([row EXCEPT !.stage = s], row)
                   /\ [row EXCEPT !.stage = s].stage = s
         /\ \A c : /\ Row([row EXCEPT !.comment = c]) /\ Same([row EXCEPT !.comment = c], row)
                   /\ [row EXCEPT !.comment = c].stage = row.stage
  <1>1. row = [repo |-> row.repo, number |-> row.number, branch |-> row.branch, user |-> row.user,
               task |-> row.task, stage |-> row.stage, comment |-> row.comment]
    BY DEF Row
  <1>2. ASSUME NEW s
        PROVE  /\ Row([row EXCEPT !.stage = s]) /\ Same([row EXCEPT !.stage = s], row)
               /\ [row EXCEPT !.stage = s].stage = s
    <2> DEFINE new == [row EXCEPT !.stage = s]
    <2>1. new = [repo |-> row.repo, number |-> row.number, branch |-> row.branch, user |-> row.user,
                 task |-> row.task, stage |-> s, comment |-> row.comment]
      BY <1>1
    <2> HIDE DEF new
    <2>2. Row(new) /\ Same(new, row) /\ new.stage = s
      BY <2>1 DEF Row, Same
    <2>3. QED
      BY <2>2 DEF new
  <1>3. ASSUME NEW c
        PROVE  /\ Row([row EXCEPT !.comment = c]) /\ Same([row EXCEPT !.comment = c], row)
               /\ [row EXCEPT !.comment = c].stage = row.stage
    <2> DEFINE new == [row EXCEPT !.comment = c]
    <2>1. new = [repo |-> row.repo, number |-> row.number, branch |-> row.branch, user |-> row.user,
                 task |-> row.task, stage |-> row.stage, comment |-> c]
      BY <1>1
    <2> HIDE DEF new
    <2>2. Row(new) /\ Same(new, row) /\ new.stage = row.stage
      BY <2>1 DEF Row, Same
    <2>3. QED
      BY <2>2 DEF new
  <1>4. QED
    BY <1>2, <1>3

\* The largest ID of a table; the table's next one is new.
LEMMA LeastNumber ==
  ASSUME NEW T, T \subseteq Nat, T # {}
  PROVE  \E x \in T : \A y \in T : x <= y
  <1> DEFINE R == OpToRel(<, Nat)
  <1>1. IsWellFoundedOn(R, Nat)
    BY NatLessThanWellFounded
  <1> HIDE DEF R
  <1>2. PICK x \in T : \A y \in T : ~ (<<y, x>> \in R)
    BY <1>1, WFMin
  <1>3. \A y \in T : y < x => <<y, x>> \in R
    BY DEF R, OpToRel
  <1>4. \A y \in T : y \in Nat /\ x \in Nat /\ ~ (y < x)
    BY <1>2, <1>3
  <1>5. \A y \in T : x <= y
    BY <1>4
  <1>6. QED
    BY <1>5

LEMMA LargestNumber ==
  ASSUME NEW n \in Nat, NEW S, S \subseteq 0..n, S # {}
  PROVE  Max(S) \in S /\ \A y \in S : Max(S) >= y
  <1> DEFINE T == {n - x : x \in S}
  <1>1. T \subseteq Nat /\ T # {}
    <2>1. \A x \in S : n - x \in Nat
      OBVIOUS
    <2>2. QED
      BY <2>1
  <1>2. PICK m \in T : \A y \in T : m <= y
    BY <1>1, LeastNumber
  <1>3. PICK x \in S : m = n - x
    OBVIOUS
  <1>4. \A y \in S : n - y \in T
    OBVIOUS
  <1>5. \A y \in S : x >= y
    BY <1>2, <1>3, <1>4
  <1>6. QED
    BY <1>5 DEF Max

LEMMA NextID ==
  ASSUME TableInv
  PROVE  LET id == Max(DOMAIN pulls \union {0}) + 1 IN
         /\ id \in Nat /\ id \notin DOMAIN pulls /\ id # 0
         /\ DOMAIN pulls \union {id} \subseteq 1..id
  <1>1. PICK n \in Nat : DOMAIN pulls \subseteq 1..n
    BY DEF TableInv
  <1> DEFINE S == DOMAIN pulls \union {0}
             m == Max(S)
  <1>2. S \subseteq 0..n /\ S # {} /\ 0 \in S
    BY <1>1
  <1>3. m \in S /\ \A y \in S : m >= y
    BY <1>2, LargestNumber
  <1> HIDE DEF m
  <1>4. m \in Nat /\ \A y \in DOMAIN pulls : y \in Nat /\ 1 <= y /\ y <= m
    BY <1>1, <1>3
  <1>5. m + 1 \notin DOMAIN pulls /\ DOMAIN pulls \union {m + 1} \subseteq 1..m+1
    BY <1>4
  <1>6. QED
    BY <1>4, <1>5 DEF m

\* The row of a branch or number that is read exists.
LEMMA RowFound ==
  ASSUME TableInv, NEW rows, rows \subseteq DOMAIN pulls, GetPullRequest(rows) # 0
  PROVE  GetPullRequest(rows) \in rows
  <1>1. PICK n \in Nat : DOMAIN pulls \subseteq 1..n
    BY DEF TableInv
  <1>2. rows \union {0} \subseteq 0..n /\ rows \union {0} # {}
    BY <1>1
  <1>3. Max(rows \union {0}) \in rows \union {0}
    BY <1>2, LargestNumber
  <1>4. QED
    BY <1>3 DEF GetPullRequest

\* An event is taken, and its row is read.
LEMMA HandleRows ==
  ASSUME NEW w, Handlers = {w}, RowsInv, HandleEvent(w)
  PROVE  RowsInv'
  <1>1. PICK e \in events :
          LET i == IF e.type = "push" THEN ByBranch(e) ELSE ByNumber(e)
              start(at) == handler' = [handler EXCEPT
                  ![w] = [pc |-> at, event |-> e, id |-> i, pull |-> pulls[i], reviewers |-> {}]]
          IN
          \/ handler' = [handler EXCEPT ![w].pc = "opened", ![w].event = e]
          \/ i # 0 /\ \E at \in {"review", "closed", "push"} : start(at)
          \/ UNCHANGED handler
    BY Zenon DEF HandleEvent
  <1> DEFINE i == IF e.type = "push" THEN ByBranch(e) ELSE ByNumber(e)
  <1>2. pulls' = pulls /\ handler[w].pc = "idle" /\ w \in Handlers /\ TableInv
    BY DEF HandleEvent, RowsInv, db
  <1>3. i # 0 => i \in DOMAIN pulls
    <2>1. DOMAIN pulls \subseteq DOMAIN pulls
      OBVIOUS
    <2>2. QED
      BY <1>2, RowFound DEF ByBranch, ByNumber
  <1>4. TableInv'
    BY <1>2, SameTable
  <1> HIDE DEF i
  <1>5. handler = [h \in Handlers |-> handler[h]]
        /\ handler[w] = [pc |-> handler[w].pc, event |-> handler[w].event, id |-> handler[w].id,
                         pull |-> handler[w].pull, reviewers |-> handler[w].reviewers]
    BY <1>2 DEF RowsInv, HandlerType, RowRead
  <1>6. CASE handler' = [handler EXCEPT ![w].pc = "opened", ![w].event = e]
    <2>1. handler'[w] = [[handler[w] EXCEPT !.pc = "opened"] EXCEPT !.event = e]
          /\ handler' = [h \in Handlers |-> handler'[h]]
      BY <1>2, <1>5, <1>6
    <2>2. handler'[w] = [pc |-> "opened", event |-> e, id |-> handler[w].id,
                         pull |-> handler[w].pull, reviewers |-> handler[w].reviewers]
      BY <1>5, <2>1
    <2>3. RowRead(w)' /\ HandlerType'
      BY <2>1, <2>2 DEF RowRead, HandlerType, Handlers
    <2>4. QED
      BY <1>4, <2>3, RowsSuffice
  <1>7. ASSUME NEW at \in {"review", "closed", "push"}, i # 0,
               handler' = [handler EXCEPT ![w] = [pc |-> at, event |-> e, id |-> i,
                                                  pull |-> pulls[i], reviewers |-> {}]]
        PROVE  RowsInv'
    <2>1. handler' = [h \in Handlers |-> handler'[h]]
          /\ handler'[w] = [pc |-> at, event |-> e, id |-> i, pull |-> pulls[i], reviewers |-> {}]
      BY <1>2, <1>5, <1>7
    <2>2. i \in DOMAIN pulls'
      BY <1>2, <1>3, <1>7
    <2>3. RowRead(w)' /\ HandlerType'
      BY <1>2, <2>1, <2>2 DEF RowRead, HandlerType, Handlers
    <2>4. QED
      BY <1>4, <2>3, RowsSuffice
  <1>8. CASE UNCHANGED handler
    <2>1. RowRead(w)' /\ HandlerType'
      BY <1>2, <1>8 DEF RowsInv, RowRead, HandlerType, HasReviewers, Row
    <2>2. QED
      BY <1>4, <2>1, RowsSuffice
  <1>9. QED
    BY <1>1, <1>6, <1>7, <1>8 DEF i

\* The handlers that change no row.
LEMMA QuietRows ==
  ASSUME NEW w, Handlers = {w}, RowsInv, pulls' = pulls, HandlerType', RowRead(w)'
  PROVE  RowsInv'
  BY SameTable, RowsSuffice

LEMMA ReturnRows ==
  ASSUME NEW w, Handlers = {w}, RowsInv, pulls' = pulls, Return(w)
  PROVE  RowsInv'
  BY ReturnIs, IdleReads, QuietRows

LEMMA OpenedRows ==
  ASSUME NEW w, Handlers = {w}, RowsInv, handlePullRequestOpened(w)
  PROVE  RowsInv'
  <1>1. pulls' = pulls
    BY DEF handlePullRequestOpened, db
  <1>2. CASE Return(w)
    BY <1>1, <1>2, ReturnRows
  <1>3. ASSUME NEW g, NEW i,
               Goto(w, "CreatePullRequest",
                    [repo |-> g.repo, number |-> g.number, branch |-> g.branch,
                     user |-> g.user, task |-> i.task, stage |-> "draft", comment |-> FALSE])
        PROVE  RowsInv'
    <2>1. PICK copy : copy = [repo |-> g.repo, number |-> g.number, branch |-> g.branch,
                              user |-> g.user, task |-> i.task, stage |-> "draft", comment |-> FALSE]
      OBVIOUS
    <2>2. Row(copy)
      <3>1. PICK no : no = FALSE
        OBVIOUS
      <3>2. copy = [repo |-> g.repo, number |-> g.number, branch |-> g.branch,
                    user |-> g.user, task |-> i.task, stage |-> "draft", comment |-> no]
        BY <2>1, <3>1, Zenon
      <3>3. QED
        BY <3>2 DEF Row
    <2>3. HandlerType' /\ handler'[w] = [pc |-> "CreatePullRequest", event |-> handler[w].event,
                                         id |-> handler[w].id, pull |-> copy,
                                         reviewers |-> handler[w].reviewers]
      <3>1. Goto(w, "CreatePullRequest", copy)
        BY <1>3, <2>1, Zenon
      <3>2. QED
        BY <3>1, GotoIs
    <2>4. RowRead(w)'
      BY <2>2, <2>3 DEF RowRead, Row
    <2>5. QED
      BY <1>1, <2>3, <2>4, QuietRows
  <1>4. QED
    BY <1>2, <1>3, Zenon DEF handlePullRequestOpened

LEMMA CreateRows ==
  ASSUME NEW w, Handlers = {w}, RowsInv, CreatePullRequest(w)
  PROVE  RowsInv'
  <1>1. CASE pulls' = pulls
    BY <1>1, ReturnRows DEF CreatePullRequest
  <1> DEFINE id == Max(DOMAIN pulls \union {0}) + 1
  <1>2. CASE pulls' = [i \in DOMAIN pulls \union {id} |->
                          IF i = id THEN handler[w].pull ELSE pulls[i]]
    <2>1. id \in Nat /\ id \notin DOMAIN pulls /\ DOMAIN pulls \union {id} \subseteq 1..id
      BY NextID DEF RowsInv
    <2>2. Row(handler[w].pull) /\ Return(w)
      BY DEF CreatePullRequest, RowsInv, RowRead
    <2>3. PICK n : n = id
      OBVIOUS
    <2>4. pulls' = [i \in DOMAIN pulls \union {n} |-> IF i = n THEN handler[w].pull ELSE pulls[i]]
      BY <1>2, <2>3, Zenon
    <2>5. n \in Nat /\ n \notin DOMAIN pulls /\ DOMAIN pulls \union {n} \subseteq 1..n
      BY <2>1, <2>3, Zenon
    <2> HIDE DEF id
    <2>6. /\ DOMAIN pulls' = DOMAIN pulls \union {n} /\ pulls'[n] = handler[w].pull
          /\ \A i \in DOMAIN pulls : pulls'[i] = pulls[i]
      BY <2>4, <2>5
    <2>7. TableInv'
      <3>1. \A i \in DOMAIN pulls : Row(pulls[i])
        BY DEF RowsInv, TableInv
      <3>2. \A i \in DOMAIN pulls' : Row(pulls'[i])
        BY <2>2, <2>6, <3>1
      <3>3. DOMAIN pulls' \subseteq 1..n
        BY <2>5, <2>6
      <3>4. QED
        BY <2>5, <3>2, <3>3 DEF TableInv, Row
    <2>8. QED
      BY <2>2, <2>7, ReturnIs, IdleReads, RowsSuffice
  <1>3. QED
    BY <1>1, <1>2, Zenon DEF CreatePullRequest

\* The handlers of pushes.
LEMMA PushRows ==
  ASSUME NEW w, Handlers = {w}, RowsInv, handlePullRequestPush(w)
  PROVE  RowsInv'
  <1>1. /\ pulls' = pulls /\ handler[w].pc = "push" /\ w \in Handlers
        /\ handler[w].id \in DOMAIN pulls /\ handler[w].pull = pulls[handler[w].id]
    BY DEF handlePullRequestPush, db, RowsInv, RowRead
  <1>2. CASE Return(w)
    BY <1>1, <1>2, ReturnRows
  <1>3. ASSUME NEW place \in {"AssignReviewers", "CreateIssueComment"},
               place = "AssignReviewers" => ~ HasReviewers(handler[w].pull),
               Goto(w, place, handler[w].pull)
        PROVE  RowsInv'
    <2>1. HandlerType' /\ handler'[w] = [pc |-> place, event |-> handler[w].event,
                                         id |-> handler[w].id, pull |-> handler[w].pull,
                                         reviewers |-> handler[w].reviewers]
      BY <1>3, GotoIs
    <2>2. RowRead(w)'
      BY <1>1, <1>3, <2>1 DEF RowRead, HasReviewers
    <2>3. QED
      BY <1>1, <2>1, <2>2, QuietRows
  <1>4. QED
    BY <1>2, <1>3 DEF handlePullRequestPush

LEMMA AssignRows ==
  ASSUME NEW w, Handlers = {w}, RowsInv, AssignReviewers(w)
  PROVE  RowsInv'
  <1>1. /\ pulls' = pulls /\ handler[w].pc = "AssignReviewers" /\ w \in Handlers
        /\ handler[w].id \in DOMAIN pulls /\ handler[w].pull = pulls[handler[w].id]
        /\ ~ HasReviewers(pulls[handler[w].id])
    BY DEF AssignReviewers, db, RowsInv, RowRead
  <1>2. CASE Return(w)
    BY <1>1, <1>2, ReturnRows
  <1>3. ASSUME NEW R, handler' = [handler EXCEPT ![w].pc = "RequestReviewers", ![w].reviewers = R]
        PROVE  RowsInv'
    <2>1. handler = [h \in Handlers |-> handler[h]]
          /\ handler[w] = [pc |-> handler[w].pc, event |-> handler[w].event, id |-> handler[w].id,
                           pull |-> handler[w].pull, reviewers |-> handler[w].reviewers]
      BY <1>1 DEF RowsInv, HandlerType, RowRead
    <2>2. handler'[w] = [[handler[w] EXCEPT !.pc = "RequestReviewers"] EXCEPT !.reviewers = R]
          /\ handler' = [h \in Handlers |-> handler'[h]]
      BY <1>1, <1>3, <2>1
    <2>3. handler'[w] = [pc |-> "RequestReviewers", event |-> handler[w].event,
                         id |-> handler[w].id, pull |-> handler[w].pull, reviewers |-> R]
      BY <2>1, <2>2
    <2>4. RowRead(w)' /\ HandlerType'
      BY <1>1, <2>2, <2>3 DEF RowRead, HasReviewers, HandlerType, Handlers
    <2>5. QED
      BY <1>1, <2>4, QuietRows
  <1>4. QED
    BY <1>2, <1>3 DEF AssignReviewers

LEMMA RequestRows ==
  ASSUME NEW w, Handlers = {w}, RowsInv, RequestReviewers(w)
  PROVE  RowsInv'
  <1>1. /\ pulls' = pulls /\ handler[w].pc = "RequestReviewers" /\ w \in Handlers
        /\ handler[w].id \in DOMAIN pulls /\ handler[w].pull = pulls[handler[w].id]
        /\ ~ HasReviewers(pulls[handler[w].id])
    BY DEF RequestReviewers, db, RowsInv, RowRead
  <1>2. CASE Return(w)
    BY <1>1, <1>2, ReturnRows
  <1>3. CASE Goto(w, "SetReview", [handler[w].pull EXCEPT !.stage = "review"])
    <2>1. HandlerType' /\ handler'[w] = [pc |-> "SetReview", event |-> handler[w].event,
                                         id |-> handler[w].id,
                                         pull |-> [handler[w].pull EXCEPT !.stage = "review"],
                                         reviewers |-> handler[w].reviewers]
      BY <1>3, GotoIs
    <2>2. RowRead(w)'
      BY <1>1, <2>1 DEF RowRead, HasReviewers
    <2>3. QED
      BY <1>1, <2>1, <2>2, QuietRows
  <1>4. QED
    BY <1>2, <1>3 DEF RequestReviewers

LEMMA SetReviewRows ==
  ASSUME NEW w, Handlers = {w}, RowsInv, SetReview(w)
  PROVE  RowsInv'
  <1> DEFINE row == pulls[handler[w].id]
             copy == [row EXCEPT !.stage = "review"]
  <1>1. /\ handler[w].pc = "SetReview" /\ w \in Handlers /\ handler[w].id \in DOMAIN pulls
        /\ handler[w].pull = copy /\ ~ HasReviewers(row) /\ Row(row)
    BY DEF SetReview, RowsInv, RowRead, TableInv
  <1>2. Row(copy) /\ Same(copy, row) /\ row.stage # "approved"
    BY <1>1, RowColumns DEF HasReviewers
  <1>3. CASE pulls' = pulls /\ Return(w)
    BY <1>3, ReturnRows
  <1>4. CASE UpdatePullRequest(w, copy) /\ Goto(w, "CreateIssueComment", copy)
    <2>1. TableInv'
      BY <1>1, <1>2, <1>4, RowWritten
    <2>2. pulls'[handler[w].id] = copy /\ DOMAIN pulls' = DOMAIN pulls
      BY <1>1, <1>2, <1>4, RowWritten
    <2>3. HandlerType' /\ handler'[w] = [pc |-> "CreateIssueComment", event |-> handler[w].event,
                                         id |-> handler[w].id, pull |-> copy,
                                         reviewers |-> handler[w].reviewers]
      BY <1>4, GotoIs
    <2> HIDE DEF copy
    <2>4. RowRead(w)'
      BY <1>1, <2>2, <2>3 DEF RowRead
    <2>5. QED
      BY <2>1, <2>3, <2>4, RowsSuffice
  <1>5. QED
    BY <1>1, <1>3, <1>4 DEF SetReview

LEMMA CommentRows ==
  ASSUME NEW w, Handlers = {w}, RowsInv, CreateIssueComment(w)
  PROVE  RowsInv'
  <1>1. /\ pulls' = pulls /\ handler[w].pc = "CreateIssueComment" /\ w \in Handlers
        /\ handler[w].id \in DOMAIN pulls /\ handler[w].pull = pulls[handler[w].id]
    BY DEF CreateIssueComment, db, RowsInv, RowRead
  <1>2. CASE Return(w)
    BY <1>1, <1>2, ReturnRows
  <1>3. CASE Goto(w, "SetComment", [handler[w].pull EXCEPT !.comment = TRUE])
    <2>1. PICK copy : copy = [handler[w].pull EXCEPT !.comment = TRUE]
      OBVIOUS
    <2>2. Goto(w, "SetComment", copy)
      BY <1>3, <2>1, Zenon
    <2>3. HandlerType' /\ handler'[w] = [pc |-> "SetComment", event |-> handler[w].event,
                                         id |-> handler[w].id, pull |-> copy,
                                         reviewers |-> handler[w].reviewers]
      BY <2>2, GotoIs
    <2>4. copy = [pulls'[handler[w].id] EXCEPT !.comment = TRUE]
      BY <1>1, <2>1, Zenon
    <2>5. RowRead(w)'
      <3>1. handler'[w].pc = "SetComment" /\ handler'[w].pull = copy /\ handler'[w].id = handler[w].id
            /\ handler'[w] = [pc |-> handler'[w].pc, event |-> handler'[w].event,
                              id |-> handler'[w].id, pull |-> handler'[w].pull,
                              reviewers |-> handler'[w].reviewers]
        BY <2>3
      <3>2. handler'[w].pull = [pulls'[handler'[w].id] EXCEPT !.comment = TRUE]
        BY <2>4, <3>1, Zenon
      <3>3. QED
        BY <1>1, <3>1, <3>2 DEF RowRead
    <2>6. QED
      BY <1>1, <2>3, <2>5, QuietRows
  <1>4. QED
    BY <1>2, <1>3 DEF CreateIssueComment

LEMMA SetCommentRows ==
  ASSUME NEW w, Handlers = {w}, RowsInv, SetComment(w)
  PROVE  RowsInv'
  <1> DEFINE row == pulls[handler[w].id]
             copy == handler[w].pull
  <1>1. /\ handler[w].pc = "SetComment" /\ w \in Handlers /\ handler[w].id \in DOMAIN pulls
        /\ Row(row)
    BY DEF SetComment, RowsInv, RowRead, TableInv
  <1>2. copy = [row EXCEPT !.comment = TRUE]
    BY <1>1 DEF RowsInv, RowRead
  <1>3. Row(copy) /\ Same(copy, row) /\ copy.stage = row.stage
    <2>1. PICK c : c = TRUE
      OBVIOUS
    <2>2. copy = [row EXCEPT !.comment = c]
      BY <1>2, <2>1, Zenon
    <2>3. QED
      BY <1>1, <2>2, RowColumns
  <1>4. CASE pulls' = pulls
    BY <1>4, ReturnRows DEF SetComment
  <1>5. CASE UpdatePullRequest(w, copy)
    <2>1. TableInv'
      BY <1>1, <1>3, <1>5, RowWritten
    <2>2. QED
      BY <2>1, ReturnIs, IdleReads, RowsSuffice DEF SetComment
  <1>6. QED
    BY <1>4, <1>5 DEF SetComment

\* The handlers of reviews and merges.
LEMMA ReviewRows ==
  ASSUME NEW w, Handlers = {w}, RowsInv, handlePullRequestReview(w)
  PROVE  RowsInv'
  <1> DEFINE row == pulls[handler[w].id]
             copy == [handler[w].pull EXCEPT !.stage = "approved"]
  <1>1. /\ handler[w].pc = "review" /\ w \in Handlers /\ handler[w].id \in DOMAIN pulls
        /\ Row(row) /\ handler[w].pull = row
    BY DEF handlePullRequestReview, RowsInv, RowRead, TableInv
  <1>2. Row(copy) /\ Same(copy, row) /\ copy.stage = "approved"
    BY <1>1, RowColumns
  <1>3. CASE pulls' = pulls
    BY <1>3, ReturnRows DEF handlePullRequestReview
  <1>4. CASE UpdatePullRequest(w, copy)
    <2>1. TableInv'
      BY <1>1, <1>2, <1>4, RowWritten
    <2>2. QED
      BY <2>1, ReturnIs, IdleReads, RowsSuffice DEF handlePullRequestReview
  <1>5. QED
    BY <1>3, <1>4 DEF handlePullRequestReview

LEMMA MergeRows ==
  ASSUME NEW w, Handlers = {w}, RowsInv, HandleMergingPR(w)
  PROVE  RowsInv'
  <1>1. /\ handler[w].pc = "closed" /\ w \in Handlers /\ handler[w].id \in DOMAIN pulls
        /\ handler[w].pull = pulls[handler[w].id]
    BY DEF HandleMergingPR, RowsInv, RowRead
  <1>2. CASE pulls' = pulls
    BY <1>2, ReturnRows DEF HandleMergingPR
  <1>3. CASE handler[w].pull.stage # "approved"
             /\ pulls' = [i \in DOMAIN pulls \ {handler[w].id} |-> pulls[i]]
    <2>1. TableInv'
      BY <1>3 DEF RowsInv, TableInv, Row
    <2>2. QED
      BY <2>1, ReturnIs, IdleReads, RowsSuffice DEF HandleMergingPR
  <1>4. QED
    BY <1>2, <1>3 DEF HandleMergingPR

\* Every step keeps the rows.
LEMMA RowsStep ==
  ASSUME NEW w, Handlers = {w}, RowsInv, [Next]_vars
  PROVE  RowsInv'
  <1>1. CASE HandlerStep(w)
    BY <1>1, HandleRows, OpenedRows, CreateRows, PushRows, AssignRows, RequestRows, SetReviewRows,
       CommentRows, SetCommentRows, ReviewRows, MergeRows DEF HandlerStep
  <1>2. CASE UNCHANGED <<pulls, handler>>
    <2>1. RowRead(w)' /\ HandlerType'
      BY <1>2 DEF RowsInv, RowRead, HandlerType, Handlers, HasReviewers, Row
    <2>2. QED
      BY <1>2, <2>1, QuietRows
  <1>3. CASE GitHubStep
    BY <1>2, <1>3 DEF GitHubStep, PushTests, Open, Push, Approve, Close, Send, db
  <1>4. CASE synchronizeTasksWithIssues
    BY <1>2, <1>4 DEF synchronizeTasksWithIssues, SynchronizeAssignmentTasks, CreateIssues,
                      synchronizeRepo, db
  <1>5. CASE Stop
    <2>1. pulls' = pulls /\ handler' = [h \in Handlers |-> NoHandler]
      BY <1>5 DEF Stop, db
    <2>2. handler'[w] = NoHandler /\ HandlerType'
      BY <2>1 DEF HandlerType, Handlers
    <2>3. QED
      BY <2>1, <2>2, IdleReads, QuietRows
  <1>6. CASE UNCHANGED vars
    BY <1>2, <1>6 DEF vars
  <1>7. QED
    BY <1>1, <1>3, <1>4, <1>5, <1>6 DEF Next

LEMMA InitRows ==
  ASSUME NEW w, Handlers = {w}, Init
  PROVE  RowsInv
  <1>1. DOMAIN pulls = {} /\ handler[w] = NoHandler /\ HandlerType
    BY DEF Init, HandlerType, Handlers
  <1>2. TableInv
    <2>1. 0 \in Nat /\ DOMAIN pulls \subseteq 1..0
      BY <1>1
    <2>2. QED
      BY <1>1, <2>1 DEF TableInv
  <1>3. RowRead(w)
    BY <1>1 DEF RowRead, NoHandler
  <1>4. QED
    BY <1>1, <1>2, <1>3 DEF RowsInv

-----------------------------------------------------------------------------
(* Numbers.                                                                *)

\* Things with the numbers 1 to n, of which there are at most n.
LEMMA NumberedBy ==
  ASSUME NEW S, IsFiniteSet(S), NEW n \in Nat, Cardinality(S) <= n,
         {x.number : x \in S} = 1..n
  PROVE  Numbered(S) /\ Cardinality(S) = n
  <1> DEFINE f == [x \in S |-> x.number]
  <1>1. f \in Surjection(S, 1..n)
    BY DEF Surjection
  <1>2. IsFiniteSet(1..n) /\ Cardinality(1..n) = n
    BY FS_Interval
  <1>3. Cardinality(1..n) <= Cardinality(S)
    BY <1>1, FS_Surjection
  <1>4. Cardinality(S) \in Nat
    BY FS_CardinalityType
  <1>5. Cardinality(S) = n
    BY <1>2, <1>3, <1>4
  <1>6. QED
    BY <1>5 DEF Numbered

\* No two of them have the same number.
LEMMA NumbersDiffer ==
  ASSUME NEW S, Numbered(S), NEW x \in S, NEW y \in S, x.number = y.number
  PROVE  x = y
  <1> DEFINE f == [z \in S |-> z.number]
             n == Cardinality(S)
  <1>1. n \in Nat /\ IsFiniteSet(S) /\ {z.number : z \in S} = 1..n
    BY FS_CardinalityType DEF Numbered
  <1>2. Cardinality(1..n) = n
    BY <1>1, FS_Interval
  <1>3. f \in Surjection(S, 1..n)
    BY <1>1 DEF Surjection
  <1>4. f \in Injection(S, 1..n)
    BY <1>1, <1>2, <1>3, FS_Surjection
  <1>5. f[x] = f[y]
    OBVIOUS
  <1>6. QED
    BY <1>4, <1>5 DEF Injection, IsInjective

\* The next one.
LEMMA NumberedNext ==
  ASSUME NEW S, Numbered(S), NEW x, x.number = 1 + Cardinality(S)
  PROVE  Numbered(S \union {x}) /\ \A y \in S : y.number # x.number
  <1> DEFINE n == Cardinality(S)
  <1>1. n \in Nat /\ IsFiniteSet(S) /\ {z.number : z \in S} = 1..n
    BY FS_CardinalityType DEF Numbered
  <1>2. \A y \in S : y.number \in 1..n
    BY <1>1
  <1>3. \A y \in S : y.number # x.number
    BY <1>1, <1>2
  <1>4. x \notin S
    BY <1>3
  <1>5. IsFiniteSet(S \union {x}) /\ Cardinality(S \union {x}) = n + 1
    BY <1>1, <1>4, FS_AddElement
  <1>6. {y.number : y \in S \union {x}} = 1..n+1
    BY <1>1
  <1>7. QED
    BY <1>1, <1>3, <1>5, <1>6, NumberedBy

\* One of them is replaced by one with its number.
LEMMA NumberedReplaced ==
  ASSUME NEW S, Numbered(S), NEW x \in S, NEW y, y.number = x.number
  PROVE  Numbered((S \ {x}) \union {y})
  <1> DEFINE n == Cardinality(S)
             T == S \ {x}
  <1>1. n \in Nat /\ IsFiniteSet(S) /\ {z.number : z \in S} = 1..n
    BY FS_CardinalityType DEF Numbered
  <1>2. IsFiniteSet(T) /\ Cardinality(T) = n - 1
    BY <1>1, FS_RemoveElement
  <1>3. IsFiniteSet(T \union {y}) /\ Cardinality(T \union {y}) <= n
    <2>1. PICK R : R = T
      OBVIOUS
    <2>2. PICK m : m = n
      OBVIOUS
    <2>3. m \in Nat /\ IsFiniteSet(R) /\ Cardinality(R) = m - 1
      BY <1>1, <1>2, <2>1, <2>2
    <2>4. IsFiniteSet(R \union {y}) /\ Cardinality(R \union {y}) \in {m - 1, m - 1 + 1}
      BY <2>3, FS_AddElement
    <2>5. m - 1 <= m /\ m - 1 + 1 <= m
      BY <2>3
    <2>6. QED
      BY <2>1, <2>2, <2>4, <2>5
  <1>4. {z.number : z \in T \union {y}} = {z.number : z \in S}
    OBVIOUS
  <1>5. QED
    BY <1>1, <1>3, <1>4, NumberedBy

\* Each gets another text, and some more are numbered after them.
LEMMA NumberedMore ==
  ASSUME NEW S, Numbered(S), NEW f, DOMAIN f = S, \A x \in S : f[x].number = x.number,
         NEW U, IsFiniteSet(U), NEW k \in Nat, Cardinality(U) <= k,
         {u.number : u \in U} = Cardinality(S)+1..Cardinality(S)+k
  PROVE  Numbered({f[x] : x \in S} \union U)
  <1> DEFINE n == Cardinality(S)
             T == {f[x] : x \in S}
  <1>1. n \in Nat /\ IsFiniteSet(S) /\ {z.number : z \in S} = 1..n
    BY FS_CardinalityType DEF Numbered
  <1>2. IsFiniteSet(T) /\ Cardinality(T) <= n
    <2> DEFINE h == [x \in S |-> f[x]]
    <2>1. h \in Surjection(S, T)
      BY DEF Surjection
    <2>2. QED
      BY <1>1, <2>1, FS_Surjection
  <1>3. Cardinality(T) \in Nat /\ Cardinality(U) \in Nat /\ Cardinality(T \cap U) \in Nat
    <2>1. IsFiniteSet(T \cap U)
      BY <1>2, FS_Subset
    <2>2. QED
      BY <1>2, <2>1, FS_CardinalityType
  <1>4. IsFiniteSet(T \union U)
        /\ Cardinality(T \union U) = Cardinality(T) + Cardinality(U) - Cardinality(T \cap U)
    BY <1>2, FS_Union
  <1>5. Cardinality(T \union U) <= n + k
    BY <1>1, <1>2, <1>3, <1>4
  <1>6. {x.number : x \in T} = 1..n
    BY <1>1
  <1>7. {x.number : x \in T \union U} = {x.number : x \in T} \union {u.number : u \in U}
    OBVIOUS
  <1>8. {x.number : x \in T \union U} = 1..n+k
    BY <1>1, <1>6, <1>7
  <1>9. QED
    BY <1>1, <1>4, <1>5, <1>8, NumberedBy

\* The sequence of a finite set has its elements.
LEMMA SequenceOfSet ==
  ASSUME NEW S, IsFiniteSet(S)
  PROVE  /\ Cardinality(S) \in Nat /\ DOMAIN SetToSeq(S) = 1..Cardinality(S)
         /\ \A i \in 1..Cardinality(S) : SetToSeq(S)[i] \in S
         /\ \A i, j \in 1..Cardinality(S) : SetToSeq(S)[i] = SetToSeq(S)[j] => i = j
         /\ \A x \in S : \E i \in 1..Cardinality(S) : SetToSeq(S)[i] = x
  <1>1. PICK n \in Nat : ExistsBijection(1..n, S)
    BY FS_NatBijection
  <1>2. Cardinality(S) = n
    BY <1>1, FS_CountingElements
  <1>3. \E f \in [1..Cardinality(S) -> S] : IsInjective(f)
    BY <1>1, <1>2 DEF ExistsBijection, Bijection, Injection, IsInjective
  <1> DEFINE q == SetToSeq(S)
  <1>4. q \in [1..Cardinality(S) -> S] /\ IsInjective(q)
    BY <1>3 DEF SetToSeq
  <1> HIDE DEF q
  <1>5. q \in [1..n -> S] /\ IsInjective(q)
    BY <1>2, <1>4
  <1>6. q \in Injection(1..n, S)
    BY <1>5 DEF Injection
  <1>7. q \in Surjection(1..n, S)
    <2>1. IsFiniteSet(1..n) /\ Cardinality(1..n) = n
      BY FS_Interval
    <2>2. QED
      BY <1>2, <1>6, <2>1, FS_Injection
  <1>8. \A x \in S : \E i \in 1..n : q[i] = x
    BY <1>7 DEF Surjection
  <1>9. \A i, j \in 1..n : q[i] = q[j] => i = j
    BY <1>5 DEF IsInjective
  <1>10. DOMAIN q = 1..n /\ \A i \in 1..n : q[i] \in S
    BY <1>5
  <1>11. QED
    BY <1>2, <1>8, <1>9, <1>10 DEF q

\* An issue and a pull request are different things.
LEMMA KindsDiffer ==
  ASSUME NEW g, IssueRecord(g), NEW p, PullRecord(p)
  PROVE  g # p
  <1>1. DOMAIN g = {"repo", "number", "text"}
    BY DEF IssueRecord
  <1>2. "requests" \in DOMAIN p
    BY DEF PullRecord
  <1>3. QED
    BY <1>1, <1>2

\* A pull request is opened with the next number.
LEMMA OpenNumbers ==
  ASSUME NumbersInv, NEW repo \in Repos, NEW pull, PullRecord(pull), pull.repo = repo,
         pull.number = nextIssueNumber(repo), ghPulls' = ghPulls \union {pull}, ghIssues' = ghIssues
  PROVE  /\ NumbersInv' /\ \A g \in ghPulls : ~ Same(g, pull)
  <1>1. Numbered(Items(repo) \union {pull}) /\ \A y \in Items(repo) : y.number # pull.number
    <2>1. pull.number = 1 + Cardinality(Items(repo))
      BY DEF nextIssueNumber, Items
    <2>2. QED
      BY <2>1, NumberedNext DEF NumbersInv
  <1>2. Items(repo)' = Items(repo) \union {pull}
    BY DEF Items
  <1>3. \A r \in Repos : r # repo => Items(r)' = Items(r)
    BY DEF Items
  <1>4. \A r \in Repos : Numbered(Items(r)')
    BY <1>1, <1>2, <1>3 DEF NumbersInv
  <1>5. \A r \in Repos : Numbered(Items(r))'
    BY <1>4 DEF Numbered, Items
  <1>6. \A g \in ghPulls : ~ Same(g, pull)
    BY <1>1 DEF Items, Same
  <1>7. QED
    BY <1>5, <1>6 DEF NumbersInv, Repos, PullRecord, IssueRecord

\* One pull request changes.
LEMMA ChangedNumbers ==
  ASSUME NumbersInv, NEW g \in ghPulls, NEW pull, PullRecord(pull), Same(pull, g),
         ghPulls' = (ghPulls \ {g}) \union {pull}, ghIssues' = ghIssues
  PROVE  NumbersInv'
  <1>1. g.repo \in Repos /\ g \in Items(g.repo) /\ pull.repo = g.repo /\ pull.number = g.number
    BY DEF NumbersInv, Same, Items
  <1>2. Numbered((Items(g.repo) \ {g}) \union {pull})
    BY <1>1, NumberedReplaced DEF NumbersInv
  <1>3. Items(g.repo)' = (Items(g.repo) \ {g}) \union {pull}
    <2>1. g \notin ghIssues
      BY KindsDiffer DEF NumbersInv
    <2>2. QED
      BY <1>1, <2>1 DEF Items
  <1>4. \A r \in Repos : r # g.repo => Items(r)' = Items(r)
    BY <1>1 DEF Items
  <1>5. \A r \in Repos : Numbered(Items(r)')
    BY <1>1, <1>2, <1>3, <1>4 DEF NumbersInv
  <1>6. \A r \in Repos : Numbered(Items(r))'
    BY <1>5 DEF Numbered, Items
  <1>7. QED
    BY <1>1, <1>6 DEF NumbersInv, Repos, PullRecord, IssueRecord

\* The rows of new issues, with the next numbers in the order of their tasks.
LEMMA RowsOfIssues ==
  ASSUME NEW repo, Numbered(Items(repo)), NEW created, IsFiniteSet(created)
  PROVE  LET n == Cardinality(Items(repo)) k == Cardinality(created)
             order == SetToSeq(created) rows == createIssues(repo, created)
         IN
         /\ n \in Nat /\ k \in Nat
         /\ \A r \in rows : \E i \in 1..k :
                r = [repo |-> repo, number |-> n + i, task |-> order[i].id]
         /\ \A i \in 1..k : [repo |-> repo, number |-> n + i, task |-> order[i].id] \in rows
         /\ IsFiniteSet(rows) /\ Cardinality(rows) <= k
         /\ {r.number : r \in rows} = n+1..n+k
  <1> DEFINE n == Cardinality(Items(repo))
             k == Cardinality(created)
             order == SetToSeq(created)
             rows == createIssues(repo, created)
  <1>1. n \in Nat
    BY FS_CardinalityType DEF Numbered
  <1>2. k \in Nat /\ DOMAIN order = 1..k
    BY SequenceOfSet
  <1>3. rows = {[repo |-> repo, number |-> 1 + n + i - 1, task |-> order[i].id] : i \in 1..k}
    BY <1>2 DEF createIssues, nextIssueNumber, Items
  <1> HIDE DEF n, k, order, rows
  <1>4. \A i \in 1..k : 1 + n + i - 1 = n + i
    BY <1>1, <1>2
  <1>5. rows = {[repo |-> repo, number |-> n + i, task |-> order[i].id] : i \in 1..k}
    BY <1>3, <1>4
  <1>6. IsFiniteSet(rows) /\ Cardinality(rows) <= k
    <2> DEFINE f == [i \in 1..k |-> [repo |-> repo, number |-> n + i, task |-> order[i].id]]
    <2>1. f \in Surjection(1..k, rows)
      BY <1>5 DEF Surjection
    <2>2. IsFiniteSet(1..k) /\ Cardinality(1..k) = k
      BY <1>2, FS_Interval
    <2>3. QED
      BY <2>1, <2>2, FS_Surjection
  <1>7. {r.number : r \in rows} = n+1..n+k
    <2>1. {r.number : r \in rows} = {n + i : i \in 1..k}
      <3>1. \A r \in rows : \E i \in 1..k : r.number = n + i
        BY <1>5
      <3>2. ASSUME NEW i \in 1..k
            PROVE  \E r \in rows : r.number = n + i
        <4>1. PICK r : r = [repo |-> repo, number |-> n + i, task |-> order[i].id]
          OBVIOUS
        <4>2. r \in rows /\ r.number = n + i
          BY <1>5, <4>1
        <4>3. QED
          BY <4>2
      <3>3. QED
        BY <3>1, <3>2
    <2>2. {n + i : i \in 1..k} = n+1..n+k
      <3>1. \A j \in n+1..n+k : j - n \in 1..k /\ j = n + (j - n)
        BY <1>1, <1>2
      <3>2. \A i \in 1..k : n + i \in n+1..n+k
        BY <1>1, <1>2
      <3>3. QED
        BY <3>1, <3>2
    <2>3. QED
      BY <2>1, <2>2
  <1>8. /\ \A r \in rows : \E i \in 1..k :
                r = [repo |-> repo, number |-> n + i, task |-> order[i].id]
        /\ \A i \in 1..k : [repo |-> repo, number |-> n + i, task |-> order[i].id] \in rows
    BY <1>5
  <1>9. QED
    BY <1>1, <1>2, <1>6, <1>7, <1>8 DEF n, k, order, rows

\* An issue keeps its place and number when its text changes.
LEMMA IssueUpdated ==
  ASSUME NEW g, IssueRecord(g), NEW updated
  PROVE  /\ IssueRecord(UpdateIssue(g, updated)) /\ Same(UpdateIssue(g, updated), g)
  <1> DEFINE mine == {t \in updated : \E i \in issues :
                        i.repo = g.repo /\ i.number = g.number /\ i.task = t.id}
  <1>1. UpdateIssue(g, updated) = IF mine = {} THEN g
                                  ELSE [g EXCEPT !.text = (CHOOSE t \in mine : TRUE).text]
    BY DEF UpdateIssue
  <1>2. ASSUME NEW text
        PROVE  IssueRecord([g EXCEPT !.text = text]) /\ Same([g EXCEPT !.text = text], g)
    <2>1. PICK new : new = [g EXCEPT !.text = text]
      OBVIOUS
    <2>2. new = [repo |-> g.repo, number |-> g.number, text |-> text]
      BY <2>1 DEF IssueRecord
    <2>3. IssueRecord(new) /\ Same(new, g)
      BY <2>2 DEF IssueRecord, Same
    <2>4. QED
      BY <2>1, <2>3
  <1>3. Same(g, g)
    BY DEF Same
  <1> HIDE DEF mine
  <1>4. QED
    BY <1>1, <1>2, <1>3

\* What a synchronization does to the issues of one repository.
LEMMA IssuesNumbers ==
  ASSUME NumbersInv, NEW repo \in Repos, NEW created, IsFiniteSet(created), NEW updated,
         ghIssues' = updateIssues(repo, updated) \union CreateIssue(createIssues(repo, created)),
         ghPulls' = ghPulls
  PROVE  NumbersInv'
  <1> DEFINE n == Cardinality(Items(repo))
             k == Cardinality(created)
             order == SetToSeq(created)
             rows == createIssues(repo, created)
             more == CreateIssue(rows)
             f == [x \in Items(repo) |-> IF x \in ghIssues THEN UpdateIssue(x, updated) ELSE x]
  <1>1. Numbered(Items(repo))
    BY DEF NumbersInv
  <1>2. /\ n \in Nat /\ k \in Nat /\ IsFiniteSet(rows) /\ Cardinality(rows) <= k
        /\ {r.number : r \in rows} = n+1..n+k
        /\ \A r \in rows : r.repo = repo
    <2>1. \A r \in rows : \E i \in 1..k :
             r = [repo |-> repo, number |-> n + i, task |-> order[i].id]
      BY <1>1, RowsOfIssues
    <2> HIDE DEF n, k, order, rows
    <2>2. \A r \in rows : r.repo = repo
      BY <2>1
    <2>3. QED
      BY <1>1, <2>2, RowsOfIssues DEF n, k, order, rows
  <1> HIDE DEF n, k, order, rows
  <1>3. \A g \in more : \E r \in rows : \E t :
            g = [repo |-> r.repo, number |-> r.number, text |-> t]
    BY DEF CreateIssue
  <1>4. \A g \in more : g.repo = repo /\ IssueRecord(g)
    BY <1>2, <1>3 DEF IssueRecord
  <1>5. {g.number : g \in more} = n+1..n+k
    <2>1. \A g \in more : \E r \in rows : g.number = r.number
      BY <1>3
    <2>2. ASSUME NEW r \in rows
          PROVE  \E g \in more : g.number = r.number
      <3>1. PICK g : g = [repo |-> r.repo, number |-> r.number,
                          text |-> (CHOOSE t \in tasks : t.id = r.task).text]
        OBVIOUS
      <3>2. g \in more /\ g.number = r.number
        BY <3>1 DEF CreateIssue
      <3>3. QED
        BY <3>2
    <2>3. {g.number : g \in more} = {r.number : r \in rows}
      BY <2>1, <2>2
    <2>4. QED
      BY <1>2, <2>3
  <1>6. IsFiniteSet(more) /\ Cardinality(more) <= k
    <2> DEFINE h == [r \in rows |-> [repo |-> r.repo, number |-> r.number,
                                     text |-> (CHOOSE t \in tasks : t.id = r.task).text]]
    <2>1. h \in Surjection(rows, more)
      BY DEF Surjection, CreateIssue
    <2>2. IsFiniteSet(more) /\ Cardinality(more) <= Cardinality(rows)
      BY <1>2, <2>1, FS_Surjection
    <2>3. Cardinality(more) \in Nat /\ Cardinality(rows) \in Nat
      BY <1>2, <2>2, FS_CardinalityType
    <2>4. QED
      BY <1>2, <2>2, <2>3
  <1> HIDE DEF more
  <1>7. \A g \in ghIssues : /\ IssueRecord(UpdateIssue(g, updated))
                            /\ Same(UpdateIssue(g, updated), g)
    BY IssueUpdated DEF NumbersInv
  <1>8. \A x \in Items(repo) : f[x].number = x.number /\ f[x].repo = repo
    BY <1>7 DEF Items, Same
  <1>9. Numbered({f[x] : x \in Items(repo)} \union more)
    <2>1. DOMAIN f = Items(repo) /\ \A x \in Items(repo) : f[x].number = x.number
      BY <1>8
    <2> HIDE DEF f
    <2>2. {g.number : g \in more} = Cardinality(Items(repo))+1..Cardinality(Items(repo))+k
      BY <1>5 DEF n
    <2>3. PICK h, U : h = f /\ U = more
      OBVIOUS
    <2>4. DOMAIN h = Items(repo) /\ \A x \in Items(repo) : h[x].number = x.number
      BY <2>1, <2>3
    <2>5. IsFiniteSet(U) /\ Cardinality(U) <= k /\ k \in Nat
          /\ {u.number : u \in U} = Cardinality(Items(repo))+1..Cardinality(Items(repo))+k
      BY <1>2, <1>6, <2>2, <2>3
    <2>6. Numbered({h[x] : x \in Items(repo)} \union U)
      BY <1>1, <2>4, <2>5, NumberedMore
    <2>7. QED
      BY <2>3, <2>6
  <1>10. Items(repo)' = {f[x] : x \in Items(repo)} \union more
    <2>1. \A p \in ghPulls : p \notin ghIssues
      BY KindsDiffer DEF NumbersInv
    <2>2. ghIssues' = {IF g.repo = repo THEN UpdateIssue(g, updated) ELSE g : g \in ghIssues}
                      \union more
      BY DEF updateIssues, more, rows
    <2>3. {g \in ghIssues' : g.repo = repo} =
             {UpdateIssue(g, updated) : g \in {g \in ghIssues : g.repo = repo}} \union more
      BY <1>4, <1>7, <2>2 DEF Same
    <2>4. {f[x] : x \in Items(repo)} =
             {UpdateIssue(g, updated) : g \in {g \in ghIssues : g.repo = repo}}
             \union {p \in ghPulls : p.repo = repo}
      BY <2>1 DEF Items
    <2>5. QED
      BY <2>3, <2>4 DEF Items
  <1>11. \A r \in Repos : r # repo => Items(r)' = Items(r)
    <2>1. ghIssues' = {IF g.repo = repo THEN UpdateIssue(g, updated) ELSE g : g \in ghIssues}
                      \union more
      BY DEF updateIssues, more, rows
    <2>2. ASSUME NEW r \in Repos, r # repo
          PROVE  {g \in ghIssues' : g.repo = r} = {g \in ghIssues : g.repo = r}
      BY <1>4, <1>7, <2>1, <2>2 DEF Same
    <2>3. QED
      BY <2>2 DEF Items
  <1>12. \A r \in Repos : Numbered(Items(r)')
    BY <1>9, <1>10, <1>11 DEF NumbersInv
  <1>13. \A r \in Repos : Numbered(Items(r))'
    BY <1>12 DEF Numbered, Items
  <1>14. \A g \in ghIssues' : g.repo \in Repos /\ IssueRecord(g)
    <2>1. ghIssues' = {IF g.repo = repo THEN UpdateIssue(g, updated) ELSE g : g \in ghIssues}
                      \union more
      BY DEF updateIssues, more, rows
    <2>2. \A g \in ghIssues : g.repo \in Repos /\ IssueRecord(g)
      BY DEF NumbersInv
    <2>3. QED
      BY <1>4, <1>7, <2>1, <2>2 DEF Same
  <1>15. \A g \in ghPulls' : g.repo \in Repos /\ PullRecord(g)
    BY DEF NumbersInv
  <1>16. QED
    BY <1>13, <1>14, <1>15 DEF NumbersInv, Repos, IssueRecord, PullRecord

-----------------------------------------------------------------------------
(* The invariant that needs no assumption: what exists on GitHub.          *)

\* No pull request disappears from GitHub.
GitHubKeeps == \A g \in ghPulls : \E k \in ghPulls' : Same(k, g)

\* The table stays, or a row is written, added or removed.
LEMMA TableWritten ==
  ASSUME NEW h, TableInv, NEW copy, Row(copy), UpdatePullRequest(h, copy)
  PROVE  TableInv' /\ \A i \in DOMAIN pulls' : i \in DOMAIN pulls /\ pulls'[i] \in {copy, pulls[i]}
  <1>1. /\ DOMAIN pulls' = DOMAIN pulls
        /\ \A i \in DOMAIN pulls : pulls'[i] = IF i = handler[h].id THEN copy ELSE pulls[i]
    BY DEF UpdatePullRequest
  <1>2. QED
    BY <1>1 DEF TableInv, Row

LEMMA TableGrows ==
  ASSUME TableInv, NEW row, Row(row), NEW id, id = Max(DOMAIN pulls \union {0}) + 1,
         pulls' = [i \in DOMAIN pulls \union {id} |-> IF i = id THEN row ELSE pulls[i]]
  PROVE  /\ TableInv' /\ id \notin DOMAIN pulls /\ DOMAIN pulls' = DOMAIN pulls \union {id}
         /\ pulls'[id] = row /\ \A i \in DOMAIN pulls : pulls'[i] = pulls[i]
  <1>1. id \in Nat /\ id \notin DOMAIN pulls /\ DOMAIN pulls \union {id} \subseteq 1..id
    BY NextID
  <1>2. /\ DOMAIN pulls' = DOMAIN pulls \union {id} /\ pulls'[id] = row
        /\ \A i \in DOMAIN pulls : pulls'[i] = pulls[i]
    BY <1>1
  <1>3. TableInv'
    <2>1. \A i \in DOMAIN pulls : Row(pulls[i])
      BY DEF TableInv
    <2>2. \A i \in DOMAIN pulls' : Row(pulls'[i])
      BY <1>2, <2>1
    <2>3. DOMAIN pulls' \subseteq 1..id
      BY <1>1, <1>2
    <2>4. QED
      BY <1>1, <2>2, <2>3 DEF TableInv, Row
  <1>4. QED
    BY <1>1, <1>2, <1>3

LEMMA TableShrinks ==
  ASSUME TableInv, NEW id, pulls' = [i \in DOMAIN pulls \ {id} |-> pulls[i]]
  PROVE  TableInv' /\ \A i \in DOMAIN pulls' : i \in DOMAIN pulls /\ pulls'[i] = pulls[i]
  BY DEF TableInv, Row

\* What a step has to keep.
LEMMA PlacesSuffice ==
  ASSUME PlacesInv, NEW h \in Handlers, Moved(h), TableInv', SyncType', NumbersInv', GitHubKeeps,
         Known(h)',
         \A i \in DOMAIN pulls' : OnGitHub(pulls'[i])
  PROVE  PlacesInv'
  <1>1. ASSUME NEW x, OnGitHub(x)
        PROVE  \E g \in ghPulls' : Same(g, x)
    BY <1>1 DEF OnGitHub, GitHubKeeps, Same
  <1>2. ASSUME NEW i \in DOMAIN pulls'
        PROVE  OnGitHub(pulls[i])'
    BY <1>1 DEF OnGitHub
  <1>3. ASSUME NEW k \in Handlers, k # h
        PROVE  Known(k)'
    <2>1. handler'[k] = handler[k] /\ Known(k)
      BY <1>3 DEF Moved, PlacesInv
    <2>2. OnGitHub(handler[k].pull) => \E g \in ghPulls' : Same(g, handler[k].pull)
      BY <1>1
    <2>3. QED
      BY <2>1, <2>2 DEF Known, OnGitHub, Row, Same
  <1>4. HandlerType' /\ Handlers' = Handlers
    BY DEF Moved, Handlers
  <1>5. QED
    BY <1>2, <1>3, <1>4 DEF PlacesInv, Handlers

\* A handler that goes on or returns, when nothing else changes on GitHub but one
\* pull request.
LEMMA PlacesStay ==
  ASSUME PlacesInv, UNCHANGED <<tests, sync, ghIssues, ghPulls>>
  PROVE  SyncType' /\ NumbersInv' /\ GitHubKeeps
  <1>1. SyncType'
    BY DEF PlacesInv, SyncType, Repos
  <1>2. NumbersInv'
    BY DEF PlacesInv, NumbersInv, Items, Numbered, IssueRecord, PullRecord, Repos
  <1>3. GitHubKeeps
    BY DEF GitHubKeeps, Same
  <1>4. QED
    BY <1>1, <1>2, <1>3

LEMMA GoingPlaces ==
  ASSUME PlacesInv, NEW h \in Handlers, NEW place, NEW copy, Goto(h, place, copy),
         place \notin {"idle", "opened"} => Row(copy) /\ OnGitHub(copy),
         SyncType', NumbersInv', GitHubKeeps, TableInv',
         \A i \in DOMAIN pulls' : OnGitHub(pulls'[i])
  PROVE  PlacesInv'
  <1>1. HandlerType /\ Known(h)
    BY DEF PlacesInv
  <1>2. /\ Moved(h)
        /\ handler'[h] = [pc |-> place, event |-> handler[h].event, id |-> handler[h].id,
                          pull |-> copy, reviewers |-> handler[h].reviewers]
    BY <1>1, Goes DEF Known
  <1>3. Known(h)'
    <2>1. OnGitHub(copy) => \E g \in ghPulls' : Same(g, copy)
      BY DEF OnGitHub, GitHubKeeps, Same
    <2>2. QED
      BY <1>2, <2>1 DEF Known, OnGitHub, Row, Same
  <1>4. QED
    BY <1>2, <1>3, PlacesSuffice

LEMMA ReturningPlaces ==
  ASSUME PlacesInv, NEW h \in Handlers, Return(h), SyncType', NumbersInv', GitHubKeeps, TableInv',
         \A i \in DOMAIN pulls' : OnGitHub(pulls'[i])
  PROVE  PlacesInv'
  <1>1. HandlerType
    BY DEF PlacesInv
  <1>2. Moved(h) /\ handler'[h] = NoHandler
    BY <1>1, Returns
  <1>3. Known(h)'
    BY <1>2 DEF Known, NoHandler
  <1>4. QED
    BY <1>2, <1>3, PlacesSuffice

\* Nothing happens to the table.
LEMMA PullsStay ==
  ASSUME PlacesInv, pulls' = pulls
  PROVE  TableInv' /\ \A i \in DOMAIN pulls' : OnGitHub(pulls'[i])
  BY DEF PlacesInv, TableInv, Row

LEMMA PullsWritten ==
  ASSUME PlacesInv, NEW h \in Handlers, NEW copy, Row(copy), OnGitHub(copy),
         UpdatePullRequest(h, copy)
  PROVE  TableInv' /\ \A i \in DOMAIN pulls' : OnGitHub(pulls'[i])
  <1>1. TableInv' /\ \A i \in DOMAIN pulls' : i \in DOMAIN pulls /\ pulls'[i] \in {copy, pulls[i]}
    BY TableWritten DEF PlacesInv
  <1>2. QED
    BY <1>1 DEF PlacesInv

LEMMA HandlePlaces ==
  ASSUME PlacesInv, NEW h \in Handlers, HandleEvent(h)
  PROVE  PlacesInv'
  <1>1. PICK e \in events :
          LET i == IF e.type = "push" THEN ByBranch(e) ELSE ByNumber(e)
              start(at) == handler' = [handler EXCEPT
                  ![h] = [pc |-> at, event |-> e, id |-> i, pull |-> pulls[i], reviewers |-> {}]]
          IN
          \/ handler' = [handler EXCEPT ![h].pc = "opened", ![h].event = e]
          \/ i # 0 /\ \E at \in {"review", "closed", "push"} : start(at)
          \/ UNCHANGED handler
    BY Zenon DEF HandleEvent
  <1> DEFINE i == IF e.type = "push" THEN ByBranch(e) ELSE ByNumber(e)
  <1>2. UNCHANGED <<pulls, tests, sync, ghIssues, ghPulls>> /\ handler[h].pc = "idle"
    BY DEF HandleEvent, db, github
  <1>3. i # 0 => i \in DOMAIN pulls
    BY RowFound DEF PlacesInv, ByBranch, ByNumber
  <1> HIDE DEF i
  <1>4. /\ SyncType' /\ NumbersInv' /\ GitHubKeeps
        /\ TableInv' /\ \A j \in DOMAIN pulls' : OnGitHub(pulls'[j])
    BY <1>2, PlacesStay, PullsStay
  <1>5. handler = [k \in Handlers |-> handler[k]]
        /\ handler[h] = [pc |-> handler[h].pc, event |-> handler[h].event, id |-> handler[h].id,
                         pull |-> handler[h].pull, reviewers |-> handler[h].reviewers]
    BY DEF PlacesInv, HandlerType, Known
  <1>6. CASE handler' = [handler EXCEPT ![h].pc = "opened", ![h].event = e]
    <2>1. handler'[h] = [[handler[h] EXCEPT !.pc = "opened"] EXCEPT !.event = e]
          /\ handler' = [k \in Handlers |-> handler'[k]]
          /\ \A k \in Handlers \ {h} : handler'[k] = handler[k]
      BY <1>5, <1>6
    <2>2. handler'[h] = [pc |-> "opened", event |-> e, id |-> handler[h].id,
                         pull |-> handler[h].pull, reviewers |-> handler[h].reviewers]
      BY <1>5, <2>1
    <2>3. Known(h)' /\ Moved(h)
      BY <2>1, <2>2 DEF Known, Moved, HandlerType, Handlers
    <2>4. QED
      BY <1>4, <2>3, PlacesSuffice
  <1>7. ASSUME NEW at \in {"review", "closed", "push"}, i # 0,
               handler' = [handler EXCEPT ![h] = [pc |-> at, event |-> e, id |-> i,
                                                  pull |-> pulls[i], reviewers |-> {}]]
        PROVE  PlacesInv'
    <2>1. handler' = [k \in Handlers |-> handler'[k]]
          /\ handler'[h] = [pc |-> at, event |-> e, id |-> i, pull |-> pulls[i], reviewers |-> {}]
          /\ \A k \in Handlers \ {h} : handler'[k] = handler[k]
      BY <1>5, <1>7
    <2>2. Row(pulls[i]) /\ \E g \in ghPulls' : Same(g, pulls[i])
      BY <1>2, <1>3, <1>7 DEF PlacesInv, TableInv, OnGitHub
    <2>3. Known(h)' /\ Moved(h)
      BY <2>1, <2>2 DEF Known, OnGitHub, Row, Moved, HandlerType, Handlers
    <2>4. QED
      BY <1>4, <2>3, PlacesSuffice
  <1>8. CASE UNCHANGED handler
    <2>1. Known(h)' /\ Moved(h)
      BY <1>2, <1>8 DEF PlacesInv, Known, Row, OnGitHub, Moved, HandlerType, Handlers
    <2>2. QED
      BY <1>4, <2>1, PlacesSuffice
  <1>9. QED
    BY <1>1, <1>6, <1>7, <1>8 DEF i

\* A handler returns and nothing else happens that matters here.
LEMMA JustReturns ==
  ASSUME PlacesInv, NEW h \in Handlers, Return(h), UNCHANGED <<pulls, tests, sync, ghIssues, ghPulls>>
  PROVE  PlacesInv'
  BY PlacesStay, PullsStay, ReturningPlaces

LEMMA JustGoes ==
  ASSUME PlacesInv, NEW h \in Handlers, NEW place, NEW copy, Goto(h, place, copy),
         Row(copy), OnGitHub(copy), UNCHANGED <<pulls, tests, sync, ghIssues, ghPulls>>
  PROVE  PlacesInv'
  BY PlacesStay, PullsStay, GoingPlaces

LEMMA OpenedPlaces ==
  ASSUME PlacesInv, NEW h \in Handlers, handlePullRequestOpened(h)
  PROVE  PlacesInv'
  <1>1. UNCHANGED <<pulls, tests, sync, ghIssues, ghPulls>>
    BY DEF handlePullRequestOpened, db, github
  <1>2. CASE Return(h)
    BY <1>1, <1>2, JustReturns
  <1>3. ASSUME NEW g \in ghPulls, NEW i,
               Goto(h, "CreatePullRequest",
                    [repo |-> g.repo, number |-> g.number, branch |-> g.branch,
                     user |-> g.user, task |-> i.task, stage |-> "draft", comment |-> FALSE])
        PROVE  PlacesInv'
    <2>1. PICK copy, no : copy = [repo |-> g.repo, number |-> g.number, branch |-> g.branch,
                                  user |-> g.user, task |-> i.task, stage |-> "draft", comment |-> no]
                          /\ no = FALSE
      OBVIOUS
    <2>2. Row(copy) /\ OnGitHub(copy)
      BY <2>1 DEF Row, OnGitHub, Same
    <2>3. Goto(h, "CreatePullRequest", copy)
      BY <1>3, <2>1, Zenon
    <2>4. QED
      BY <1>1, <2>2, <2>3, JustGoes
  <1>4. QED
    BY <1>2, <1>3, Zenon DEF handlePullRequestOpened

LEMMA CreatePlaces ==
  ASSUME PlacesInv, NEW h \in Handlers, CreatePullRequest(h)
  PROVE  PlacesInv'
  <1>1. /\ Return(h) /\ UNCHANGED <<tests, sync, ghIssues, ghPulls>>
        /\ Row(handler[h].pull) /\ OnGitHub(handler[h].pull)
    BY DEF CreatePullRequest, github, PlacesInv, Known
  <1>2. CASE pulls' = pulls
    BY <1>1, <1>2, JustReturns
  <1> DEFINE id == Max(DOMAIN pulls \union {0}) + 1
  <1>3. CASE pulls' = [i \in DOMAIN pulls \union {id} |->
                          IF i = id THEN handler[h].pull ELSE pulls[i]]
    <2>1. PICK n : n = id
      OBVIOUS
    <2>2. pulls' = [i \in DOMAIN pulls \union {n} |-> IF i = n THEN handler[h].pull ELSE pulls[i]]
      BY <1>3, <2>1, Zenon
    <2>3. TableInv
      BY DEF PlacesInv
    <2>4. /\ TableInv' /\ DOMAIN pulls' = DOMAIN pulls \union {n} /\ pulls'[n] = handler[h].pull
          /\ \A i \in DOMAIN pulls : pulls'[i] = pulls[i]
      BY <1>1, <2>1, <2>2, <2>3, TableGrows
    <2>5. \A i \in DOMAIN pulls' : OnGitHub(pulls'[i])
      BY <1>1, <2>4 DEF PlacesInv
    <2>6. QED
      BY <1>1, <2>4, <2>5, PlacesStay, ReturningPlaces
  <1>4. QED
    BY <1>2, <1>3, Zenon DEF CreatePullRequest

LEMMA PushPlaces ==
  ASSUME PlacesInv, NEW h \in Handlers, handlePullRequestPush(h)
  PROVE  PlacesInv'
  <1>1. /\ UNCHANGED <<pulls, tests, sync, ghIssues, ghPulls>>
        /\ Row(handler[h].pull) /\ OnGitHub(handler[h].pull)
    BY DEF handlePullRequestPush, db, github, PlacesInv, Known
  <1>2. QED
    BY <1>1, JustReturns, JustGoes DEF handlePullRequestPush

LEMMA AssignPlaces ==
  ASSUME PlacesInv, NEW h \in Handlers, AssignReviewers(h)
  PROVE  PlacesInv'
  <1>1. /\ UNCHANGED <<pulls, tests, sync, ghIssues, ghPulls>> /\ handler[h].pc = "AssignReviewers"
        /\ Row(handler[h].pull) /\ OnGitHub(handler[h].pull)
    BY DEF AssignReviewers, db, github, PlacesInv, Known
  <1>2. CASE Return(h)
    BY <1>1, <1>2, JustReturns
  <1>3. ASSUME NEW R, handler' = [handler EXCEPT ![h].pc = "RequestReviewers", ![h].reviewers = R]
        PROVE  PlacesInv'
    <2>1. handler = [k \in Handlers |-> handler[k]]
          /\ handler[h] = [pc |-> handler[h].pc, event |-> handler[h].event, id |-> handler[h].id,
                           pull |-> handler[h].pull, reviewers |-> handler[h].reviewers]
      BY DEF PlacesInv, HandlerType, Known
    <2>2. handler'[h] = [[handler[h] EXCEPT !.pc = "RequestReviewers"] EXCEPT !.reviewers = R]
          /\ handler' = [k \in Handlers |-> handler'[k]]
          /\ \A k \in Handlers \ {h} : handler'[k] = handler[k]
      BY <1>3, <2>1
    <2>3. handler'[h] = [pc |-> "RequestReviewers", event |-> handler[h].event,
                         id |-> handler[h].id, pull |-> handler[h].pull, reviewers |-> R]
      BY <2>1, <2>2
    <2>4. Known(h)' /\ Moved(h)
      BY <1>1, <2>2, <2>3 DEF Known, OnGitHub, Row, Moved, HandlerType, Handlers
    <2>5. QED
      BY <1>1, <2>4, PlacesStay, PullsStay, PlacesSuffice
  <1>4. QED
    BY <1>2, <1>3 DEF AssignReviewers

\* One pull request on GitHub gets a request or a comment.
LEMMA PullChanged ==
  ASSUME PlacesInv, UNCHANGED <<tests, sync, ghIssues>>, NEW g \in ghPulls, NEW new, PullRecord(new),
         Same(new, g), ghPulls' = (ghPulls \ {g}) \union {new}
  PROVE  SyncType' /\ NumbersInv' /\ GitHubKeeps
  <1>1. SyncType'
    BY DEF PlacesInv, SyncType, Repos
  <1>2. NumbersInv'
    BY ChangedNumbers DEF PlacesInv
  <1>3. GitHubKeeps
    BY DEF GitHubKeeps, Same
  <1>4. QED
    BY <1>1, <1>2, <1>3

\* Its record, with another column.
LEMMA PullColumns ==
  ASSUME NEW g, PullRecord(g)
  PROVE  /\ \A r : LET new == [g EXCEPT !.requests = r] IN
                   PullRecord(new) /\ Same(new, g) /\ new.requests = r
         /\ \A c : LET new == [g EXCEPT !.comments = c] IN
                   PullRecord(new) /\ Same(new, g) /\ new.requests = g.requests
         /\ \A b : LET new == [g EXCEPT !.open = b] IN
                   PullRecord(new) /\ Same(new, g) /\ new.requests = g.requests
  <1>1. g = [repo |-> g.repo, number |-> g.number, branch |-> g.branch, user |-> g.user,
             requests |-> g.requests, comments |-> g.comments, open |-> g.open]
    BY DEF PullRecord
  <1>2. ASSUME NEW r, NEW new, new = [g EXCEPT !.requests = r]
        PROVE  PullRecord(new) /\ Same(new, g) /\ new.requests = r
    <2>1. new = [repo |-> g.repo, number |-> g.number, branch |-> g.branch, user |-> g.user,
                 requests |-> r, comments |-> g.comments, open |-> g.open]
      BY <1>1, <1>2
    <2>2. QED
      BY <2>1 DEF PullRecord, Same
  <1>3. ASSUME NEW c, NEW new, new = [g EXCEPT !.comments = c]
        PROVE  PullRecord(new) /\ Same(new, g) /\ new.requests = g.requests
    <2>1. new = [repo |-> g.repo, number |-> g.number, branch |-> g.branch, user |-> g.user,
                 requests |-> g.requests, comments |-> c, open |-> g.open]
      BY <1>1, <1>3
    <2>2. QED
      BY <2>1 DEF PullRecord, Same
  <1>4. ASSUME NEW b, NEW new, new = [g EXCEPT !.open = b]
        PROVE  PullRecord(new) /\ Same(new, g) /\ new.requests = g.requests
    <2>1. new = [repo |-> g.repo, number |-> g.number, branch |-> g.branch, user |-> g.user,
                 requests |-> g.requests, comments |-> g.comments, open |-> b]
      BY <1>1, <1>4
    <2>2. QED
      BY <2>1 DEF PullRecord, Same
  <1>5. QED
    BY <1>2, <1>3, <1>4

LEMMA AtGitHubIs ==
  ASSUME PlacesInv, NEW pull, OnGitHub(pull)
  PROVE  AtGitHub(pull) \in ghPulls /\ Same(AtGitHub(pull), pull) /\ PullRecord(AtGitHub(pull))
  BY DEF OnGitHub, AtGitHub, Same, PlacesInv, NumbersInv

LEMMA RequestPlaces ==
  ASSUME PlacesInv, NEW h \in Handlers, RequestReviewers(h)
  PROVE  PlacesInv'
  <1> DEFINE pull == handler[h].pull
             g == AtGitHub(pull)
             copy == [pull EXCEPT !.stage = "review"]
  <1>1. /\ UNCHANGED <<pulls, tests, sync, ghIssues>> /\ Row(pull) /\ OnGitHub(pull)
    BY DEF RequestReviewers, db, PlacesInv, Known
  <1>2. CASE Return(h) /\ UNCHANGED ghPulls
    BY <1>1, <1>2, JustReturns
  <1>3. ASSUME NEW r, ghPulls' = (ghPulls \ {g}) \union {[g EXCEPT !.requests = r]},
               Goto(h, "SetReview", copy)
        PROVE  PlacesInv'
    <2>1. g \in ghPulls /\ PullRecord(g)
      BY <1>1, AtGitHubIs
    <2>2. SyncType' /\ NumbersInv' /\ GitHubKeeps
      BY <1>1, <1>3, <2>1, PullColumns, PullChanged
    <2>3. Row(copy) /\ Same(copy, pull)
      BY <1>1, RowColumns
    <2>4. OnGitHub(copy)
      BY <1>1, <2>3 DEF OnGitHub, Same
    <2>5. QED
      BY <1>1, <1>3, <2>2, <2>3, <2>4, PullsStay, GoingPlaces
  <1>4. QED
    BY <1>2, <1>3, Zenon DEF RequestReviewers

LEMMA SetReviewPlaces ==
  ASSUME PlacesInv, NEW h \in Handlers, SetReview(h)
  PROVE  PlacesInv'
  <1> DEFINE pull == handler[h].pull
  <1>1. /\ UNCHANGED <<tests, sync, ghIssues, ghPulls>> /\ Row(pull) /\ OnGitHub(pull)
    BY DEF SetReview, github, PlacesInv, Known
  <1>2. CASE Return(h) /\ UNCHANGED pulls
    BY <1>1, <1>2, JustReturns
  <1>3. CASE UpdatePullRequest(h, pull) /\ Goto(h, "CreateIssueComment", pull)
    BY <1>1, <1>3, PullsWritten, PlacesStay, GoingPlaces
  <1>4. QED
    BY <1>2, <1>3 DEF SetReview

LEMMA CommentPlaces ==
  ASSUME PlacesInv, NEW h \in Handlers, CreateIssueComment(h)
  PROVE  PlacesInv'
  <1> DEFINE pull == handler[h].pull
             g == AtGitHub(pull)
  <1>1. /\ UNCHANGED <<pulls, tests, sync, ghIssues>> /\ Row(pull) /\ OnGitHub(pull)
    BY DEF CreateIssueComment, db, PlacesInv, Known
  <1>2. CASE Return(h) /\ UNCHANGED ghPulls
    BY <1>1, <1>2, JustReturns
  <1>3. ASSUME NEW c, ghPulls' = (ghPulls \ {g}) \union {[g EXCEPT !.comments = c]},
               NEW copy, NEW yes, copy = [pull EXCEPT !.comment = yes], Goto(h, "SetComment", copy)
        PROVE  PlacesInv'
    <2>1. g \in ghPulls /\ PullRecord(g)
      BY <1>1, AtGitHubIs
    <2>2. SyncType' /\ NumbersInv' /\ GitHubKeeps
      BY <1>1, <1>3, <2>1, PullColumns, PullChanged
    <2>3. Row(copy) /\ Same(copy, pull)
      BY <1>1, <1>3, RowColumns
    <2>4. OnGitHub(copy)
      BY <1>1, <2>3 DEF OnGitHub, Same
    <2>5. QED
      BY <1>1, <1>3, <2>2, <2>3, <2>4, PullsStay, GoingPlaces
  <1>4. QED
    BY <1>2, <1>3, Zenon DEF CreateIssueComment

LEMMA SetCommentPlaces ==
  ASSUME PlacesInv, NEW h \in Handlers, SetComment(h)
  PROVE  PlacesInv'
  <1> DEFINE pull == handler[h].pull
  <1>1. /\ Return(h) /\ UNCHANGED <<tests, sync, ghIssues, ghPulls>> /\ Row(pull) /\ OnGitHub(pull)
    BY DEF SetComment, github, PlacesInv, Known
  <1>2. CASE UNCHANGED pulls
    BY <1>1, <1>2, JustReturns
  <1>3. CASE UpdatePullRequest(h, pull)
    BY <1>1, <1>3, PullsWritten, PlacesStay, ReturningPlaces
  <1>4. QED
    BY <1>2, <1>3 DEF SetComment

LEMMA ReviewPlaces ==
  ASSUME PlacesInv, NEW h \in Handlers, handlePullRequestReview(h)
  PROVE  PlacesInv'
  <1> DEFINE copy == [handler[h].pull EXCEPT !.stage = "approved"]
  <1>1. /\ Return(h) /\ UNCHANGED <<tests, sync, ghIssues, ghPulls>>
        /\ Row(handler[h].pull) /\ OnGitHub(handler[h].pull)
    BY DEF handlePullRequestReview, github, PlacesInv, Known
  <1>2. CASE UNCHANGED pulls
    BY <1>1, <1>2, JustReturns
  <1>3. CASE UpdatePullRequest(h, copy)
    <2>1. Row(copy) /\ Same(copy, handler[h].pull)
      BY <1>1, RowColumns
    <2>2. OnGitHub(copy)
      BY <1>1, <2>1 DEF OnGitHub, Same
    <2>3. QED
      BY <1>1, <1>3, <2>1, <2>2, PullsWritten, PlacesStay, ReturningPlaces
  <1>4. QED
    BY <1>2, <1>3 DEF handlePullRequestReview

LEMMA MergePlaces ==
  ASSUME PlacesInv, NEW h \in Handlers, HandleMergingPR(h)
  PROVE  PlacesInv'
  <1>1. Return(h) /\ UNCHANGED <<tests, sync, ghIssues, ghPulls>>
    BY DEF HandleMergingPR, github
  <1>2. CASE UNCHANGED pulls
    BY <1>1, <1>2, JustReturns
  <1>3. CASE pulls' = [i \in DOMAIN pulls \ {handler[h].id} |-> pulls[i]]
    <2>1. TableInv
      BY DEF PlacesInv
    <2>2. TableInv' /\ \A i \in DOMAIN pulls' : OnGitHub(pulls'[i])
      BY <1>3, <2>1, TableShrinks DEF PlacesInv
    <2>3. QED
      BY <1>1, <2>2, PlacesStay, ReturningPlaces
  <1>4. QED
    BY <1>2, <1>3 DEF HandleMergingPR

\* The handlers and the table stay, and every pull request of GitHub.
LEMMA HandlersStay ==
  ASSUME PlacesInv, UNCHANGED <<pulls, handler>>, SyncType', NumbersInv', GitHubKeeps
  PROVE  PlacesInv'
  <1>1. ASSUME NEW x, OnGitHub(x)
        PROVE  \E g \in ghPulls' : Same(g, x)
    BY <1>1 DEF OnGitHub, GitHubKeeps, Same
  <1>2. ASSUME NEW i \in DOMAIN pulls'
        PROVE  OnGitHub(pulls[i])'
    BY <1>1 DEF OnGitHub, PlacesInv
  <1>3. ASSUME NEW k \in Handlers
        PROVE  Known(k)'
    <2>1. Known(k)
      BY DEF PlacesInv
    <2>2. OnGitHub(handler[k].pull) => \E g \in ghPulls' : Same(g, handler[k].pull)
      BY <1>1
    <2>3. QED
      BY <2>1, <2>2 DEF Known, OnGitHub, Row, Same
  <1>4. HandlerType' /\ TableInv' /\ Handlers' = Handlers
    BY DEF PlacesInv, HandlerType, TableInv, Row, Handlers
  <1>5. QED
    BY <1>2, <1>3, <1>4 DEF PlacesInv, Handlers

LEMMA SyncTypeNow ==
  ASSUME PlacesInv
  PROVE  /\ tests \in 0..Len(Content) /\ IsFiniteSet(sync.created) /\ sync.repos \subseteq Repos
         /\ sync = [pc |-> sync.pc, created |-> sync.created, updated |-> sync.updated,
                    repos |-> sync.repos, made |-> sync.made]
         /\ sync.pc # "idle" => tests # 0
  BY DEF PlacesInv, SyncType

LEMMA NoSyncType ==
  ASSUME PlacesInv, UNCHANGED tests, sync' = NoSync
  PROVE  SyncType'
  <1>1. IsFiniteSet({})
    BY FS_EmptySet
  <1>2. /\ sync' = [pc |-> "idle", created |-> {}, updated |-> {}, repos |-> {}, made |-> {}]
        /\ tests' \in 0..Len(Content)
    BY SyncTypeNow DEF NoSync
  <1>3. QED
    BY <1>1, <1>2 DEF SyncType

\* The sets of a transaction.
LEMMA TransactionFinite ==
  ASSUME tests \in 1..Len(Content)
  PROVE  IsFiniteSet({[id |-> <<name, tests>>, text |-> Content[tests][name]] :
                        name \in {n \in DOMAIN Content[tests] : TaskNamed(n) = {}}})
  <1> DEFINE D == {n \in DOMAIN Content[tests] : TaskNamed(n) = {}}
             f == [name \in D |-> [id |-> <<name, tests>>, text |-> Content[tests][name]]]
             S == {[id |-> <<name, tests>>, text |-> Content[tests][name]] : name \in D}
  <1>1. IsFiniteSet(D)
    <2>1. IsFiniteSet(DOMAIN Content[tests])
      BY ContentAssumption
    <2>2. QED
      BY <2>1, FS_Subset
  <1>2. f \in Surjection(D, S)
    BY DEF Surjection
  <1> HIDE DEF f, D
  <1>3. IsFiniteSet(S)
    BY <1>1, <1>2, FS_Surjection
  <1>4. QED
    BY <1>3 DEF D

LEMMA TransactionPlaces ==
  ASSUME PlacesInv, SynchronizeAssignmentTasks
  PROVE  PlacesInv'
  <1>1. /\ sync.pc = "SynchronizeAssignmentTasks"
        /\ UNCHANGED <<tests, pulls, handler, ghIssues, ghPulls>>
    BY DEF SynchronizeAssignmentTasks, github
  <1>2. tests \in 1..Len(Content)
    BY <1>1, SyncTypeNow
  <1>3. NumbersInv' /\ GitHubKeeps
    BY <1>1 DEF PlacesInv, NumbersInv, Items, Numbered, IssueRecord, PullRecord, Repos,
                GitHubKeeps, Same
  <1>4. SyncType'
    <2>1. CASE sync' = NoSync
      BY <1>1, <2>1, NoSyncType
    <2>2. ASSUME NEW updated,
                 sync' = [pc |-> "synchronizeRepos",
                          created |-> {[id |-> <<name, tests>>, text |-> Content[tests][name]] :
                             name \in {n \in DOMAIN Content[tests] : TaskNamed(n) = {}}},
                          updated |-> updated, repos |-> Repos, made |-> {}]
          PROVE  SyncType'
      <3>1. PICK created : created =
               {[id |-> <<name, tests>>, text |-> Content[tests][name]] :
                             name \in {n \in DOMAIN Content[tests] : TaskNamed(n) = {}}}
        OBVIOUS
      <3>2. IsFiniteSet(created)
        BY <1>2, <3>1, TransactionFinite
      <3>3. sync' = [pc |-> "synchronizeRepos", created |-> created, updated |-> updated,
                     repos |-> Repos, made |-> {}]
        BY <2>2, <3>1, Zenon
      <3>4. tests' \in 0..Len(Content) /\ tests' # 0
        BY <1>1, <1>2, SyncTypeNow
      <3>5. QED
        BY <3>2, <3>3, <3>4 DEF SyncType, Repos
    <2>3. QED
      BY <2>1, <2>2, Zenon DEF SynchronizeAssignmentTasks
  <1>5. QED
    BY <1>1, <1>3, <1>4, HandlersStay

LEMMA RepoPlaces ==
  ASSUME PlacesInv, NEW repo \in Repos, synchronizeRepo(repo)
  PROVE  PlacesInv'
  <1>1. /\ sync.pc = "synchronizeRepos"
        /\ UNCHANGED <<tests, pulls, handler, ghPulls>>
    BY DEF synchronizeRepo, db
  <1>2. GitHubKeeps
    BY <1>1 DEF GitHubKeeps, Same
  <1>3. CASE /\ sync' = [sync EXCEPT !.repos = @ \ {repo},
                                     !.made = @ \union createIssues(repo, sync.created)]
             /\ ghIssues' = updateIssues(repo, sync.updated)
                            \union CreateIssue(createIssues(repo, sync.created))
    <2>1. NumbersInv'
      BY <1>1, <1>3, SyncTypeNow, IssuesNumbers DEF PlacesInv
    <2>2. PICK made : sync' = [sync EXCEPT !.repos = @ \ {repo}, !.made = made]
      BY <1>3
    <2>3. sync' = [pc |-> sync.pc, created |-> sync.created, updated |-> sync.updated,
                   repos |-> sync.repos \ {repo}, made |-> made]
      BY <2>2, SyncTypeNow
    <2>4. SyncType'
      BY <1>1, <2>3, SyncTypeNow DEF SyncType, Repos
    <2>5. QED
      BY <1>1, <1>2, <2>1, <2>4, HandlersStay
  <1>4. ASSUME NEW created \in SUBSET sync.created, NEW updated, sync' = NoSync,
               ghIssues' = updateIssues(repo, updated) \union
                               CreateIssue(createIssues(repo, created))
        PROVE  PlacesInv'
    <2>1. IsFiniteSet(created)
      BY SyncTypeNow, FS_Subset
    <2>2. NumbersInv'
      BY <1>1, <1>4, <2>1, IssuesNumbers DEF PlacesInv
    <2>3. SyncType'
      BY <1>1, <1>4, NoSyncType
    <2>4. QED
      BY <1>1, <1>2, <2>2, <2>3, HandlersStay
  <1>5. QED
    BY <1>3, <1>4, Zenon DEF synchronizeRepo

LEMMA RecordPlaces ==
  ASSUME PlacesInv, CreateIssues
  PROVE  PlacesInv'
  <1>1. UNCHANGED <<tests, pulls, handler, ghIssues, ghPulls>> /\ sync' = NoSync
    BY DEF CreateIssues, github
  <1>2. NumbersInv' /\ GitHubKeeps
    BY <1>1 DEF PlacesInv, NumbersInv, Items, Numbered, IssueRecord, PullRecord, Repos,
                GitHubKeeps, Same
  <1>3. QED
    BY <1>1, <1>2, NoSyncType, HandlersStay

\* Students and teachers.
LEMMA PushTestsPlaces ==
  ASSUME PlacesInv, PushTests
  PROVE  PlacesInv'
  <1>1. /\ UNCHANGED <<pulls, handler, ghIssues, ghPulls>> /\ tests' = tests + 1
        /\ tests < Len(Content) /\ sync' = [sync EXCEPT !.pc = "SynchronizeAssignmentTasks"]
    BY DEF PushTests, db, github
  <1>2. NumbersInv' /\ GitHubKeeps
    BY <1>1 DEF PlacesInv, NumbersInv, Items, Numbered, IssueRecord, PullRecord, Repos,
                GitHubKeeps, Same
  <1>3. sync' = [pc |-> "SynchronizeAssignmentTasks", created |-> sync.created,
                 updated |-> sync.updated, repos |-> sync.repos, made |-> sync.made]
    BY <1>1, SyncTypeNow
  <1>4. tests' \in 0..Len(Content) /\ tests' # 0
    BY <1>1, SyncTypeNow, PullRequestsAssumption
  <1>5. SyncType'
    BY <1>3, <1>4, SyncTypeNow DEF SyncType, Repos
  <1>6. QED
    BY <1>1, <1>2, <1>5, HandlersStay

\* A pull request is opened: nobody is asked to review it yet.
LEMMA OpenIs ==
  ASSUME PlacesInv, NEW repo \in Repos, NEW user, NEW branch, NEW issue,
         Open(repo, user, branch, issue)
  PROVE  \E pull : /\ PullRecord(pull) /\ pull.repo = repo /\ pull.requests = <<>>
                   /\ pull.number = nextIssueNumber(repo) /\ ghPulls' = ghPulls \union {pull}
                   /\ events' = events \union {[type |-> "opened", repo |-> repo,
                                               number |-> pull.number, fixes |-> issue.number]}
                   /\ UNCHANGED <<tests, db, counters, ghIssues, handler, sync, faults>>
                   /\ NumbersInv' /\ \A g \in ghPulls : ~ Same(g, pull)
  <1>1. PICK pull, yes :
          /\ pull = [repo |-> repo, number |-> nextIssueNumber(repo), branch |-> branch,
                     user |-> user, requests |-> <<>>, comments |-> 0, open |-> yes]
          /\ yes = TRUE
    OBVIOUS
  <1>2. /\ ghPulls' = ghPulls \union {pull}
        /\ events' = events \union {[type |-> "opened", repo |-> repo,
                                     number |-> pull.number, fixes |-> issue.number]}
        /\ UNCHANGED <<tests, db, counters, ghIssues, handler, sync, faults>>
    BY <1>1, Zenon DEF Open, Send
  <1>3. /\ PullRecord(pull) /\ pull.repo = repo /\ pull.requests = <<>>
        /\ pull.number = nextIssueNumber(repo)
    BY <1>1 DEF PullRecord
  <1>4. NumbersInv' /\ \A g \in ghPulls : ~ Same(g, pull)
    BY <1>2, <1>3, OpenNumbers DEF PlacesInv
  <1>5. QED
    BY <1>2, <1>3, <1>4

LEMMA OpenPlaces ==
  ASSUME PlacesInv, NEW repo \in Repos, NEW user, NEW branch, NEW issue,
         Open(repo, user, branch, issue)
  PROVE  PlacesInv'
  <1>1. PICK pull : /\ ghPulls' = ghPulls \union {pull} /\ NumbersInv'
                    /\ UNCHANGED <<tests, db, counters, ghIssues, handler, sync, faults>>
    BY OpenIs
  <1>2. UNCHANGED <<tests, sync, pulls, handler>>
    BY <1>1 DEF db
  <1>3. SyncType' /\ GitHubKeeps
    BY <1>1, <1>2 DEF PlacesInv, SyncType, Repos, GitHubKeeps, Same
  <1>4. QED
    BY <1>1, <1>2, <1>3, HandlersStay

LEMMA ClosePlaces ==
  ASSUME PlacesInv, NEW pull \in ghPulls, NEW merged, Close(pull, merged)
  PROVE  PlacesInv'
  <1>1. PICK no : ghPulls' = (ghPulls \ {pull}) \union {[pull EXCEPT !.open = no]}
    BY Zenon DEF Close
  <1>2. UNCHANGED <<tests, sync, pulls, handler, ghIssues>>
    BY DEF Close, Send, db
  <1>3. PullRecord(pull)
    BY DEF PlacesInv, NumbersInv
  <1>4. SyncType' /\ NumbersInv' /\ GitHubKeeps
    BY <1>1, <1>2, <1>3, PullColumns, PullChanged
  <1>5. QED
    BY <1>2, <1>4, HandlersStay

LEMMA SentPlaces ==
  ASSUME PlacesInv, UNCHANGED <<tests, sync, ghIssues, ghPulls, pulls, handler>>
  PROVE  PlacesInv'
  BY PlacesStay, HandlersStay

LEMMA GitHubPlaces ==
  ASSUME PlacesInv, GitHubStep
  PROVE  PlacesInv'
  <1>1. CASE PushTests
    BY <1>1, PushTestsPlaces
  <1>2. ASSUME NEW repo \in Repos, NEW branch \in Branches, NEW issue \in ghIssues,
               NEW user \in Group[repo], Open(repo, user, branch, issue)
        PROVE  PlacesInv'
    BY <1>2, OpenPlaces
  <1>3. ASSUME NEW pull \in ghPulls, NEW b, Push(pull, b) \/ Approve(pull, b)
        PROVE  PlacesInv'
    BY <1>3, SentPlaces DEF Push, Approve, Send, db
  <1>4. ASSUME NEW pull \in ghPulls, NEW merged, Close(pull, merged)
        PROVE  PlacesInv'
    BY <1>4, ClosePlaces
  <1>5. QED
    BY <1>1, <1>2, <1>3, <1>4, Zenon DEF GitHubStep

LEMMA StopPlaces ==
  ASSUME PlacesInv, Stop
  PROVE  PlacesInv'
  <1>1. /\ UNCHANGED <<tests, ghIssues, ghPulls, pulls>> /\ sync' = NoSync
        /\ handler' = [h \in Handlers |-> NoHandler]
    BY DEF Stop, db, github
  <1>2. SyncType'
    BY <1>1, NoSyncType
  <1>3. NumbersInv'
    BY <1>1 DEF PlacesInv, NumbersInv, Items, Numbered, IssueRecord, PullRecord, Repos
  <1>4. TableInv' /\ \A i \in DOMAIN pulls' : OnGitHub(pulls[i])'
    BY <1>1 DEF PlacesInv, TableInv, Row, OnGitHub
  <1>5. HandlerType' /\ \A h \in Handlers : Known(h)'
    BY <1>1 DEF HandlerType, Handlers, Known, NoHandler
  <1>6. QED
    BY <1>2, <1>3, <1>4, <1>5 DEF PlacesInv, Handlers

LEMMA PlacesStep ==
  ASSUME PlacesInv, [Next]_vars
  PROVE  PlacesInv'
  <1>1. CASE GitHubStep
    BY <1>1, GitHubPlaces
  <1>2. CASE synchronizeTasksWithIssues
    BY <1>2, TransactionPlaces, RepoPlaces, RecordPlaces DEF synchronizeTasksWithIssues
  <1>3. CASE Stop
    BY <1>3, StopPlaces
  <1>4. ASSUME NEW h \in Handlers, HandlerStep(h)
        PROVE  PlacesInv'
    BY <1>4, HandlePlaces, OpenedPlaces, CreatePlaces, PushPlaces, AssignPlaces, RequestPlaces,
       SetReviewPlaces, CommentPlaces, SetCommentPlaces, ReviewPlaces, MergePlaces DEF HandlerStep
  <1>5. CASE UNCHANGED vars
    BY <1>5, SentPlaces DEF vars
  <1>6. QED
    BY <1>1, <1>2, <1>3, <1>4, <1>5 DEF Next

LEMMA InitPlaces ==
  ASSUME Init
  PROVE  PlacesInv
  <1>1. IsFiniteSet({}) /\ Cardinality({}) = 0
    BY FS_EmptySet
  <1>2. /\ tests = 0 /\ ghIssues = {} /\ ghPulls = {} /\ DOMAIN pulls = {} /\ sync = NoSync
        /\ handler = [h \in Handlers |-> NoHandler]
    BY DEF Init
  <1>3. NumbersInv
    <2>1. ASSUME NEW repo \in Repos
          PROVE  Numbered(Items(repo))
      <3>1. Items(repo) = {}
        BY <1>2 DEF Items
      <3>2. {x.number : x \in {}} = 1..0
        OBVIOUS
      <3>3. QED
        BY <1>1, <3>1, <3>2 DEF Numbered
    <2>2. QED
      BY <1>2, <2>1 DEF NumbersInv
  <1>4. SyncType
    <2>1. Len(Content) \in Nat
      BY PullRequestsAssumption
    <2>2. QED
      BY <1>1, <1>2, <2>1 DEF SyncType, NoSync
  <1>5. TableInv
    <2>1. 0 \in Nat /\ DOMAIN pulls \subseteq 1..0
      BY <1>2
    <2>2. QED
      BY <1>2, <2>1 DEF TableInv
  <1>6. HandlerType /\ \A h \in Handlers : Known(h)
    BY <1>2 DEF HandlerType, Known, NoHandler
  <1>7. QED
    BY <1>2, <1>3, <1>4, <1>5, <1>6 DEF PlacesInv

-----------------------------------------------------------------------------
(* What is recorded was done.                                              *)

LEMMA DidStays ==
  ASSUME NEW G, NEW H, Grows(G, H), NEW x, Did(G, x)
  PROVE  Did(H, x)
  <1>1. PICK g \in G : /\ Same(g, x)
                       /\ x.stage = "review" => g.requests # <<>>
                       /\ x.comment => g.comments > 0
    BY DEF Did
  <1>2. PICK k \in H : /\ Same(k, g)
                       /\ g.requests # <<>> => k.requests # <<>>
                       /\ g.comments > 0 => k.comments > 0
    BY DEF Grows
  <1>3. QED
    BY <1>1, <1>2 DEF Did, Same

LEMMA GrowsOver ==
  ASSUME NEW G, NEW H, G \subseteq H
  PROVE  Grows(G, H)
  BY DEF Grows, Same

\* A row that says less.
LEMMA DidLess ==
  ASSUME NEW G, NEW x, Did(G, x), NEW y, Same(y, x), y.comment => x.comment,
         y.stage = "review" => x.stage = "review"
  PROVE  Did(G, y)
  BY DEF Did, Same

\* A pull request is found by its repository and number.
LEMMA PullsDiffer ==
  ASSUME PlacesInv, NEW g \in ghPulls, NEW k \in ghPulls, Same(g, k)
  PROVE  g = k
  <1>1. g.repo \in Repos /\ g \in Items(g.repo) /\ k \in Items(g.repo) /\ g.number = k.number
    BY DEF PlacesInv, NumbersInv, Items, Same
  <1>2. Numbered(Items(g.repo))
    BY <1>1 DEF PlacesInv, NumbersInv
  <1>3. QED
    BY <1>1, <1>2, NumbersDiffer

LEMMA StageColumn ==
  ASSUME NEW row, Row(row), NEW s
  PROVE  LET new == [row EXCEPT !.stage = s] IN
         Same(new, row) /\ new.stage = s /\ new.comment = row.comment
  <1>1. row = [repo |-> row.repo, number |-> row.number, branch |-> row.branch, user |-> row.user,
               task |-> row.task, stage |-> row.stage, comment |-> row.comment]
    BY DEF Row
  <1> DEFINE new == [row EXCEPT !.stage = s]
  <1>2. new = [repo |-> row.repo, number |-> row.number, branch |-> row.branch, user |-> row.user,
               task |-> row.task, stage |-> s, comment |-> row.comment]
    BY <1>1
  <1> HIDE DEF new
  <1>3. Same(new, row) /\ new.stage = s /\ new.comment = row.comment
    BY <1>2 DEF Same
  <1>4. QED
    BY <1>3 DEF new

\* What a step has to keep: it writes rows and copies that say what was done.
LEMMA DidSuffice ==
  ASSUME DidInv, PlacesInv', Counted(ghPulls'), Grows(ghPulls, ghPulls'),
         \A i \in DOMAIN pulls' :
            (i \in DOMAIN pulls /\ pulls'[i] = pulls[i]) \/ Did(ghPulls', pulls'[i]),
         \A h \in Handlers : \/ handler'[h] = handler[h]
                             \/ handler'[h].pc \in {"idle", "opened"}
                             \/ Did(ghPulls', handler'[h].pull)
  PROVE  DidInv'
  <1>1. \A i \in DOMAIN pulls' : Did(ghPulls', pulls'[i])
    BY DidStays DEF DidInv
  <1>2. \A h \in Handlers :
          handler'[h].pc \notin {"idle", "opened"} => Did(ghPulls', handler'[h].pull)
    BY DidStays DEF DidInv
  <1>3. QED
    BY <1>1, <1>2 DEF DidInv, Did, Counted, Same, Handlers

\* A handler goes on or returns.
LEMMA DidGoes ==
  ASSUME DidInv, PlacesInv', NEW h \in Handlers, NEW place, NEW copy, Goto(h, place, copy),
         Counted(ghPulls'), Grows(ghPulls, ghPulls'), Did(ghPulls', copy),
         \A i \in DOMAIN pulls' : i \in DOMAIN pulls /\ pulls'[i] \in {copy, pulls[i]}
  PROVE  DidInv'
  <1>1. HandlerType /\ Known(h)
    BY DEF DidInv, PlacesInv
  <1>2. /\ Moved(h)
        /\ handler'[h] = [pc |-> place, event |-> handler[h].event, id |-> handler[h].id,
                          pull |-> copy, reviewers |-> handler[h].reviewers]
    BY <1>1, Goes DEF Known
  <1>3. \A k \in Handlers : handler'[k] = handler[k] \/ handler'[k].pull = copy
    BY <1>2 DEF Moved
  <1>4. QED
    BY <1>3, DidSuffice

LEMMA DidReturns ==
  ASSUME DidInv, PlacesInv', NEW h \in Handlers, Return(h), UNCHANGED ghPulls,
         \A i \in DOMAIN pulls' :
            (i \in DOMAIN pulls /\ pulls'[i] = pulls[i]) \/ Did(ghPulls, pulls'[i])
  PROVE  DidInv'
  <1>1. HandlerType
    BY DEF DidInv, PlacesInv
  <1>2. Moved(h) /\ handler'[h].pc = "idle"
    BY <1>1, Returns DEF NoHandler
  <1>3. \A k \in Handlers : handler'[k] = handler[k] \/ handler'[k].pc = "idle"
    BY <1>2 DEF Moved
  <1>4. Counted(ghPulls') /\ Grows(ghPulls, ghPulls')
    BY GrowsOver DEF DidInv
  <1>5. QED
    BY <1>3, <1>4, DidSuffice

LEMMA DidHandle ==
  ASSUME DidInv, PlacesInv', NEW h \in Handlers, HandleEvent(h)
  PROVE  DidInv'
  <1>1. PICK e \in events :
          LET i == IF e.type = "push" THEN ByBranch(e) ELSE ByNumber(e)
              start(at) == handler' = [handler EXCEPT
                  ![h] = [pc |-> at, event |-> e, id |-> i, pull |-> pulls[i], reviewers |-> {}]]
          IN
          \/ handler' = [handler EXCEPT ![h].pc = "opened", ![h].event = e]
          \/ i # 0 /\ \E at \in {"review", "closed", "push"} : start(at)
          \/ UNCHANGED handler
    BY Zenon DEF HandleEvent
  <1> DEFINE i == IF e.type = "push" THEN ByBranch(e) ELSE ByNumber(e)
  <1>2. UNCHANGED <<pulls, ghPulls>> /\ PlacesInv
    BY DEF HandleEvent, db, github, DidInv
  <1>3. i # 0 => i \in DOMAIN pulls
    BY <1>2, RowFound DEF PlacesInv, ByBranch, ByNumber
  <1> HIDE DEF i
  <1>4. Counted(ghPulls') /\ Grows(ghPulls, ghPulls')
    BY <1>2, GrowsOver DEF DidInv
  <1>5. handler = [k \in Handlers |-> handler[k]]
        /\ handler[h] = [pc |-> handler[h].pc, event |-> handler[h].event, id |-> handler[h].id,
                         pull |-> handler[h].pull, reviewers |-> handler[h].reviewers]
    BY <1>2 DEF PlacesInv, HandlerType, Known
  <1>6. CASE handler' = [handler EXCEPT ![h].pc = "opened", ![h].event = e]
    <2>1. handler'[h] = [[handler[h] EXCEPT !.pc = "opened"] EXCEPT !.event = e]
          /\ \A k \in Handlers \ {h} : handler'[k] = handler[k]
      BY <1>5, <1>6
    <2>2. handler'[h].pc = "opened"
      BY <1>5, <2>1
    <2>3. QED
      BY <1>2, <1>4, <2>1, <2>2, DidSuffice
  <1>7. ASSUME NEW at \in {"review", "closed", "push"}, i # 0,
               handler' = [handler EXCEPT ![h] = [pc |-> at, event |-> e, id |-> i,
                                                  pull |-> pulls[i], reviewers |-> {}]]
        PROVE  DidInv'
    <2>1. handler'[h].pull = pulls[i] /\ \A k \in Handlers \ {h} : handler'[k] = handler[k]
      BY <1>5, <1>7
    <2>2. Did(ghPulls', handler'[h].pull)
      BY <1>2, <1>3, <1>7, <2>1 DEF DidInv
    <2>3. QED
      BY <1>2, <1>4, <2>1, <2>2, DidSuffice
  <1>8. CASE UNCHANGED handler
    BY <1>2, <1>4, <1>8, DidSuffice
  <1>9. QED
    BY <1>1, <1>6, <1>7, <1>8 DEF i

\* A handler has a copy of a row, and the table and GitHub stay.
LEMMA DidQuiet ==
  ASSUME DidInv, PlacesInv', NEW h \in Handlers, UNCHANGED <<pulls, ghPulls>>, NEW place, NEW copy,
         Return(h) \/ (Goto(h, place, copy) /\ Did(ghPulls, copy))
  PROVE  DidInv'
  <1>1. Counted(ghPulls') /\ Grows(ghPulls, ghPulls')
    BY GrowsOver DEF DidInv
  <1>2. QED
    BY <1>1, DidReturns, DidGoes

LEMMA DidOpened ==
  ASSUME DidInv, PlacesInv', NEW h \in Handlers, handlePullRequestOpened(h)
  PROVE  DidInv'
  <1>1. UNCHANGED <<pulls, ghPulls>>
    BY DEF handlePullRequestOpened, db, github
  <1>2. CASE Return(h)
    BY <1>1, <1>2, DidQuiet
  <1>3. ASSUME NEW g \in ghPulls, NEW i,
               Goto(h, "CreatePullRequest",
                    [repo |-> g.repo, number |-> g.number, branch |-> g.branch,
                     user |-> g.user, task |-> i.task, stage |-> "draft", comment |-> FALSE])
        PROVE  DidInv'
    <2>1. PICK copy, no : copy = [repo |-> g.repo, number |-> g.number, branch |-> g.branch,
                                  user |-> g.user, task |-> i.task, stage |-> "draft", comment |-> no]
                          /\ no = FALSE
      OBVIOUS
    <2>2. Same(g, copy) /\ copy.stage = "draft" /\ copy.comment = no
      BY <2>1 DEF Same
    <2>3. Did(ghPulls, copy)
      BY <2>1, <2>2 DEF Did
    <2>4. Goto(h, "CreatePullRequest", copy)
      BY <1>3, <2>1, Zenon
    <2>5. QED
      BY <1>1, <2>3, <2>4, DidQuiet
  <1>4. QED
    BY <1>2, <1>3, Zenon DEF handlePullRequestOpened

LEMMA DidCreate ==
  ASSUME DidInv, PlacesInv', NEW h \in Handlers, CreatePullRequest(h)
  PROVE  DidInv'
  <1>1. Return(h) /\ UNCHANGED ghPulls /\ Did(ghPulls, handler[h].pull)
    BY DEF CreatePullRequest, github, DidInv
  <1>2. CASE pulls' = pulls
    BY <1>1, <1>2, DidReturns
  <1> DEFINE id == Max(DOMAIN pulls \union {0}) + 1
  <1>3. CASE pulls' = [i \in DOMAIN pulls \union {id} |->
                          IF i = id THEN handler[h].pull ELSE pulls[i]]
    <2>1. PICK n : n = id
      OBVIOUS
    <2>2. pulls' = [i \in DOMAIN pulls \union {n} |-> IF i = n THEN handler[h].pull ELSE pulls[i]]
      BY <1>3, <2>1, Zenon
    <2>3. \A i \in DOMAIN pulls' :
            (i \in DOMAIN pulls /\ pulls'[i] = pulls[i]) \/ Did(ghPulls, pulls'[i])
      BY <1>1, <2>2
    <2>4. QED
      BY <1>1, <2>3, DidReturns
  <1>4. QED
    BY <1>2, <1>3, Zenon DEF CreatePullRequest

LEMMA DidPush ==
  ASSUME DidInv, PlacesInv', NEW h \in Handlers, handlePullRequestPush(h)
  PROVE  DidInv'
  <1>1. UNCHANGED <<pulls, ghPulls>> /\ Did(ghPulls, handler[h].pull)
    BY DEF handlePullRequestPush, db, github, DidInv
  <1>2. QED
    BY <1>1, DidQuiet DEF handlePullRequestPush

LEMMA DidAssign ==
  ASSUME DidInv, PlacesInv', NEW h \in Handlers, AssignReviewers(h)
  PROVE  DidInv'
  <1>1. /\ UNCHANGED <<pulls, ghPulls>> /\ Did(ghPulls, handler[h].pull)
        /\ Counted(ghPulls') /\ Grows(ghPulls, ghPulls')
    BY GrowsOver DEF AssignReviewers, db, github, DidInv
  <1>2. CASE Return(h)
    BY <1>1, <1>2, DidReturns
  <1>3. ASSUME NEW R, handler' = [handler EXCEPT ![h].pc = "RequestReviewers", ![h].reviewers = R]
        PROVE  DidInv'
    <2>1. handler = [k \in Handlers |-> handler[k]]
          /\ handler[h] = [pc |-> handler[h].pc, event |-> handler[h].event, id |-> handler[h].id,
                           pull |-> handler[h].pull, reviewers |-> handler[h].reviewers]
      BY DEF DidInv, PlacesInv, HandlerType, Known
    <2>2. handler'[h] = [[handler[h] EXCEPT !.pc = "RequestReviewers"] EXCEPT !.reviewers = R]
          /\ \A k \in Handlers \ {h} : handler'[k] = handler[k]
      BY <1>3, <2>1
    <2>3. handler'[h].pull = handler[h].pull
      BY <2>1, <2>2
    <2>4. QED
      BY <1>1, <2>2, <2>3, DidSuffice
  <1>4. QED
    BY <1>2, <1>3 DEF AssignReviewers

LEMMA Appended ==
  ASSUME NEW s, \E S : s \in Seq(S), NEW R
  PROVE  Append(s, R) # <<>> /\ \E S : Append(s, R) \in Seq(S)
  <1>1. PICK S : s \in Seq(S)
    OBVIOUS
  <1>2. s \in Seq(S \union {R}) /\ R \in S \union {R}
    BY <1>1
  <1>3. Append(s, R) # <<>> /\ Append(s, R) \in Seq(S \union {R})
    BY <1>2
  <1>4. QED
    BY <1>3

\* A pull request on GitHub gets another request, or another comment.
LEMMA RequestAdded ==
  ASSUME NEW G, Counted(G), NEW g \in G, PullRecord(g), NEW r, r # <<>>, \E S : r \in Seq(S),
         NEW H, H = (G \ {g}) \union {[g EXCEPT !.requests = r]}
  PROVE  /\ Counted(H) /\ Grows(G, H)
         /\ \E k \in H : Same(k, g) /\ k.requests # <<>> /\ k.comments = g.comments
  <1>1. PICK k : k = [repo |-> g.repo, number |-> g.number, branch |-> g.branch, user |-> g.user,
                      requests |-> r, comments |-> g.comments, open |-> g.open]
    OBVIOUS
  <1>2. g = [repo |-> g.repo, number |-> g.number, branch |-> g.branch, user |-> g.user,
             requests |-> g.requests, comments |-> g.comments, open |-> g.open]
    BY DEF PullRecord
  <1>3. [g EXCEPT !.requests = r] = k
    BY <1>1, <1>2
  <1>4. H = (G \ {g}) \union {k}
    BY <1>3, Zenon
  <1>5. Same(k, g) /\ k.requests = r /\ k.comments = g.comments /\ g.comments \in Nat
    BY <1>1 DEF Same, Counted
  <1>6. Counted(H)
    BY <1>4, <1>5 DEF Counted
  <1>7. Grows(G, H)
    BY <1>4, <1>5 DEF Grows, Same
  <1>8. QED
    BY <1>4, <1>5, <1>6, <1>7

LEMMA CommentAdded ==
  ASSUME NEW G, Counted(G), NEW g \in G, PullRecord(g), NEW H,
         H = (G \ {g}) \union {[g EXCEPT !.comments = @ + 1]}
  PROVE  /\ Counted(H) /\ Grows(G, H)
         /\ \E k \in H : Same(k, g) /\ k.requests = g.requests /\ k.comments > 0
  <1>1. PICK c : c = g.comments + 1
    OBVIOUS
  <1>2. c \in Nat /\ c > 0 /\ g.comments \in Nat
    BY <1>1 DEF Counted
  <1>3. PICK k : k = [repo |-> g.repo, number |-> g.number, branch |-> g.branch, user |-> g.user,
                      requests |-> g.requests, comments |-> c, open |-> g.open]
    OBVIOUS
  <1>4. g = [repo |-> g.repo, number |-> g.number, branch |-> g.branch, user |-> g.user,
             requests |-> g.requests, comments |-> g.comments, open |-> g.open]
    BY DEF PullRecord
  <1>5. [g EXCEPT !.comments = @ + 1] = k
    <2>1. [g EXCEPT !.comments = @ + 1] = [g EXCEPT !.comments = c]
      BY <1>1, Zenon
    <2>2. [g EXCEPT !.comments = c] = k
      BY <1>3, <1>4
    <2>3. QED
      BY <2>1, <2>2, Zenon
  <1>6. H = (G \ {g}) \union {k}
    BY <1>5, Zenon
  <1>7. Same(k, g) /\ k.requests = g.requests /\ k.comments = c
    BY <1>3 DEF Same
  <1>8. Counted(H)
    BY <1>2, <1>6, <1>7 DEF Counted
  <1>9. Grows(G, H)
    BY <1>2, <1>6, <1>7 DEF Grows, Same
  <1>10. QED
    BY <1>2, <1>6, <1>7, <1>8, <1>9

\* The pull request that a copy of a row is about is the one that shows what it says.
LEMMA DidAt ==
  ASSUME DidInv, NEW pull, Did(ghPulls, pull)
  PROVE  LET g == AtGitHub(pull) IN
         /\ g \in ghPulls /\ Same(g, pull) /\ PullRecord(g)
         /\ pull.stage = "review" => g.requests # <<>>
         /\ pull.comment => g.comments > 0
  <1>1. PICK g \in ghPulls : /\ Same(g, pull)
                             /\ pull.stage = "review" => g.requests # <<>>
                             /\ pull.comment => g.comments > 0
    BY DEF Did
  <1>2. PlacesInv /\ OnGitHub(pull)
    BY <1>1 DEF DidInv, OnGitHub
  <1>3. AtGitHub(pull) \in ghPulls /\ Same(AtGitHub(pull), pull) /\ PullRecord(AtGitHub(pull))
    BY <1>2, AtGitHubIs
  <1>4. AtGitHub(pull) = g
    BY <1>1, <1>2, <1>3, PullsDiffer DEF Same
  <1>5. QED
    BY <1>1, <1>3, <1>4

LEMMA DidRequest ==
  ASSUME DidInv, PlacesInv', NEW h \in Handlers, RequestReviewers(h)
  PROVE  DidInv'
  <1> DEFINE pull == handler[h].pull
             g == AtGitHub(pull)
             copy == [pull EXCEPT !.stage = "review"]
  <1>1. UNCHANGED pulls /\ Row(pull) /\ Did(ghPulls, pull)
    BY DEF RequestReviewers, db, DidInv, PlacesInv, Known
  <1>2. CASE Return(h) /\ UNCHANGED ghPulls
    BY <1>1, <1>2, DidReturns
  <1>3. CASE /\ ghPulls' = (ghPulls \ {g})
                  \union {[g EXCEPT !.requests = Append(@, handler[h].reviewers)]}
             /\ Goto(h, "SetReview", copy)
    <2>1. g \in ghPulls /\ Same(g, pull) /\ PullRecord(g) /\ pull.comment => g.comments > 0
      BY <1>1, DidAt
    <2>2. Counted(ghPulls)
      BY DEF DidInv
    <2>3. g \in ghPulls /\ Same(g, pull) /\ PullRecord(g)
      BY <1>1, DidAt
    <2>4. /\ Counted(ghPulls') /\ Grows(ghPulls, ghPulls')
          /\ \E k \in ghPulls' : Same(k, g) /\ k.requests # <<>> /\ k.comments = g.comments
      <3>1. PICK r : r = Append(g.requests, handler[h].reviewers)
        OBVIOUS
      <3>2. r # <<>> /\ \E S : r \in Seq(S)
        <4>1. \E S : g.requests \in Seq(S)
          BY <2>2, <2>3 DEF Counted
        <4>2. QED
          BY <3>1, <4>1, Appended, Zenon
      <3>3. ghPulls' = (ghPulls \ {g}) \union {[g EXCEPT !.requests = r]}
        BY <1>3, <3>1, Zenon
      <3> HIDE DEF g
      <3>4. QED
        BY <2>2, <2>3, <3>2, <3>3, RequestAdded
    <2> HIDE DEF g
    <2>5. Same(copy, pull) /\ copy.comment = pull.comment
      BY <1>1, StageColumn
    <2>6. Did(ghPulls', copy)
      BY <2>1, <2>3, <2>4, <2>5 DEF Did, Same
    <2>7. QED
      BY <1>1, <1>3, <2>4, <2>6, DidGoes
  <1>4. QED
    BY <1>2, <1>3 DEF RequestReviewers

LEMMA DidSetReview ==
  ASSUME DidInv, PlacesInv', NEW h \in Handlers, SetReview(h)
  PROVE  DidInv'
  <1> DEFINE pull == handler[h].pull
  <1>1. /\ UNCHANGED ghPulls /\ Did(ghPulls, pull)
        /\ Counted(ghPulls') /\ Grows(ghPulls, ghPulls')
    BY GrowsOver DEF SetReview, github, DidInv
  <1>2. CASE Return(h) /\ UNCHANGED pulls
    BY <1>1, <1>2, DidReturns
  <1>3. CASE UpdatePullRequest(h, pull) /\ Goto(h, "CreateIssueComment", pull)
    <2>1. \A i \in DOMAIN pulls' : i \in DOMAIN pulls /\ pulls'[i] \in {pull, pulls[i]}
      BY <1>3 DEF UpdatePullRequest
    <2>2. QED
      BY <1>1, <1>3, <2>1, DidGoes
  <1>4. QED
    BY <1>2, <1>3 DEF SetReview

LEMMA DidComment ==
  ASSUME DidInv, PlacesInv', NEW h \in Handlers, CreateIssueComment(h)
  PROVE  DidInv'
  <1> DEFINE pull == handler[h].pull
             g == AtGitHub(pull)
  <1>1. UNCHANGED pulls /\ Row(pull) /\ Did(ghPulls, pull)
    BY DEF CreateIssueComment, db, DidInv, PlacesInv, Known
  <1>2. CASE Return(h) /\ UNCHANGED ghPulls
    BY <1>1, <1>2, DidReturns
  <1>3. ASSUME ghPulls' = (ghPulls \ {g}) \union {[g EXCEPT !.comments = @ + 1]},
               NEW copy, NEW yes, copy = [pull EXCEPT !.comment = yes], Goto(h, "SetComment", copy)
        PROVE  DidInv'
    <2>1. /\ g \in ghPulls /\ Same(g, pull) /\ PullRecord(g)
          /\ pull.stage = "review" => g.requests # <<>>
      BY <1>1, DidAt
    <2>2. Counted(ghPulls)
      BY DEF DidInv
    <2> HIDE DEF g
    <2>3. /\ Counted(ghPulls') /\ Grows(ghPulls, ghPulls')
          /\ \E k \in ghPulls' : Same(k, g) /\ k.requests = g.requests /\ k.comments > 0
      BY <1>3, <2>1, <2>2, CommentAdded
    <2>4. Same(copy, pull) /\ copy.stage = pull.stage
      BY <1>1, <1>3, RowColumns
    <2>5. Did(ghPulls', copy)
      BY <2>1, <2>3, <2>4 DEF Did, Same
    <2>6. QED
      BY <1>1, <1>3, <2>3, <2>5, DidGoes
  <1>4. QED
    BY <1>2, <1>3, Zenon DEF CreateIssueComment

LEMMA DidSetComment ==
  ASSUME DidInv, PlacesInv', NEW h \in Handlers, SetComment(h)
  PROVE  DidInv'
  <1> DEFINE pull == handler[h].pull
  <1>1. Return(h) /\ UNCHANGED ghPulls /\ Did(ghPulls, pull)
    BY DEF SetComment, github, DidInv
  <1>2. UNCHANGED pulls \/ UpdatePullRequest(h, pull)
    BY DEF SetComment
  <1>3. \A i \in DOMAIN pulls' : i \in DOMAIN pulls /\ pulls'[i] \in {pull, pulls[i]}
    BY <1>2 DEF UpdatePullRequest
  <1>4. QED
    BY <1>1, <1>3, DidReturns

LEMMA DidReview ==
  ASSUME DidInv, PlacesInv', NEW h \in Handlers, handlePullRequestReview(h)
  PROVE  DidInv'
  <1> DEFINE pull == handler[h].pull
             copy == [pull EXCEPT !.stage = "approved"]
  <1>1. Return(h) /\ UNCHANGED ghPulls /\ Row(pull) /\ Did(ghPulls, pull)
    BY DEF handlePullRequestReview, github, DidInv, PlacesInv, Known
  <1>2. Same(copy, pull) /\ copy.stage = "approved" /\ copy.comment = pull.comment
    BY <1>1, StageColumn
  <1>3. Did(ghPulls, copy)
    BY <1>1, <1>2, DidLess
  <1>4. UNCHANGED pulls \/ UpdatePullRequest(h, copy)
    BY DEF handlePullRequestReview
  <1> HIDE DEF copy
  <1>5. \A i \in DOMAIN pulls' : i \in DOMAIN pulls /\ pulls'[i] \in {copy, pulls[i]}
    BY <1>4 DEF UpdatePullRequest
  <1>6. QED
    BY <1>1, <1>3, <1>5, DidReturns

LEMMA DidMerge ==
  ASSUME DidInv, PlacesInv', NEW h \in Handlers, HandleMergingPR(h)
  PROVE  DidInv'
  <1>1. Return(h) /\ UNCHANGED ghPulls
    BY DEF HandleMergingPR, github
  <1>2. UNCHANGED pulls \/ pulls' = [i \in DOMAIN pulls \ {handler[h].id} |-> pulls[i]]
    BY DEF HandleMergingPR
  <1>3. \A i \in DOMAIN pulls' : i \in DOMAIN pulls /\ pulls'[i] = pulls[i]
    BY <1>2
  <1>4. QED
    BY <1>1, <1>3, DidReturns

\* Students and teachers change no row.
LEMMA DidGitHub ==
  ASSUME DidInv, PlacesInv', GitHubStep
  PROVE  DidInv'
  <1>1. UNCHANGED <<pulls, handler>> /\ PlacesInv /\ Counted(ghPulls)
    BY DEF GitHubStep, PushTests, Open, Push, Approve, Close, Send, db, DidInv
  <1>2. CASE UNCHANGED ghPulls
    <2>1. Counted(ghPulls') /\ Grows(ghPulls, ghPulls')
      BY <1>1, <1>2, GrowsOver
    <2>2. QED
      BY <1>1, <2>1, DidSuffice
  <1>3. ASSUME NEW repo \in Repos, NEW branch \in Branches, NEW issue \in ghIssues,
               NEW user \in Group[repo], Open(repo, user, branch, issue)
        PROVE  DidInv'
    <2>1. PICK pull, yes :
            /\ pull = [repo |-> repo, number |-> nextIssueNumber(repo), branch |-> branch,
                       user |-> user, requests |-> <<>>, comments |-> 0, open |-> yes]
            /\ yes = TRUE
      OBVIOUS
    <2>2. ghPulls' = ghPulls \union {pull}
      BY <1>3, <2>1, Zenon DEF Open
    <2>3. <<>> \in Seq({}) /\ pull.requests = <<>> /\ pull.comments = 0
      BY <2>1
    <2>4. Counted(ghPulls')
      <3>1. (\E S : pull.requests \in Seq(S)) /\ pull.comments \in Nat
        BY <2>3
      <3>2. QED
        BY <1>1, <2>2, <3>1 DEF Counted
    <2>5. Grows(ghPulls, ghPulls')
      BY <2>2, GrowsOver
    <2>6. QED
      BY <1>1, <2>4, <2>5, DidSuffice
  <1>4. ASSUME NEW pull \in ghPulls, NEW merged, Close(pull, merged)
        PROVE  DidInv'
    <2>1. PICK no : ghPulls' = (ghPulls \ {pull}) \union {[pull EXCEPT !.open = no]}
      BY <1>4, Zenon DEF Close
    <2>2. pull = [repo |-> pull.repo, number |-> pull.number, branch |-> pull.branch,
                  user |-> pull.user, requests |-> pull.requests, comments |-> pull.comments,
                  open |-> pull.open]
      BY <1>1 DEF PlacesInv, NumbersInv, PullRecord
    <2>3. PICK k : k = [pull EXCEPT !.open = no]
      OBVIOUS
    <2>4. k = [repo |-> pull.repo, number |-> pull.number, branch |-> pull.branch,
               user |-> pull.user, requests |-> pull.requests, comments |-> pull.comments,
               open |-> no]
      BY <2>2, <2>3
    <2>5. Same(k, pull) /\ k.requests = pull.requests /\ k.comments = pull.comments
      BY <2>4 DEF Same
    <2>6. ghPulls' = (ghPulls \ {pull}) \union {k}
      BY <2>1, <2>3, Zenon
    <2>7. Counted(ghPulls') /\ Grows(ghPulls, ghPulls')
      BY <1>1, <2>5, <2>6 DEF Counted, Grows, Same
    <2>8. QED
      BY <1>1, <2>7, DidSuffice
  <1>5. QED
    BY <1>2, <1>3, <1>4, Zenon DEF GitHubStep, PushTests, Push, Approve, github

LEMMA DidStep ==
  ASSUME DidInv, [Next]_vars
  PROVE  DidInv'
  <1>1. PlacesInv'
    BY PlacesStep DEF DidInv
  <1>2. ASSUME UNCHANGED <<pulls, ghPulls>>, \A h \in Handlers : handler'[h] \in {handler[h], NoHandler}
        PROVE  DidInv'
    <2>1. Counted(ghPulls') /\ Grows(ghPulls, ghPulls')
      BY <1>2, GrowsOver DEF DidInv
    <2>2. \A h \in Handlers : handler'[h] = handler[h] \/ handler'[h].pc = "idle"
      BY <1>2 DEF NoHandler
    <2>3. QED
      BY <1>1, <1>2, <2>1, <2>2, DidSuffice
  <1>3. CASE GitHubStep
    BY <1>1, <1>3, DidGitHub
  <1>4. CASE synchronizeTasksWithIssues
    <2>1. UNCHANGED <<pulls, ghPulls, handler>>
      BY <1>4 DEF synchronizeTasksWithIssues, SynchronizeAssignmentTasks, synchronizeRepo,
                  CreateIssues, db, github
    <2>2. QED
      BY <1>2, <2>1
  <1>5. CASE Stop
    BY <1>2, <1>5 DEF Stop, db, github
  <1>6. ASSUME NEW h \in Handlers, HandlerStep(h)
        PROVE  DidInv'
    BY <1>1, <1>6, DidHandle, DidOpened, DidCreate, DidPush, DidAssign, DidRequest, DidSetReview,
       DidComment, DidSetComment, DidReview, DidMerge DEF HandlerStep
  <1>7. CASE UNCHANGED vars
    BY <1>2, <1>7 DEF vars
  <1>8. QED
    BY <1>3, <1>4, <1>5, <1>6, <1>7 DEF Next

LEMMA InitDid ==
  ASSUME Init
  PROVE  DidInv
  <1>1. PlacesInv
    BY InitPlaces
  <1>2. ghPulls = {} /\ DOMAIN pulls = {} /\ \A h \in Handlers : handler[h].pc = "idle"
    BY DEF Init, NoHandler
  <1>3. QED
    BY <1>1, <1>2 DEF DidInv, Counted

\* For any number of events handled at once, and whatever calls fail: a row of a pull
\* request says that reviewers were requested, or a comment made, only if it was done
\* at GitHub (AssignReviewers, handlePullRequestPush).
THEOREM PullsRecorded == Spec => []RecordedWasDone
  <1>1. DidInv /\ [Next]_vars => DidInv'
    BY DidStep
  <1>2. DidInv => RecordedWasDone
    BY DEF DidInv, Did, Same, RecordedWasDone
  <1>3. QED
    BY <1>1, <1>2, InitDid, PTL DEF Spec

-----------------------------------------------------------------------------
(* Every task has its issue.                                               *)

LEMMA FaultsStep ==
  ASSUME faults \in Nat, [Next]_vars
  PROVE  faults' \in Nat /\ (faults' = 0 => faults' = faults)
  <1>1. faults' = faults \/ Fault
    <2>1. CASE GitHubStep
      BY <2>1 DEF GitHubStep, PushTests, Open, Push, Approve, Close, Send
    <2>2. CASE synchronizeTasksWithIssues
      BY <2>2 DEF synchronizeTasksWithIssues, SynchronizeAssignmentTasks, synchronizeRepo,
                  CreateIssues
    <2>3. ASSUME NEW h \in Handlers, HandlerStep(h)
          PROVE  faults' = faults \/ Fault
      BY <2>3 DEF HandlerStep, HandleEvent, handlePullRequestOpened, CreatePullRequest,
                  handlePullRequestPush, AssignReviewers, RequestReviewers, SetReview,
                  CreateIssueComment, SetComment, handlePullRequestReview, HandleMergingPR
    <2>4. CASE Stop \/ UNCHANGED vars
      BY <2>4 DEF Stop, vars
    <2>5. QED
      BY <2>1, <2>2, <2>3, <2>4 DEF Next
  <1>2. QED
    BY <1>1 DEF Fault

\* A call that fails is counted.
LEMMA NoFault ==
  ASSUME faults \in Nat, faults' = 0
  PROVE  ~ Fault
  BY DEF Fault

\* Students, teachers and handlers do not change tasks and issues.
LEMMA MirrorStays ==
  ASSUME Mirrored, UNCHANGED <<tasks, issues, ghIssues, sync>>
  PROVE  Mirrored'
  <1>1. TasksInv' /\ IssueRows'
    BY DEF Mirrored, TasksInv, IssueRows, Same
  <1>2. BetweenInv'
    BY DEF Mirrored, BetweenInv, HasIssue, HasText, Same, Repos
  <1>3. DuringInv'
    BY DEF Mirrored, DuringInv, HasIssue, HasText, Same, Repos
  <1>4. QED
    BY <1>1, <1>2, <1>3 DEF Mirrored

LEMMA MirrorPushTests ==
  ASSUME PlacesInv, Mirrored, PushTests
  PROVE  Mirrored'
  <1>1. UNCHANGED <<tasks, issues, ghIssues>> /\ sync.pc = "idle"
        /\ sync' = [sync EXCEPT !.pc = "SynchronizeAssignmentTasks"]
    BY DEF PushTests, db, github
  <1>2. sync' = [pc |-> "SynchronizeAssignmentTasks", created |-> sync.created,
                 updated |-> sync.updated, repos |-> sync.repos, made |-> sync.made]
    BY <1>1, SyncTypeNow
  <1>3. sync'.pc = "SynchronizeAssignmentTasks" /\ sync'.created = sync.created
        /\ sync'.made = sync.made
    BY <1>2
  <1>4. TasksInv' /\ IssueRows'
    BY <1>1, <1>3 DEF Mirrored, TasksInv, IssueRows, Same
  <1>5. BetweenInv'
    BY <1>1, <1>3 DEF Mirrored, BetweenInv, HasIssue, HasText, Same, Repos
  <1>6. DuringInv'
    BY <1>3 DEF DuringInv
  <1>7. QED
    BY <1>4, <1>5, <1>6 DEF Mirrored

\* The transaction: the tasks that stay, those with another text, and new ones.
LEMMA MirrorTransaction ==
  ASSUME PlacesInv, Mirrored, SynchronizeAssignmentTasks, ~ Fault
  PROVE  Mirrored'
  <1> DEFINE C == Content[tests]
             deleted == {t \in tasks : t.id[1] \notin DOMAIN C}
             changed == {t \in tasks \ deleted : HasChanged(t)}
             updated == {[t EXCEPT !.text = C[t.id[1]]] : t \in changed}
             created == {[id |-> <<name, tests>>, text |-> C[name]] :
                            name \in {n \in DOMAIN C : TaskNamed(n) = {}}}
  <1>1. /\ tasks' = (tasks \ (deleted \union changed)) \union updated \union created
        /\ issues' = {i \in issues : i.task \notin {t.id : t \in deleted}}
        /\ sync' = [pc |-> "synchronizeRepos", created |-> created, updated |-> updated,
                    repos |-> Repos, made |-> {}]
        /\ ghIssues' = ghIssues /\ sync.pc = "SynchronizeAssignmentTasks"
    BY Zenon DEF SynchronizeAssignmentTasks, github
  <1>2. /\ sync'.pc = "synchronizeRepos" /\ sync'.created = created /\ sync'.updated = updated
        /\ sync'.repos = Repos /\ sync'.made = {}
    BY <1>1
  <1>3. \A t \in tasks : t = [id |-> t.id, text |-> t.text]
    BY DEF Mirrored, TasksInv
  <1>4. \A t, u \in tasks : t.id[1] = u.id[1] => t = u
    BY DEF Mirrored, TasksInv
  <1>5. \A x \in updated : \E t \in changed : x = [id |-> t.id, text |-> C[t.id[1]]]
    BY <1>3
  <1>6. \A t \in changed : \E x \in updated : x.id = t.id
    <2>1. ASSUME NEW t \in changed
          PROVE  \E x \in updated : x.id = t.id
      <3>1. PICK x : x = [t EXCEPT !.text = C[t.id[1]]]
        OBVIOUS
      <3>2. x \in updated
        BY <3>1
      <3>3. x = [id |-> t.id, text |-> C[t.id[1]]]
        BY <1>3, <3>1
      <3>4. QED
        BY <3>2, <3>3
    <2>2. QED
      BY <2>1
  <1>7. \A x \in created : /\ x = [id |-> x.id, text |-> x.text]
                           /\ x.id[1] \in DOMAIN C /\ \A t \in tasks : t.id[1] # x.id[1]
                           /\ x.id = <<x.id[1], tests>> /\ x.text = C[x.id[1]]
    BY DEF TaskNamed
  <1> HIDE DEF updated, created
  <1>8. \A x \in updated : \E t \in changed : /\ x = [id |-> x.id, text |-> x.text] /\ x.id = t.id
                                              /\ x.text = C[x.id[1]]
    BY <1>5
  <1>9. \A t \in deleted : t \in tasks /\ t.id[1] \notin DOMAIN C
    OBVIOUS
  <1>10. \A t \in changed : t \in tasks /\ t.id[1] \in DOMAIN C
    OBVIOUS
  <1>11. \A t \in tasks : t \in deleted \/ t.id[1] \in DOMAIN C
    OBVIOUS
  <1> HIDE DEF deleted, changed
  <1>12. TasksInv'
    <2>1. \A t \in tasks' : t = [id |-> t.id, text |-> t.text]
      BY <1>1, <1>3, <1>7, <1>8
    <2>2. \A t, u \in tasks' : t.id[1] = u.id[1] => t = u
      <3>1. ASSUME NEW t \in updated, NEW u \in updated, t.id[1] = u.id[1]
            PROVE  t = u
        BY <1>4, <1>8, <1>10, <3>1
      <3>2. ASSUME NEW t \in created, NEW u \in created, t.id[1] = u.id[1]
            PROVE  t = u
        BY <1>7, <3>2
      <3>3. ASSUME NEW t \in updated, NEW u \in tasks \ changed, t.id[1] = u.id[1]
            PROVE  FALSE
        BY <1>4, <1>8, <1>10, <3>3
      <3>4. ASSUME NEW t \in created, NEW u \in tasks \union updated, t.id[1] = u.id[1]
            PROVE  FALSE
        BY <1>7, <1>8, <1>10, <3>4
      <3>5. QED
        BY <1>1, <1>4, <3>1, <3>2, <3>3, <3>4
    <2>3. QED
      BY <2>1, <2>2 DEF TasksInv
  <1>13. IssueRows'
    <2>1. ASSUME NEW i \in issues'
          PROVE  \E t \in tasks' : t.id = i.task
      <3>1. PICK t \in tasks : t.id = i.task
        BY <1>1 DEF Mirrored, IssueRows
      <3>2. t \notin deleted
        BY <1>1, <3>1
      <3>3. CASE t \in changed
        BY <1>1, <1>6, <3>1, <3>3
      <3>4. CASE t \notin changed
        BY <1>1, <3>1, <3>2, <3>4
      <3>5. QED
        BY <3>3, <3>4
    <2>2. issues' \subseteq issues /\ sync'.made = {}
      BY <1>1, <1>2
    <2>3. QED
      BY <1>1, <2>1, <2>2 DEF Mirrored, IssueRows, Same
  <1>14. \A t \in tasks' \ created : \E u \in tasks \ deleted :
            /\ u.id = t.id /\ u.id[1] \in DOMAIN C
            /\ t \notin updated => u = t
    BY <1>1, <1>8, <1>9, <1>10, <1>11
  <1>15. \A u \in tasks \ deleted : \A d \in deleted : d.id # u.id
    BY <1>4, <1>9
  <1>16. ASSUME NEW repo \in Repos, NEW t \in tasks' \ created
         PROVE  HasIssue(issues', repo, t) /\ (t \notin updated => HasText(issues', repo, t))
    <2>1. PICK u \in tasks \ deleted : /\ u.id = t.id /\ u.id[1] \in DOMAIN C
                                       /\ t \notin updated => u = t
      BY <1>14
    <2>2. HasIssue(issues, repo, u) /\ HasText(issues, repo, u)
      BY <1>1, <2>1 DEF Mirrored, BetweenInv
    <2>3. \A j \in issues : j.task = t.id => j \in issues'
      BY <1>1, <1>15, <2>1
    <2>4. issues' \subseteq issues
      BY <1>1
    <2>5. \A i \in issues : i.repo = repo /\ i.task = t.id => i \in issues'
      BY <2>3
    <2>6. {j \in issues' : j.repo = repo /\ j.task = t.id} =
             {j \in issues : j.repo = repo /\ j.task = u.id}
      BY <2>1, <2>4, <2>5
    <2>7. HasIssue(issues', repo, t)
      BY <2>2, <2>4, <2>6 DEF HasIssue
    <2>8. t \notin updated => HasText(issues', repo, t)
      BY <2>1, <2>2, <2>4 DEF HasText
    <2>9. QED
      BY <2>7, <2>8
  <1>17. DuringInv'
    <2>1. created \subseteq tasks' /\ updated \subseteq tasks' \ created
      BY <1>1, <1>7, <1>8, <1>10
    <2>2. ASSUME NEW t \in created, NEW i \in issues'
          PROVE  i.task # t.id
      BY <1>1, <1>7 DEF Mirrored, IssueRows
    <2>3. ASSUME NEW repo \in Repos, NEW t \in tasks' \ created
          PROVE  /\ HasIssue(issues, repo, t)'
                 /\ t \notin updated => HasText(issues, repo, t)'
      BY <1>1, <1>16 DEF HasIssue, HasText
    <2>4. QED
      BY <1>2, <2>1, <2>2, <2>3 DEF DuringInv, Repos
  <1>18. BetweenInv'
    BY <1>2 DEF BetweenInv
  <1>19. QED
    BY <1>12, <1>13, <1>17, <1>18 DEF Mirrored

\* One repository: the issues of updated tasks get the text, new tasks get issues.
LEMMA MirrorRepo ==
  ASSUME PlacesInv, Mirrored, NEW repo \in Repos, synchronizeRepo(repo), ~ Fault
  PROVE  Mirrored'
  <1> DEFINE C == sync.created
             U == sync.updated
             n == Cardinality(Items(repo))
             k == Cardinality(C)
             order == SetToSeq(C)
             rows == createIssues(repo, C)
  <1>1. /\ ghIssues' = updateIssues(repo, U) \union CreateIssue(rows)
        /\ sync' = [sync EXCEPT !.repos = @ \ {repo}, !.made = @ \union rows]
        /\ sync.pc = "synchronizeRepos" /\ repo \in sync.repos
        /\ UNCHANGED <<tasks, issues>>
    BY Zenon DEF synchronizeRepo, db
  <1>2. PICK made : made = sync.made \union rows
    OBVIOUS
  <1>3. sync' = [pc |-> "synchronizeRepos", created |-> C, updated |-> U,
                 repos |-> sync.repos \ {repo}, made |-> made]
    <2>1. sync' = [sync EXCEPT !.repos = @ \ {repo}, !.made = made]
      BY <1>1, <1>2, Zenon
    <2>2. QED
      BY <1>1, <2>1, SyncTypeNow
  <1>4. /\ sync'.pc = "synchronizeRepos" /\ sync'.created = C /\ sync'.updated = U
        /\ sync'.repos = sync.repos \ {repo} /\ sync'.made = sync.made \union rows
    BY <1>2, <1>3
  <1>5. /\ C \subseteq tasks /\ U \subseteq tasks \ C
        /\ \A t \in C, i \in issues : i.task # t.id
        /\ \A i \in sync.made : i.repo \in Repos \ sync.repos
    BY <1>1 DEF Mirrored, DuringInv
  <1>6. \A t, u \in tasks : t.id = u.id => t = u
    BY DEF Mirrored, TasksInv
  \* The new rows.
  <1>7. Numbered(Items(repo)) /\ IsFiniteSet(C)
    BY SyncTypeNow DEF PlacesInv, NumbersInv
  <1>8. /\ n \in Nat /\ k \in Nat
        /\ \A r \in rows : \E i \in 1..k :
                r = [repo |-> repo, number |-> n + i, task |-> order[i].id]
        /\ \A i \in 1..k : [repo |-> repo, number |-> n + i, task |-> order[i].id] \in rows
    BY <1>7, RowsOfIssues
  <1>9. /\ \A i \in 1..k : order[i] \in C
        /\ \A i, j \in 1..k : order[i] = order[j] => i = j
        /\ \A t \in C : \E i \in 1..k : order[i] = t
    BY <1>7, SequenceOfSet
  <1>10. \A g \in Items(repo) : g.number \in 1..n
    BY <1>7 DEF Numbered
  <1> HIDE DEF n, k, order, rows
  <1>11. \A r \in rows : /\ r = [repo |-> r.repo, number |-> r.number, task |-> r.task]
                         /\ r.repo = repo /\ r.number > n
                         /\ \E t \in C : t.id = r.task
    <2>1. ASSUME NEW r \in rows
          PROVE  /\ r = [repo |-> r.repo, number |-> r.number, task |-> r.task]
                 /\ r.repo = repo /\ r.number > n
                 /\ \E t \in C : t.id = r.task
      <3>1. PICK i \in 1..k : r = [repo |-> repo, number |-> n + i, task |-> order[i].id]
        BY <1>8
      <3>2. r.repo = repo /\ r.number = n + i /\ r.task = order[i].id /\ order[i] \in C
        BY <1>9, <3>1
      <3>3. r.number > n
        BY <1>8, <3>2
      <3>4. QED
        BY <3>1, <3>2, <3>3
    <2>2. QED
      BY <2>1
  <1>12. \A q, r \in rows : q.number = r.number \/ q.task = r.task => q = r
    <2>1. ASSUME NEW q \in rows, NEW r \in rows, q.number = r.number \/ q.task = r.task
          PROVE  q = r
      <3>1. PICK i \in 1..k : q = [repo |-> repo, number |-> n + i, task |-> order[i].id]
        BY <1>8
      <3>2. PICK j \in 1..k : r = [repo |-> repo, number |-> n + j, task |-> order[j].id]
        BY <1>8
      <3>3. order[i] \in tasks /\ order[j] \in tasks
        BY <1>5, <1>9
      <3>4. CASE q.number = r.number
        <4>1. n + i = n + j
          BY <3>1, <3>2, <3>4
        <4>2. i = j
          BY <1>8, <4>1
        <4>3. QED
          BY <3>1, <3>2, <4>2
      <3>5. CASE q.task = r.task
        <4>1. order[i].id = order[j].id
          BY <3>1, <3>2, <3>5
        <4>2. i = j
          BY <1>6, <1>9, <3>3, <4>1
        <4>3. QED
          BY <3>1, <3>2, <4>2
      <3>6. QED
        BY <2>1, <3>4, <3>5
    <2>2. QED
      BY <2>1
  <1>13. \A t \in C : \E r \in rows : r.task = t.id
    <2>1. ASSUME NEW t \in C
          PROVE  \E r \in rows : r.task = t.id
      <3>1. PICK i \in 1..k : order[i] = t
        BY <1>9
      <3>2. PICK r : r = [repo |-> repo, number |-> n + i, task |-> order[i].id]
        OBVIOUS
      <3>3. r \in rows /\ r.task = t.id
        BY <1>8, <3>1, <3>2
      <3>4. QED
        BY <3>3
    <2>2. QED
      BY <2>1
  \* The issues on GitHub.
  <1>14. \A g \in ghIssues : IssueRecord(g)
    BY DEF PlacesInv, NumbersInv
  <1>15. \A g \in ghIssues : \E x \in ghIssues' :
            Same(x, g) /\ x = IF g.repo = repo THEN UpdateIssue(g, U) ELSE g
    <2>1. \A g \in ghIssues : Same(UpdateIssue(g, U), g)
      BY <1>14, IssueUpdated
    <2>2. QED
      BY <1>1, <2>1 DEF updateIssues, Same
  <1>16. \A r \in rows : \E x \in ghIssues' :
            Same(x, r) /\ x.text = (CHOOSE t \in tasks : t.id = r.task).text
    <2>1. ASSUME NEW r \in rows
          PROVE  \E x \in ghIssues' :
                    Same(x, r) /\ x.text = (CHOOSE t \in tasks : t.id = r.task).text
      <3>1. PICK x : x = [repo |-> r.repo, number |-> r.number,
                          text |-> (CHOOSE t \in tasks : t.id = r.task).text]
        OBVIOUS
      <3>2. x \in CreateIssue(rows)
        BY <3>1 DEF CreateIssue
      <3>3. x \in ghIssues'
        BY <1>1, <3>2 DEF rows
      <3>4. QED
        BY <3>1, <3>3 DEF Same
    <2>2. QED
      BY <2>1
  <1>17. TasksInv'
    BY <1>1 DEF Mirrored, TasksInv
  <1>18. \A i \in issues \union sync.made : \A r \in rows : ~ Same(i, r)
    <2>1. ASSUME NEW i \in issues \union sync.made, NEW r \in rows, Same(i, r)
          PROVE  FALSE
      <3>1. PICK g \in ghIssues : Same(g, i)
        BY DEF Mirrored, IssueRows
      <3>2. g \in Items(repo) /\ g.number = r.number
        BY <1>11, <2>1, <3>1 DEF Items, Same
      <3>3. g.number \in 1..n /\ r.number > n
        BY <1>10, <1>11, <3>2
      <3>4. QED
        BY <1>8, <3>2, <3>3
    <2>2. QED
      BY <2>1
  <1>19. IssueRows'
    <2>1. ASSUME NEW i \in issues' \union sync'.made
          PROVE  /\ i = [repo |-> i.repo, number |-> i.number, task |-> i.task]
                 /\ \E g \in ghIssues' : Same(g, i)
      <3>1. CASE i \in rows
        BY <1>11, <1>16, <3>1
      <3>2. CASE i \in issues \union sync.made
        <4>1. /\ i = [repo |-> i.repo, number |-> i.number, task |-> i.task]
              /\ \E g \in ghIssues : Same(g, i)
          BY <3>2 DEF Mirrored, IssueRows
        <4>2. QED
          BY <1>15, <4>1 DEF Same
      <3>3. QED
        BY <1>1, <1>4, <3>1, <3>2
    <2>2. ASSUME NEW i \in issues' \union sync'.made, NEW j \in issues' \union sync'.made, Same(i, j)
          PROVE  i = j
      <3>1. i \in issues \union sync.made \union rows /\ j \in issues \union sync.made \union rows
        BY <1>1, <1>4
      <3>2. CASE i \in rows /\ j \in rows
        BY <1>12, <2>2, <3>2 DEF Same
      <3>3. CASE i \in issues \union sync.made /\ j \in issues \union sync.made
        BY <2>2, <3>3 DEF Mirrored, IssueRows
      <3>4. QED
        BY <1>18, <2>2, <3>1, <3>2, <3>3 DEF Same
    <2>3. \A i \in issues' : \E t \in tasks' : t.id = i.task
      BY <1>1 DEF Mirrored, IssueRows
    <2>4. \A i \in sync'.made : \E t \in sync'.created : t.id = i.task
      BY <1>4, <1>11 DEF Mirrored, IssueRows
    <2>5. QED
      BY <2>1, <2>2, <2>3, <2>4 DEF IssueRows, Same
  \* The tasks that were there before.
  <1>20. ASSUME NEW t \in tasks \ C, NEW q \in Repos, q \notin sync.repos \ {repo} \/ t \notin U,
                NEW i \in issues, i.repo = q, i.task = t.id
         PROVE  \E g \in ghIssues' : Same(g, i) /\ g.text = t.text
    <2>1. CASE q # repo
      <3>1. HasText(issues, q, t)
        BY <1>1, <1>20, <2>1 DEF Mirrored, DuringInv
      <3>2. PICK g \in ghIssues : Same(g, i) /\ g.text = t.text
        BY <1>20, <3>1 DEF HasText
      <3>3. g.repo # repo
        BY <1>20, <2>1, <3>2 DEF Same
      <3>4. g \in ghIssues'
        BY <1>15, <3>3
      <3>5. QED
        BY <3>2, <3>4
    <2>2. CASE q = repo
      <3>1. PICK g \in ghIssues : Same(g, i) /\ (t \notin U => g.text = t.text)
        <4>1. CASE t \in U
          BY <4>1 DEF Mirrored, IssueRows
        <4>2. CASE t \notin U
          <5>1. HasText(issues, q, t)
            BY <1>1, <1>20, <4>2 DEF Mirrored, DuringInv
          <5>2. QED
            BY <1>20, <4>2, <5>1 DEF HasText
        <4>3. QED
          BY <4>1, <4>2
      <3> DEFINE mine == {u \in U : \E j \in issues :
                             j.repo = g.repo /\ j.number = g.number /\ j.task = u.id}
      <3>2. \A u \in mine : u = t
        <4>1. ASSUME NEW u \in mine
              PROVE  u = t
          <5>1. PICK j \in issues : j.repo = g.repo /\ j.number = g.number /\ j.task = u.id
            OBVIOUS
          <5>2. j = i
            BY <3>1, <5>1 DEF Mirrored, IssueRows, Same
          <5>3. u \in tasks /\ u.id = t.id
            BY <1>5, <1>20, <5>1, <5>2
          <5>4. QED
            BY <1>6, <5>3
        <4>2. QED
          BY <4>1
      <3>3. t \in U => t \in mine
        BY <1>20, <3>1 DEF Same
      <3>4. UpdateIssue(g, U) = IF mine = {} THEN g
                                ELSE [g EXCEPT !.text = (CHOOSE u \in mine : TRUE).text]
        BY DEF UpdateIssue
      <3>5. g = [repo |-> g.repo, number |-> g.number, text |-> g.text]
        BY <1>14 DEF IssueRecord
      <3> HIDE DEF mine
      <3>6. UpdateIssue(g, U).text = t.text
        <4>1. CASE t \in U
          <5>1. (CHOOSE u \in mine : TRUE) = t /\ mine # {}
            BY <3>2, <3>3, <4>1
          <5>2. UpdateIssue(g, U) = [g EXCEPT !.text = t.text]
            BY <3>4, <5>1
          <5>3. QED
            BY <3>5, <5>2
        <4>2. CASE t \notin U
          <5>1. mine = {}
            <6>1. mine \subseteq U
              BY DEF mine
            <6>2. QED
              BY <3>2, <4>2, <6>1
          <5>2. QED
            BY <3>1, <3>4, <4>2, <5>1
        <4>3. QED
          BY <4>1, <4>2
      <3>7. PICK x \in ghIssues' : Same(x, g) /\ x = UpdateIssue(g, U)
        <4>1. g.repo = repo
          BY <1>20, <2>2, <3>1 DEF Same
        <4>2. QED
          BY <1>15, <4>1
      <3>8. QED
        BY <3>1, <3>6, <3>7 DEF Same
    <2>3. QED
      BY <2>1, <2>2
  \* The new ones.
  <1>21. ASSUME NEW t \in C, NEW q \in Repos, q \notin sync.repos \ {repo}
         PROVE  HasIssue(sync'.made, q, t)
                /\ \A i \in sync'.made : i.repo = q /\ i.task = t.id =>
                      \E g \in ghIssues' : Same(g, i) /\ g.text = t.text
    <2>1. CASE q # repo
      <3>1. HasIssue(sync.made, q, t) /\ HasText(sync.made, q, t)
        BY <1>1, <1>21, <2>1 DEF Mirrored, DuringInv
      <3>2. \A i \in sync'.made : i.repo = q => i \in sync.made
        BY <1>4, <1>11, <2>1
      <3>3. {j \in sync'.made : j.repo = q /\ j.task = t.id} =
               {j \in sync.made : j.repo = q /\ j.task = t.id}
        BY <1>4, <3>2
      <3>4. HasIssue(sync'.made, q, t)
        BY <1>4, <3>1, <3>3 DEF HasIssue
      <3>5. ASSUME NEW i \in sync'.made, i.repo = q, i.task = t.id
            PROVE  \E g \in ghIssues' : Same(g, i) /\ g.text = t.text
        <4>1. PICK g \in ghIssues : Same(g, i) /\ g.text = t.text
          BY <3>1, <3>2, <3>5 DEF HasText
        <4>2. g.repo # repo
          BY <2>1, <3>5, <4>1 DEF Same
        <4>3. QED
          BY <1>15, <4>1, <4>2
      <3>6. QED
        BY <3>4, <3>5
    <2>2. CASE q = repo
      <3>1. \A i \in sync'.made : i.repo = q => i \in rows
        BY <1>1, <1>4, <1>5, <2>2
      <3>2. PICK r \in rows : r.task = t.id
        BY <1>13
      <3>3. \A j \in rows : j.task = t.id => j = r
        BY <1>12, <3>2
      <3>4. {j \in sync'.made : j.repo = q /\ j.task = t.id} = {r}
        BY <1>4, <1>11, <2>2, <3>1, <3>2, <3>3
      <3>5. HasIssue(sync'.made, q, t)
        BY <1>4, <1>11, <2>2, <3>2, <3>4 DEF HasIssue
      <3>6. (CHOOSE u \in tasks : u.id = r.task) = t
        BY <1>5, <1>6, <3>2
      <3>7. PICK x \in ghIssues' : Same(x, r) /\ x.text = t.text
        BY <1>16, <3>6
      <3>8. \A i \in sync'.made : i.repo = q /\ i.task = t.id => i = r
        BY <3>1, <3>3
      <3>9. QED
        BY <3>5, <3>7, <3>8
    <2>3. QED
      BY <2>1, <2>2
  <1>22. DuringInv'
    <2>1. C \subseteq tasks' /\ U \subseteq tasks' \ C /\ \A t \in C, i \in issues' : i.task # t.id
      BY <1>1, <1>5
    <2>2. ASSUME NEW q \in Repos, NEW t \in tasks' \ C
          PROVE  /\ HasIssue(issues, q, t)'
                 /\ (q \notin sync'.repos \/ t \notin U) => HasText(issues, q, t)'
      <3>1. HasIssue(issues, q, t)
        BY <1>1 DEF Mirrored, DuringInv
      <3>2. HasIssue(issues, q, t)'
        BY <1>1, <3>1 DEF HasIssue
      <3>3. (q \notin sync'.repos \/ t \notin U) => HasText(issues, q, t)'
        BY <1>1, <1>4, <1>20 DEF HasText, Same
      <3>4. QED
        BY <3>2, <3>3
    <2>3. \A i \in sync'.made : i.repo \in Repos \ sync'.repos
      BY <1>4, <1>5, <1>11
    <2>4. ASSUME NEW q \in Repos \ sync'.repos, NEW t \in C
          PROVE  HasIssue(sync.made, q, t)' /\ HasText(sync.made, q, t)'
      <3>1. q \notin sync.repos \ {repo}
        BY <1>4
      <3>2. HasIssue(sync'.made, q, t)
            /\ \A i \in sync'.made : i.repo = q /\ i.task = t.id =>
                  \E g \in ghIssues' : Same(g, i) /\ g.text = t.text
        BY <1>21, <3>1
      <3>3. QED
        BY <3>2 DEF HasIssue, HasText, Same
    <2>5. QED
      BY <1>4, <2>1, <2>2, <2>3, <2>4 DEF DuringInv, Repos
  <1>23. BetweenInv'
    BY <1>4 DEF BetweenInv
  <1>24. QED
    BY <1>17, <1>19, <1>22, <1>23 DEF Mirrored

\* The rows are recorded.
LEMMA MirrorRecord ==
  ASSUME PlacesInv, Mirrored, CreateIssues, ~ Fault
  PROVE  Mirrored'
  <1>1. /\ issues' = issues \union sync.made /\ sync' = NoSync /\ sync.repos = {}
        /\ sync.pc = "synchronizeRepos" /\ UNCHANGED <<tasks, ghIssues>>
    BY DEF CreateIssues, github
  <1>2. sync'.pc = "idle" /\ sync'.made = {}
    BY <1>1 DEF NoSync
  <1>3. /\ sync.created \subseteq tasks
        /\ \A t \in sync.created, i \in issues : i.task # t.id
        /\ \A i \in sync.made : \E t \in sync.created : t.id = i.task
    BY <1>1 DEF Mirrored, DuringInv, IssueRows
  <1>4. \A t, u \in tasks : t.id = u.id => t = u
    BY DEF Mirrored, TasksInv
  <1>5. TasksInv'
    BY <1>1 DEF Mirrored, TasksInv
  <1>6. IssueRows'
    <2>1. issues' \union sync'.made = issues \union sync.made
      BY <1>1, <1>2
    <2>2. \A i \in issues' : \E t \in tasks' : t.id = i.task
      BY <1>1, <1>3 DEF Mirrored, IssueRows
    <2>3. QED
      BY <1>1, <1>2, <2>1, <2>2 DEF Mirrored, IssueRows, Same
  <1>7. ASSUME NEW q \in Repos, NEW t \in tasks
        PROVE  HasIssue(issues', q, t) /\ HasText(issues', q, t)
    <2>1. CASE t \in sync.created
      <3>1. HasIssue(sync.made, q, t) /\ HasText(sync.made, q, t)
        BY <1>1, <2>1 DEF Mirrored, DuringInv
      <3>2. \A i \in issues' : i.task = t.id => i \in sync.made
        BY <1>1, <1>3, <2>1
      <3>3. {j \in issues' : j.repo = q /\ j.task = t.id} =
               {j \in sync.made : j.repo = q /\ j.task = t.id}
        BY <1>1, <3>2
      <3>4. QED
        BY <1>1, <3>1, <3>2, <3>3 DEF HasIssue, HasText
    <2>2. CASE t \notin sync.created
      <3>1. HasIssue(issues, q, t) /\ HasText(issues, q, t)
        BY <1>1, <2>2 DEF Mirrored, DuringInv
      <3>2. \A i \in issues' : i.task = t.id => i \in issues
        BY <1>1, <1>3, <1>4, <2>2
      <3>3. {j \in issues' : j.repo = q /\ j.task = t.id} =
               {j \in issues : j.repo = q /\ j.task = t.id}
        BY <1>1, <3>2
      <3>4. QED
        BY <1>1, <3>1, <3>2, <3>3 DEF HasIssue, HasText
    <2>3. QED
      BY <2>1, <2>2
  <1>8. BetweenInv'
    BY <1>1, <1>2, <1>7 DEF BetweenInv, HasIssue, HasText, Same, Repos
  <1>9. DuringInv'
    BY <1>2 DEF DuringInv
  <1>10. QED
    BY <1>5, <1>6, <1>8, <1>9 DEF Mirrored

LEMMA MirrorStep ==
  ASSUME MirrorInv, [Next]_vars
  PROVE  MirrorInv'
  <1>1. PlacesInv' /\ faults' \in Nat /\ (faults' = 0 => faults' = faults)
    BY PlacesStep, FaultsStep DEF MirrorInv
  <1>2. ASSUME faults' = 0
        PROVE  Mirrored'
    <2>1. PlacesInv /\ Mirrored /\ ~ Fault
      BY <1>1, <1>2, NoFault DEF MirrorInv
    <2>2. CASE UNCHANGED <<tasks, issues, ghIssues, sync>>
      BY <2>1, <2>2, MirrorStays
    <2>3. CASE GitHubStep
      BY <2>1, <2>2, <2>3, MirrorPushTests DEF GitHubStep, Open, Push, Approve, Close, Send, db
    <2>4. CASE synchronizeTasksWithIssues
      BY <2>1, <2>4, MirrorTransaction, MirrorRepo, MirrorRecord DEF synchronizeTasksWithIssues
    <2>5. CASE Stop
      BY <2>1, <2>5 DEF Stop
    <2>6. ASSUME NEW h \in Handlers, HandlerStep(h)
          PROVE  Mirrored'
      BY <2>2, <2>6 DEF HandlerStep, HandleEvent, handlePullRequestOpened, CreatePullRequest,
                        handlePullRequestPush, AssignReviewers, RequestReviewers, SetReview,
                        CreateIssueComment, SetComment, handlePullRequestReview, HandleMergingPR,
                        db, github
    <2>7. CASE UNCHANGED vars
      BY <2>2, <2>7 DEF vars, db
    <2>8. QED
      BY <2>3, <2>4, <2>5, <2>6, <2>7 DEF Next, MirrorInv
  <1>3. QED
    BY <1>1, <1>2 DEF MirrorInv

LEMMA InitMirror ==
  ASSUME Init
  PROVE  MirrorInv
  <1>1. /\ tasks = {} /\ issues = {} /\ faults = 0 /\ sync.pc = "idle" /\ sync.made = {}
    BY DEF Init, NoSync
  <1>2. Mirrored
    BY <1>1 DEF Mirrored, TasksInv, IssueRows, BetweenInv, DuringInv
  <1>3. QED
    BY <1>1, <1>2, InitPlaces DEF MirrorInv

\* For any groups, tasks and versions of the tests, and any number of events handled at
\* the same time: between synchronizations every task has its one issue, with its text,
\* in every group's repository, unless a call fails (synchronizeTasksWithIssues).
THEOREM PullsIssues ==
  Spec => []IssuesMirrorTasks
  <1>1. MirrorInv => IssuesMirrorTasks
    <2>1. ASSUME Mirrored, sync.pc = "idle", NEW repo \in Repos, NEW t \in tasks
          PROVE  \E i \in issues :
                    /\ i.repo = repo
                    /\ {j \in issues : j.repo = repo /\ j.task = t.id} = {i}
                    /\ \E g \in ghIssues : g.repo = repo /\ g.number = i.number /\ g.text = t.text
      <3>1. HasIssue(issues, repo, t) /\ HasText(issues, repo, t)
        BY <2>1 DEF Mirrored, BetweenInv
      <3>2. PICK i \in issues : /\ i.repo = repo
                                /\ {j \in issues : j.repo = repo /\ j.task = t.id} = {i}
        BY <3>1 DEF HasIssue
      <3>3. i.task = t.id
        BY <3>2
      <3>4. QED
        BY <3>1, <3>2, <3>3 DEF HasText, Same
    <2>2. QED
      BY <2>1 DEF MirrorInv, IssuesMirrorTasks
  <1>2. Init => MirrorInv
    BY InitMirror
  <1>3. MirrorInv /\ [Next]_vars => MirrorInv'
    BY MirrorStep
  <1>4. QED
    BY <1>1, <1>2, <1>3, PTL DEF Spec

-----------------------------------------------------------------------------
(* A pull request is recorded once, and its reviewers are asked once.      *)

\* The conditions of one handler.
LEMMA OneOnce ==
  ASSUME NEW w, Handlers = {w}
  PROVE  /\ OnceInv <=>
            /\ \A i, j \in DOMAIN pulls : Same(pulls[i], pulls[j]) => i = j
            /\ \A e \in Opened : OnGitHub(e) /\ ~ Recorded(e) /\ ~ Recording(w, e)
            /\ \A e, f \in Opened : Same(e, f) => e = f
            /\ handler[w].pc = "opened" => OnGitHub(handler[w].event)
            /\ \A g \in ghPulls : Recording(w, g) => ~ Recorded(g)
         /\ \A g : Unasked(g) <=>
            \/ \E e \in Opened : Same(e, g)
            \/ Recording(w, g)
            \/ \E i \in DOMAIN pulls :
                /\ Same(pulls[i], g) /\ ~ HasReviewers(pulls[i])
                /\ ~ (handler[w].pc = "SetReview" /\ handler[w].id = i)
  BY DEF OnceInv, Unasked

\* What a step has to keep that opens no pull request, records none and takes no event
\* of a new one.
LEMMA OnceKept ==
  ASSUME NEW w, Handlers = {w}, OnceInv, GitHubKeeps,
         \A g \in ghPulls' : \E k \in ghPulls : Same(k, g),
         \A e \in events' : e.type = "opened" => e \in events,
         \A i \in DOMAIN pulls' : i \in DOMAIN pulls /\ Same(pulls'[i], pulls[i]),
         handler' = handler \/ handler'[w].pc \notin {"opened", "CreatePullRequest"}
  PROVE  OnceInv'
  <1>1. ASSUME NEW x, OnGitHub(x)
        PROVE  \E g \in ghPulls' : Same(g, x)
    BY <1>1 DEF OnGitHub, GitHubKeeps, Same
  <1>2. \A x : (\E i \in DOMAIN pulls' : Same(pulls'[i], x)) => Recorded(x)
    BY DEF Recorded, Same
  <1>3. \A x : (\/ handler'[w].pc = "opened" /\ Same(handler'[w].event, x)
                \/ handler'[w].pc = "CreatePullRequest" /\ Same(handler'[w].pull, x))
               => Recording(w, x) /\ handler' = handler
    BY DEF Recording
  <1>4. ASSUME NEW e \in Opened'
        PROVE  OnGitHub(e)' /\ ~ Recorded(e)' /\ ~ Recording(w, e)'
    <2>1. e \in Opened
      BY DEF Opened
    <2>2. OnGitHub(e) /\ ~ Recorded(e) /\ ~ Recording(w, e)
      BY <2>1, OneOnce
    <2>3. QED
      BY <1>1, <1>2, <1>3, <2>2 DEF OnGitHub, Recorded, Recording, Same
  <1>5. ASSUME NEW g \in ghPulls', Recording(w, g)'
        PROVE  ~ Recorded(g)'
    <2>1. Recording(w, g)
      BY <1>3, <1>5 DEF Recording, Same
    <2>2. PICK k \in ghPulls : Same(k, g)
      OBVIOUS
    <2>3. Recording(w, k)
      BY <2>1, <2>2 DEF Recording, Same
    <2>4. ~ Recorded(k)
      BY <2>3, OneOnce
    <2>5. ~ Recorded(g)
      BY <2>2, <2>4 DEF Recorded, Same
    <2>6. QED
      BY <1>2, <2>5 DEF Recorded, Same
  <1>6. \A i, j \in DOMAIN pulls' : Same(pulls'[i], pulls'[j]) => i = j
    BY DEF OnceInv, Same
  <1>7. \A e, f \in Opened' : Same(e, f) => e = f
    BY DEF OnceInv, Opened
  <1>8. handler'[w].pc = "opened" => OnGitHub(handler[w].event)'
    <2>1. handler[w].pc = "opened" => OnGitHub(handler[w].event)
      BY OneOnce
    <2>2. QED
      BY <1>1, <2>1 DEF OnGitHub
  <1>9. Handlers' = {w}
    BY DEF Handlers
  <1>10. QED
    BY <1>4, <1>5, <1>6, <1>7, <1>8, <1>9 DEF OnceInv, Same, Opened

\* Then nobody becomes unasked, unless the one handler asks.
LEMMA AskedKept ==
  ASSUME NEW w, Handlers = {w}, Asked,
         \A g \in ghPulls' : \E k \in ghPulls : Same(k, g) /\ k.requests = g.requests,
         \A e \in events' : e.type = "opened" => e \in events,
         \A i \in DOMAIN pulls' :
            /\ i \in DOMAIN pulls /\ Same(pulls'[i], pulls[i])
            /\ HasReviewers(pulls[i]) \/ (handler[w].pc = "SetReview" /\ handler[w].id = i) =>
                HasReviewers(pulls'[i]) \/ (handler'[w].pc = "SetReview" /\ handler'[w].id = i),
         handler' = handler \/ handler'[w].pc \notin {"opened", "CreatePullRequest"}
  PROVE  Asked'
  <1>1. Handlers' = {w}
    BY DEF Handlers
  <1>2. ASSUME NEW g \in ghPulls', Unasked(g)'
        PROVE  Unasked(g)
    <2>1. CASE \E e \in Opened' : Same(e, g)
      BY <2>1 DEF Unasked, Opened, Same
    <2>2. CASE Recording(w, g)'
      BY <2>2 DEF Unasked, Recording, Same
    <2>3. ASSUME NEW i \in DOMAIN pulls', Same(pulls'[i], g), ~ HasReviewers(pulls'[i]),
                 ~ (handler'[w].pc = "SetReview" /\ handler'[w].id = i)
          PROVE  Unasked(g)
      <3>1. /\ i \in DOMAIN pulls /\ Same(pulls[i], g) /\ ~ HasReviewers(pulls[i])
            /\ ~ (handler[w].pc = "SetReview" /\ handler[w].id = i)
        BY <2>3 DEF Same
      <3>2. QED
        BY <3>1 DEF Unasked
    <2>4. QED
      BY <1>1, <1>2, <2>1, <2>2, <2>3 DEF Unasked, HasReviewers, Same
  <1>3. ASSUME NEW g \in ghPulls'
        PROVE  /\ g.requests = <<>> \/ Len(g.requests) = 1
               /\ Unasked(g)' => g.requests = <<>>
    <2>1. PICK k \in ghPulls : Same(k, g) /\ k.requests = g.requests
      OBVIOUS
    <2>2. Unasked(g) => Unasked(k)
      BY <2>1 DEF Unasked, Recording, Same
    <2>3. QED
      BY <1>2, <2>1, <2>2 DEF Asked
  <1>4. QED
    BY <1>3 DEF Asked

\* The table and the pull requests stay; the handler, if it goes on, does so from a
\* place where it has nothing to save.
LEMMA QuietOnce ==
  ASSUME NEW w, Handlers = {w}, OnceInv, UNCHANGED <<pulls, ghPulls>>,
         \A e \in events' : e.type = "opened" => e \in events,
         \/ handler' = handler
         \/ handler'[w].pc \notin {"opened", "CreatePullRequest"}
  PROVE  OnceInv' /\ (handler' = handler \/ handler[w].pc # "SetReview" => (Asked => Asked'))
  <1>1. /\ GitHubKeeps /\ \A g \in ghPulls' : \E k \in ghPulls : Same(k, g) /\ k.requests = g.requests
        /\ \A i \in DOMAIN pulls' : i \in DOMAIN pulls /\ pulls'[i] = pulls[i] /\ Same(pulls'[i], pulls[i])
    BY DEF GitHubKeeps, Same
  <1>2. OnceInv'
    BY <1>1, OnceKept
  <1>3. ASSUME handler' = handler \/ handler[w].pc # "SetReview", Asked
        PROVE  Asked'
    BY <1>1, <1>3, AskedKept DEF HasReviewers
  <1>4. QED
    BY <1>2, <1>3

\* An event is taken; that of a new pull request is in the handler's hands.
LEMMA HandleOnce ==
  ASSUME NEW w, Handlers = {w}, PlacesInv, OnceInv, HandleEvent(w)
  PROVE  OnceInv' /\ (Asked => Asked')
  <1>1. PICK e \in events :
          LET i == IF e.type = "push" THEN ByBranch(e) ELSE ByNumber(e)
              start(at) == handler' = [handler EXCEPT
                  ![w] = [pc |-> at, event |-> e, id |-> i, pull |-> pulls[i], reviewers |-> {}]]
          IN
          /\ events' = events \ {e}
          /\ \/ /\ e.type = "opened"
                /\ handler' = [handler EXCEPT ![w].pc = "opened", ![w].event = e]
             \/ \E at \in {"review", "closed", "push"} : start(at)
             \/ UNCHANGED handler
    BY Zenon DEF HandleEvent
  <1>2. UNCHANGED <<pulls, ghPulls>> /\ handler[w].pc = "idle" /\ events' = events \ {e}
    BY <1>1 DEF HandleEvent, db, github
  <1>3. w \in Handlers /\ handler = [k \in Handlers |-> handler[k]]
        /\ handler[w] = [pc |-> handler[w].pc, event |-> handler[w].event, id |-> handler[w].id,
                         pull |-> handler[w].pull, reviewers |-> handler[w].reviewers]
    BY DEF PlacesInv, HandlerType, Known
  <1>4. CASE UNCHANGED handler
    BY <1>2, <1>4, QuietOnce
  <1>5. ASSUME NEW at \in {"review", "closed", "push"}, NEW i, NEW pull,
               handler' = [handler EXCEPT ![w] = [pc |-> at, event |-> e, id |-> i,
                                                  pull |-> pull, reviewers |-> {}]]
        PROVE  OnceInv' /\ (Asked => Asked')
    <2>1. handler'[w].pc = at
      BY <1>3, <1>5
    <2>2. QED
      BY <1>2, <2>1, QuietOnce
  <1>6. CASE e.type = "opened" /\ handler' = [handler EXCEPT ![w].pc = "opened", ![w].event = e]
    <2>1. e \in Opened /\ \A f \in Opened' : f \in Opened /\ f # e
      BY <1>2, <1>6 DEF Opened
    <2>2. handler'[w] = [[handler[w] EXCEPT !.pc = "opened"] EXCEPT !.event = e]
      BY <1>3, <1>6
    <2>3. handler'[w].pc = "opened" /\ handler'[w].event = e
      BY <1>3, <2>2
    <2>4. OnGitHub(e) /\ ~ Recorded(e) /\ \A f \in Opened' : ~ Same(e, f)
      BY <2>1, OneOnce
    <2>5. \A f \in Opened' : OnGitHub(f)' /\ ~ Recorded(f)' /\ ~ Recording(w, f)'
      <3>1. ASSUME NEW f \in Opened'
            PROVE  OnGitHub(f) /\ ~ Recorded(f) /\ ~ Same(e, f)
        BY <2>1, <2>4, OneOnce
      <3>2. QED
        BY <1>2, <2>3, <3>1 DEF OnGitHub, Recorded, Recording, Same
    <2>6. ASSUME NEW g \in ghPulls', Recording(w, g)'
          PROVE  ~ Recorded(g)'
      <3>1. Same(e, g)
        BY <2>3, <2>6 DEF Recording, Same
      <3>2. QED
        BY <1>2, <2>4, <3>1 DEF Recorded, Same
    <2>7. OnGitHub(handler[w].event)'
      BY <1>2, <2>3, <2>4 DEF OnGitHub, Same
    <2>8. \A i, j \in DOMAIN pulls' : Same(pulls'[i], pulls'[j]) => i = j
      BY <1>2 DEF OnceInv
    <2>9. \A d, f \in Opened' : Same(d, f) => d = f
      BY <2>1 DEF OnceInv
    <2>10. Handlers' = {w}
      BY DEF Handlers
    <2>11. OnceInv'
      BY <2>5, <2>6, <2>7, <2>8, <2>9, <2>10 DEF OnceInv, Same, Opened
    <2>12. ASSUME NEW g \in ghPulls', Unasked(g)'
           PROVE  Unasked(g)
      <3>1. CASE \E f \in Opened' : Same(f, g)
        BY <2>1, <3>1 DEF Unasked
      <3>2. CASE Recording(w, g)'
        <4>1. Same(e, g)
          BY <2>3, <3>2 DEF Recording, Same
        <4>2. QED
          BY <2>1, <4>1 DEF Unasked
      <3>3. CASE \E i \in DOMAIN pulls : Same(pulls[i], g) /\ ~ HasReviewers(pulls[i])
        BY <1>2, <3>3, OneOnce
      <3>4. QED
        BY <1>2, <2>10, <2>12, <3>1, <3>2, <3>3 DEF Unasked, HasReviewers, Same
    <2>13. Asked => Asked'
      BY <1>2, <2>12 DEF Asked
    <2>14. QED
      BY <2>11, <2>13
  <1>7. QED
    BY <1>1, <1>4, <1>5, <1>6

\* The handler's event becomes a copy of the row to be.
LEMMA OpenedOnce ==
  ASSUME NEW w, Handlers = {w}, PlacesInv, OnceInv, handlePullRequestOpened(w)
  PROVE  OnceInv' /\ (Asked => Asked')
  <1>1. UNCHANGED <<pulls, ghPulls, events>> /\ handler[w].pc = "opened" /\ w \in Handlers
    BY DEF handlePullRequestOpened, db, github
  <1>2. CASE Return(w)
    <2>1. handler'[w] = NoHandler
      BY <1>1, <1>2, Returns DEF PlacesInv
    <2>2. QED
      BY <1>1, <2>1, QuietOnce DEF NoHandler
  <1>3. ASSUME NEW g \in ghPulls, NEW i, Same(g, handler[w].event),
               Goto(w, "CreatePullRequest",
                    [repo |-> g.repo, number |-> g.number, branch |-> g.branch,
                     user |-> g.user, task |-> i.task, stage |-> "draft", comment |-> FALSE])
        PROVE  OnceInv' /\ (Asked => Asked')
    <2>1. PICK copy, no : copy = [repo |-> g.repo, number |-> g.number, branch |-> g.branch,
                                  user |-> g.user, task |-> i.task, stage |-> "draft", comment |-> no]
                          /\ no = FALSE
      OBVIOUS
    <2>2. Goto(w, "CreatePullRequest", copy)
      BY <1>3, <2>1, Zenon
    <2>3. HandlerType /\ Known(w)
      BY <1>1 DEF PlacesInv
    <2>4. handler'[w].pc = "CreatePullRequest" /\ handler'[w].pull = copy
      <3>1. handler[w] = [pc |-> handler[w].pc, event |-> handler[w].event, id |-> handler[w].id,
                          pull |-> handler[w].pull, reviewers |-> handler[w].reviewers]
        BY <2>3 DEF Known
      <3>2. handler'[w] = [pc |-> "CreatePullRequest", event |-> handler[w].event,
                           id |-> handler[w].id, pull |-> copy, reviewers |-> handler[w].reviewers]
        BY <1>1, <2>2, <2>3, <3>1, Goes
      <3>3. QED
        BY <3>2
    <2>5. Same(copy, handler[w].event)
      BY <1>3, <2>1 DEF Same
    <2>6. \A x : (handler'[w].pc = "opened" /\ Same(handler'[w].event, x))
                 \/ (handler'[w].pc = "CreatePullRequest" /\ Same(handler'[w].pull, x)) =>
                 Recording(w, x)
      BY <1>1, <2>4, <2>5 DEF Recording, Same
    <2>7. \A f \in Opened' : OnGitHub(f)' /\ ~ Recorded(f)' /\ ~ Recording(w, f)'
      <3>1. ASSUME NEW f \in Opened'
            PROVE  OnGitHub(f) /\ ~ Recorded(f) /\ ~ Recording(w, f)
        BY <1>1, OneOnce DEF Opened
      <3>2. QED
        BY <1>1, <2>6, <3>1 DEF OnGitHub, Recorded, Recording, Same
    <2>8. ASSUME NEW k \in ghPulls', Recording(w, k)'
          PROVE  ~ Recorded(k)'
      <3>1. Recording(w, k)
        BY <2>6, <2>8 DEF Recording, Same
      <3>2. ~ Recorded(k)
        BY <1>1, <3>1, OneOnce
      <3>3. QED
        BY <1>1, <3>2 DEF Recorded, Same
    <2>9. \A m, j \in DOMAIN pulls' : Same(pulls'[m], pulls'[j]) => m = j
      BY <1>1 DEF OnceInv
    <2>10. \A d, f \in Opened' : Same(d, f) => d = f
      BY <1>1 DEF OnceInv, Opened
    <2>11. Handlers' = {w}
      BY DEF Handlers
    <2>12. OnceInv'
      BY <2>4, <2>7, <2>8, <2>9, <2>10, <2>11 DEF OnceInv, Same, Opened
    <2>13. ASSUME NEW k \in ghPulls', Unasked(k)'
           PROVE  Unasked(k)
      <3>1. CASE \E f \in Opened' : Same(f, k)
        BY <1>1, <3>1 DEF Unasked, Opened
      <3>2. CASE Recording(w, k)'
        <4>1. Recording(w, k)
          BY <2>6, <3>2 DEF Recording, Same
        <4>2. QED
          BY <4>1, OneOnce
      <3>3. CASE \E j \in DOMAIN pulls : Same(pulls[j], k) /\ ~ HasReviewers(pulls[j])
        BY <1>1, <3>3, OneOnce
      <3>4. QED
        BY <1>1, <2>11, <2>13, <3>1, <3>2, <3>3 DEF Unasked, HasReviewers, Same
    <2>14. Asked => Asked'
      BY <1>1, <2>13 DEF Asked
    <2>15. QED
      BY <2>12, <2>14
  <1>4. QED
    <2>1. \/ Return(w)
          \/ \E i \in findIssue(handler[w].event), g \in ghPulls :
                /\ g.repo = handler[w].event.repo /\ g.number = handler[w].event.number
                /\ Goto(w, "CreatePullRequest",
                        [repo |-> g.repo, number |-> g.number, branch |-> g.branch,
                         user |-> g.user, task |-> i.task, stage |-> "draft", comment |-> FALSE])
      BY Zenon DEF handlePullRequestOpened
    <2>2. CASE Return(w)
      BY <1>2, <2>2
    <2>3. ASSUME NEW i \in findIssue(handler[w].event), NEW g \in ghPulls,
                 g.repo = handler[w].event.repo, g.number = handler[w].event.number,
                 Goto(w, "CreatePullRequest",
                      [repo |-> g.repo, number |-> g.number, branch |-> g.branch,
                       user |-> g.user, task |-> i.task, stage |-> "draft", comment |-> FALSE])
          PROVE  OnceInv' /\ (Asked => Asked')
      <3>1. Same(g, handler[w].event)
        BY <2>3 DEF Same
      <3>2. QED
        BY <1>3, <2>3, <3>1, Zenon
    <2>4. QED
      BY <2>1, <2>2, <2>3, Zenon

\* The row is recorded, once.
LEMMA CreateOnce ==
  ASSUME NEW w, Handlers = {w}, PlacesInv, OnceInv, CreatePullRequest(w)
  PROVE  OnceInv' /\ (~ Fault /\ Asked => Asked')
  <1> DEFINE pull == handler[w].pull
             id == Max(DOMAIN pulls \union {0}) + 1
  <1>1. /\ UNCHANGED <<ghPulls, events>> /\ handler[w].pc = "CreatePullRequest" /\ w \in Handlers
        /\ Return(w) /\ Row(pull) /\ OnGitHub(pull)
    BY DEF CreatePullRequest, github, PlacesInv, Known
  <1>2. handler'[w] = NoHandler
    BY <1>1, Returns DEF PlacesInv
  <1>3. CASE pulls' = pulls
    BY <1>1, <1>2, <1>3, QuietOnce DEF NoHandler
  <1>4. CASE pulls' = [i \in DOMAIN pulls \union {id} |-> IF i = id THEN pull ELSE pulls[i]]
    <2>1. PICK n : n = id
      OBVIOUS
    <2>2. pulls' = [i \in DOMAIN pulls \union {n} |-> IF i = n THEN pull ELSE pulls[i]]
      BY <1>4, <2>1, Zenon
    <2>3. /\ n \notin DOMAIN pulls /\ DOMAIN pulls' = DOMAIN pulls \union {n} /\ pulls'[n] = pull
          /\ \A i \in DOMAIN pulls : pulls'[i] = pulls[i]
      BY <1>1, <2>1, <2>2, TableGrows DEF PlacesInv
    <2> HIDE DEF id
    <2>4. Recording(w, pull) /\ \A x : Same(pull, x) => Recording(w, x)
      BY <1>1 DEF Recording, Same
    <2>5. ~ Recorded(pull)
      <3>1. PICK g \in ghPulls : Same(g, pull)
        BY <1>1 DEF OnGitHub
      <3>2. Recording(w, g)
        BY <2>4, <3>1 DEF Same
      <3>3. ~ Recorded(g)
        BY <3>2, OneOnce
      <3>4. QED
        BY <3>1, <3>3 DEF Recorded, Same
    <2>6. \A i, j \in DOMAIN pulls' : Same(pulls'[i], pulls'[j]) => i = j
      BY <2>3, <2>5 DEF OnceInv, Recorded, Same
    <2>7. \A x : ~ Recording(w, x)'
      BY <1>2 DEF Recording, NoHandler
    <2>8. \A f \in Opened' : OnGitHub(f)' /\ ~ Recorded(f)'
      <3>1. ASSUME NEW f \in Opened'
            PROVE  OnGitHub(f) /\ ~ Recorded(f) /\ ~ Recording(w, f)
        BY <1>1, OneOnce DEF Opened
      <3>2. QED
        BY <1>1, <2>3, <2>4, <3>1 DEF OnGitHub, Recorded, Same
    <2>9. \A d, f \in Opened' : Same(d, f) => d = f
      BY <1>1 DEF OnceInv, Opened
    <2>10. Handlers' = {w} /\ handler'[w].pc = "idle"
      BY <1>2 DEF Handlers, NoHandler
    <2>11. OnceInv'
      BY <2>6, <2>7, <2>8, <2>9, <2>10 DEF OnceInv, Same, Opened
    <2>12. ASSUME NEW g \in ghPulls', Unasked(g)'
           PROVE  Unasked(g)
      <3>1. CASE \E f \in Opened' : Same(f, g)
        BY <1>1, <3>1 DEF Unasked, Opened
      <3>2. ASSUME NEW i \in DOMAIN pulls', Same(pulls'[i], g), ~ HasReviewers(pulls'[i])
            PROVE  Unasked(g)
        <4>1. CASE i = n
          <5>1. Recording(w, g)
            BY <2>3, <2>4, <3>2, <4>1
          <5>2. QED
            BY <5>1, OneOnce
        <4>2. CASE i \in DOMAIN pulls
          <5>1. Same(pulls[i], g) /\ ~ HasReviewers(pulls[i]) /\ handler[w].pc # "SetReview"
            BY <1>1, <2>3, <3>2, <4>2
          <5>2. QED
            BY <4>2, <5>1, OneOnce
        <4>3. QED
          BY <2>3, <4>1, <4>2
      <3>3. QED
        BY <2>7, <2>10, <2>12, <3>1, <3>2 DEF Unasked, HasReviewers, Same
    <2>13. Asked => Asked'
      BY <1>1, <2>12 DEF Asked
    <2>14. QED
      BY <2>11, <2>13
  <1>5. QED
    BY <1>3, <1>4, Zenon DEF CreatePullRequest

\* The handlers of pushes, that find the row and look for reviewers.
LEMMA PushOnce ==
  ASSUME NEW w, Handlers = {w}, PlacesInv, OnceInv, handlePullRequestPush(w) \/ AssignReviewers(w)
  PROVE  OnceInv' /\ (Asked => Asked')
  <1>1. /\ UNCHANGED <<pulls, ghPulls, events>> /\ w \in Handlers
        /\ handler[w].pc # "SetReview" /\ HandlerType /\ Known(w)
    BY DEF handlePullRequestPush, AssignReviewers, db, github, PlacesInv
  <1>2. ASSUME Return(w)
        PROVE  handler'[w].pc = "idle"
    BY <1>1, <1>2, Returns DEF NoHandler
  <1>3. ASSUME NEW place, NEW copy, Goto(w, place, copy)
        PROVE  handler'[w].pc = place
    <2>1. handler[w] = [pc |-> handler[w].pc, event |-> handler[w].event, id |-> handler[w].id,
                        pull |-> handler[w].pull, reviewers |-> handler[w].reviewers]
      BY <1>1 DEF Known
    <2>2. handler'[w] = [pc |-> place, event |-> handler[w].event,
                         id |-> handler[w].id, pull |-> copy, reviewers |-> handler[w].reviewers]
      BY <1>1, <1>3, <2>1, Goes
    <2>3. QED
      BY <2>2
  <1>4. ASSUME NEW R, handler' = [handler EXCEPT ![w].pc = "RequestReviewers", ![w].reviewers = R]
        PROVE  handler'[w].pc = "RequestReviewers"
    <2>1. handler = [k \in Handlers |-> handler[k]]
          /\ handler[w] = [pc |-> handler[w].pc, event |-> handler[w].event, id |-> handler[w].id,
                           pull |-> handler[w].pull, reviewers |-> handler[w].reviewers]
      BY <1>1 DEF HandlerType, Known
    <2>2. handler'[w] = [[handler[w] EXCEPT !.pc = "RequestReviewers"] EXCEPT !.reviewers = R]
      BY <1>1, <1>4, <2>1
    <2>3. QED
      BY <2>1, <2>2
  <1>5. handler'[w].pc \in {"idle", "AssignReviewers", "CreateIssueComment", "RequestReviewers"}
    <2>1. CASE handlePullRequestPush(w)
      BY <1>2, <1>3, <2>1 DEF handlePullRequestPush
    <2>2. CASE AssignReviewers(w)
      BY <1>2, <1>4, <2>2 DEF AssignReviewers
    <2>3. QED
      BY <2>1, <2>2
  <1>6. QED
    BY <1>1, <1>5, QuietOnce

\* Who is about to be asked was not asked before.
LEMMA NotAsked ==
  ASSUME NEW w, Handlers = {w}, PlacesInv, RowsInv, OnceInv, Asked,
         handler[w].pc = "RequestReviewers"
  PROVE  AtGitHub(handler[w].pull).requests = <<>>
  <1> DEFINE pull == handler[w].pull
             id == handler[w].id
             g == AtGitHub(pull)
  <1>1. OnGitHub(pull)
    BY DEF PlacesInv, Known
  <1>2. id \in DOMAIN pulls /\ pull = pulls[id] /\ ~ HasReviewers(pulls[id])
    BY DEF RowsInv, RowRead
  <1>3. g \in ghPulls /\ Same(g, pull)
    BY <1>1, AtGitHubIs
  <1> HIDE DEF g
  <1>4. Same(pulls[id], g)
    BY <1>2, <1>3 DEF Same
  <1>5. Unasked(g)
    BY <1>2, <1>4, OneOnce
  <1>6. g.requests = <<>>
    BY <1>3, <1>5 DEF Asked
  <1>7. QED
    BY <1>6 DEF g

\* The reviewers are asked, and the row will say so.
LEMMA RequestOnce ==
  ASSUME NEW w, Handlers = {w}, PlacesInv, RowsInv, OnceInv, RequestReviewers(w)
  PROVE  OnceInv' /\ (~ Fault /\ Asked => Asked')
  <1> DEFINE pull == handler[w].pull
             id == handler[w].id
             g == AtGitHub(pull)
             copy == [pull EXCEPT !.stage = "review"]
  <1>1. /\ UNCHANGED <<pulls, events>> /\ handler[w].pc = "RequestReviewers" /\ w \in Handlers
        /\ HandlerType /\ Known(w) /\ OnGitHub(pull)
    BY DEF RequestReviewers, db, PlacesInv, Known
  <1>2. id \in DOMAIN pulls /\ pull = pulls[id] /\ ~ HasReviewers(pulls[id])
    BY <1>1 DEF RowsInv, RowRead
  <1>3. CASE Return(w) /\ UNCHANGED ghPulls
    <2>1. handler'[w].pc = "idle"
      BY <1>1, <1>3, Returns DEF NoHandler
    <2>2. QED
      BY <1>1, <1>3, <2>1, QuietOnce
  <1>4. CASE /\ ghPulls' = (ghPulls \ {g})
                   \union {[g EXCEPT !.requests = Append(@, handler[w].reviewers)]}
             /\ Goto(w, "SetReview", copy)
    <2>1. g \in ghPulls /\ Same(g, pull) /\ PullRecord(g)
      BY <1>1, AtGitHubIs
    <2>2. PICK R : R = Append(g.requests, handler[w].reviewers)
      OBVIOUS
    <2>3. PICK new : new = [g EXCEPT !.requests = R]
      OBVIOUS
    <2>4. ghPulls' = (ghPulls \ {g}) \union {new}
      BY <1>4, <2>2, <2>3, Zenon
    <2>5. PullRecord(new) /\ Same(new, g) /\ new.requests = R
      BY <2>1, <2>3, PullColumns
    <2>6. handler'[w].pc = "SetReview" /\ handler'[w].id = id
      <3>1. handler[w] = [pc |-> handler[w].pc, event |-> handler[w].event, id |-> id,
                          pull |-> pull, reviewers |-> handler[w].reviewers]
        BY <1>1 DEF Known
      <3>2. handler'[w] = [pc |-> "SetReview", event |-> handler[w].event,
                           id |-> id, pull |-> copy, reviewers |-> handler[w].reviewers]
        BY <1>1, <1>4, <3>1, Goes
      <3>3. QED
        BY <3>2
    <2> HIDE DEF g, copy
    <2>7. GitHubKeeps /\ \A x \in ghPulls' : \E k \in ghPulls : Same(k, x)
      BY <2>1, <2>4, <2>5 DEF GitHubKeeps, Same
    <2>8. \A i \in DOMAIN pulls' : i \in DOMAIN pulls /\ Same(pulls'[i], pulls[i])
      BY <1>1 DEF Same
    <2>9. OnceInv'
      BY <1>1, <2>6, <2>7, <2>8, OnceKept
    <2>10. ASSUME Asked
           PROVE  Asked'
      <3>1. g.requests = <<>>
        BY <1>1, <2>10, NotAsked DEF g
      <3>2. Len(R) = 1
        BY <2>2, <3>1
      <3>3. ~ Unasked(new)'
        <4>1. Recorded(new)
          BY <1>2, <2>1, <2>5 DEF Recorded, Same
        <4>2. \A e \in Opened' : ~ Same(e, new)
          <5>1. ASSUME NEW e \in Opened', Same(e, new)
                PROVE  FALSE
            <6>1. e \in Opened
              BY <1>1 DEF Opened
            <6>2. ~ Recorded(e)
              BY <6>1, OneOnce
            <6>3. QED
              BY <4>1, <5>1, <6>2 DEF Recorded, Same
          <5>2. QED
            BY <5>1
        <4>3. ~ Recording(w, new)'
          BY <2>6 DEF Recording
        <4>4. \A i \in DOMAIN pulls' : Same(pulls'[i], new) => i = id
          BY <1>1, <1>2, <2>1, <2>5 DEF OnceInv, Same
        <4>5. Handlers' = {w}
          BY DEF Handlers
        <4>6. QED
          BY <2>6, <4>2, <4>3, <4>4, <4>5 DEF Unasked, Same
      <3>4. ASSUME NEW k \in ghPulls, Unasked(k)'
            PROVE  Unasked(k)
        <4>1. CASE \E f \in Opened' : Same(f, k)
          BY <1>1, <4>1 DEF Unasked, Opened
        <4>2. ~ Recording(w, k)'
          BY <2>6 DEF Recording
        <4>3. CASE \E i \in DOMAIN pulls : Same(pulls[i], k) /\ ~ HasReviewers(pulls[i])
          BY <1>1, <4>3, OneOnce
        <4>4. Handlers' = {w}
          BY DEF Handlers
        <4>5. QED
          BY <1>1, <3>4, <4>1, <4>2, <4>3, <4>4 DEF Unasked, HasReviewers, Same
      <3>5. ASSUME NEW k \in ghPulls'
            PROVE  /\ k.requests = <<>> \/ Len(k.requests) = 1
                   /\ Unasked(k)' => k.requests = <<>>
        <4>1. CASE k = new
          BY <2>5, <3>2, <3>3, <4>1
        <4>2. CASE k \in ghPulls
          BY <2>10, <3>4, <4>2 DEF Asked
        <4>3. QED
          BY <2>4, <4>1, <4>2
      <3>6. QED
        BY <3>5 DEF Asked
    <2>11. QED
      BY <2>9, <2>10
  <1>5. QED
    BY <1>3, <1>4, Zenon DEF RequestReviewers

\* Where a handler is after it went on or returned.
LEMMA Places ==
  ASSUME NEW w, Handlers = {w}, PlacesInv
  PROVE  /\ Return(w) => handler'[w].pc = "idle"
         /\ \A place, copy : Goto(w, place, copy) =>
               handler'[w].pc = place /\ handler'[w].id = handler[w].id
  <1>1. /\ w \in Handlers /\ HandlerType
        /\ handler[w] = [pc |-> handler[w].pc, event |-> handler[w].event, id |-> handler[w].id,
                         pull |-> handler[w].pull, reviewers |-> handler[w].reviewers]
    BY DEF PlacesInv, Known
  <1>2. ASSUME Return(w)
        PROVE  handler'[w].pc = "idle"
    BY <1>1, <1>2, Returns DEF NoHandler
  <1>3. ASSUME NEW place, NEW copy, Goto(w, place, copy)
        PROVE  handler'[w].pc = place /\ handler'[w].id = handler[w].id
    <2>1. handler'[w] = [pc |-> place, event |-> handler[w].event,
                         id |-> handler[w].id, pull |-> copy, reviewers |-> handler[w].reviewers]
      BY <1>1, <1>3, Goes
    <2>2. QED
      BY <2>1
  <1>4. QED
    BY <1>2, <1>3

\* A handler that writes the row of its pull request, or removes it.
LEMMA WriteOnce ==
  ASSUME NEW w, Handlers = {w}, OnceInv, UNCHANGED <<ghPulls, events>>,
         handler'[w].pc \in {"idle", "CreateIssueComment"},
         \A i \in DOMAIN pulls' :
            /\ i \in DOMAIN pulls /\ Same(pulls'[i], pulls[i])
            /\ HasReviewers(pulls[i]) \/ (handler[w].pc = "SetReview" /\ handler[w].id = i) =>
                  HasReviewers(pulls'[i])
  PROVE  OnceInv' /\ (Asked => Asked')
  <1>1. GitHubKeeps /\ \A g \in ghPulls' : \E k \in ghPulls : Same(k, g) /\ k.requests = g.requests
    BY DEF GitHubKeeps, Same
  <1>2. OnceInv'
    BY <1>1, OnceKept
  <1>3. ASSUME Asked
        PROVE  Asked'
    BY <1>1, <1>3, AskedKept
  <1>4. QED
    BY <1>2, <1>3

LEMMA SetReviewOnce ==
  ASSUME NEW w, Handlers = {w}, PlacesInv, RowsInv, OnceInv, SetReview(w)
  PROVE  OnceInv' /\ (~ Fault /\ Asked => Asked')
  <1> DEFINE pull == handler[w].pull
             row == pulls[handler[w].id]
  <1>1. /\ UNCHANGED <<ghPulls, events>> /\ handler[w].pc = "SetReview" /\ w \in Handlers
    BY DEF SetReview, github
  <1>2. /\ handler[w].id \in DOMAIN pulls /\ Row(row) /\ pull = [row EXCEPT !.stage = "review"]
    BY <1>1 DEF RowsInv, RowRead, TableInv
  <1>3. Row(pull) /\ Same(pull, row) /\ pull.stage = "review"
    BY <1>2, RowColumns
  <1>4. CASE Fault /\ Return(w) /\ UNCHANGED pulls
    <2>1. handler'[w].pc = "idle"
      BY <1>4, Places
    <2>2. OnceInv'
      BY <1>1, <1>4, <2>1, QuietOnce
    <2>3. QED
      BY <1>4, <2>2
  <1>5. CASE UpdatePullRequest(w, pull) /\ Goto(w, "CreateIssueComment", pull)
    <2>1. handler'[w].pc = "CreateIssueComment"
      BY <1>5, Places
    <2>2. /\ DOMAIN pulls' = DOMAIN pulls /\ pulls'[handler[w].id] = pull
          /\ \A i \in DOMAIN pulls : i # handler[w].id => pulls'[i] = pulls[i]
      BY <1>1, <1>2, <1>3, <1>5, RowWritten
    <2>3. \A i \in DOMAIN pulls' :
            /\ i \in DOMAIN pulls /\ Same(pulls'[i], pulls[i])
            /\ HasReviewers(pulls[i]) \/ (handler[w].pc = "SetReview" /\ handler[w].id = i) =>
                  HasReviewers(pulls'[i])
      BY <1>3, <2>2 DEF HasReviewers, Same
    <2>4. QED
      BY <1>1, <2>1, <2>3, WriteOnce
  <1>6. QED
    BY <1>4, <1>5 DEF SetReview

LEMMA CommentOnce ==
  ASSUME NEW w, Handlers = {w}, PlacesInv, OnceInv, CreateIssueComment(w)
  PROVE  OnceInv' /\ (Asked => Asked')
  <1> DEFINE pull == handler[w].pull
             g == AtGitHub(pull)
  <1>1. /\ UNCHANGED <<pulls, events>> /\ handler[w].pc = "CreateIssueComment" /\ OnGitHub(pull)
    BY DEF CreateIssueComment, db, PlacesInv, Known
  <1>2. CASE Return(w) /\ UNCHANGED ghPulls
    <2>1. handler'[w].pc = "idle"
      BY <1>2, Places
    <2>2. QED
      BY <1>1, <1>2, <2>1, QuietOnce
  <1>3. ASSUME NEW c, NEW copy, ghPulls' = (ghPulls \ {g}) \union {[g EXCEPT !.comments = c]},
               Goto(w, "SetComment", copy)
        PROVE  OnceInv' /\ (Asked => Asked')
    <2>1. handler'[w].pc = "SetComment"
      BY <1>3, Places
    <2>2. g \in ghPulls /\ PullRecord(g)
      BY <1>1, AtGitHubIs
    <2>3. PICK new : new = [g EXCEPT !.comments = c]
      OBVIOUS
    <2>4. PullRecord(new) /\ Same(new, g) /\ new.requests = g.requests
      BY <2>2, <2>3, PullColumns
    <2>5. ghPulls' = (ghPulls \ {g}) \union {new}
      BY <1>3, <2>3, Zenon
    <2> HIDE DEF g
    <2>6. GitHubKeeps
          /\ \A x \in ghPulls' : \E k \in ghPulls : Same(k, x) /\ k.requests = x.requests
      BY <2>2, <2>4, <2>5 DEF GitHubKeeps, Same
    <2>7. \A i \in DOMAIN pulls' : i \in DOMAIN pulls /\ pulls'[i] = pulls[i] /\ Same(pulls'[i], pulls[i])
      BY <1>1 DEF Same
    <2>8. OnceInv'
      BY <1>1, <2>1, <2>6, <2>7, OnceKept
    <2>9. ASSUME Asked
          PROVE  Asked'
      BY <1>1, <2>1, <2>6, <2>7, <2>9, AskedKept DEF HasReviewers
    <2>10. QED
      BY <2>8, <2>9
  <1>4. QED
    BY <1>2, <1>3, Zenon DEF CreateIssueComment

\* The last step of a handler.
LEMMA LastOnce ==
  ASSUME NEW w, Handlers = {w}, PlacesInv, RowsInv, OnceInv,
         SetComment(w) \/ handlePullRequestReview(w) \/ HandleMergingPR(w)
  PROVE  OnceInv' /\ (Asked => Asked')
  <1> DEFINE pull == handler[w].pull
             id == handler[w].id
             row == pulls[id]
  <1>1. /\ UNCHANGED <<ghPulls, events>> /\ w \in Handlers /\ Return(w)
        /\ handler[w].pc \in {"SetComment", "review", "closed"}
    BY DEF SetComment, handlePullRequestReview, HandleMergingPR, github
  <1>2. handler'[w].pc = "idle"
    BY <1>1, Places
  <1>3. id \in DOMAIN pulls /\ Row(row)
    BY <1>1 DEF RowsInv, RowRead, TableInv
  <1>4. CASE UNCHANGED pulls
    BY <1>1, <1>2, <1>4, QuietOnce
  <1>5. ASSUME NEW copy, Row(copy), Same(copy, row), HasReviewers(row) => HasReviewers(copy),
               UpdatePullRequest(w, copy)
        PROVE  OnceInv' /\ (Asked => Asked')
    <2>1. /\ DOMAIN pulls' = DOMAIN pulls /\ pulls'[id] = copy
          /\ \A i \in DOMAIN pulls : i # id => pulls'[i] = pulls[i]
      BY <1>1, <1>3, <1>5, RowWritten
    <2>2. \A i \in DOMAIN pulls' :
            /\ i \in DOMAIN pulls /\ Same(pulls'[i], pulls[i])
            /\ HasReviewers(pulls[i]) => HasReviewers(pulls'[i])
      BY <1>5, <2>1 DEF Same
    <2>3. QED
      BY <1>1, <1>2, <2>2, WriteOnce
  <1>6. CASE SetComment(w) /\ UpdatePullRequest(w, pull)
    <2>1. pull = [row EXCEPT !.comment = TRUE]
      <3>1. handler[w].pc = "SetComment"
        BY <1>6 DEF SetComment
      <3>2. QED
        BY <1>1, <3>1 DEF RowsInv, RowRead
    <2>2. PICK yes : yes = TRUE
      OBVIOUS
    <2>3. pull = [row EXCEPT !.comment = yes]
      BY <2>1, <2>2, Zenon
    <2>4. Row(pull) /\ Same(pull, row) /\ pull.stage = row.stage
      BY <1>3, <2>3, RowColumns
    <2>5. QED
      BY <1>5, <1>6, <2>4 DEF HasReviewers
  <1>7. CASE handlePullRequestReview(w) /\ UpdatePullRequest(w, [pull EXCEPT !.stage = "approved"])
    <2>1. pull = row
      <3>1. handler[w].pc = "review"
        BY <1>7 DEF handlePullRequestReview
      <3>2. QED
        BY <1>1, <3>1 DEF RowsInv, RowRead
    <2>2. PICK copy : copy = [row EXCEPT !.stage = "approved"]
      OBVIOUS
    <2>3. Row(copy) /\ Same(copy, row) /\ copy.stage = "approved"
      BY <1>3, <2>2, RowColumns
    <2>4. UpdatePullRequest(w, copy)
      BY <1>7, <2>1, <2>2, Zenon
    <2>5. QED
      BY <1>5, <2>3, <2>4 DEF HasReviewers
  <1>8. CASE pulls' = [i \in DOMAIN pulls \ {id} |-> pulls[i]]
    <2>1. \A i \in DOMAIN pulls' :
            i \in DOMAIN pulls /\ Same(pulls'[i], pulls[i]) /\ pulls'[i] = pulls[i]
      BY <1>8 DEF Same
    <2>2. QED
      BY <1>1, <1>2, <2>1, WriteOnce DEF HasReviewers
  <1>9. QED
    BY <1>4, <1>6, <1>7, <1>8, Zenon DEF SetComment, handlePullRequestReview, HandleMergingPR

\* A pull request is opened; its event is the only one.
LEMMA OpenOnce ==
  ASSUME NEW w, Handlers = {w}, PlacesInv, OnceInv, NEW repo \in Repos, NEW user, NEW branch,
         NEW issue, Open(repo, user, branch, issue)
  PROVE  OnceInv' /\ (Asked => Asked')
  <1>1. PICK pull : /\ PullRecord(pull) /\ pull.repo = repo /\ pull.requests = <<>>
                    /\ pull.number = nextIssueNumber(repo) /\ ghPulls' = ghPulls \union {pull}
                    /\ events' = events \union {[type |-> "opened", repo |-> repo,
                                                number |-> pull.number, fixes |-> issue.number]}
                    /\ UNCHANGED <<tests, db, counters, ghIssues, handler, sync, faults>>
                    /\ \A g \in ghPulls : ~ Same(g, pull)
    BY OpenIs
  <1>2. PICK e : e = [type |-> "opened", repo |-> repo, number |-> pull.number,
                      fixes |-> issue.number]
    OBVIOUS
  <1>3. UNCHANGED <<pulls, handler>> /\ Same(e, pull) /\ e.type = "opened" /\ w \in Handlers
        /\ events' = events \union {e}
    BY <1>1, <1>2 DEF db, Same
  <1>4. \A f \in Opened' : f = e \/ f \in Opened
    BY <1>3 DEF Opened
  <1>5. \A x : Same(x, pull) => ~ OnGitHub(x)
    BY <1>1 DEF OnGitHub, Same
  <1>6. \A x : Same(x, pull) => ~ Recorded(x) /\ ~ Recording(w, x) /\ x \notin Opened
               /\ \A f \in Opened : ~ Same(f, x)
    <2>1. ASSUME NEW x, Same(x, pull)
          PROVE  ~ Recorded(x) /\ ~ Recording(w, x) /\ x \notin Opened
                 /\ \A f \in Opened : ~ Same(f, x)
      <3>1. ASSUME NEW y, OnGitHub(y), Same(y, x)
            PROVE  FALSE
        BY <1>5, <2>1, <3>1 DEF Same
      <3>2. \A i \in DOMAIN pulls : OnGitHub(pulls[i])
        BY DEF PlacesInv
      <3>3. handler[w].pc = "CreatePullRequest" => OnGitHub(handler[w].pull)
        BY <1>3 DEF PlacesInv, Known
      <3>4. (handler[w].pc = "opened" => OnGitHub(handler[w].event))
            /\ \A f \in Opened : OnGitHub(f)
        BY OneOnce
      <3>5. QED
        BY <3>1, <3>2, <3>3, <3>4 DEF Recorded, Recording, Same
    <2>2. QED
      BY <2>1
  <1>7. \A x : OnGitHub(x) => \E g \in ghPulls' : Same(g, x)
    BY <1>1 DEF OnGitHub, Same
  <1>8. \A f \in Opened' : OnGitHub(f)' /\ ~ Recorded(f)' /\ ~ Recording(w, f)'
    <2>1. ASSUME NEW f \in Opened
          PROVE  OnGitHub(f)' /\ ~ Recorded(f)' /\ ~ Recording(w, f)'
      <3>1. OnGitHub(f) /\ ~ Recorded(f) /\ ~ Recording(w, f)
        BY OneOnce
      <3>2. QED
        BY <1>3, <1>7, <3>1 DEF OnGitHub, Recorded, Recording, Same
    <2>2. OnGitHub(e)' /\ ~ Recorded(e)' /\ ~ Recording(w, e)'
      <3>1. ~ Recorded(e) /\ ~ Recording(w, e) /\ Same(pull, e) /\ pull \in ghPulls'
        BY <1>1, <1>3, <1>6 DEF Same
      <3>2. QED
        BY <1>3, <3>1 DEF OnGitHub, Recorded, Recording, Same
    <2>3. QED
      BY <1>4, <2>1, <2>2
  <1>9. ASSUME NEW g \in ghPulls', Recording(w, g)'
        PROVE  ~ Recorded(g)'
    <2>1. Recording(w, g)
      BY <1>3, <1>9 DEF Recording, Same
    <2>2. g \in ghPulls
      BY <1>1, <1>6, <2>1 DEF Same
    <2>3. ~ Recorded(g)
      BY <2>1, <2>2, OneOnce
    <2>4. QED
      BY <1>3, <2>3 DEF Recorded, Same
  <1>10. \A i, j \in DOMAIN pulls' : Same(pulls'[i], pulls'[j]) => i = j
    BY <1>3 DEF OnceInv
  <1>11. \A d, f \in Opened' : Same(d, f) => d = f
    <2>1. \A f \in Opened : ~ Same(f, e) /\ ~ Same(e, f)
      BY <1>3, <1>6 DEF Same
    <2>2. QED
      BY <1>4, <2>1 DEF OnceInv
  <1>12. handler'[w].pc = "opened" => OnGitHub(handler[w].event)'
    <2>1. handler[w].pc = "opened" => OnGitHub(handler[w].event)
      BY OneOnce
    <2>2. QED
      BY <1>3, <1>7, <2>1 DEF OnGitHub
  <1>13. Handlers' = {w}
    BY DEF Handlers
  <1>14. OnceInv'
    BY <1>8, <1>9, <1>10, <1>11, <1>12, <1>13 DEF OnceInv, Same, Opened
  <1>15. ASSUME NEW g \in ghPulls, Unasked(g)'
         PROVE  Unasked(g)
    <2>1. ~ Same(e, g)
      BY <1>1, <1>3 DEF Same
    <2>2. CASE \E f \in Opened' : Same(f, g)
      BY <1>4, <2>1, <2>2 DEF Unasked
    <2>3. CASE Recording(w, g)'
      <3>1. Recording(w, g)
        BY <1>3, <2>3 DEF Recording, Same
      <3>2. QED
        BY <3>1, OneOnce
    <2>4. CASE \E i \in DOMAIN pulls : /\ Same(pulls[i], g) /\ ~ HasReviewers(pulls[i])
                                       /\ ~ (handler[w].pc = "SetReview" /\ handler[w].id = i)
      BY <2>4, OneOnce
    <2>5. QED
      BY <1>3, <1>13, <1>15, <2>2, <2>3, <2>4 DEF Unasked, HasReviewers, Same
  <1>16. Asked => Asked'
    BY <1>1, <1>15 DEF Asked
  <1>17. QED
    BY <1>14, <1>16

LEMMA CloseOnce ==
  ASSUME NEW w, Handlers = {w}, PlacesInv, OnceInv, NEW pull \in ghPulls, NEW merged,
         Close(pull, merged)
  PROVE  OnceInv' /\ (Asked => Asked')
  <1>1. PICK no : ghPulls' = (ghPulls \ {pull}) \union {[pull EXCEPT !.open = no]}
    BY Zenon DEF Close
  <1>2. UNCHANGED <<pulls, handler>>
    BY DEF Close, Send, db
  <1>3. PICK new : new = [pull EXCEPT !.open = no]
    OBVIOUS
  <1>4. PullRecord(new) /\ Same(new, pull) /\ new.requests = pull.requests
    BY <1>3, PullColumns DEF PlacesInv, NumbersInv
  <1>5. ghPulls' = (ghPulls \ {pull}) \union {new}
    BY <1>1, <1>3, Zenon
  <1>6. GitHubKeeps
        /\ \A x \in ghPulls' : \E k \in ghPulls : Same(k, x) /\ k.requests = x.requests
    BY <1>4, <1>5 DEF GitHubKeeps, Same
  <1>7. \A i \in DOMAIN pulls' : i \in DOMAIN pulls /\ pulls'[i] = pulls[i] /\ Same(pulls'[i], pulls[i])
    BY <1>2 DEF Same
  <1>8. \A e \in events' : e.type = "opened" => e \in events
    BY DEF Close, Send
  <1>9. OnceInv'
    BY <1>2, <1>6, <1>7, <1>8, OnceKept
  <1>10. ASSUME Asked
         PROVE  Asked'
    BY <1>2, <1>6, <1>7, <1>8, <1>10, AskedKept DEF HasReviewers
  <1>11. QED
    BY <1>9, <1>10

LEMMA AskedStep ==
  ASSUME NEW w, Handlers = {w}, AskedInv, [Next]_vars
  PROVE  AskedInv'
  <1>1. PlacesInv /\ RowsInv /\ OnceInv /\ faults \in Nat /\ (faults = 0 => Asked)
    BY DEF AskedInv
  <1>2. PlacesInv' /\ RowsInv' /\ faults' \in Nat /\ (faults' = 0 => faults' = faults)
    BY <1>1, PlacesStep, RowsStep, FaultsStep
  <1>3. OnceInv' /\ (~ Fault /\ Asked => Asked')
    <2>1. CASE HandlerStep(w)
      BY <1>1, <2>1, HandleOnce, OpenedOnce, CreateOnce, PushOnce, RequestOnce, SetReviewOnce,
         CommentOnce, LastOnce DEF HandlerStep
    <2>2. CASE UNCHANGED <<pulls, ghPulls, handler>>
               /\ \A e \in events' : e.type = "opened" => e \in events
      BY <1>1, <2>2, QuietOnce
    <2>3. CASE GitHubStep
      <3>1. CASE PushTests
        BY <2>2, <3>1 DEF PushTests, db, github
      <3>2. ASSUME NEW repo \in Repos, NEW branch \in Branches, NEW issue \in ghIssues,
                   NEW user \in Group[repo], Open(repo, user, branch, issue)
            PROVE  OnceInv' /\ (Asked => Asked')
        BY <1>1, <3>2, OpenOnce
      <3>3. ASSUME NEW pull \in ghPulls, NEW b, Push(pull, b) \/ Approve(pull, b)
            PROVE  OnceInv' /\ (Asked => Asked')
        <4>1. UNCHANGED <<pulls, ghPulls, handler>>
          BY <3>3 DEF Push, Approve, Send, db
        <4>2. \E e : events' = events \union {e} /\ e.type # "opened"
          <5>1. CASE Push(pull, b)
            <6>1. PICK e : e = [type |-> "push", repo |-> pull.repo, branch |-> pull.branch,
                                pass |-> b]
              OBVIOUS
            <6>2. events' = events \union {e}
              BY <5>1, <6>1, Zenon DEF Push, Send
            <6>3. e.type = "push"
              BY <6>1
            <6>4. QED
              BY <6>2, <6>3
          <5>2. CASE Approve(pull, b)
            <6>1. PICK e : e = [type |-> "review", repo |-> pull.repo, number |-> pull.number,
                                teacher |-> b]
              OBVIOUS
            <6>2. events' = events \union {e}
              BY <5>2, <6>1, Zenon DEF Approve, Send
            <6>3. e.type = "review"
              BY <6>1
            <6>4. QED
              BY <6>2, <6>3
          <5>3. QED
            BY <3>3, <5>1, <5>2
        <4>3. \A e \in events' : e.type = "opened" => e \in events
          BY <4>2
        <4>4. QED
          BY <1>1, <4>1, <4>3, QuietOnce
      <3>4. ASSUME NEW pull \in ghPulls, NEW merged, Close(pull, merged)
            PROVE  OnceInv' /\ (Asked => Asked')
        BY <1>1, <3>4, CloseOnce
      <3>5. QED
        BY <2>3, <3>1, <3>2, <3>3, <3>4, Zenon DEF GitHubStep
    <2>4. CASE synchronizeTasksWithIssues
      BY <2>2, <2>4 DEF synchronizeTasksWithIssues, SynchronizeAssignmentTasks, CreateIssues,
                        synchronizeRepo, db, github
    <2>5. CASE Stop
      <3>1. UNCHANGED <<pulls, ghPulls, events>> /\ Fault
        BY <2>5 DEF Stop, db, github
      <3>2. handler'[w].pc = "idle"
        BY <2>5 DEF Stop, NoHandler
      <3>3. OnceInv'
        BY <1>1, <3>1, <3>2, QuietOnce
      <3>4. QED
        BY <3>1, <3>3
    <2>6. CASE UNCHANGED vars
      BY <2>2, <2>6 DEF vars, db, github
    <2>7. QED
      BY <2>1, <2>3, <2>4, <2>5, <2>6 DEF Next
  <1>4. QED
    BY <1>1, <1>2, <1>3, NoFault DEF AskedInv

LEMMA InitAsked ==
  ASSUME NEW w, Handlers = {w}, Init
  PROVE  AskedInv
  <1>1. /\ ghPulls = {} /\ events = {} /\ DOMAIN pulls = {} /\ faults = 0
        /\ handler[w].pc = "idle"
    BY DEF Init, NoHandler
  <1>2. OnceInv
    BY <1>1 DEF OnceInv, Opened, Recording
  <1>3. QED
    BY <1>1, <1>2, InitPlaces, InitRows DEF AskedInv, Asked

\* With one event at a time, for any groups, teachers, branches and tasks: reviewers are
\* asked at most once for a pull request, unless a call fails (AssignReviewers).
THEOREM PullsAsked ==
  ASSUME NEW w, Handlers = {w}
  PROVE  Spec => []AssignedOnce
  <1>1. Init => AskedInv
    BY InitAsked
  <1>2. AskedInv /\ [Next]_vars => AskedInv'
    BY AskedStep
  <1>3. AskedInv => AssignedOnce
    <2>1. ASSUME AskedInv, faults = 0, NEW g \in ghPulls
          PROVE  Len(g.requests) <= 1
      <3>1. g.requests = <<>> \/ Len(g.requests) = 1
        BY <2>1 DEF AskedInv, Asked
      <3>2. Len(<<>>) <= 1
        OBVIOUS
      <3>3. g.requests = <<>> => Len(g.requests) <= 1
        BY <3>2, Zenon
      <3>4. Len(g.requests) = 1 => Len(g.requests) <= 1
        OBVIOUS
      <3>5. QED
        BY <3>1, <3>3, <3>4
    <2>2. QED
      BY <2>1 DEF AssignedOnce
  <1>4. QED
    BY <1>1, <1>2, <1>3, PTL DEF Spec

-----------------------------------------------------------------------------
(* Teachers are asked in turn.                                             *)

LEMMA OnePending ==
  ASSUME NEW w, Handlers = {w}, NEW u
  PROVE  Cardinality(Pending(u)) =
            IF handler[w].pc = "RequestReviewers" /\ u \in handler[w].reviewers THEN 1 ELSE 0
  <1>1. Cardinality({}) = 0 /\ Cardinality({w}) = 1
    BY FS_EmptySet, FS_Singleton
  <1>2. CASE handler[w].pc = "RequestReviewers" /\ u \in handler[w].reviewers
    <2>1. Pending(u) = {w}
      BY <1>2 DEF Pending
    <2>2. QED
      BY <1>1, <1>2, <2>1
  <1>3. CASE ~ (handler[w].pc = "RequestReviewers" /\ u \in handler[w].reviewers)
    <2>1. Pending(u) = {}
      BY <1>3 DEF Pending
    <2>2. QED
      BY <1>1, <1>3, <2>1
  <1>4. QED
    BY <1>2, <1>3

\* The one with the fewest reviews.
LEMMA NextReviewer ==
  ASSUME NEW users, users # {}, NEW counter, \A u \in users : counter[u] \in Nat
  PROVE  /\ getNextReviewer(users, counter) \in users
         /\ \A v \in users : counter[getNextReviewer(users, counter)] <= counter[v]
  <1> DEFINE T == {counter[u] : u \in users}
  <1>1. T \subseteq Nat /\ T # {}
    OBVIOUS
  <1>2. PICK x \in T : \A y \in T : x <= y
    BY <1>1, LeastNumber
  <1>3. PICK u \in users : counter[u] = x
    OBVIOUS
  <1>4. \A v \in users : counter[u] <= counter[v]
    BY <1>2, <1>3
  <1>5. QED
    BY <1>4 DEF getNextReviewer

\* A pull request is replaced by one with the same number.
LEMMA NewPullRequest ==
  ASSUME PlacesInv, NEW g \in ghPulls, NEW new, Same(new, g), new \in ghPulls
  PROVE  new = g
  <1>1. g.repo \in Repos /\ Numbered(Items(g.repo))
    BY DEF PlacesInv, NumbersInv
  <1>2. g \in Items(g.repo) /\ new \in Items(g.repo) /\ new.number = g.number
    BY DEF Items, Same
  <1>3. QED
    BY <1>1, <1>2, NumbersDiffer

LEMMA ReplacedFinite ==
  ASSUME NEW S, IsFiniteSet(S), NEW x \in S, NEW y, y \in S => y = x
  PROVE  /\ IsFiniteSet((S \ {x}) \union {y})
         /\ Cardinality((S \ {x}) \union {y}) = Cardinality(S)
  <1>1. PICK R : R = S \ {x}
    OBVIOUS
  <1>2. PICK m : m = Cardinality(S)
    OBVIOUS
  <1>3. IsFiniteSet(R) /\ Cardinality(R) = m - 1 /\ m \in Nat
    BY <1>1, <1>2, FS_RemoveElement, FS_CardinalityType
  <1>4. y \notin R
    BY <1>1
  <1>5. IsFiniteSet(R \union {y}) /\ Cardinality(R \union {y}) = m - 1 + 1
    BY <1>3, <1>4, FS_AddElement
  <1>6. m - 1 + 1 = m
    BY <1>3
  <1>7. QED
    BY <1>1, <1>2, <1>5, <1>6

\* Nothing is counted.
LEMMA CountsStay ==
  ASSUME NEW w, Handlers = {w}, Counts, UNCHANGED counters, IsFiniteSet(ghPulls'),
         \A u \in Teachers : Cardinality(Requested(u)') = Cardinality(Requested(u)),
         handler' = handler \/ (/\ handler[w].pc # "RequestReviewers"
                                /\ handler'[w].pc # "RequestReviewers")
  PROVE  Counts'
  <1>1. UNCHANGED <<teacherReviewCounter, groupReviewCounter>>
    BY DEF counters
  <1>2. ASSUME NEW u \in Teachers
        PROVE  Pending(u)' = Pending(u)
    <2>1. Handlers' = {w}
      BY DEF Handlers
    <2>2. QED
      BY <2>1 DEF Pending
  <1>3. ASSUME NEW u \in Teachers
        PROVE  teacherReviewCounter'[u] = Cardinality(Requested(u)') + Cardinality(Pending(u)')
    BY <1>1, <1>2 DEF Counts
  <1>4. QED
    BY <1>1, <1>3 DEF Counts, Repos

LEMMA CountsQuiet ==
  ASSUME NEW w, Handlers = {w}, Counts, UNCHANGED <<teacherReviewCounter, groupReviewCounter, ghPulls>>,
         handler' = handler \/ (/\ handler[w].pc # "RequestReviewers"
                                /\ handler'[w].pc # "RequestReviewers")
  PROVE  Counts'
  <1>1. \A u \in Teachers : Requested(u)' = Requested(u)
    BY DEF Requested
  <1>2. IsFiniteSet(ghPulls') /\ UNCHANGED counters
    BY DEF Counts, counters
  <1>3. QED
    BY <1>1, <1>2, CountsStay

\* A pull request changes, but not who was asked.
LEMMA CountsChanged ==
  ASSUME NEW w, Handlers = {w}, PlacesInv, Counts, UNCHANGED counters, NEW g \in ghPulls, NEW new,
         Same(new, g), new.requests = g.requests, ghPulls' = (ghPulls \ {g}) \union {new},
         handler' = handler \/ (/\ handler[w].pc # "RequestReviewers"
                                /\ handler'[w].pc # "RequestReviewers")
  PROVE  Counts'
  <1>1. new \in ghPulls => new = g
    BY NewPullRequest
  <1>2. IsFiniteSet(ghPulls) /\ IsFiniteSet(ghPulls')
    BY <1>1, ReplacedFinite DEF Counts
  <1>3. ASSUME NEW u \in Teachers
        PROVE  Cardinality(Requested(u)') = Cardinality(Requested(u))
    <2>1. IsFiniteSet(Requested(u))
      BY <1>2, FS_Subset DEF Requested
    <2>2. CASE g \in Requested(u)
      <3>1. Requested(u)' = (Requested(u) \ {g}) \union {new}
        BY <2>2 DEF Requested
      <3>2. new \in Requested(u) => new = g
        BY <1>1 DEF Requested
      <3>3. QED
        BY <2>1, <2>2, <3>1, <3>2, ReplacedFinite
    <2>3. CASE g \notin Requested(u)
      <3>1. Requested(u)' = Requested(u)
        BY <2>3 DEF Requested
      <3>2. QED
        BY <3>1
    <2>4. QED
      BY <2>2, <2>3
  <1>4. QED
    BY <1>2, <1>3, CountsStay

\* The teacher with the fewest is counted, and will be asked.
LEMMA CountsAssign ==
  ASSUME NEW w, Handlers = {w}, TeachersApart, GroupsOfTwo, PlacesInv, Counts, AssignReviewers(w)
  PROVE  Counts'
  <1> DEFINE pull == handler[w].pull
             students == Group[pull.repo] \ {pull.user}
             teacher == getNextReviewer(Teachers, teacherReviewCounter)
             student == getNextReviewer(students, groupReviewCounter[pull.repo])
  <1>1. /\ handler[w].pc = "AssignReviewers" /\ w \in Handlers /\ ghPulls' = ghPulls
        /\ teacherReviewCounter' = [teacherReviewCounter EXCEPT ![teacher] = @ + 1]
        /\ students # {} =>
             /\ groupReviewCounter' = [groupReviewCounter EXCEPT ![pull.repo][student] = @ + 1]
             /\ handler' = [handler EXCEPT ![w].pc = "RequestReviewers",
                                           ![w].reviewers = {teacher, student}]
    BY Zenon DEF AssignReviewers, github
  <1>2. pull.repo \in Repos
    BY <1>1 DEF PlacesInv, Known, OnGitHub, Same, NumbersInv
  <1>3. students # {}
    <2>1. Cardinality({}) = 0 /\ Cardinality({pull.user}) = 1
      BY FS_EmptySet, FS_Singleton
    <2>2. Cardinality(Group[pull.repo]) > 1
      BY <1>2 DEF GroupsOfTwo
    <2>3. Group[pull.repo] # {}
      <3>1. ASSUME Group[pull.repo] = {} PROVE FALSE
        <4>1. Cardinality({}) > 1
          BY Zenon, <2>2, <3>1
        <4>2. QED
          BY <2>1, <4>1
      <3>2. QED
        BY <3>1
    <2>4. Group[pull.repo] # {pull.user}
      <3>1. ASSUME Group[pull.repo] = {pull.user} PROVE FALSE
        <4>1. Cardinality({pull.user}) > 1
          BY Zenon, <2>2, <3>1
        <4>2. QED
          BY <2>1, <4>1
      <3>2. QED
        BY <3>1
    <2>5. QED
      BY <2>3, <2>4
  <1>4. groupReviewCounter[pull.repo] \in [Group[pull.repo] -> Nat]
    BY <1>2 DEF Counts
  <1>5. student \in Group[pull.repo] /\ student \notin Teachers
    <2>1. student \in students
      BY <1>3, <1>4, NextReviewer
    <2>2. QED
      BY <1>2, <2>1 DEF TeachersApart
  <1> HIDE DEF students, student
  <1>6. /\ DOMAIN groupReviewCounter' = Repos
        /\ \A repo \in Repos : groupReviewCounter'[repo] \in [Group[repo] -> Nat]
    <2>1. PICK c : c = [groupReviewCounter[pull.repo] EXCEPT ![student] = @ + 1]
      OBVIOUS
    <2>2. c \in [Group[pull.repo] -> Nat]
      BY <1>4, <1>5, <2>1
    <2>3. groupReviewCounter' = [groupReviewCounter EXCEPT ![pull.repo] = c]
      BY <1>1, <1>3, <2>1
    <2>4. /\ DOMAIN groupReviewCounter = Repos
          /\ \A repo \in Repos : groupReviewCounter[repo] \in [Group[repo] -> Nat]
      BY DEF Counts
    <2>5. PICK r : r = pull.repo
      OBVIOUS
    <2>6. /\ r \in Repos /\ c \in [Group[r] -> Nat]
          /\ groupReviewCounter' = [groupReviewCounter EXCEPT ![r] = c]
      BY <1>2, <2>2, <2>3, <2>5
    <2> HIDE DEF pull
    <2>7. DOMAIN groupReviewCounter' = Repos
      BY <2>4, <2>6
    <2>8. ASSUME NEW repo \in Repos
          PROVE  groupReviewCounter'[repo] = IF repo = r THEN c ELSE groupReviewCounter[repo]
      BY <2>4, <2>6
    <2>9. QED
      BY <2>4, <2>6, <2>7, <2>8
  <1>7. handler'[w].pc = "RequestReviewers" /\ handler'[w].reviewers = {teacher, student}
    <2>1. PICK R : R = {teacher, student}
      OBVIOUS
    <2>2. handler = [k \in Handlers |-> handler[k]]
          /\ handler[w] = [pc |-> handler[w].pc, event |-> handler[w].event, id |-> handler[w].id,
                           pull |-> pull, reviewers |-> handler[w].reviewers]
      BY <1>1 DEF PlacesInv, HandlerType, Known
    <2>3. handler' = [handler EXCEPT ![w].pc = "RequestReviewers", ![w].reviewers = R]
      BY <1>1, <1>3, <2>1, Zenon
    <2>4. handler'[w] = [[handler[w] EXCEPT !.pc = "RequestReviewers"] EXCEPT !.reviewers = R]
      BY <1>1, <2>2, <2>3
    <2>5. handler'[w].pc = "RequestReviewers" /\ handler'[w].reviewers = R
      BY <2>2, <2>4
    <2>6. QED
      BY <2>1, <2>5
  <1>8. PICK m \in Nat : \A u \in Teachers : teacherReviewCounter[u] \in {m, m + 1}
    BY DEF Counts
  <1>9. \A u \in Teachers : /\ teacherReviewCounter[u] \in Nat /\ teacher \in Teachers
                            /\ teacherReviewCounter[teacher] <= teacherReviewCounter[u]
    <2>1. \A u \in Teachers : teacherReviewCounter[u] \in Nat
      BY <1>8
    <2>2. QED
      BY <2>1, NextReviewer
  <1> HIDE DEF teacher
  <1>10. /\ DOMAIN teacherReviewCounter' = Teachers
         /\ teacherReviewCounter' = [u \in Teachers |-> teacherReviewCounter'[u]]
         /\ \A u \in Teachers : teacherReviewCounter'[u] =
                teacherReviewCounter[u] + (IF u = teacher THEN 1 ELSE 0)
    <2>1. teacherReviewCounter' =
             [u \in Teachers |-> teacherReviewCounter[u] + (IF u = teacher THEN 1 ELSE 0)]
      BY <1>1, <1>9 DEF Counts
    <2>2. QED
      BY <2>1
  <1>11. \E l \in Nat : \A u \in Teachers : teacherReviewCounter'[u] \in {l, l + 1}
    <2>1. CASE teacherReviewCounter[teacher] = m
      <3>1. \A u \in Teachers : teacherReviewCounter'[u] \in {m, m + 1}
        BY <1>8, <1>10, <2>1
      <3>2. QED
        BY <3>1
    <2>2. CASE teacherReviewCounter[teacher] # m
      <3>1. \A u \in Teachers : teacherReviewCounter[u] = m + 1
        BY <1>8, <1>9, <2>2
      <3>2. \A u \in Teachers : teacherReviewCounter'[u] \in {m + 1, m + 1 + 1}
        BY <1>10, <3>1
      <3>3. m + 1 \in Nat
        OBVIOUS
      <3>4. QED
        BY <3>2, <3>3
    <2>3. QED
      BY <2>1, <2>2
  <1>12. ASSUME NEW u \in Teachers
         PROVE  teacherReviewCounter'[u] = Cardinality(Requested(u)') + Cardinality(Pending(u)')
    <2>1. Requested(u)' = Requested(u)
      BY <1>1 DEF Requested
    <2>2. Cardinality(Pending(u)) = 0
      BY <1>1, OnePending
    <2>3. Cardinality(Pending(u)') = IF u = teacher THEN 1 ELSE 0
      <3>1. Handlers' = {w} /\ u # student
        BY <1>5 DEF Handlers
      <3>2. Pending(u)' = IF u = teacher THEN {w} ELSE {}
        BY <1>7, <3>1 DEF Pending
      <3>3. Cardinality({}) = 0 /\ Cardinality({w}) = 1
        BY FS_EmptySet, FS_Singleton
      <3>4. QED
        BY <3>2, <3>3
    <2>4. teacherReviewCounter[u] = Cardinality(Requested(u)) + Cardinality(Pending(u))
      BY DEF Counts
    <2>5. IsFiniteSet(Requested(u))
      BY FS_Subset DEF Counts, Requested
    <2>6. Cardinality(Requested(u)) \in Nat
      BY <2>5, FS_CardinalityType
    <2>7. QED
      BY <1>10, <2>1, <2>2, <2>3, <2>4, <2>6
  <1>13. QED
    BY <1>1, <1>6, <1>10, <1>11, <1>12 DEF Counts, Repos

\* They are asked: what was pending is requested now.
LEMMA CountsRequest ==
  ASSUME NEW w, Handlers = {w}, PlacesInv, RowsInv, OnceInv, Asked, Counts,
         RequestReviewers(w), ~ Fault
  PROVE  Counts'
  <1> DEFINE pull == handler[w].pull
             reviewers == handler[w].reviewers
             g == AtGitHub(pull)
             copy == [pull EXCEPT !.stage = "review"]
  <1>1. /\ handler[w].pc = "RequestReviewers" /\ UNCHANGED <<teacherReviewCounter, groupReviewCounter>>
        /\ ghPulls' = (ghPulls \ {g}) \union {[g EXCEPT !.requests = Append(@, reviewers)]}
        /\ Goto(w, "SetReview", copy)
    BY Zenon DEF RequestReviewers, counters
  <1>2. g \in ghPulls /\ PullRecord(g) /\ g.requests = <<>>
    BY <1>1, AtGitHubIs, NotAsked DEF PlacesInv, Known
  <1>3. handler'[w].pc = "SetReview"
    BY <1>1, Places
  <1>4. PICK R : R = Append(g.requests, reviewers)
    OBVIOUS
  <1>5. PICK new : new = [g EXCEPT !.requests = R]
    OBVIOUS
  <1>6. ghPulls' = (ghPulls \ {g}) \union {new}
    BY <1>1, <1>4, <1>5, Zenon
  <1>7. Same(new, g) /\ new.requests = R
    BY <1>2, <1>5, PullColumns
  <1> HIDE DEF g, copy
  <1>8. R = <<reviewers>>
    BY <1>2, <1>4
  <1>9. new \notin ghPulls
    <2>1. new.requests # g.requests
      <3>1. Len(R) = 1 /\ Len(<<>>) = 0
        BY <1>8
      <3>2. QED
        BY <1>2, <1>7, <3>1
    <2>2. QED
      BY <1>2, <1>7, <2>1, NewPullRequest
  <1>10. IsFiniteSet(ghPulls')
    BY <1>2, <1>6, <1>9, ReplacedFinite DEF Counts
  <1>11. ASSUME NEW u \in Teachers
         PROVE  teacherReviewCounter'[u] = Cardinality(Requested(u)') + Cardinality(Pending(u)')
    <2>1. teacherReviewCounter[u] = Cardinality(Requested(u)) + Cardinality(Pending(u))
      BY DEF Counts
    <2>2. IsFiniteSet(Requested(u))
      BY FS_Subset DEF Counts, Requested
    <2>3. Cardinality(Requested(u)) \in Nat
      BY <2>2, FS_CardinalityType
    <2>4. Cardinality(Pending(u)) = IF u \in reviewers THEN 1 ELSE 0
      BY <1>1, OnePending
    <2>5. Cardinality(Pending(u)') = 0
      <3>1. Pending(u)' = {}
        <4>1. Handlers' = {w}
          BY DEF Handlers
        <4>2. QED
          BY <1>3, <4>1 DEF Pending
      <3>2. Cardinality({}) = 0
        BY FS_EmptySet
      <3>3. QED
        BY <3>1, <3>2
    <2>6. (\E i \in DOMAIN new.requests : u \in new.requests[i]) <=> u \in reviewers
      <3>1. DOMAIN R = {1} /\ R[1] = reviewers
        BY <1>8
      <3>2. QED
        BY <1>7, <3>1
    <2>7. g \notin Requested(u)
      <3>1. DOMAIN <<>> = {}
        OBVIOUS
      <3>2. QED
        BY <1>2, <3>1 DEF Requested
    <2>8. CASE u \in reviewers
      <3>1. Requested(u)' = Requested(u) \union {new}
        BY <1>6, <2>6, <2>7, <2>8 DEF Requested
      <3>2. new \notin Requested(u)
        BY <1>9 DEF Requested
      <3>3. Cardinality(Requested(u)') = Cardinality(Requested(u)) + 1
        BY <2>2, <3>1, <3>2, FS_AddElement
      <3>4. QED
        BY <1>1, <2>1, <2>3, <2>4, <2>5, <2>8, <3>3
    <2>9. CASE u \notin reviewers
      <3>1. Requested(u)' = Requested(u)
        BY <1>6, <2>6, <2>7, <2>9 DEF Requested
      <3>2. QED
        BY <1>1, <2>1, <2>3, <2>4, <2>5, <2>9, <3>1
    <2>10. QED
      BY <2>8, <2>9
  <1>12. QED
    BY <1>1, <1>10, <1>11 DEF Counts, Repos

\* A pull request that is opened has asked nobody.
LEMMA CountsOpen ==
  ASSUME NEW w, Handlers = {w}, PlacesInv, Counts, NEW repo \in Repos, NEW user, NEW branch,
         NEW issue, Open(repo, user, branch, issue)
  PROVE  Counts'
  <1>1. PICK pull : /\ pull.requests = <<>> /\ ghPulls' = ghPulls \union {pull}
                    /\ UNCHANGED <<tests, db, counters, ghIssues, handler, sync, faults>>
    BY OpenIs
  <1>2. DOMAIN <<>> = {}
    OBVIOUS
  <1>3. \A u \in Teachers : Requested(u)' = Requested(u)
    BY <1>1, <1>2 DEF Requested
  <1>4. IsFiniteSet(ghPulls')
    BY <1>1, FS_AddElement DEF Counts
  <1>5. QED
    BY <1>1, <1>3, <1>4, CountsStay

LEMMA CountsClose ==
  ASSUME NEW w, Handlers = {w}, PlacesInv, Counts, NEW pull \in ghPulls, NEW merged,
         Close(pull, merged)
  PROVE  Counts'
  <1>1. PICK no : ghPulls' = (ghPulls \ {pull}) \union {[pull EXCEPT !.open = no]}
    BY Zenon DEF Close
  <1>2. UNCHANGED <<counters, handler>>
    BY DEF Close, Send
  <1>3. PICK new : new = [pull EXCEPT !.open = no]
    OBVIOUS
  <1>4. Same(new, pull) /\ new.requests = pull.requests
    BY <1>3, PullColumns DEF PlacesInv, NumbersInv
  <1>5. ghPulls' = (ghPulls \ {pull}) \union {new}
    BY <1>1, <1>3, Zenon
  <1>6. QED
    BY <1>2, <1>4, <1>5, CountsChanged

LEMMA CountsComment ==
  ASSUME NEW w, Handlers = {w}, PlacesInv, Counts, CreateIssueComment(w), ~ Fault
  PROVE  Counts'
  <1> DEFINE pull == handler[w].pull
             g == AtGitHub(pull)
  <1>1. /\ UNCHANGED counters /\ handler[w].pc = "CreateIssueComment" /\ OnGitHub(pull)
    BY DEF CreateIssueComment, PlacesInv, Known
  <1>2. CASE Return(w) /\ UNCHANGED ghPulls
    <2>1. handler'[w].pc = "idle"
      BY <1>2, Places
    <2>2. QED
      BY <1>1, <1>2, <2>1, CountsQuiet DEF counters
  <1>3. ASSUME NEW c, NEW copy, ghPulls' = (ghPulls \ {g}) \union {[g EXCEPT !.comments = c]},
               Goto(w, "SetComment", copy)
        PROVE  Counts'
    <2>1. handler'[w].pc = "SetComment"
      BY <1>3, Places
    <2>2. g \in ghPulls /\ PullRecord(g)
      BY <1>1, AtGitHubIs
    <2>3. PICK new : new = [g EXCEPT !.comments = c]
      OBVIOUS
    <2>4. Same(new, g) /\ new.requests = g.requests
      BY <2>2, <2>3, PullColumns
    <2>5. ghPulls' = (ghPulls \ {g}) \union {new}
      BY <1>3, <2>3, Zenon
    <2> HIDE DEF g
    <2>6. QED
      BY <1>1, <2>1, <2>2, <2>4, <2>5, CountsChanged
  <1>4. QED
    BY <1>2, <1>3, Zenon DEF CreateIssueComment

\* The other steps of a handler.
LEMMA CountsOthers ==
  ASSUME NEW w, Handlers = {w}, PlacesInv, Counts, ~ Fault,
         \/ HandleEvent(w) \/ handlePullRequestOpened(w) \/ CreatePullRequest(w)
         \/ handlePullRequestPush(w) \/ SetReview(w) \/ SetComment(w)
         \/ handlePullRequestReview(w) \/ HandleMergingPR(w)
  PROVE  Counts'
  <1>1. UNCHANGED <<teacherReviewCounter, groupReviewCounter, ghPulls>>
    BY DEF HandleEvent, handlePullRequestOpened, CreatePullRequest, handlePullRequestPush, SetReview,
           SetComment, handlePullRequestReview, HandleMergingPR, counters, github
  <1>2. handler[w].pc # "RequestReviewers"
    BY DEF HandleEvent, handlePullRequestOpened, CreatePullRequest, handlePullRequestPush, SetReview,
           SetComment, handlePullRequestReview, HandleMergingPR
  <1>3. handler' = handler \/ handler'[w].pc # "RequestReviewers"
    <2>1. CASE HandleEvent(w)
      <3>1. /\ w \in Handlers /\ handler = [k \in Handlers |-> handler[k]]
            /\ handler[w] = [pc |-> handler[w].pc, event |-> handler[w].event, id |-> handler[w].id,
                             pull |-> handler[w].pull, reviewers |-> handler[w].reviewers]
        BY DEF PlacesInv, HandlerType, Known
      <3>2. PICK e \in events :
              LET i == IF e.type = "push" THEN ByBranch(e) ELSE ByNumber(e)
                  start(at) == handler' = [handler EXCEPT
                    ![w] = [pc |-> at, event |-> e, id |-> i, pull |-> pulls[i], reviewers |-> {}]]
              IN
              \/ handler' = [handler EXCEPT ![w].pc = "opened", ![w].event = e]
              \/ \E at \in {"review", "closed", "push"} : start(at)
              \/ UNCHANGED handler
        BY <2>1, Zenon DEF HandleEvent
      <3>3. ASSUME handler' = [handler EXCEPT ![w].pc = "opened", ![w].event = e]
            PROVE  handler'[w].pc = "opened"
        <4>1. handler'[w] = [[handler[w] EXCEPT !.pc = "opened"] EXCEPT !.event = e]
          BY <3>1, <3>3
        <4>2. QED
          BY <3>1, <4>1
      <3>4. ASSUME NEW at \in {"review", "closed", "push"}, NEW i, NEW pull,
                   handler' = [handler EXCEPT
                    ![w] = [pc |-> at, event |-> e, id |-> i, pull |-> pull, reviewers |-> {}]]
            PROVE  handler'[w].pc = at
        BY <3>1, <3>4
      <3>5. QED
        BY <3>2, <3>3, <3>4
    <2>2. Return(w) => handler'[w].pc # "RequestReviewers"
      BY Places
    <2>3. \A place, copy : Goto(w, place, copy) => handler'[w].pc = place
      BY Places
    <2>4. QED
      BY <2>1, <2>2, <2>3 DEF handlePullRequestOpened, CreatePullRequest, handlePullRequestPush,
                              SetReview, SetComment, handlePullRequestReview, HandleMergingPR
  <1>4. QED
    BY <1>1, <1>2, <1>3, CountsQuiet

LEMMA CountsStep ==
  ASSUME NEW w, Handlers = {w}, TeachersApart, GroupsOfTwo, CountsInv, [Next]_vars
  PROVE  CountsInv'
  <1>1. AskedInv' /\ AskedInv
    BY AskedStep DEF CountsInv
  <1>2. faults \in Nat /\ (faults' = 0 => faults = 0 /\ ~ Fault)
    BY <1>1, FaultsStep, NoFault DEF AskedInv
  <1>3. ASSUME faults' = 0
        PROVE  Counts'
    <2>1. PlacesInv /\ RowsInv /\ OnceInv /\ Asked /\ Counts /\ ~ Fault
      BY <1>1, <1>2, <1>3 DEF AskedInv, CountsInv
    <2>2. CASE UNCHANGED <<teacherReviewCounter, groupReviewCounter, ghPulls, handler>>
      BY <2>1, <2>2, CountsQuiet
    <2>3. CASE HandlerStep(w)
      BY <2>1, <2>3, CountsAssign, CountsRequest, CountsComment, CountsOthers DEF HandlerStep
    <2>4. CASE GitHubStep
      <3>1. CASE PushTests
        BY <2>2, <3>1 DEF PushTests, counters, github
      <3>2. ASSUME NEW repo \in Repos, NEW branch \in Branches, NEW issue \in ghIssues,
                   NEW user \in Group[repo], Open(repo, user, branch, issue)
            PROVE  Counts'
        BY <2>1, <3>2, CountsOpen
      <3>3. ASSUME NEW pull \in ghPulls, NEW b, Push(pull, b) \/ Approve(pull, b)
            PROVE  Counts'
        BY <2>2, <3>3 DEF Push, Approve, Send, counters
      <3>4. ASSUME NEW pull \in ghPulls, NEW merged, Close(pull, merged)
            PROVE  Counts'
        BY <2>1, <3>4, CountsClose
      <3>5. QED
        BY <2>4, <3>1, <3>2, <3>3, <3>4, Zenon DEF GitHubStep
    <2>5. CASE synchronizeTasksWithIssues
      BY <2>2, <2>5 DEF synchronizeTasksWithIssues, SynchronizeAssignmentTasks, CreateIssues,
                        synchronizeRepo, counters, github
    <2>6. CASE Stop
      BY <2>1, <2>6 DEF Stop
    <2>7. CASE UNCHANGED vars
      BY <2>2, <2>7 DEF vars
    <2>8. QED
      BY <2>3, <2>4, <2>5, <2>6, <2>7 DEF Next, CountsInv
  <1>4. QED
    BY <1>1, <1>3 DEF CountsInv

LEMMA InitCounts ==
  ASSUME NEW w, Handlers = {w}, Init
  PROVE  CountsInv
  <1>1. /\ ghPulls = {} /\ handler[w].pc = "idle"
        /\ teacherReviewCounter = [u \in Teachers |-> 0]
        /\ groupReviewCounter = [repo \in Repos |-> [u \in Group[repo] |-> 0]]
    BY DEF Init, NoHandler
  <1>2. IsFiniteSet({}) /\ Cardinality({}) = 0 /\ 0 \in Nat
    BY FS_EmptySet
  <1>3. ASSUME NEW u \in Teachers
        PROVE  Cardinality(Requested(u)) = 0 /\ Cardinality(Pending(u)) = 0
    <2>1. Requested(u) = {}
      BY <1>1 DEF Requested
    <2>2. Cardinality(Pending(u)) = 0
      BY <1>1, OnePending
    <2>3. QED
      BY <1>2, <2>1, <2>2
  <1>4. \A u \in Teachers : teacherReviewCounter[u] \in {0, 0 + 1}
    BY <1>1
  <1>5. \A u \in Teachers :
           teacherReviewCounter[u] = Cardinality(Requested(u)) + Cardinality(Pending(u))
    BY <1>1, <1>3
  <1>6. /\ IsFiniteSet(ghPulls) /\ DOMAIN groupReviewCounter = Repos
        /\ \A repo \in Repos : groupReviewCounter[repo] \in [Group[repo] -> Nat]
    BY <1>1, <1>2
  <1>7. /\ DOMAIN teacherReviewCounter = Teachers
        /\ teacherReviewCounter = [u \in Teachers |-> teacherReviewCounter[u]]
    BY <1>1
  <1>8. Counts
    BY <1>2, <1>4, <1>5, <1>6, <1>7 DEF Counts
  <1>9. QED
    BY <1>8, InitAsked DEF CountsInv

\* With one event at a time, for any number of teachers and any groups of two or more
\* that no teacher is in: the requests are spread evenly among the teachers, unless a
\* call fails (getNextReviewer).
THEOREM PullsBalanced ==
  ASSUME NEW w, Handlers = {w}, TeachersApart
  PROVE  Spec => []ReviewsBalanced
  <1>1. ASSUME GroupsOfTwo
        PROVE  Spec => []ReviewsBalanced
    <2>1. Init => CountsInv
      BY InitCounts
    <2>2. CountsInv /\ [Next]_vars => CountsInv'
      BY <1>1, CountsStep
    <2>3. CountsInv => ReviewsBalanced
      <3>1. ASSUME Counts, NEW t \in Teachers, NEW u \in Teachers
            PROVE  Cardinality(Requested(t)) <= Cardinality(Requested(u)) + 1 + Cardinality(Pending(u))
        <4>1. PICK m \in Nat : \A x \in Teachers : teacherReviewCounter[x] \in {m, m + 1}
          BY <3>1 DEF Counts
        <4>2. /\ teacherReviewCounter[t] = Cardinality(Requested(t)) + Cardinality(Pending(t))
              /\ teacherReviewCounter[u] = Cardinality(Requested(u)) + Cardinality(Pending(u))
          BY <3>1 DEF Counts
        <4>3. IsFiniteSet(Requested(t)) /\ IsFiniteSet(Requested(u))
          BY <3>1, FS_Subset DEF Counts, Requested
        <4>4. Cardinality(Requested(t)) \in Nat /\ Cardinality(Requested(u)) \in Nat
          BY <4>3, FS_CardinalityType
        <4>5. Cardinality(Pending(t)) \in {0, 1} /\ Cardinality(Pending(u)) \in {0, 1}
          BY OnePending
        <4>6. teacherReviewCounter[t] \in {m, m + 1} /\ teacherReviewCounter[u] \in {m, m + 1}
          BY <4>1
        <4>7. QED
          BY <4>2, <4>4, <4>5, <4>6
      <3>2. QED
        BY <3>1 DEF CountsInv, ReviewsBalanced, Requested, Pending
    <2>4. QED
      BY <2>1, <2>2, <2>3, PTL DEF Spec
  <1>2. ASSUME ~ GroupsOfTwo
        PROVE  Spec => []ReviewsBalanced
    <2>1. ReviewsBalanced
      BY <1>2 DEF ReviewsBalanced, GroupsOfTwo
    <2>2. QED
      BY <2>1, PTL
  <1>3. QED
    BY <1>1, <1>2
=============================================================================
