---------------------------- MODULE PushWebhook -----------------------------
(***************************************************************************)
(* The GitHub webhook of QuickFeed (web/hooks/github.go), push events.       *)
(*                                                                          *)
(* Handle answers GitHub at once and leaves the push to a goroutine.  Two    *)
(* shared structures keep the goroutines apart: the map of commit IDs that   *)
(* are being processed (Duplicates, under its own mutex, so each of its      *)
(* methods is one step) and a buffered channel used as counting semaphore.   *)
(* GitHub may deliver the same event more than once, in any order.           *)
(*                                                                          *)
(* handlePush is one step here: what it does to the database and to the      *)
(* submission streams is in Submissions and SubmissionStream.  The map is    *)
(* keyed by the commit ID alone, so deliveries for two repositories that     *)
(* have the same head commit count as duplicates of each other.              *)
(*                                                                          *)
(* Names that every specification has are qualified here: Hooks_proofs       *)
(* extends this module beside ForkSync, whose handlers run in the goroutines  *)
(* that this one starts.                                                     *)
(***************************************************************************)
EXTENDS Naturals, FiniteSets

CONSTANTS
    Deliveries,             \* push events as delivered by GitHub
    CommitOf,               \* the head commit of each
    maxConcurrentTestRuns   \* capacity of the semaphore channel

ASSUME MaxRunsAssumption == maxConcurrentTestRuns \in Nat \ {0}

VARIABLES
    dup,    \* Duplicates.dup: the commits being processed
    sem,    \* the number of tokens in the semaphore channel
    stage   \* where the goroutine of each delivery is

webhookVars == <<dup, sem, stage>>

PC == {"new", "acquire", "handlePush", "release", "remove", "done", "ignored"}

(* The goroutines Handle has started and that have not removed their commit. *)
Active == {d \in Deliveries : stage[d] \in {"acquire", "handlePush", "release", "remove"}}

(* The goroutines between the two operations on the semaphore. *)
Holding == {d \in Deliveries : stage[d] \in {"handlePush", "release"}}

WebhookTypeOK ==
    /\ dup \subseteq {CommitOf[d] : d \in Deliveries}
    /\ sem \in 0 .. maxConcurrentTestRuns
    /\ stage \in [Deliveries -> PC]

WebhookInit ==
    /\ dup = {}
    /\ sem = 0
    /\ stage = [d \in Deliveries |-> "new"]

(* Mutant: Handle also drops what arrives when the semaphore is full. *)
IgnoreWhenBusy(d) ==
    /\ stage[d] = "new"
    /\ CommitOf[d] \in dup \/ sem = maxConcurrentTestRuns
    /\ stage' = [stage EXCEPT ![d] = "ignored"]
    /\ UNCHANGED <<dup, sem>>

(* Handle drops the push of a commit that Duplicate finds in the map ...     *)
IgnoreDuplicate(d) ==
    /\ stage[d] = "new"
    /\ CommitOf[d] \in dup
    /\ stage' = [stage EXCEPT ![d] = "ignored"]
    /\ UNCHANGED <<dup, sem>>

(* Mutant: a commit that is in the map is not a duplicate. *)
StartAgain(d) ==
    /\ stage[d] = "new"
    /\ dup' = dup \cup {CommitOf[d]}
    /\ stage' = [stage EXCEPT ![d] = "acquire"]
    /\ UNCHANGED sem

(* ... and otherwise starts a goroutine, the commit now being in the map.    *)
StartPush(d) ==
    /\ stage[d] = "new"
    /\ CommitOf[d] \notin dup
    /\ dup' = dup \cup {CommitOf[d]}
    /\ stage' = [stage EXCEPT ![d] = "acquire"]
    /\ UNCHANGED sem

(* wh.sem <- struct{}{} blocks while the channel is full. *)
Acquire(d) ==
    /\ stage[d] = "acquire"
    /\ sem < maxConcurrentTestRuns
    /\ sem' = sem + 1
    /\ stage' = [stage EXCEPT ![d] = "handlePush"]
    /\ UNCHANGED dup

HandlePush(d) ==
    /\ stage[d] = "handlePush"
    /\ stage' = [stage EXCEPT ![d] = "release"]
    /\ UNCHANGED <<dup, sem>>

(* Mutant: the token stays in the channel. *)
ReleaseNothing(d) ==
    /\ stage[d] = "release"
    /\ stage' = [stage EXCEPT ![d] = "remove"]
    /\ UNCHANGED <<dup, sem>>

Release(d) ==
    /\ stage[d] = "release"
    /\ sem' = sem - 1
    /\ stage' = [stage EXCEPT ![d] = "remove"]
    /\ UNCHANGED dup

RemoveCommit(d) ==
    /\ stage[d] = "remove"
    /\ dup' = dup \ {CommitOf[d]}
    /\ stage' = [stage EXCEPT ![d] = "done"]
    /\ UNCHANGED sem

Handle(d) == IgnoreDuplicate(d) \/ StartPush(d)
Goroutine(d) == Acquire(d) \/ HandlePush(d) \/ Release(d) \/ RemoveCommit(d)

WebhookNext == \E d \in Deliveries : Handle(d) \/ Goroutine(d)

WebhookSpec == WebhookInit /\ [][WebhookNext]_webhookVars

(* The scheduler runs every goroutine; one blocked on the full channel gets a *)
(* token when others release theirs again and again (channel queues are FIFO). *)
WebhookFairness ==
    \A d \in Deliveries : WF_webhookVars(Goroutine(d)) /\ SF_webhookVars(Acquire(d))

FairWebhookSpec == WebhookSpec /\ WebhookFairness

----------------------------------------------------------------------------
(* No commit is processed by two goroutines at a time, however often GitHub  *)
(* delivers it (issue #868, github_test.go:122).                             *)
OneGoroutinePerCommit ==
    \A d, e \in Active : CommitOf[d] = CommitOf[e] => d = e

(* At most maxConcurrentTestRuns pushes are being handled (github.go:83).    *)
TestRunsBounded ==
    Cardinality({d \in Deliveries : stage[d] = "handlePush"}) <= maxConcurrentTestRuns

(* The duplicate map holds the commits of the goroutines in flight and no    *)
(* other: it does not grow (github.go:88), and a commit that has been        *)
(* processed may be pushed again.                                            *)
MapIsActiveCommits == dup = {CommitOf[d] : d \in Active}

(* A delivery is dropped only while its commit is being processed, and a     *)
(* commit leaves the map only when the goroutine that put it there is done:  *)
(* a redelivery never cuts a push short.                                     *)
DroppedOnlyWhenActive ==
    [][\A d \in Deliveries :
        /\ stage[d] = "new" /\ stage'[d] = "ignored" =>
            \E e \in Active \ {d} : CommitOf[e] = CommitOf[d]
        /\ CommitOf[d] \in dup \ dup' =>
            \E e \in Active \ Active' : CommitOf[e] = CommitOf[d]]_webhookVars

(* Every push for which a goroutine was started is processed.                *)
PushesProcessed == \A d \in Deliveries : stage[d] = "acquire" ~> stage[d] = "done"
=============================================================================
