-------------------------- MODULE SubmissionStream --------------------------
(***************************************************************************)
(* The submission stream service of QuickFeed (web/stream).  A browser that *)
(* opens the SubmissionStream RPC gets a Stream of its own, registered under *)
(* the user's ID in the one Service of the server; a CI run that has        *)
(* recorded a submission calls Service.SendTo with the IDs of its owners.   *)
(*                                                                          *)
(* The processes are the goroutines: the callers of SendTo (Senders), the   *)
(* RPC handlers (one per connection, Conns), which run Service.Add and then *)
(* Stream.Run, and the callers of Service.Close and CloseBy (Closers).      *)
(* They meet at two mutexes, Service.mu and the mu of each Stream, and at   *)
(* the unbuffered channel ch of each Stream.                                *)
(*                                                                          *)
(* Stream.Close takes mu, closes ch, sets closed and releases mu without    *)
(* ever blocking in between: it is one step, guarded by mu being free.  The *)
(* lookups of a SendTo or a Close in the map of streams happen under        *)
(* Service.mu, so they are made together when that mutex is taken.          *)
(***************************************************************************)
EXTENDS Naturals, Sequences, FiniteSets

CONSTANTS
    Users,      \* the stream IDs: user IDs
    Conns,      \* client connections, each one call of the SubmissionStream RPC
    ConnUser,   \* the user who opens each connection
    Senders,    \* goroutines that call SendTo
    Closers,    \* goroutines that call Close or CloseBy
    Flaky,      \* the connections that may break
    MaxSends,   \* bound: the number of calls of SendTo
    None        \* no stream, no holder of a mutex

ASSUME ConnsAssumption ==
    /\ ConnUser \in [Conns -> Users]
    /\ Flaky \subseteq Conns
    /\ Senders \cap Conns = {} /\ Senders \cap Closers = {} /\ Conns \cap Closers = {}
    /\ None \notin Senders \cup Conns \cup Closers
ASSUME MaxSendsAssumption == MaxSends \in Nat

VARIABLES
    svcMu,      \* the holder of Service.mu
    streams,    \* Service.streams: the registered connection of each user
    mu,         \* the holder of the mu of each Stream
    closed,     \* Stream.closed; ch is closed exactly when it is set
    gone,       \* the connections that have broken: their context is done
    pc,         \* where each goroutine is
    todo,       \* the users a goroutine's loop has still to visit
    target,     \* the Stream whose Send a sender is in
    calls,      \* the number of calls of SendTo so far
    published,  \* the number of SendTo calls that got Service.mu so far
    item,       \* the submission each sender carries, numbered by published
    handed      \* what the Run of each Stream received on ch

vars == <<svcMu, streams, mu, closed, gone, pc, todo, target, calls, published, item, handed>>

Threads == Senders \cup Conns \cup Closers

SenderPC == {"idle", "waiting", "loop", "chSend", "unlock"}
ConnPC == {"new", "add", "remove", "select", "transport", "closing", "returned"}
CloserPC == {"idle", "remove", "done"}

TypeOK ==
    /\ svcMu \in Threads \cup {None}
    /\ streams \in [Users -> Conns \cup {None}]
    /\ mu \in [Conns -> Senders \cup {None}]
    /\ closed \in [Conns -> BOOLEAN]
    /\ gone \subseteq Flaky
    /\ pc \in [Threads -> SenderPC \cup ConnPC \cup CloserPC]
    /\ \A s \in Senders : pc[s] \in SenderPC
    /\ \A c \in Conns : pc[c] \in ConnPC
    /\ \A k \in Closers : pc[k] \in CloserPC
    /\ todo \in [Threads -> SUBSET Users]
    /\ target \in [Senders -> Conns \cup {None}]
    /\ calls \in 0 .. MaxSends
    /\ published \in Nat
    /\ item \in [Senders -> Nat]
    /\ handed \in [Conns -> Seq(Nat)]

Registered == {u \in Users : streams[u] # None}

(* A goroutine takes Service.mu and has the registered ones of ids to visit. *)
LockService(t, ids) ==
    /\ svcMu = None
    /\ svcMu' = t
    /\ todo' = [todo EXCEPT ![t] = ids \cap Registered]

Init ==
    /\ svcMu = None
    /\ streams = [u \in Users |-> None]
    /\ mu = [c \in Conns |-> None]
    /\ closed = [c \in Conns |-> FALSE]
    /\ gone = {}
    /\ pc = [t \in Threads |-> IF t \in Conns THEN "new" ELSE "idle"]
    /\ todo = [t \in Threads |-> {}]
    /\ target = [s \in Senders |-> None]
    /\ calls = 0
    /\ published = 0
    /\ item = [s \in Senders |-> 0]
    /\ handed = [c \in Conns |-> <<>>]

----------------------------------------------------------------------------
(* Service.SendTo and Stream.Send.                                          *)

(* A run has a submission for the given users; no ID at all is a broadcast. *)
CallSendTo(s) ==
    /\ pc[s] = "idle"
    /\ calls < MaxSends
    /\ \E ids \in SUBSET Users : todo' = [todo EXCEPT ![s] = ids]
    /\ calls' = calls + 1
    /\ pc' = [pc EXCEPT ![s] = "waiting"]
    /\ UNCHANGED <<svcMu, streams, mu, closed, gone, target, published, item, handed>>

SendTo(s) ==
    /\ pc[s] = "waiting"
    /\ LockService(s, IF todo[s] = {} THEN Users ELSE todo[s])
    /\ published' = published + 1
    /\ item' = [item EXCEPT ![s] = published + 1]
    /\ pc' = [pc EXCEPT ![s] = "loop"]
    /\ UNCHANGED <<streams, mu, closed, gone, target, calls, handed>>

(* Mutant: SendTo stops after the first stream. *)
SendLockFirst(s) ==
    /\ pc[s] = "loop"
    /\ \E u \in todo[s] :
        LET c == streams[u] IN
        /\ mu[c] = None
        /\ mu' = [mu EXCEPT ![c] = s]
        /\ target' = [target EXCEPT ![s] = c]
        /\ todo' = [todo EXCEPT ![s] = {}]
        /\ pc' = [pc EXCEPT ![s] = IF closed[c] THEN "unlock" ELSE "chSend"]
    /\ UNCHANGED <<svcMu, streams, closed, gone, calls, published, item, handed>>

SendLock(s) ==
    /\ pc[s] = "loop"
    /\ \E u \in todo[s] :
        LET c == streams[u] IN
        /\ mu[c] = None
        /\ mu' = [mu EXCEPT ![c] = s]
        /\ target' = [target EXCEPT ![s] = c]
        /\ todo' = [todo EXCEPT ![s] = @ \ {u}]
        /\ pc' = [pc EXCEPT ![s] = IF closed[c] THEN "unlock" ELSE "chSend"]
    /\ UNCHANGED <<svcMu, streams, closed, gone, calls, published, item, handed>>

(* The rendezvous on the unbuffered channel: Run is in its select. *)
SendChannel(s) ==
    LET c == target[s] IN
    /\ pc[s] = "chSend"
    /\ pc[c] = "select"
    /\ handed' = [handed EXCEPT ![c] = Append(@, item[s])]
    /\ pc' = [pc EXCEPT ![s] = "unlock", ![c] = "transport"]
    /\ UNCHANGED <<svcMu, streams, mu, closed, gone, todo, target, calls, published, item>>

(* Mutant: Send returns without releasing mu. *)
SendNoUnlock(s) ==
    /\ pc[s] = "unlock"
    /\ target' = [target EXCEPT ![s] = None]
    /\ pc' = [pc EXCEPT ![s] = "loop"]
    /\ UNCHANGED <<svcMu, streams, mu, closed, gone, todo, calls, published, item, handed>>

SendUnlock(s) ==
    /\ pc[s] = "unlock"
    /\ mu' = [mu EXCEPT ![target[s]] = None]
    /\ target' = [target EXCEPT ![s] = None]
    /\ pc' = [pc EXCEPT ![s] = "loop"]
    /\ UNCHANGED <<svcMu, streams, closed, gone, todo, calls, published, item, handed>>

SendToReturn(s) ==
    /\ pc[s] = "loop"
    /\ todo[s] = {}
    /\ svcMu' = None
    /\ item' = [item EXCEPT ![s] = 0]
    /\ pc' = [pc EXCEPT ![s] = "idle"]
    /\ UNCHANGED <<streams, mu, closed, gone, todo, target, calls, published, handed>>

----------------------------------------------------------------------------
(* Service.internalRemove, called by Add, Close and CloseBy under the        *)
(* service mutex: close the user's stream and delete it from the map.        *)

internalRemove(t) ==
    /\ pc[t] = "remove"
    /\ \E u \in todo[t] :
        LET c == streams[u] IN
        /\ mu[c] = None
        /\ closed' = [closed EXCEPT ![c] = TRUE]
        /\ streams' = [streams EXCEPT ![u] = None]
        /\ todo' = [todo EXCEPT ![t] = @ \ {u}]
    /\ UNCHANGED <<svcMu, mu, gone, pc, target, calls, published, item, handed>>

(* Service.Close (every user) and Service.CloseBy (one user). *)
Close(k) ==
    /\ pc[k] = "idle"
    /\ \E ids \in {{u} : u \in Users} \cup {Users} : LockService(k, ids)
    /\ pc' = [pc EXCEPT ![k] = "remove"]
    /\ UNCHANGED <<streams, mu, closed, gone, target, calls, published, item, handed>>

CloseReturn(k) ==
    /\ pc[k] = "remove"
    /\ todo[k] = {}
    /\ svcMu' = None
    /\ pc' = [pc EXCEPT ![k] = "done"]
    /\ UNCHANGED <<streams, mu, closed, gone, todo, target, calls, published, item, handed>>

----------------------------------------------------------------------------
(* The RPC handler SubmissionStream: NewStream, Service.Add, Stream.Run.     *)

NewStream(c) ==
    /\ pc[c] = "new"
    /\ pc' = [pc EXCEPT ![c] = "add"]
    /\ UNCHANGED <<svcMu, streams, mu, closed, gone, todo, target, calls, published, item, handed>>

(* Mutant: the old stream is not removed. *)
AddOver(c) ==
    /\ pc[c] = "add"
    /\ LockService(c, {})
    /\ pc' = [pc EXCEPT ![c] = "remove"]
    /\ UNCHANGED <<streams, mu, closed, gone, target, calls, published, item, handed>>

Add(c) ==
    /\ pc[c] = "add"
    /\ LockService(c, {ConnUser[c]})
    /\ pc' = [pc EXCEPT ![c] = "remove"]
    /\ UNCHANGED <<streams, mu, closed, gone, target, calls, published, item, handed>>

AddReturn(c) ==
    /\ pc[c] = "remove"
    /\ todo[c] = {}
    /\ streams' = [streams EXCEPT ![ConnUser[c]] = c]
    /\ svcMu' = None
    /\ pc' = [pc EXCEPT ![c] = "select"]
    /\ UNCHANGED <<mu, closed, gone, todo, target, calls, published, item, handed>>

(* Mutant: Run does not look at the closing of ch. *)
RunStopsWhenGone(c) ==
    /\ pc[c] = "select"
    /\ c \in gone
    /\ pc' = [pc EXCEPT ![c] = "closing"]
    /\ UNCHANGED <<svcMu, streams, mu, closed, gone, todo, target, calls, published, item, handed>>

(* The select of Run leaves the loop: the context is done or ch is closed. *)
RunStops(c) ==
    /\ pc[c] = "select"
    /\ c \in gone \/ closed[c]
    /\ pc' = [pc EXCEPT ![c] = "closing"]
    /\ UNCHANGED <<svcMu, streams, mu, closed, gone, todo, target, calls, published, item, handed>>

(* The transport sends what Run received; it fails when the connection breaks. *)
RunSends(c) ==
    /\ pc[c] = "transport"
    /\ \/ pc' = [pc EXCEPT ![c] = "select"] /\ UNCHANGED gone
       \/ /\ c \in Flaky
          /\ gone' = gone \cup {c}
          /\ pc' = [pc EXCEPT ![c] = "closing"]
    /\ UNCHANGED <<svcMu, streams, mu, closed, todo, target, calls, published, item, handed>>

(* Mutant: Close does not take mu. *)
RunReturnUnlocked(c) ==
    /\ pc[c] = "closing"
    /\ closed' = [closed EXCEPT ![c] = TRUE]
    /\ pc' = [pc EXCEPT ![c] = "returned"]
    /\ UNCHANGED <<svcMu, streams, mu, gone, todo, target, calls, published, item, handed>>

(* The deferred Close of Run; the stream stays in the map of the service. *)
RunReturn(c) ==
    /\ pc[c] = "closing"
    /\ mu[c] = None
    /\ closed' = [closed EXCEPT ![c] = TRUE]
    /\ pc' = [pc EXCEPT ![c] = "returned"]
    /\ UNCHANGED <<svcMu, streams, mu, gone, todo, target, calls, published, item, handed>>

(* The client goes away: the context of its request is done. *)
Disconnect(c) ==
    /\ c \in Flaky \ gone
    /\ pc[c] # "new"
    /\ gone' = gone \cup {c}
    /\ UNCHANGED <<svcMu, streams, mu, closed, pc, todo, target, calls, published, item, handed>>

----------------------------------------------------------------------------
SenderStep(s) ==
    \/ SendTo(s) \/ SendLock(s) \/ SendChannel(s) \/ SendUnlock(s) \/ SendToReturn(s)
ConnStep(c) ==
    \/ Add(c) \/ internalRemove(c) \/ AddReturn(c)
    \/ RunStops(c) \/ RunSends(c) \/ RunReturn(c)
CloserStep(k) == internalRemove(k) \/ CloseReturn(k)

Next ==
    \/ \E s \in Senders : CallSendTo(s) \/ SenderStep(s)
    \/ \E c \in Conns : NewStream(c) \/ ConnStep(c) \/ Disconnect(c)
    \/ \E k \in Closers : Close(k) \/ CloserStep(k)

Spec == Init /\ [][Next]_vars

(* Every goroutine that can run does; callers, clients and their failures   *)
(* are the environment and owe nothing.                                      *)
Fairness ==
    /\ \A s \in Senders : WF_vars(SenderStep(s))
    /\ \A c \in Conns : WF_vars(ConnStep(c))
    /\ \A k \in Closers : WF_vars(CloserStep(k))

FairSpec == Spec /\ Fairness
----------------------------------------------------------------------------
(* Correctness. *)

InService(t) ==
    \/ t \in Senders /\ pc[t] \in {"loop", "chSend", "unlock"}
    \/ t \in Conns \cup Closers /\ pc[t] = "remove"

(* Stream.Send keeps Stream.mu while it waits on ch, and Close takes the same *)
(* mutex: nobody closes a channel with a sender parked on it, which would     *)
(* panic and take the whole server down (stream.go, Send and Close).         *)
SendsOnOpenChannel ==
    \A s \in Senders : pc[s] = "chSend" => ~closed[target[s]]

(* Stream.mu is only ever taken under Service.mu by a sender, and a goroutine *)
(* that waits for Service.mu holds no stream: the two mutexes are taken in    *)
(* one order (service.go, SendTo).                                            *)
StreamLockUnderServiceLock ==
    \A c \in Conns : mu[c] # None => svcMu = mu[c] /\ target[mu[c]] = c

(* A running stream that is still open is the one the service finds under its *)
(* user's ID: a second tab never leaves the first one connected but deaf      *)
(* (service.go, Add closes the old stream before it registers the new one).   *)
OpenStreamIsReachable ==
    \A c \in Conns :
        pc[c] \in {"select", "transport", "closing"} /\ ~closed[c]
            => streams[ConnUser[c]] = c

(* A stream, once closed, stays closed, and its Run receives nothing more.    *)
ClosedForGood ==
    [][\A c \in Conns : closed[c] => closed'[c] /\ handed'[c] = handed[c]]_vars

(* The service implements the promise made to the browsers.                   *)
Feed == INSTANCE SubmissionFeed WITH
    feed <- streams,
    seen <- {c \in Conns : pc[c] \notin {"new", "add", "remove"}}
FeedSpec == Feed!Spec

(* SendTo returns: the CI run that recorded a submission goes on, as long as no *)
(* connection breaks (service.go, SendTo).                                      *)
SendToReturns == \A s \in Senders : pc[s] = "waiting" ~> pc[s] = "idle" \/ gone # {}

(* A submission reaches every addressee whose stream is registered when SendTo *)
(* gets the service mutex, again as long as no connection breaks (service.go,   *)
(* SendTo, and stream.go, Send).                                                *)
Delivered ==
    \A c \in Conns, n \in 1 .. MaxSends :
        (\E s \in Senders : /\ pc[s] = "loop" /\ item[s] = n
                            /\ streams[ConnUser[c]] = c /\ ConnUser[c] \in todo[s])
            ~> gone # {} \/ \E i \in DOMAIN handed[c] : handed[c][i] = n

(* A stream that was closed, by a second tab or by the service, lets its RPC  *)
(* handler return: no handler is left behind.                                 *)
ClosedRunReturns == \A c \in Conns : closed[c] ~> pc[c] = "returned"

(* service.go:47 says of SendTo that unconnected clients are ignored: a send   *)
(* to a client that has gone away gets over it.                                *)
UnconnectedIgnored ==
    \A s \in Senders, c \in Conns :
        pc[s] = "chSend" /\ target[s] = c /\ c \in gone ~> pc[s] = "idle"
=============================================================================
