----------------------- MODULE SubmissionStream_proofs ----------------------
(***************************************************************************)
(* Proofs about the stream service, for every set of users, connections and *)
(* goroutines.                                                              *)
(***************************************************************************)
EXTENDS SubmissionStream, TLAPS

(* A goroutine is between Lock and Unlock of Service.mu iff it holds it. *)
ServiceHeld == \A t \in Threads : svcMu = t <=> InService(t)

(* A sender is inside Stream.Send iff it holds the mu of that stream. *)
StreamHeld ==
    \A s \in Senders :
        /\ pc[s] \in {"chSend", "unlock"} => target[s] \in Conns
        /\ \A c \in Conns :
            mu[c] = s <=> pc[s] \in {"chSend", "unlock"} /\ target[s] = c

(* The map holds streams of the right user, whose Add has returned. *)
RegisteredStarted ==
    \A u \in Users : streams[u] # None =>
        /\ ConnUser[streams[u]] = u
        /\ pc[streams[u]] \in {"select", "transport", "closing", "returned"}

(* The goroutine that holds Service.mu loops over registered users only. *)
TodoRegistered ==
    \A t \in Threads : InService(t) => \A u \in todo[t] : streams[u] # None

(* Add removes the user's old stream before it registers the new one. *)
AddRemovesFirst ==
    \A c \in Conns :
        pc[c] = "remove" /\ streams[ConnUser[c]] # None => ConnUser[c] \in todo[c]

IInv ==
    /\ TypeOK
    /\ ServiceHeld
    /\ StreamHeld
    /\ RegisteredStarted
    /\ TodoRegistered
    /\ AddRemovesFirst
    /\ SendsOnOpenChannel
    /\ OpenStreamIsReachable

(* The invariant holds when the server starts: nothing is registered or held. *)
LEMMA InitIInv == Init => IInv
  <1> USE ConnsAssumption, MaxSendsAssumption
  <1> SUFFICES ASSUME Init PROVE IInv
    OBVIOUS
  <1>1. TypeOK
    BY DEF Init, TypeOK, Threads, SenderPC, ConnPC, CloserPC
  <1>2. QED
    BY <1>1 DEF Init, IInv, ServiceHeld, StreamHeld, RegisteredStarted, TodoRegistered,
       AddRemovesFirst, SendsOnOpenChannel, OpenStreamIsReachable, InService, Threads

(* Every step of the service keeps the types. *)
LEMMA TypeStep == TypeOK /\ ServiceHeld /\ StreamHeld /\ TodoRegistered /\ [Next]_vars => TypeOK'
  <1> USE ConnsAssumption, MaxSendsAssumption DEF Threads, SenderPC, ConnPC, CloserPC
  <1> SUFFICES ASSUME TypeOK, ServiceHeld, StreamHeld, TodoRegistered, [Next]_vars PROVE TypeOK'
    OBVIOUS
  <1> USE DEF TypeOK
  <1>1. ASSUME NEW s \in Senders, CallSendTo(s) PROVE TypeOK'
    BY <1>1 DEF CallSendTo
  <1>2. ASSUME NEW s \in Senders, SendTo(s) PROVE TypeOK'
    BY <1>2 DEF SendTo, LockService, Registered
  <1>3. ASSUME NEW s \in Senders, SendLock(s) PROVE TypeOK'
    BY <1>3 DEF SendLock, TodoRegistered, InService
  <1>4. ASSUME NEW s \in Senders, SendChannel(s) PROVE TypeOK'
    <2>1. target[s] \in Conns /\ item[s] \in Nat
      BY <1>4 DEF SendChannel, StreamHeld
    <2>2. handed' \in [Conns -> Seq(Nat)]
      BY <1>4, <2>1 DEF SendChannel
    <2>3. pc' = [pc EXCEPT ![s] = "unlock", ![target[s]] = "transport"]
      BY <1>4 DEF SendChannel
    <2>4. \A t \in Threads :
            pc'[t] = IF t = s THEN "unlock" ELSE IF t = target[s] THEN "transport" ELSE pc[t]
      BY <2>1, <2>3
    <2>5. DOMAIN pc' = Threads /\ pc' = [t \in Threads |-> pc'[t]]
      BY <2>3
    <2>6. \A c \in Conns : c # s /\ pc'[c] \in ConnPC
      BY <2>1, <2>4
    <2>7. \A r \in Senders : r # target[s] /\ pc'[r] \in SenderPC
      BY <2>1, <2>4
    <2>8. \A k \in Closers : k # s /\ k # target[s] /\ pc'[k] \in CloserPC
      BY <2>1, <2>4
    <2>9. pc' \in [Threads -> SenderPC \cup ConnPC \cup CloserPC]
      BY <2>5, <2>6, <2>7, <2>8
    <2>10. UNCHANGED <<svcMu, streams, mu, closed, gone, todo, target, calls, published, item>>
      BY <1>4 DEF SendChannel
    <2>11. closed' \in [Conns -> BOOLEAN] /\ gone' \subseteq Flaky /\ calls' \in 0 .. MaxSends
      BY <2>10
    <2>12. QED
      BY <2>2, <2>9, <2>10, <2>11, <2>6, <2>7, <2>8
  <1>5. ASSUME NEW s \in Senders, SendUnlock(s) PROVE TypeOK'
    BY <1>5 DEF SendUnlock
  <1>6. ASSUME NEW s \in Senders, SendToReturn(s) PROVE TypeOK'
    BY <1>6 DEF SendToReturn
  <1>7. ASSUME NEW t \in Conns \cup Closers, internalRemove(t) PROVE TypeOK'
    BY <1>7 DEF internalRemove, TodoRegistered, InService
  <1>8. ASSUME NEW k \in Closers, Close(k) PROVE TypeOK'
    BY <1>8 DEF Close, LockService, Registered
  <1>9. ASSUME NEW k \in Closers, CloseReturn(k) PROVE TypeOK'
    BY <1>9 DEF CloseReturn
  <1>10. ASSUME NEW c \in Conns, NewStream(c) PROVE TypeOK'
    BY <1>10 DEF NewStream
  <1>11. ASSUME NEW c \in Conns, Add(c) PROVE TypeOK'
    BY <1>11 DEF Add, LockService, Registered
  <1>12. ASSUME NEW c \in Conns, AddReturn(c) PROVE TypeOK'
    <2>1. /\ svcMu' = None
          /\ streams' = [streams EXCEPT ![ConnUser[c]] = c]
          /\ pc' = [pc EXCEPT ![c] = "select"]
          /\ UNCHANGED <<mu, closed, gone, todo, target, calls, published, item, handed>>
      BY <1>12, Zenon DEF AddReturn
    <2>2. streams' \in [Users -> Conns \cup {None}]
      BY <2>1
    <2>3. /\ pc' \in [Threads -> SenderPC \cup ConnPC \cup CloserPC]
          /\ \A t \in Threads \ {c} : pc'[t] = pc[t]
          /\ pc'[c] = "select"
      BY <2>1
    <2>4. QED
      BY <2>1, <2>2, <2>3
  <1>13. ASSUME NEW c \in Conns, RunStops(c) PROVE TypeOK'
    BY <1>13 DEF RunStops
  <1>14. ASSUME NEW c \in Conns, RunSends(c) PROVE TypeOK'
    <2>1. CASE pc' = [pc EXCEPT ![c] = "select"] /\ UNCHANGED gone
      BY <1>14, <2>1 DEF RunSends
    <2>2. CASE gone' = gone \cup {c} /\ c \in Flaky /\ pc' = [pc EXCEPT ![c] = "closing"]
      BY <1>14, <2>2 DEF RunSends
    <2>3. QED
      BY <1>14, <2>1, <2>2 DEF RunSends
  <1>15. ASSUME NEW c \in Conns, RunReturn(c) PROVE TypeOK'
    BY <1>15 DEF RunReturn
  <1>16. ASSUME NEW c \in Conns, Disconnect(c) PROVE TypeOK'
    BY <1>16 DEF Disconnect
  <1>17. CASE UNCHANGED vars
    BY <1>17 DEF vars
  <1>18. QED
    BY <1>1, <1>2, <1>3, <1>4, <1>5, <1>6, <1>7, <1>8, <1>9, <1>10, <1>11, <1>12, <1>13,
       <1>14, <1>15, <1>16, <1>17 DEF Next, SenderStep, ConnStep, CloserStep
(* Every step keeps the discipline of the two mutexes and of the map. *)
LEMMA IInvStep == IInv /\ [Next]_vars => IInv'
  <1> USE ConnsAssumption DEF Threads, SenderPC, ConnPC, CloserPC
  <1> SUFFICES ASSUME IInv, [Next]_vars PROVE IInv'
    OBVIOUS
  <1>0. TypeOK'
    BY TypeStep DEF IInv
  <1> USE <1>0 DEF IInv, TypeOK, ServiceHeld, StreamHeld, RegisteredStarted, TodoRegistered,
         AddRemovesFirst, SendsOnOpenChannel, OpenStreamIsReachable, InService
  <1>1. ASSUME NEW s \in Senders, CallSendTo(s) PROVE IInv'
    BY <1>1 DEF CallSendTo
  <1>2. ASSUME NEW s \in Senders, SendTo(s) PROVE IInv'
    BY <1>2 DEF SendTo, LockService, Registered
  <1>3. ASSUME NEW s \in Senders, SendLock(s) PROVE IInv'
    BY <1>3 DEF SendLock
  <1>4. ASSUME NEW s \in Senders, SendChannel(s) PROVE IInv'
    <2>1. target[s] \in Conns /\ s \in Threads /\ target[s] \in Threads /\ s # target[s]
      BY <1>4 DEF SendChannel
    <2>2. \A t \in Threads :
            pc'[t] = IF t = s THEN "unlock" ELSE IF t = target[s] THEN "transport" ELSE pc[t]
      BY <1>4, <2>1 DEF SendChannel
    <2>3. UNCHANGED <<svcMu, streams, mu, closed, todo, target>>
      BY <1>4 DEF SendChannel
    <2>4. ServiceHeld'
      BY <1>4, <2>1, <2>2, <2>3 DEF SendChannel
    <2>5. StreamHeld' /\ SendsOnOpenChannel'
      BY <1>4, <2>1, <2>2, <2>3 DEF SendChannel
    <2>6. \A c \in Conns : c # s /\ pc'[c] = IF c = target[s] THEN "transport" ELSE pc[c]
      BY <2>1, <2>2
    <2>7. pc[target[s]] = "select"
      BY <1>4 DEF SendChannel
    <2>8. RegisteredStarted'
      BY <2>6, <2>7, <2>3
    <2>9. RegisteredStarted' /\ OpenStreamIsReachable'
      BY <2>6, <2>7, <2>8, <2>3
    <2>10. TodoRegistered' /\ AddRemovesFirst'
      BY <1>4, <2>1, <2>2, <2>3 DEF SendChannel
    <2>11. QED
      BY <2>4, <2>5, <2>9, <2>10
  <1>5. ASSUME NEW s \in Senders, SendUnlock(s) PROVE IInv'
    BY <1>5 DEF SendUnlock
  <1>6. ASSUME NEW s \in Senders, SendToReturn(s) PROVE IInv'
    BY <1>6 DEF SendToReturn
  <1>7. ASSUME NEW t \in Conns \cup Closers, internalRemove(t) PROVE IInv'
    BY <1>7 DEF internalRemove
  <1>8. ASSUME NEW k \in Closers, Close(k) PROVE IInv'
    BY <1>8 DEF Close, LockService, Registered
  <1>9. ASSUME NEW k \in Closers, CloseReturn(k) PROVE IInv'
    BY <1>9 DEF CloseReturn
  <1>10. ASSUME NEW c \in Conns, NewStream(c) PROVE IInv'
    BY <1>10 DEF NewStream
  <1>11. ASSUME NEW c \in Conns, Add(c) PROVE IInv'
    BY <1>11 DEF Add, LockService, Registered
  <1>12. ASSUME NEW c \in Conns, AddReturn(c) PROVE IInv'
    <2>1. ServiceHeld' /\ StreamHeld' /\ SendsOnOpenChannel'
      BY <1>12 DEF AddReturn
    <2>2. streams[ConnUser[c]] = None
      BY <1>12 DEF AddReturn
    <2>3. \A u \in Users : streams'[u] = IF u = ConnUser[c] THEN c ELSE streams[u]
      BY <1>12 DEF AddReturn
    <2>4. \A d \in Conns : pc'[d] = IF d = c THEN "select" ELSE pc[d]
      BY <1>12 DEF AddReturn
    <2>5. RegisteredStarted'
      BY <2>2, <2>3, <2>4
    <2>6. OpenStreamIsReachable'
      BY <1>12, <2>2, <2>3, <2>4 DEF AddReturn
    <2>7. TodoRegistered' /\ AddRemovesFirst'
      BY <1>12, <2>1, <2>2, <2>3, <2>4 DEF AddReturn
    <2>8. QED
      BY <2>1, <2>5, <2>6, <2>7
  <1>13. ASSUME NEW c \in Conns, RunStops(c) PROVE IInv'
    BY <1>13 DEF RunStops
  <1>14. ASSUME NEW c \in Conns, RunSends(c) PROVE IInv'
    <2>1. CASE pc' = [pc EXCEPT ![c] = "select"] /\ UNCHANGED gone
      BY <1>14, <2>1 DEF RunSends
    <2>2. CASE pc' = [pc EXCEPT ![c] = "closing"]
      BY <1>14, <2>2 DEF RunSends
    <2>3. QED
      BY <1>14, <2>1, <2>2 DEF RunSends
  <1>15. ASSUME NEW c \in Conns, RunReturn(c) PROVE IInv'
    BY <1>15 DEF RunReturn
  <1>16. ASSUME NEW c \in Conns, Disconnect(c) PROVE IInv'
    BY <1>16 DEF Disconnect
  <1>17. CASE UNCHANGED vars
    BY <1>17 DEF vars
  <1>18. QED
    BY <1>1, <1>2, <1>3, <1>4, <1>5, <1>6, <1>7, <1>8, <1>9, <1>10, <1>11, <1>12, <1>13, <1>14, <1>15, <1>16, <1>17 DEF Next, SenderStep, ConnStep, CloserStep

(* A closed stream stays closed and is handed nothing. *)
LEMMA ClosedStep ==
  IInv /\ [Next]_vars => \A c \in Conns : closed[c] => closed'[c] /\ handed'[c] = handed[c]
  <1> USE ConnsAssumption DEF Threads
  <1> SUFFICES ASSUME IInv, [Next]_vars, NEW c \in Conns, closed[c]
               PROVE  closed'[c] /\ handed'[c] = handed[c]
    OBVIOUS
  <1> USE DEF IInv, TypeOK
  <1>1. ASSUME NEW s \in Senders, SendChannel(s) PROVE closed'[c] /\ handed'[c] = handed[c]
    <2>1. target[s] # c
      BY <1>1 DEF SendChannel, SendsOnOpenChannel
    <2>2. QED
      BY <1>1, <2>1 DEF SendChannel
  <1>2. CASE UNCHANGED handed /\ \E t \in Conns \cup Closers : internalRemove(t)
    BY <1>2 DEF internalRemove
  <1>3. ASSUME NEW d \in Conns, RunReturn(d) PROVE closed'[c] /\ handed'[c] = handed[c]
    BY <1>3 DEF RunReturn
  <1>4. CASE UNCHANGED <<closed, handed>>
    BY <1>4
  <1>5. QED
    BY <1>1, <1>2, <1>3, <1>4 DEF Next, SenderStep, ConnStep, CloserStep, CallSendTo, SendTo,
       SendLock, SendUnlock, SendToReturn, internalRemove, Close, CloseReturn, NewStream, Add,
       AddReturn, RunStops, RunSends, Disconnect, vars

(* The safety of the service: no send on a closed channel, the mutexes taken *)
(* in one order, no open stream out of the reach of SendTo.                   *)
THEOREM StreamSafety ==
  Spec => [](TypeOK /\ SendsOnOpenChannel /\ StreamLockUnderServiceLock /\ OpenStreamIsReachable)
  <1>1. Spec => []IInv
    BY InitIInv, IInvStep, PTL DEF Spec
  <1>2. IInv => StreamLockUnderServiceLock
    BY ConnsAssumption DEF IInv, TypeOK, ServiceHeld, StreamHeld, InService,
       StreamLockUnderServiceLock, Threads
  <1>3. IInv => TypeOK /\ SendsOnOpenChannel /\ OpenStreamIsReachable
    BY DEF IInv
  <1>4. QED
    BY <1>1, <1>2, <1>3, PTL

(* Once closed, a stream is closed for good. *)
THEOREM StreamClosedForGood == Spec => ClosedForGood
  <1>1. Spec => []IInv
    BY InitIInv, IInvStep, PTL DEF Spec
  <1>2. IInv /\ [Next]_vars =>
          [\A c \in Conns : closed[c] => closed'[c] /\ handed'[c] = handed[c]]_vars
    BY ClosedStep
  <1>3. QED
    BY <1>1, <1>2, PTL DEF Spec, ClosedForGood

----------------------------------------------------------------------------
(* The service implements SubmissionFeed.                                    *)

Below(c, n) == \A i \in 1 .. Len(handed[c]) : handed[c][i] < n

(* The sender in the service carries the latest submission, and no stream it *)
(* has still to visit was handed it: the order of the hand-overs.            *)
HandOver ==
    \A s \in Senders :
        /\ InService(s) => item[s] = published /\ \A u \in todo[s] : Below(streams[u], published)
        /\ pc[s] = "chSend" =>
            /\ streams[ConnUser[target[s]]] = target[s]
            /\ Below(target[s], published)
            /\ ConnUser[target[s]] \notin todo[s]

NothingAhead == \A c \in Conns : Below(c, published + 1)

FInv == IInv /\ HandOver /\ NothingAhead

(* Nothing has been published or handed over when the server starts. *)
LEMMA InitFInv == Init => FInv
  <1> SUFFICES ASSUME Init PROVE HandOver /\ NothingAhead
    BY InitIInv DEF FInv
  <1> QED
    BY ConnsAssumption DEF Init, HandOver, NothingAhead, Below, InService, Threads

(* Every step keeps what the hand-over relies on: while a sender has a stream  *)
(* still to visit, its submission is the latest and is not yet with the stream. *)
LEMMA FInvStep == FInv /\ [Next]_vars => FInv'
  <1> USE ConnsAssumption DEF Threads
  <1> SUFFICES ASSUME FInv, [Next]_vars PROVE HandOver' /\ NothingAhead'
    BY IInvStep DEF FInv
  <1>0. IInv /\ IInv'
    BY IInvStep DEF FInv
  <1> USE <1>0 DEF FInv, IInv, TypeOK, ServiceHeld, HandOver, NothingAhead, InService
  <1>1. ASSUME NEW s \in Senders, CallSendTo(s) PROVE HandOver' /\ NothingAhead'
    BY <1>1 DEF CallSendTo, Below
  <1>2. ASSUME NEW s \in Senders, SendTo(s) PROVE HandOver' /\ NothingAhead'
    BY <1>2 DEF SendTo, LockService, Registered, Below
  <1>3. ASSUME NEW s \in Senders, SendLock(s) PROVE HandOver' /\ NothingAhead'
    <2>1. PICK u \in todo[s] :
            /\ target' = [target EXCEPT ![s] = streams[u]]
            /\ todo' = [todo EXCEPT ![s] = @ \ {u}]
            /\ pc' = [pc EXCEPT ![s] = IF closed[streams[u]] THEN "unlock" ELSE "chSend"]
      BY <1>3 DEF SendLock
    <2>2. UNCHANGED <<svcMu, streams, published, item, handed>> /\ pc[s] = "loop"
      BY <1>3 DEF SendLock
    <2>3. u \in Users /\ streams[u] \in Conns /\ ConnUser[streams[u]] = u
      BY <2>2 DEF TodoRegistered, RegisteredStarted
    <2>4. \A r \in Senders \ {s} : ~InService(r)
      BY <2>2
    <2>5. NothingAhead'
      BY <2>2 DEF Below
    <2>6. item[s] = published /\ \A v \in todo[s] : Below(streams[v], published)
      BY <2>2
    <2>7. HandOver'
      BY <2>1, <2>2, <2>3, <2>4, <2>6 DEF Below
    <2>8. QED
      BY <2>5, <2>7
  <1>4. ASSUME NEW s \in Senders, SendChannel(s) PROVE HandOver' /\ NothingAhead'
    <2> DEFINE c == target[s]
    <2>1. c \in Conns /\ pc[s] = "chSend" /\ item[s] = published
      BY <1>4 DEF SendChannel, StreamHeld
    <2>2. UNCHANGED <<svcMu, streams, todo, target, published, item>>
      BY <1>4 DEF SendChannel
    <2>3. /\ handed' = [handed EXCEPT ![c] = Append(@, published)]
          /\ pc' = [pc EXCEPT ![s] = "unlock", ![c] = "transport"]
      BY <1>4, <2>1 DEF SendChannel
    <2>4. \A d \in Conns \ {c} : handed'[d] = handed[d]
      BY <2>1, <2>3
    <2>5. handed'[c] = Append(handed[c], published) /\ handed[c] \in Seq(Nat)
      BY <2>1, <2>3
    <2>6. Below(c, published + 1)'
      BY <2>1, <2>2, <2>5 DEF Below
    <2>7. NothingAhead'
      BY <2>2, <2>4, <2>6 DEF Below
    <2>8. \A u \in todo[s] : streams[u] \in Conns \ {c}
      BY <2>1 DEF TodoRegistered, RegisteredStarted
    <2>9. \A u \in todo[s] : Below(streams[u], published)'
      BY <2>1, <2>2, <2>4, <2>8 DEF Below
    <2>10. \A r \in Senders \ {s} : r # c /\ pc'[r] = pc[r] /\ ~InService(r)
      BY <2>1, <2>3
    <2>11. pc'[s] = "unlock"
      BY <2>1, <2>3
    <2>12. HandOver'
      BY <2>1, <2>2, <2>9, <2>10, <2>11
    <2>13. QED
      BY <2>7, <2>12
  <1>5. ASSUME NEW s \in Senders, SendUnlock(s) PROVE HandOver' /\ NothingAhead'
    BY <1>5 DEF SendUnlock, Below
  <1>6. ASSUME NEW s \in Senders, SendToReturn(s) PROVE HandOver' /\ NothingAhead'
    BY <1>6 DEF SendToReturn, Below
  <1>7. ASSUME NEW t \in Conns \cup Closers, internalRemove(t) PROVE HandOver' /\ NothingAhead'
    BY <1>7 DEF internalRemove, Below
  <1>8. ASSUME NEW k \in Closers, Close(k) PROVE HandOver' /\ NothingAhead'
    BY <1>8 DEF Close, LockService, Registered, Below
  <1>9. ASSUME NEW k \in Closers, CloseReturn(k) PROVE HandOver' /\ NothingAhead'
    BY <1>9 DEF CloseReturn, Below
  <1>10. ASSUME NEW c \in Conns, NewStream(c) PROVE HandOver' /\ NothingAhead'
    BY <1>10 DEF NewStream, Below
  <1>11. ASSUME NEW c \in Conns, Add(c) PROVE HandOver' /\ NothingAhead'
    BY <1>11 DEF Add, LockService, Registered, Below
  <1>12. ASSUME NEW c \in Conns, AddReturn(c) PROVE HandOver' /\ NothingAhead'
    BY <1>12 DEF AddReturn, Below
  <1>13. ASSUME NEW c \in Conns, RunStops(c) PROVE HandOver' /\ NothingAhead'
    BY <1>13 DEF RunStops, Below
  <1>14. ASSUME NEW c \in Conns, RunSends(c) PROVE HandOver' /\ NothingAhead'
    BY <1>14 DEF RunSends, Below
  <1>15. ASSUME NEW c \in Conns, RunReturn(c) PROVE HandOver' /\ NothingAhead'
    BY <1>15 DEF RunReturn, Below
  <1>16. ASSUME NEW c \in Conns, Disconnect(c) PROVE HandOver' /\ NothingAhead'
    BY <1>16 DEF Disconnect, Below
  <1>17. CASE UNCHANGED vars
    BY <1>17 DEF vars, Below
  <1>18. QED
    BY <1>1, <1>2, <1>3, <1>4, <1>5, <1>6, <1>7, <1>8, <1>9, <1>10, <1>11, <1>12, <1>13, <1>14, <1>15, <1>16, <1>17 DEF Next, SenderStep, ConnStep, CloserStep

SeenConns == {c \in Conns : pc[c] \notin {"new", "add", "remove"}}

(* Each step of the service is a step of the feed, or changes nothing of it. *)
LEMMA FeedStep == FInv /\ [Next]_vars => [Feed!Next]_(Feed!vars)
  <1> USE ConnsAssumption DEF Threads
  <1> SUFFICES ASSUME FInv, [Next]_vars
               PROVE  Feed!Next \/ UNCHANGED <<streams, SeenConns, published, handed>>
    BY DEF Feed!vars, SeenConns
  <1> USE DEF FInv, IInv, TypeOK
  <1> DEFINE Stutter == UNCHANGED <<streams, SeenConns, published, handed>>
  <1>1. ASSUME NEW s \in Senders, SendTo(s) PROVE Feed!Publish
    <2>1. published' = published + 1 /\ UNCHANGED <<streams, handed>>
      BY <1>1 DEF SendTo
    <2>2. \A c \in Conns : pc'[c] = pc[c]
      BY <1>1 DEF SendTo
    <2>3. SeenConns' = SeenConns
      BY <2>2 DEF SeenConns
    <2>4. QED
      BY <2>1, <2>3 DEF Feed!Publish, SeenConns
  <1>2. ASSUME NEW s \in Senders, SendChannel(s) PROVE \E u \in Users : Feed!Hand(u)
    <2> DEFINE c == target[s]
    <2>1. c \in Conns /\ streams[ConnUser[c]] = c /\ Below(c, published) /\ item[s] = published
      BY <1>2 DEF SendChannel, StreamHeld, HandOver, InService
    <2>2. handed' = [handed EXCEPT ![c] = Append(@, published)] /\ UNCHANGED <<streams, published>>
      BY <1>2, <2>1 DEF SendChannel
    <2>3. \A d \in Conns : pc'[d] = IF d = c THEN "transport" ELSE pc[d]
      BY <1>2, <2>1 DEF SendChannel
    <2>4. pc[c] = "select"
      BY <1>2 DEF SendChannel
    <2>5. SeenConns' = SeenConns
      BY <2>3, <2>4 DEF SeenConns
    <2>6. Feed!Hand(ConnUser[c])
      BY <2>1, <2>2, <2>5 DEF Feed!Hand, Below, SeenConns
    <2>7. QED
      BY <2>1, <2>6
  <1>3. ASSUME NEW t \in Conns \cup Closers, internalRemove(t) PROVE \E u \in Users : Feed!Detach(u)
    <2>1. PICK u \in todo[t] : streams' = [streams EXCEPT ![u] = None]
      BY <1>3 DEF internalRemove
    <2>2. u \in Users /\ streams[u] # None
      BY <1>3 DEF internalRemove, TodoRegistered, InService
    <2>3. UNCHANGED <<pc, published, handed>>
      BY <1>3 DEF internalRemove
    <2>4. Feed!Detach(u)
      BY <2>1, <2>2, <2>3 DEF Feed!Detach
    <2>5. QED
      BY <2>2, <2>4
  <1>4. ASSUME NEW c \in Conns, AddReturn(c) PROVE Feed!Attach(c)
    <2>1. streams[ConnUser[c]] = None /\ pc[c] = "remove"
      BY <1>4 DEF AddReturn, AddRemovesFirst
    <2>2. streams' = [streams EXCEPT ![ConnUser[c]] = c] /\ UNCHANGED <<published, handed>>
      BY <1>4 DEF AddReturn
    <2>3. \A d \in Conns : pc'[d] = IF d = c THEN "select" ELSE pc[d]
      BY <1>4 DEF AddReturn
    <2>4. SeenConns' = SeenConns \cup {c}
      BY <2>3 DEF SeenConns
    <2>5. QED
      BY <2>1, <2>2, <2>4 DEF Feed!Attach, SeenConns
  <1>5. ASSUME NEW t \in Threads, NEW p,
               pc' = [pc EXCEPT ![t] = p],
               t \in Conns => (p \in {"add", "remove"} <=> pc[t] \in {"new", "add", "remove"}),
               p # "new",
               UNCHANGED <<streams, published, handed>>
        PROVE  Stutter
    <2>1. \A c \in Conns : pc'[c] \in {"new", "add", "remove"} <=> pc[c] \in {"new", "add", "remove"}
      BY <1>5
    <2>2. QED
      BY <1>5, <2>1 DEF SeenConns
  <1>6. ASSUME NEW s \in Senders,
               CallSendTo(s) \/ SendLock(s) \/ SendUnlock(s) \/ SendToReturn(s)
        PROVE  Stutter
    <2>1. /\ \E p \in SenderPC : pc' = [pc EXCEPT ![s] = p]
          /\ UNCHANGED <<streams, published, handed>>
      <3>1. CASE SendLock(s)
        <4>1. PICK u \in todo[s] :
                pc' = [pc EXCEPT ![s] = IF closed[streams[u]] THEN "unlock" ELSE "chSend"]
          BY <3>1, Zenon DEF SendLock
        <4>2. CASE closed[streams[u]]
          BY <3>1, <4>1, <4>2 DEF SendLock, SenderPC
        <4>3. CASE ~closed[streams[u]]
          BY <3>1, <4>1, <4>3 DEF SendLock, SenderPC
        <4>4. QED
          BY <4>2, <4>3
      <3>2. CASE CallSendTo(s) \/ SendUnlock(s) \/ SendToReturn(s)
        BY <3>2 DEF CallSendTo, SendUnlock, SendToReturn, SenderPC
      <3>3. QED
        BY <1>6, <3>1, <3>2
    <2>2. QED
      BY <1>5, <2>1 DEF SenderPC
  <1>7. ASSUME NEW k \in Closers, Close(k) \/ CloseReturn(k) PROVE Stutter
    <2>1. /\ \E p : pc' = [pc EXCEPT ![k] = p] /\ p # "new"
          /\ UNCHANGED <<streams, published, handed>>
      BY <1>7 DEF Close, CloseReturn
    <2>2. QED
      BY <1>5, <2>1
  <1>8. ASSUME NEW c \in Conns,
               NewStream(c) \/ Add(c) \/ RunStops(c) \/ RunSends(c) \/ RunReturn(c)
        PROVE  Stutter
    <2>1. /\ \E p : /\ pc' = [pc EXCEPT ![c] = p]
                    /\ p # "new"
                    /\ p \in {"add", "remove"} <=> pc[c] \in {"new", "add", "remove"}
          /\ UNCHANGED <<streams, published, handed>>
      BY <1>8 DEF NewStream, Add, RunStops, RunSends, RunReturn
    <2>2. QED
      BY <1>5, <2>1
  <1>9. ASSUME NEW c \in Conns, Disconnect(c) PROVE Stutter
    BY <1>9 DEF Disconnect, SeenConns
  <1>10. CASE UNCHANGED vars
    BY <1>10 DEF vars, SeenConns
  <1>11. QED
    BY <1>1, <1>2, <1>3, <1>4, <1>6, <1>7, <1>8, <1>9, <1>10
       DEF Next, SenderStep, ConnStep, CloserStep, Feed!Next

(* The goroutines, mutexes and channels implement the feed: a submission is   *)
(* handed to current connections only, once to each and in order.             *)
THEOREM StreamImplementsFeed == Spec => FeedSpec
  <1>1. Init => Feed!Init
    BY ConnsAssumption DEF Init, Feed!Init, Threads
  <1>2. Spec => []FInv
    BY InitFInv, FInvStep, PTL DEF Spec
  <1>3. QED
    BY <1>1, <1>2, FeedStep, PTL DEF Spec, FeedSpec, Feed!Spec
=============================================================================
