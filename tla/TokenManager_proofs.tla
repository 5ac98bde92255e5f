------------------------ MODULE TokenManager_proofs -------------------------
(***************************************************************************)
(* Proofs about session tokens, for any users and sessions, while the server  *)
(* answers one request at a time.  With two in flight the properties do not    *)
(* hold, as the list of users has no mutex.                                   *)
(***************************************************************************)
EXTENDS TokenManager, TLAPS

OneHandler == \E h \in Handlers : Handlers = {h}

(* The list and the flags agree, but for the user whom the request at work has *)
(* flagged or unflagged already, and the list it has read is still the list.   *)
Removing == {"removeRead", "removeWrite"}
Adding == {"addRead", "addWrite"}
ListInv ==
    \A h \in Handlers :
        /\ pc[h] \in Removing => flag = list \ {job[h].user}
        /\ pc[h] \in Adding => flag = list \cup {job[h].who}
        /\ pc[h] \in {"removeWrite", "addWrite"} => job[h].read = list
        /\ pc[h] \notin Removing \cup Adding => list = flag

(* Requests come from a session of their user.                                *)
RequestInv ==
    \A h \in Handlers :
        /\ pc[h] = "idle" => job[h] = NoJob
        /\ pc[h] # "idle" => job[h].session \in Sessions /\ job[h].user = UserOf[job[h].session]
        /\ pc[h] \in Adding => job[h].who \in Users

(* A new cookie tells the truth when it is made, and later unless the user has *)
(* been flagged since, or removed from the group unlisted.                     *)
CookieInv ==
    \A h \in Handlers, u \in Users :
        job[h].user = u =>
            /\ pc[h] = "newCookie" => job[h].cookie = NoCookie
            /\ pc[h] \in {"removeFlag", "removeRead", "removeWrite"} => job[h].cookie = Rights(u)
            /\ pc[h] # "idle" /\ job[h].cookie # NoCookie =>
                  job[h].cookie = Rights(u) \/ u \in flag \cup unlisted

(* Those whose rights a request will change are flagged or still to be.        *)
Affected(j) == IF j.method = "DeleteGroup" THEN members ELSE j.ids
AnnounceInv ==
    \A h \in Handlers :
        /\ pc[h] \in Adding \cup {"announce"} => Affected(job[h]) \subseteq job[h].todo \cup flag
        /\ pc[h] = "handle" /\ job[h].method # "GetUser" => Affected(job[h]) \subseteq flag

(* A session with old claims belongs to a flagged user, or to one removed from *)
(* the group unlisted, or waits for its new cookie.                            *)
Waiting(s) == \E h \in Handlers : job[h].session = s /\ job[h].cookie # NoCookie
Stale(s) == s \notin expired \cup lost /\ token[s] # NoCookie /\ token[s] # Rights(UserOf[s])
StaleInv == \A s \in Sessions : Stale(s) => UserOf[s] \in flag \cup unlisted \/ Waiting(s)

IInv == TypeOK /\ ListInv /\ RequestInv /\ CookieInv /\ AnnounceInv /\ StaleInv

----------------------------------------------------------------------------
(* Types.                                                                    *)

LEMMA RightsType == \A u : Rights(u) \in Claims /\ Rights(u) # NoCookie
  <1>1. \A u : Rights(u) \in Claims
    BY DEF Rights, Claims
  <1>2. QED
    BY <1>1, NoCookieAssumption

LEMMA NoJobType == NoJob \in Job
  BY DEF NoJob, Job, Claims

LEMMA NewJobType ==
  ASSUME TypeOK, NEW s \in Sessions, NEW m \in Methods, NEW ids \in SUBSET Users,
         NEW admin \in BOOLEAN, token[s] # NoCookie
  PROVE  NewJob(s, m, ids, admin) \in Job
  <1>1. token[s] \in Claims /\ UserOf[s] \in Users
    BY SessionsAssumption DEF TypeOK
  <1>2. QED
    BY <1>1 DEF NewJob, NoJob, Job

LEMMA InitTypeOK == Init => TypeOK
  BY NoJobType, TeachersAssumption, FailsAssumption DEF Init, TypeOK, PC

LEMMA ReceiveType ==
  ASSUME TypeOK, NEW h \in Handlers, Receive(h)
  PROVE  TypeOK'
  <1>1. PICK s \in Sessions, m \in Methods, ids \in SUBSET Users \ {{}}, admin \in BOOLEAN :
          /\ token[s] # NoCookie
          /\ m \in {"GetUser", "DeleteGroup"} => ids = Users
          /\ m = "UpdateUser" => Cardinality(ids) = 1
          /\ m # "UpdateUser" => ~admin
          /\ Fails \/ (Allowed(NewJob(s, m, ids, admin)) /\ (m = "DeleteGroup" => members # {}))
          /\ m # "GetUser" => changes < MaxChanges
          /\ changes' = IF m = "GetUser" THEN changes ELSE changes + 1
          /\ job' = [job EXCEPT ![h] = NewJob(s, m, ids, admin)]
          /\ Goto(h, IF UserOf[s] \in list \/ s \in expired THEN "newCookie" ELSE "access")
    BY Zenon DEF Receive
  <1>2. job' \in [Handlers -> Job]
    BY <1>1, NewJobType DEF TypeOK
  <1>3. pc' \in [Handlers -> PC]
    BY <1>1 DEF TypeOK, Goto, PC
  <1>4. changes' \in 0 .. MaxChanges
    BY <1>1, FailsAssumption DEF TypeOK
  <1>5. QED
    BY <1>2, <1>3, <1>4 DEF TypeOK, Receive, db

LEMMA JobFields ==
  ASSUME TypeOK, NEW h \in Handlers
  PROVE  /\ \A c \in Claims : [job EXCEPT ![h].cookie = c] \in [Handlers -> Job]
         /\ \A S \in SUBSET Users : [job EXCEPT ![h].read = S] \in [Handlers -> Job]
         /\ \A S \in SUBSET Users : [job EXCEPT ![h].todo = S] \in [Handlers -> Job]
         /\ \A S \in SUBSET Users, u \in Users :
              [job EXCEPT ![h].todo = S, ![h].who = u] \in [Handlers -> Job]
         /\ job[h].ids \subseteq Users /\ job[h].todo \subseteq Users
         /\ job[h].read \subseteq Users
  <1>1. \A S \in SUBSET Users, u \in Users :
          [job EXCEPT ![h].todo = S, ![h].who = u] \in [Handlers -> Job]
    <2> SUFFICES ASSUME NEW S \in SUBSET Users, NEW u \in Users
                 PROVE  [job EXCEPT ![h].todo = S, ![h].who = u] \in [Handlers -> Job]
      OBVIOUS
    <2>1. [job[h] EXCEPT !.todo = S, !.who = u] \in Job
      <3>1. job[h] \in Job
        BY DEF TypeOK
      <3>2. [job[h] EXCEPT !.todo = S] \in Job
        BY <3>1 DEF Job
      <3>3. [[job[h] EXCEPT !.todo = S] EXCEPT !.who = u] \in Job
        BY <3>2 DEF Job
      <3>4. QED
        BY <3>1, <3>3 DEF Job
    <2>2. [job EXCEPT ![h].todo = S, ![h].who = u] = [job EXCEPT ![h] = [@ EXCEPT !.todo = S, !.who = u]]
      BY DEF TypeOK
    <2>3. QED
      BY <2>1, <2>2 DEF TypeOK
  <1>2. \A c \in Claims : [job EXCEPT ![h].cookie = c] \in [Handlers -> Job]
    BY DEF TypeOK, Job
  <1>3. \A S \in SUBSET Users :
          /\ [job EXCEPT ![h].read = S] \in [Handlers -> Job]
          /\ [job EXCEPT ![h].todo = S] \in [Handlers -> Job]
    BY DEF TypeOK, Job
  <1>4. job[h] \in Job
    BY DEF TypeOK
  <1>5. job[h].ids \subseteq Users /\ job[h].todo \subseteq Users /\ job[h].read \subseteq Users
    BY <1>4 DEF Job
  <1>6. QED
    BY <1>1, <1>2, <1>3, <1>5

LEMMA CookieStepsType ==
  ASSUME TypeOK, NEW h \in Handlers,
         NewAuthCookie(h) \/ RemoveFlag(h) \/ RemoveRead(h) \/ RemoveWrite(h)
  PROVE  TypeOK'
  <1>1. CASE NewAuthCookie(h)
    BY <1>1, JobFields, RightsType DEF NewAuthCookie, Goto, TypeOK, PC, db
  <1>2. CASE RemoveFlag(h)
    BY <1>2 DEF RemoveFlag, Goto, TypeOK, PC, db
  <1>3. CASE RemoveRead(h)
    BY <1>3, JobFields DEF RemoveRead, Goto, TypeOK, PC, db
  <1>4. CASE RemoveWrite(h)
    BY <1>4, JobFields DEF RemoveWrite, Goto, TypeOK, PC, db
  <1>5. QED
    BY <1>1, <1>2, <1>3, <1>4

LEMMA AnnounceStepsType ==
  ASSUME TypeOK, NEW h \in Handlers,
         RequestInv, AccessControl(h) \/ AddFlag(h) \/ AddRead(h) \/ AddWrite(h) \/ Announced(h)
  PROVE  TypeOK'
  <1>1. CASE AccessControl(h)
    <2> DEFINE S == IF job[h].method = "DeleteGroup" THEN members ELSE job[h].ids
    <2>1. S \in SUBSET Users
      BY JobFields DEF TypeOK
    <2>2. job' \in [Handlers -> Job]
      BY <1>1, <2>1, JobFields DEF AccessControl
    <2>3. QED
      BY <1>1, <2>2 DEF AccessControl, Goto, TypeOK, PC, db
  <1>2. CASE AddFlag(h)
    <2>1. PICK u \in job[h].todo :
            \/ job' = [job EXCEPT ![h].todo = @ \ {u}] /\ UNCHANGED <<flag, pc>>
            \/ /\ flag' = flag \cup {u}
               /\ job' = [job EXCEPT ![h].todo = @ \ {u}, ![h].who = u]
               /\ Goto(h, "addRead")
      BY <1>2 DEF AddFlag
    <2>2. u \in Users /\ job[h].todo \ {u} \in SUBSET Users
      BY JobFields
    <2>3. job' \in [Handlers -> Job]
      <3>1. CASE job' = [job EXCEPT ![h].todo = @ \ {u}]
        BY <3>1, <2>2, JobFields
      <3>2. CASE job' = [job EXCEPT ![h].todo = @ \ {u}, ![h].who = u]
        <4>1. job' = [job EXCEPT ![h].todo = job[h].todo \ {u}, ![h].who = u]
          BY <3>2
        <4>2. QED
          BY <4>1, <2>2, JobFields
      <3>3. QED
        BY <2>1, <3>1, <3>2
    <2>4. QED
      BY <1>2, <2>1, <2>2, <2>3 DEF AddFlag, Goto, TypeOK, PC, db
  <1>3. CASE AddRead(h)
    BY <1>3, JobFields DEF AddRead, Goto, TypeOK, PC, db
  <1>4. CASE Announced(h)
    BY <1>4 DEF Announced, Goto, TypeOK, PC, db
  <1>5. CASE AddWrite(h)
    <2>1. job[h].read \cup {job[h].who} \subseteq Users
      BY <1>5, JobFields DEF AddWrite, RequestInv, Adding
    <2>2. QED
      BY <1>5, <2>1 DEF AddWrite, Goto, TypeOK, PC, db
  <1>6. QED
    BY <1>1, <1>2, <1>3, <1>4, <1>5

LEMMA HandleStepsType ==
  ASSUME TypeOK, RequestInv, NEW h \in Handlers, Handle(h) \/ Respond(h) \/ Fail(h)
  PROVE  TypeOK'
  <1>1. CASE Handle(h)
    <2>1. teachers' \subseteq Users /\ members' \subseteq Users
      BY <1>1, JobFields DEF Handle, TypeOK
    <2>2. admins' \subseteq Users
      BY <1>1, JobFields DEF Handle, TypeOK, editUserProfile
    <2>3. QED
      BY <1>1, <2>1, <2>2 DEF Handle, Goto, TypeOK, PC
  <1>2. CASE Respond(h)
    <2>1. job[h].cookie \in Claims \cup {NoCookie}
      BY DEF TypeOK, Job
    <2>2. token' \in [Sessions -> Claims \cup {NoCookie}]
      BY <1>2, <2>1 DEF Respond, TypeOK
    <2>3. job' \in [Handlers -> Job] /\ pc' \in [Handlers -> PC]
      BY <1>2, NoJobType DEF Respond, Goto, TypeOK, PC
    <2>4. QED
      BY <1>2, <2>2, <2>3 DEF Respond, TypeOK, db
  <1>3. CASE Fail(h)
    <2>1. teachers' \subseteq Users
      BY <1>3, JobFields DEF Fail, TypeOK
    <2>2. job' \in [Handlers -> Job] /\ pc' \in [Handlers -> PC]
      BY <1>3, NoJobType DEF Fail, Goto, TypeOK, PC
    <2>3. job[h].session \in Sessions
      BY <1>3 DEF Fail, RequestInv
    <2>4. QED
      BY <1>3, <2>1, <2>2, <2>3 DEF Fail, TypeOK, LosesCookie
  <1>4. QED
    BY <1>1, <1>2, <1>3

LEMMA SessionStepsType ==
  ASSUME TypeOK, NEW s \in Sessions,
         OAuth2Callback(s) \/ OAuth2Logout(s) \/ lookupToken(s) \/ Expire(s)
  PROVE  TypeOK'
  <1>1. token' \in [Sessions -> Claims \cup {NoCookie}]
    BY RightsType DEF TypeOK, OAuth2Callback, OAuth2Logout, lookupToken, Expire
  <1>2. QED
    BY <1>1 DEF TypeOK, OAuth2Callback, OAuth2Logout, lookupToken, Expire, db

LEMMA RestartType ==
  ASSUME TypeOK, RequestInv, Restart
  PROVE  TypeOK'
  <1>1. LosesCookie(Handlers) \subseteq Sessions
    BY DEF LosesCookie, RequestInv, NoJob
  <1>2. token' \in [Sessions -> Claims \cup {NoCookie}]
    BY DEF TypeOK, Restart, Restarted
  <1>3. job' \in [Handlers -> Job] /\ pc' \in [Handlers -> PC]
    BY NoJobType DEF Restart, Restarted, PC
  <1>4. QED
    BY <1>1, <1>2, <1>3 DEF TypeOK, Restart, Restarted, db

LEMMA StepTypeOK == TypeOK /\ RequestInv /\ [Next]_vars => TypeOK'
  <1> SUFFICES ASSUME TypeOK, RequestInv, [Next]_vars PROVE TypeOK'
    OBVIOUS
  <1>1. CASE UNCHANGED vars
    BY <1>1 DEF vars, TypeOK
  <1>2. CASE \E h \in Handlers : Request(h)
    BY <1>2, ReceiveType, CookieStepsType, AnnounceStepsType, HandleStepsType DEF Request
  <1>3. CASE \E s \in Sessions : OAuth2Callback(s) \/ OAuth2Logout(s) \/ lookupToken(s) \/ Expire(s)
    BY <1>3, SessionStepsType
  <1>4. CASE Restart
    BY <1>4, RestartType
  <1>5. QED
    BY <1>1, <1>2, <1>3, <1>4 DEF Next

LEMMA StepRequestInv == TypeOK /\ RequestInv /\ [Next]_vars => RequestInv'
  <1> SUFFICES ASSUME TypeOK, RequestInv, [Next]_vars PROVE RequestInv'
    OBVIOUS
  <1>1. CASE UNCHANGED vars
    BY <1>1 DEF vars, RequestInv
  <1>2. ASSUME NEW h \in Handlers, Request(h) PROVE RequestInv'
    <2> USE DEF RequestInv, Goto, Adding
    <2>0. job \in [Handlers -> Job] /\ pc \in [Handlers -> PC]
      BY DEF TypeOK
    <2>1. CASE Receive(h)
      BY <2>0, <2>1 DEF Receive, NewJob, NoJob
    <2>2. CASE NewAuthCookie(h)
      BY <2>0, <2>2 DEF NewAuthCookie
    <2>3. CASE RemoveFlag(h) \/ RemoveWrite(h) \/ AddWrite(h) \/ Announced(h)
      BY <2>0, <2>3 DEF RemoveFlag, RemoveWrite, AddWrite, Announced
    <2>4. CASE RemoveRead(h)
      BY <2>0, <2>4 DEF RemoveRead
    <2>5. CASE AddRead(h)
      BY <2>0, <2>5 DEF AddRead
    <2>6. CASE AccessControl(h)
      BY <2>0, <2>6 DEF AccessControl
    <2>7. CASE AddFlag(h)
      <3>1. PICK u \in job[h].todo :
              \/ job' = [job EXCEPT ![h].todo = @ \ {u}] /\ UNCHANGED pc
              \/ job' = [job EXCEPT ![h].todo = @ \ {u}, ![h].who = u] /\ Goto(h, "addRead")
        BY <2>7 DEF AddFlag
      <3>2. u \in Users
        BY JobFields
      <3>3. CASE job' = [job EXCEPT ![h].todo = @ \ {u}] /\ UNCHANGED pc
        BY <2>0, <2>7, <3>3 DEF AddFlag
      <3>4. CASE job' = [job EXCEPT ![h].todo = @ \ {u}, ![h].who = u] /\ Goto(h, "addRead")
        BY <2>0, <2>7, <3>2, <3>4 DEF AddFlag
      <3>5. QED
        BY <3>1, <3>3, <3>4
    <2>8. CASE Handle(h)
      BY <2>0, <2>8 DEF Handle
    <2>9. CASE Respond(h) \/ Fail(h)
      BY <2>0, <2>9 DEF Respond, Fail
    <2>10. QED
      BY <1>2, <2>1, <2>2, <2>3, <2>4, <2>5, <2>6, <2>7, <2>8, <2>9 DEF Request
  <1>3. CASE \E s \in Sessions : OAuth2Callback(s) \/ OAuth2Logout(s) \/ lookupToken(s) \/ Expire(s)
    BY <1>3 DEF OAuth2Callback, OAuth2Logout, lookupToken, Expire, RequestInv
  <1>4. CASE Restart
    BY <1>4 DEF Restart, Restarted, RequestInv, Adding
  <1>5. QED
    BY <1>1, <1>2, <1>3, <1>4 DEF Next

----------------------------------------------------------------------------
(* The list, the flags, and the new cookie of the request at work.             *)

LEMMA InitInvs == Init => RequestInv /\ ListInv /\ CookieInv /\ AnnounceInv /\ StaleInv
  BY DEF Init, RequestInv, ListInv, CookieInv, AnnounceInv, StaleInv, Stale, Removing, Adding, NoJob

LEMMA ListStep ==
  ASSUME TypeOK, ListInv, NEW h \in Handlers, Handlers = {h}, Request(h)
  PROVE  ListInv'
  <1> USE DEF ListInv, Goto, Removing, Adding
  <1>0. job \in [Handlers -> Job] /\ pc \in [Handlers -> PC]
    BY DEF TypeOK
  <1>1. CASE Receive(h)
    BY <1>0, <1>1 DEF Receive
  <1>2. CASE NewAuthCookie(h)
    BY <1>0, <1>2 DEF NewAuthCookie
  <1>3. CASE RemoveFlag(h)
    BY <1>0, <1>3 DEF RemoveFlag
  <1>4. CASE RemoveRead(h)
    BY <1>0, <1>4 DEF RemoveRead
  <1>5. CASE RemoveWrite(h)
    BY <1>0, <1>5 DEF RemoveWrite
  <1>6. CASE AccessControl(h)
    BY <1>0, <1>6 DEF AccessControl
  <1>7. CASE AddFlag(h)
    <2>1. PICK u \in job[h].todo :
            \/ job' = [job EXCEPT ![h].todo = @ \ {u}] /\ UNCHANGED <<flag, pc>>
            \/ /\ flag' = flag \cup {u}
               /\ job' = [job EXCEPT ![h].todo = @ \ {u}, ![h].who = u]
               /\ pc' = [pc EXCEPT ![h] = "addRead"]
      BY <1>7 DEF AddFlag
    <2>2. list' = list /\ pc[h] = "announce"
      BY <1>7 DEF AddFlag
    <2>3. CASE job' = [job EXCEPT ![h].todo = @ \ {u}] /\ UNCHANGED <<flag, pc>>
      BY <2>2, <2>3
    <2>4. CASE /\ flag' = flag \cup {u}
               /\ job' = [job EXCEPT ![h].todo = @ \ {u}, ![h].who = u]
               /\ pc' = [pc EXCEPT ![h] = "addRead"]
      <3>1. job'[h].who = u
        BY <1>0, <2>4
      <3>2. QED
        BY <1>0, <2>2, <2>4, <3>1
    <2>5. QED
      BY <2>1, <2>3, <2>4
  <1>8. CASE AddRead(h)
    BY <1>0, <1>8 DEF AddRead
  <1>9. CASE AddWrite(h)
    BY <1>0, <1>9 DEF AddWrite
  <1>10. CASE Announced(h)
    BY <1>0, <1>10 DEF Announced
  <1>11. CASE Handle(h)
    BY <1>0, <1>11 DEF Handle
  <1>12. CASE Respond(h)
    BY <1>0, <1>12 DEF Respond
  <1>13. CASE Fail(h)
    BY <1>0, <1>13 DEF Fail
  <1>14. QED
    BY <1>1, <1>2, <1>3, <1>4, <1>5, <1>6, <1>7, <1>8, <1>9, <1>10, <1>11, <1>12, <1>13 DEF Request

LEMMA AnnounceStep ==
  ASSUME TypeOK, ListInv, AnnounceInv, NEW h \in Handlers, Handlers = {h}, Request(h)
  PROVE  AnnounceInv'
  <1> USE DEF AnnounceInv, Affected, Goto, Removing, Adding
  <1>0. job \in [Handlers -> Job] /\ pc \in [Handlers -> PC]
    BY DEF TypeOK
  <1>1. CASE Receive(h)
    BY <1>0, <1>1 DEF Receive
  <1>2. CASE NewAuthCookie(h)
    BY <1>0, <1>2 DEF NewAuthCookie
  <1>3. CASE RemoveFlag(h)
    BY <1>0, <1>3 DEF RemoveFlag
  <1>4. CASE RemoveRead(h)
    BY <1>0, <1>4 DEF RemoveRead
  <1>5. CASE RemoveWrite(h)
    BY <1>0, <1>5 DEF RemoveWrite
  <1>6. CASE AccessControl(h)
    BY <1>0, <1>6 DEF AccessControl, db
  <1>7. CASE AddFlag(h)
    <2>1. PICK u \in job[h].todo :
            \/ /\ u \in list
               /\ job' = [job EXCEPT ![h].todo = @ \ {u}]
               /\ UNCHANGED <<flag, pc>>
            \/ /\ flag' = flag \cup {u}
               /\ job' = [job EXCEPT ![h].todo = @ \ {u}, ![h].who = u]
               /\ pc' = [pc EXCEPT ![h] = "addRead"]
      BY <1>7 DEF AddFlag
    <2>2. pc[h] = "announce" /\ list = flag /\ members' = members
      BY <1>7 DEF AddFlag, ListInv, db
    <2>3. /\ job'[h].todo = job[h].todo \ {u}
          /\ job'[h].method = job[h].method /\ job'[h].ids = job[h].ids
      <3>1. CASE job' = [job EXCEPT ![h].todo = @ \ {u}]
        BY <1>0, <3>1
      <3>2. CASE job' = [job EXCEPT ![h].todo = @ \ {u}, ![h].who = u]
        BY <1>0, <3>2
      <3>3. QED
        BY <2>1, <3>1, <3>2
    <2>4. u \in flag' /\ flag \subseteq flag' /\ pc'[h] # "handle"
      BY <1>0, <2>1, <2>2
    <2>5. QED
      BY <2>2, <2>3, <2>4
  <1>8. CASE AddRead(h)
    BY <1>0, <1>8 DEF AddRead, db
  <1>9. CASE AddWrite(h)
    BY <1>0, <1>9 DEF AddWrite, db
  <1>10. CASE Announced(h)
    BY <1>0, <1>10 DEF Announced, db
  <1>11. CASE Handle(h)
    BY <1>0, <1>11 DEF Handle
  <1>12. CASE Respond(h)
    BY <1>0, <1>12 DEF Respond
  <1>13. CASE Fail(h)
    BY <1>0, <1>13 DEF Fail
  <1>14. QED
    BY <1>1, <1>2, <1>3, <1>4, <1>5, <1>6, <1>7, <1>8, <1>9, <1>10, <1>11, <1>12, <1>13 DEF Request

(* Whoever's rights a request changes is flagged, or removed by UpdateGroup.    *)
LEMMA ChangedAreFlagged ==
  ASSUME TypeOK, ListInv, AnnounceInv,
         NEW h \in Handlers, Handle(h) \/ Fail(h), NEW u, Rights(u)' # Rights(u)
  PROVE  u \in flag \cup unlisted' /\ flag = list /\ flag' = flag
  <1>1. job[h] \in Job
    BY DEF TypeOK
  <1>3. ~ (/\ u \in teachers' <=> u \in teachers
           /\ u \in members' <=> u \in members
           /\ u \in admins' <=> u \in admins)
    BY DEF Rights
  <1>4. CASE Handle(h)
    <2>1. CASE job[h].method = "UpdateGroup" /\ u \notin job[h].ids
      BY <1>3, <1>4, <2>1 DEF Handle, ListInv, Removing, Adding
    <2>2. CASE ~ (job[h].method = "UpdateGroup" /\ u \notin job[h].ids)
      <3>1. job[h].method # "GetUser" /\ u \in Affected(job[h])
        BY <1>3, <1>4, <2>2 DEF Handle, Affected, editUserProfile
      <3>2. QED
        BY <1>4, <3>1 DEF Handle, AnnounceInv, ListInv, Removing, Adding
    <2>3. QED
      BY <2>1, <2>2
  <1>5. CASE Fail(h)
    <2>1. members' = members /\ admins' = admins /\ flag' = flag
      BY <1>5 DEF Fail
    <2>2. ~ UNCHANGED teachers
      BY <1>3, <2>1
    <2>3. pc[h] = "handle" /\ job[h].method = "UpdateEnrollments" /\ u \in job[h].ids
      BY <1>3, <1>5, <2>1, <2>2 DEF Fail
    <2>4. QED
      BY <2>1, <2>3 DEF AnnounceInv, Affected, ListInv, Removing, Adding
  <1>6. QED
    BY <1>4, <1>5

LEMMA SameRights ==
  ASSUME UNCHANGED db
  PROVE  \A u : Rights(u)' = Rights(u)
  BY DEF db, Rights

(* What a step before the handler leaves of a request.                        *)
LEMMA Frame ==
  ASSUME TypeOK, NEW h \in Handlers, Request(h), pc[h] # "idle", pc'[h] # "idle"
  PROVE  /\ job'[h].session = job[h].session /\ job'[h].user = job[h].user
         /\ pc[h] # "newCookie" => job'[h].cookie = job[h].cookie
         /\ token' = token /\ expired' = expired
         /\ UNCHANGED db \/ (Handle(h) /\ pc'[h] = "respond")
  <1> USE DEF Goto
  <1>0. job \in [Handlers -> Job] /\ pc \in [Handlers -> PC]
    BY DEF TypeOK
  <1>1. CASE NewAuthCookie(h)
    BY <1>0, <1>1 DEF NewAuthCookie
  <1>2. CASE RemoveFlag(h) \/ RemoveWrite(h) \/ AddWrite(h) \/ Announced(h)
    BY <1>0, <1>2 DEF RemoveFlag, RemoveWrite, AddWrite, Announced
  <1>3. CASE RemoveRead(h)
    BY <1>0, <1>3 DEF RemoveRead
  <1>4. CASE AddRead(h)
    BY <1>0, <1>4 DEF AddRead
  <1>5. CASE AccessControl(h)
    BY <1>0, <1>5 DEF AccessControl
  <1>6. CASE AddFlag(h)
    <2>1. PICK u \in job[h].todo :
            \/ job' = [job EXCEPT ![h].todo = @ \ {u}]
            \/ job' = [job EXCEPT ![h].todo = @ \ {u}, ![h].who = u]
      BY <1>6 DEF AddFlag
    <2>2. CASE job' = [job EXCEPT ![h].todo = @ \ {u}]
      BY <1>0, <1>6, <2>2 DEF AddFlag
    <2>3. CASE job' = [job EXCEPT ![h].todo = @ \ {u}, ![h].who = u]
      BY <1>0, <1>6, <2>3 DEF AddFlag
    <2>4. QED
      BY <2>1, <2>2, <2>3
  <1>7. CASE Handle(h)
    BY <1>0, <1>7 DEF Handle
  <1>8. CASE Receive(h) \/ Respond(h) \/ Fail(h)
    BY <1>0, <1>8 DEF Receive, Respond, Fail
  <1>9. QED
    BY <1>1, <1>2, <1>3, <1>4, <1>5, <1>6, <1>7, <1>8 DEF Request

(* The flags a step clears, and where it goes; only listing a user for something *)
(* else ends that it is unlisted.                                              *)
LEMMA Flags ==
  ASSUME TypeOK, ListInv, NEW h \in Handlers, Handlers = {h}, Request(h)
  PROVE  /\ unlisted \subseteq flag' \cup unlisted'
         /\ \/ flag \subseteq flag'
            \/ RemoveFlag(h) /\ flag' = flag \ {job[h].user} /\ pc'[h] = "removeRead"
         /\ pc'[h] = "newCookie" => pc[h] = "idle"
         /\ pc'[h] = "removeFlag" => NewAuthCookie(h)
         /\ pc'[h] = "removeRead" => RemoveFlag(h)
         /\ pc'[h] = "removeWrite" => pc[h] = "removeRead"
  <1> USE DEF Goto
  <1>0. pc \in [Handlers -> PC]
    BY DEF TypeOK
  <1>1. CASE Receive(h)
    BY <1>0, <1>1 DEF Receive
  <1>2. CASE NewAuthCookie(h) \/ RemoveFlag(h)
    BY <1>0, <1>2 DEF NewAuthCookie, RemoveFlag
  <1>3. CASE RemoveRead(h) \/ RemoveWrite(h) \/ AddRead(h) \/ AddWrite(h) \/ Announced(h)
    BY <1>0, <1>3 DEF RemoveRead, RemoveWrite, AddRead, AddWrite, Announced
  <1>4. CASE AccessControl(h)
    BY <1>0, <1>4 DEF AccessControl
  <1>5. CASE AddFlag(h)
    BY <1>0, <1>5 DEF AddFlag
  <1>6. CASE Handle(h) \/ Respond(h) \/ Fail(h)
    BY <1>0, <1>6 DEF Handle, Respond, Fail
  <1>7. QED
    BY <1>1, <1>2, <1>3, <1>4, <1>5, <1>6 DEF Request

LEMMA CookieStep ==
  ASSUME TypeOK, RequestInv, ListInv, AnnounceInv, CookieInv,
         NEW h \in Handlers, Handlers = {h}, Request(h)
  PROVE  CookieInv'
  <1> SUFFICES ASSUME NEW u \in Users, job'[h].user = u
               PROVE  /\ pc'[h] = "newCookie" => job'[h].cookie = NoCookie
                      /\ pc'[h] \in {"removeFlag", "removeRead", "removeWrite"} =>
                            job'[h].cookie = Rights(u)'
                      /\ pc'[h] # "idle" /\ job'[h].cookie # NoCookie =>
                            job'[h].cookie = Rights(u)' \/ u \in flag' \cup unlisted'
    BY DEF CookieInv
  <1>0. job \in [Handlers -> Job] /\ pc \in [Handlers -> PC]
    BY DEF TypeOK
  <1>1. CASE Receive(h)
    BY <1>0, <1>1 DEF Receive, Goto, NewJob, NoJob
  <1>2. CASE pc'[h] = "idle"
    BY <1>0, <1>2
  <1>3. CASE pc[h] # "idle" /\ pc'[h] # "idle"
    <2>1. job[h].user = u /\ (pc[h] # "newCookie" => job'[h].cookie = job[h].cookie)
      BY <1>3, Frame
    <2>2. CASE NewAuthCookie(h)
      <3>1. job'[h].cookie = Rights(u) /\ pc'[h] = "removeFlag" /\ UNCHANGED db
        BY <1>0, <2>1, <2>2 DEF NewAuthCookie, Goto
      <3>2. QED
        BY <3>1, SameRights
    <2>3. CASE RemoveFlag(h)
      <3>1. job' = job /\ UNCHANGED db /\ job[h].cookie = Rights(u)
        BY <2>1, <2>3 DEF RemoveFlag, CookieInv
      <3>2. pc'[h] # "newCookie"
        BY <1>0, <2>3 DEF RemoveFlag, Goto
      <3>3. QED
        BY <3>1, <3>2, SameRights
    <2>4. CASE ~ NewAuthCookie(h) /\ ~ RemoveFlag(h)
      <3>1. pc'[h] \in {"removeFlag", "removeRead", "removeWrite"} =>
              pc'[h] = "removeWrite" /\ pc[h] = "removeRead"
        BY <2>4, Flags
      <3>2. pc'[h] # "newCookie" /\ pc[h] # "newCookie"
        BY <1>3, <2>4, Flags DEF Request, Receive, RemoveRead, RemoveWrite, AccessControl, AddFlag,
                                 AddRead, AddWrite, Announced, Handle, Respond, Fail
      <3>3. /\ job'[h].cookie = job[h].cookie
            /\ flag \cup unlisted \subseteq flag' \cup unlisted'
        BY <2>1, <2>4, <3>2, Flags
      <3>4. \/ Rights(u)' = Rights(u)
            \/ Handle(h) /\ pc'[h] = "respond" /\ u \in flag' \cup unlisted'
        <4>1. CASE UNCHANGED db
          BY <4>1, SameRights
        <4>2. CASE Handle(h) /\ pc'[h] = "respond"
          BY <4>2, ChangedAreFlagged
        <4>3. QED
          BY <1>3, <4>1, <4>2, Frame
      <3>5. QED
        BY <1>3, <2>1, <3>1, <3>2, <3>3, <3>4 DEF CookieInv
    <2>5. QED
      BY <2>2, <2>3, <2>4
  <1>4. QED
    BY <1>1, <1>2, <1>3 DEF Request, NewAuthCookie, RemoveFlag, RemoveRead, RemoveWrite,
                            AccessControl, AddFlag, AddRead, AddWrite, Announced, Handle,
                            Respond, Fail

(* A session that is stale after a request's step was so before it, or the     *)
(* step is the handler's and the user is flagged.                             *)
LEMMA StaleStep ==
  ASSUME TypeOK, RequestInv, ListInv, AnnounceInv, CookieInv, StaleInv,
         NEW h \in Handlers, Handlers = {h}, Request(h)
  PROVE  StaleInv'
  <1> SUFFICES ASSUME NEW s \in Sessions, s \notin expired' \cup lost', token'[s] # NoCookie,
                      token'[s] # Rights(UserOf[s])'
               PROVE  \/ UserOf[s] \in flag' \cup unlisted'
                      \/ job'[h].session = s /\ job'[h].cookie # NoCookie
    BY DEF StaleInv, Stale, Waiting
  <1> PICK u \in Users : u = UserOf[s]
    BY SessionsAssumption
  <1>0. job \in [Handlers -> Job] /\ pc \in [Handlers -> PC]
    BY DEF TypeOK
  <1>1. s \notin expired \cup lost /\ token[s] # NoCookie /\ token[s] # Rights(u) =>
          u \in flag \cup unlisted \/ (job[h].session = s /\ job[h].cookie # NoCookie)
    BY DEF StaleInv, Stale, Waiting
  <1>2. CASE Receive(h)
    <2>1. job[h].cookie = NoCookie
      BY <1>2 DEF Receive, RequestInv, NoJob
    <2>2. UNCHANGED <<db, flag, token, expired, lost, unlisted>>
      BY <1>2 DEF Receive, db
    <2>3. QED
      BY <1>1, <2>1, <2>2, SameRights
  <1>3. CASE Respond(h)
    <2>1. UNCHANGED <<db, flag, unlisted>> /\ pc[h] # "idle"
      BY <1>3 DEF Respond
    <2>2. Rights(u)' = Rights(u)
      BY <2>1, SameRights
    <2>3. CASE job[h].cookie # NoCookie /\ job[h].session = s
      <3>1. token'[s] = job[h].cookie /\ job[h].user = u
        BY <1>3, <2>1, <2>3 DEF Respond, RequestInv, TypeOK
      <3>2. QED
        BY <2>1, <2>2, <2>3, <3>1 DEF CookieInv
    <2>4. CASE job[h].cookie = NoCookie \/ job[h].session # s
      <3>1. token'[s] = token[s] /\ s \notin expired \cup lost
        BY <1>3, <2>4 DEF Respond, TypeOK
      <3>2. QED
        BY <1>1, <2>1, <2>2, <2>4, <3>1
    <2>5. QED
      BY <2>3, <2>4
  <1>4. CASE Fail(h)
    <2>1. UNCHANGED <<flag, token, expired, unlisted>> /\ s \notin lost
      BY <1>4 DEF Fail
    <2>2. ~ (job[h].session = s /\ job[h].cookie # NoCookie)
      BY <1>4 DEF Fail, LosesCookie
    <2>3. Rights(u)' # Rights(u) => u \in flag \cup unlisted'
      BY <1>4, ChangedAreFlagged
    <2>4. QED
      BY <1>1, <2>1, <2>2, <2>3
  <1>5. CASE RemoveFlag(h)
    <2>1. UNCHANGED <<db, token, expired, job, unlisted>> /\ s \notin lost
      BY <1>5 DEF RemoveFlag
    <2>2. Rights(u)' = Rights(u)
      BY <2>1, SameRights
    <2>3. job[h].cookie # NoCookie /\ job[h].user \in Users /\ pc[h] = "removeFlag"
      BY <1>5, RightsType, SessionsAssumption DEF RemoveFlag, CookieInv, RequestInv
    <2>4. CASE u \in flag /\ u \notin flag'
      <3>1. u = job[h].user /\ job[h].session = s
        BY <1>5, <2>1, <2>4 DEF RemoveFlag
      <3>2. QED
        BY <2>1, <2>3, <3>1
    <2>5. CASE u \notin flag \/ u \in flag'
      BY <1>1, <2>1, <2>2, <2>5
    <2>6. QED
      BY <2>4, <2>5
  <1>6. CASE ~ Receive(h) /\ ~ Respond(h) /\ ~ Fail(h) /\ ~ RemoveFlag(h)
    <2>1. pc[h] # "idle" /\ pc'[h] # "idle"
      BY <1>0, <1>6 DEF Request, NewAuthCookie, RemoveRead, RemoveWrite, AccessControl, AddFlag,
                        AddRead, AddWrite, Announced, Handle, Goto
    <2>2. /\ UNCHANGED <<token, expired>> /\ job'[h].session = job[h].session
          /\ pc[h] # "newCookie" => job'[h].cookie = job[h].cookie
      BY <2>1, Frame
    <2>3. lost' = lost
      BY <1>6 DEF Request, NewAuthCookie, RemoveRead, RemoveWrite, AccessControl, AddFlag,
                  AddRead, AddWrite, Announced, Handle
    <2>4. flag \cup unlisted \subseteq flag' \cup unlisted'
      BY <1>6, Flags
    <2>5. Rights(u)' # Rights(u) => u \in flag' \cup unlisted'
      BY <2>1, Frame, SameRights, ChangedAreFlagged
    <2>6. pc[h] = "newCookie" => job[h].cookie = NoCookie
      <3>1. pc[h] = "newCookie" => job[h].user \in Users
        BY SessionsAssumption DEF RequestInv
      <3>2. QED
        BY <3>1 DEF CookieInv
    <2>7. QED
      BY <1>1, <2>2, <2>3, <2>4, <2>5, <2>6
  <1>7. QED
    BY <1>2, <1>3, <1>4, <1>5, <1>6

----------------------------------------------------------------------------
(* Sessions, and the end of the process.                                     *)

LEMMA SessionStep ==
  ASSUME IInv, NEW s \in Sessions,
         OAuth2Callback(s) \/ OAuth2Logout(s) \/ lookupToken(s) \/ Expire(s)
  PROVE  ListInv' /\ CookieInv' /\ AnnounceInv' /\ StaleInv'
  <1>1. UNCHANGED <<teachers, members, admins, flag, list, pc, job, unlisted>>
    BY DEF OAuth2Callback, OAuth2Logout, lookupToken, Expire, db
  <1>2. \A u : Rights(u)' = Rights(u)
    BY <1>1, SameRights DEF db
  <1>3. ListInv' /\ AnnounceInv'
    BY <1>1 DEF IInv, ListInv, AnnounceInv, Affected
  <1>4. CookieInv'
    BY <1>1, <1>2 DEF IInv, CookieInv
  <1>5. StaleInv'
    <2> SUFFICES ASSUME NEW r \in Sessions, r \notin expired' \cup lost', token'[r] # NoCookie,
                        token'[r] # Rights(UserOf[r])'
                 PROVE  UserOf[r] \in flag' \cup unlisted' \/ Waiting(r)'
      BY DEF StaleInv, Stale
    <2>1. r # s \/ Expire(s)
      BY <1>2 DEF IInv, TypeOK, OAuth2Callback, OAuth2Logout, lookupToken
    <2>2. r \notin expired \cup lost /\ token'[r] = token[r]
      BY <2>1 DEF IInv, TypeOK, OAuth2Callback, OAuth2Logout, lookupToken, Expire
    <2>3. Waiting(r) => Waiting(r)'
      BY <1>1 DEF Waiting
    <2>4. QED
      BY <1>1, <1>2, <2>2, <2>3 DEF IInv, StaleInv, Stale
  <1>6. QED
    BY <1>3, <1>4, <1>5

LEMMA RestartStep ==
  ASSUME IInv, Restart
  PROVE  ListInv' /\ CookieInv' /\ AnnounceInv' /\ StaleInv'
  <1>1. \A h \in Handlers : pc'[h] = "idle" /\ job'[h] = NoJob
    BY DEF Restart, Restarted
  <1>2. list' = flag' /\ flag' = flag /\ UNCHANGED <<db, unlisted>>
    BY DEF Restart, Restarted
  <1>3. ListInv' /\ CookieInv' /\ AnnounceInv'
    BY <1>1, <1>2 DEF ListInv, CookieInv, AnnounceInv, Removing, Adding
  <1>4. StaleInv'
    <2> SUFFICES ASSUME NEW r \in Sessions, r \notin expired' \cup lost', token'[r] # NoCookie,
                        token'[r] # Rights(UserOf[r])'
                 PROVE  UserOf[r] \in flag' \cup unlisted'
      BY DEF StaleInv, Stale
    <2>1. r \notin APIClients /\ token'[r] = token[r]
      BY DEF Restart, Restarted
    <2>2. r \notin expired \cup lost /\ ~ Waiting(r)
      BY <2>1 DEF Restart, Restarted, Waiting, LosesCookie
    <2>3. QED
      BY <1>2, <2>1, <2>2, SameRights DEF IInv, StaleInv, Stale
  <1>5. QED
    BY <1>3, <1>4

----------------------------------------------------------------------------
LEMMA StepIInv ==
  ASSUME OneHandler, IInv, [Next]_vars
  PROVE  IInv'
  <1>1. TypeOK' /\ RequestInv'
    BY StepTypeOK, StepRequestInv DEF IInv
  <1>2. CASE UNCHANGED vars
    <2>1. \A u : Rights(u)' = Rights(u)
      BY <1>2, SameRights DEF vars, db
    <2>2. ListInv' /\ AnnounceInv'
      BY <1>2 DEF vars, IInv, ListInv, AnnounceInv, Affected
    <2>3. CookieInv' /\ StaleInv'
      BY <1>2, <2>1 DEF vars, IInv, CookieInv, StaleInv, Stale, Waiting
    <2>4. QED
      BY <1>1, <2>2, <2>3 DEF IInv
  <1>3. ASSUME NEW h \in Handlers, Request(h) PROVE IInv'
    <2>1. Handlers = {h}
      BY DEF OneHandler
    <2>2. QED
      BY <1>1, <1>3, <2>1, ListStep, AnnounceStep, CookieStep, StaleStep DEF IInv
  <1>4. CASE \E s \in Sessions : OAuth2Callback(s) \/ OAuth2Logout(s) \/ lookupToken(s) \/ Expire(s)
    BY <1>1, <1>4, SessionStep DEF IInv
  <1>5. CASE Restart
    BY <1>1, <1>5, RestartStep DEF IInv
  <1>6. QED
    BY <1>2, <1>3, <1>4, <1>5 DEF Next

LEMMA IInvImplies ==
  ASSUME OneHandler, IInv
  PROVE  ListMatchesFlags /\ StaleIsListed
  <1>1. ListMatchesFlags
    BY DEF OneHandler, IInv, ListMatchesFlags, Idle, ListInv, Removing, Adding
  <1>2. StaleIsListed
    <2>1. ASSUME Idle, NEW s \in Sessions PROVE ~ Waiting(s)
      BY <2>1 DEF IInv, RequestInv, Idle, Waiting, NoJob
    <2>2. QED
      BY <1>1, <2>1 DEF IInv, StaleIsListed, StaleInv, Stale, ListMatchesFlags
  <1>3. QED
    BY <1>1, <1>2

LEMMA StepActions ==
  ASSUME OneHandler, IInv, [Next]_vars
  PROVE  /\ \A u \in Users : Rights(u)' # Rights(u) => u \in list \cup unlisted'
         /\ \A u \in flag \ flag' : \E h \in Handlers : job[h].user = u /\ job[h].cookie = Rights(u)
  <1>1. CASE UNCHANGED vars
    BY <1>1, SameRights DEF vars, db
  <1>2. ASSUME NEW h \in Handlers, Request(h)
        PROVE  /\ \A u \in Users : Rights(u)' # Rights(u) => u \in list \cup unlisted'
               /\ \A u \in flag \ flag' : job[h].user = u /\ job[h].cookie = Rights(u)
    <2>1. Handlers = {h}
      BY DEF OneHandler
    <2>2. UNCHANGED db \/ Handle(h) \/ Fail(h)
      BY <1>2 DEF Request, Receive, NewAuthCookie, RemoveFlag, RemoveRead, RemoveWrite, AccessControl,
                  AddFlag, AddRead, AddWrite, Announced, Respond
    <2>3. \A u \in Users : Rights(u)' # Rights(u) => u \in list \cup unlisted'
      BY <2>2, SameRights, ChangedAreFlagged DEF IInv
    <2>4. ASSUME NEW u \in flag \ flag' PROVE job[h].user = u /\ job[h].cookie = Rights(u)
      <3>1. RemoveFlag(h) /\ job[h].user = u
        BY <1>2, <2>1, <2>4, Flags DEF IInv
      <3>2. u \in Users
        BY <2>4 DEF IInv, TypeOK
      <3>3. QED
        BY <3>1, <3>2 DEF RemoveFlag, IInv, CookieInv
    <2>5. QED
      BY <2>3, <2>4
  <1>3. CASE \E s \in Sessions : OAuth2Callback(s) \/ OAuth2Logout(s) \/ lookupToken(s) \/ Expire(s)
    <2>1. UNCHANGED <<db, flag>>
      BY <1>3 DEF OAuth2Callback, OAuth2Logout, lookupToken, Expire
    <2>2. QED
      BY <2>1, SameRights
  <1>4. CASE Restart
    <2>1. UNCHANGED <<db, flag>>
      BY <1>4 DEF Restart, Restarted
    <2>2. QED
      BY <2>1, SameRights
  <1>5. QED
    BY <1>1, <1>2, <1>3, <1>4 DEF Next

(* One request at a time: a session whose claims are out of date gets a new     *)
(* cookie with its next request (tokens.go), unless its claims have expired, its *)
(* user's new cookie went to another session or was lost with an answer, or the *)
(* user was removed from the group by UpdateGroup and not listed since.         *)
THEOREM TokensSafety ==
  ASSUME OneHandler
  PROVE  Spec => []StaleIsListed
  <1>1. Init => IInv
    BY InitTypeOK, InitInvs DEF IInv
  <1>2. IInv /\ [Next]_vars => IInv'
    BY StepIInv
  <1>3. IInv => StaleIsListed
    BY IInvImplies
  <1>4. QED
    BY <1>1, <1>2, <1>3, PTL DEF Spec

(* The same requests: between them the list in memory is what a restart would   *)
(* read from the flags (manager.go).                                          *)
THEOREM TokensList ==
  ASSUME OneHandler
  PROVE  Spec => []ListMatchesFlags
  <1>1. Init => IInv
    BY InitTypeOK, InitInvs DEF IInv
  <1>2. IInv /\ [Next]_vars => IInv'
    BY StepIInv
  <1>3. IInv => ListMatchesFlags
    BY IInvImplies
  <1>4. QED
    BY <1>1, <1>2, <1>3, PTL DEF Spec

(* The same requests: whoever's rights change is on the list already or is      *)
(* being removed from the group by UpdateGroup, and a flag is cleared only for a *)
(* user whose new cookie has the rights of that moment (UpdateCookie).          *)
THEOREM TokensChanges ==
  ASSUME OneHandler
  PROVE  Spec => AffectedAreListed /\ ClearedWithCurrentCookie
  <1>1. Init => IInv
    BY InitTypeOK, InitInvs DEF IInv
  <1>2. IInv /\ [Next]_vars => IInv'
    BY StepIInv
  <1>3. IInv /\ [Next]_vars => [\A u \in Users : Rights(u)' # Rights(u) => u \in list \cup unlisted']_vars
    BY StepActions
  <1>4. IInv /\ [Next]_vars =>
          [\A u \in flag \ flag' : \E h \in Handlers : job[h].user = u /\ job[h].cookie = Rights(u)]_vars
    BY StepActions
  <1>5. QED
    BY <1>1, <1>2, <1>3, <1>4, PTL DEF Spec, AffectedAreListed, ClearedWithCurrentCookie
=============================================================================
