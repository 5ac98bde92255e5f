---------------------------- MODULE TokenManager ----------------------------
(***************************************************************************)
(* The session tokens of QuickFeed: web/auth (TokenManager, sign-in) and the  *)
(* interceptors around every unary RPC, in their order: TokenAuthInterceptor, *)
(* UserInterceptor, AccessControlInterceptor, TokenInterceptor, handler.      *)
(*                                                                          *)
(* A session's cookie is a signed copy of the rights its user had when it was *)
(* made.  A request that changes rights puts the users it names on the list   *)
(* of the token manager, which is kept in memory and, as a flag of the user,  *)
(* in the database; the next request of a listed user is answered with a new  *)
(* cookie.  The list is a slice without a mutex: a handler reads it and later *)
(* writes back what it has made of it, and the order and multiplicity of its  *)
(* elements, which nothing looks at, are left out.                            *)
(*                                                                          *)
(* A user may have several sessions: browsers, which keep their cookie, and   *)
(* programs that send a GitHub token, for which the server keeps it.  There   *)
(* is one course and one group.  The read and the write of a user's row, and  *)
(* the check of a request's cookie and its arrival, are one step each.        *)
(***************************************************************************)
EXTENDS Naturals, FiniteSets

CONSTANTS
    Users,
    Sessions,
    UserOf,         \* session -> its user
    APIClients,     \* the sessions that send a GitHub token
    superAdmin,     \* the user with ID 1, whom the first sign-in has made
    Handlers,       \* bound: the requests in flight
    Methods,        \* the methods that are called
    Teachers,       \* the users who are teachers at first
    Fails,          \* whether requests may fail and the server may restart
    MaxChanges,     \* bound: the requests that change rights
    NoCookie,       \* the response has no new cookie
    NoUser

TeacherMethods == {"UpdateEnrollments", "UpdateGroup", "DeleteGroup"}

ASSUME TeachersAssumption ==
    Teachers \subseteq Users /\ superAdmin \in Users /\ NoUser \notin Users
ASSUME SessionsAssumption == UserOf \in [Sessions -> Users] /\ APIClients \subseteq Sessions
ASSUME MethodsAssumption == Methods \subseteq TeacherMethods \cup {"GetUser", "UpdateUser"}
ASSUME FailsAssumption == Fails \in BOOLEAN /\ MaxChanges \in Nat

VARIABLES
    teachers,   \* database: users enrolled as teachers, the others as students
    members,    \* database: users enrolled in the group
    admins,     \* database: users with IsAdmin set
    flag,       \* database: users with UpdateToken set
    list,       \* TokenManager.tokensToUpdate
    token,      \* the claims in each session's cookie; TokenAuthInterceptor.tokenMap
    expired,    \* sessions whose claims have expired
    pc,         \* where each request is
    job,        \* its local variables
    changes,    \* the number of requests that change rights
    lost,       \* history: sessions that a new cookie of their user has not reached
    unlisted    \* history: users whom UpdateGroup has removed from the group, until
                \* they are listed for something else

vars == <<teachers, members, admins, flag, list, token, expired, pc, job, changes, lost, unlisted>>

Claims == [teacher : BOOLEAN, group : BOOLEAN, admin : BOOLEAN]

ASSUME NoCookieAssumption == NoCookie \notin Claims

(* newClaims: the rights of a user according to the database. *)
Rights(u) == [teacher |-> u \in teachers, group |-> u \in members, admin |-> u \in admins]

Job == [session : Sessions \cup {NoUser}, user : Users \cup {NoUser},
        method : Methods \cup {"none"}, ids : SUBSET Users, admin : BOOLEAN,
        claims : Claims, cookie : Claims \cup {NoCookie}, todo : SUBSET Users,
        who : Users \cup {NoUser}, read : SUBSET Users]
NoJob == [session |-> NoUser, user |-> NoUser, method |-> "none", ids |-> {}, admin |-> FALSE,
          claims |-> [teacher |-> FALSE, group |-> FALSE, admin |-> FALSE], cookie |-> NoCookie,
          todo |-> {}, who |-> NoUser, read |-> {}]
PC == {"idle", "newCookie", "removeFlag", "removeRead", "removeWrite", "access", "announce",
       "addRead", "addWrite", "handle", "respond"}

TypeOK ==
    /\ teachers \subseteq Users
    /\ members \subseteq Users
    /\ admins \subseteq Users
    /\ flag \subseteq Users
    /\ list \subseteq Users
    /\ token \in [Sessions -> Claims \cup {NoCookie}]
    /\ expired \subseteq Sessions
    /\ pc \in [Handlers -> PC]
    /\ job \in [Handlers -> Job]
    /\ changes \in 0 .. MaxChanges
    /\ lost \subseteq Sessions
    /\ unlisted \subseteq Users

Init ==
    /\ teachers = Teachers
    /\ members \in SUBSET Users
    /\ admins = {superAdmin}
    /\ flag = {}
    /\ list = {}
    /\ token = [s \in Sessions |-> NoCookie]
    /\ expired = {}
    /\ pc = [h \in Handlers |-> "idle"]
    /\ job = [h \in Handlers |-> NoJob]
    /\ changes = 0
    /\ lost = {} /\ unlisted = {}

db == <<teachers, members, admins>>
Goto(h, at) == pc' = [pc EXCEPT ![h] = at]

(* The checkers of methodCheckers: changing rights takes a teacher or an admin, *)
(* according to the claims; changing the rest of one's own row does not.       *)
checkTeacher(j) == j.claims.teacher
checkUpdateUser(j) == j.claims.admin \/ (j.ids = {j.user} /\ ~j.admin)

Allowed(j) ==
    \/ j.method = "GetUser"
    \/ j.method = "UpdateUser" /\ checkUpdateUser(j)
    \/ j.method \in TeacherMethods /\ checkTeacher(j)

----------------------------------------------------------------------------
(* Sessions begin and end.                                                   *)

(* OAuth2Callback: GitHub has told who the user is, whose row exists by now.  *)
OAuth2Callback(s) ==
    /\ s \notin APIClients
    /\ token' = [token EXCEPT ![s] = Rights(UserOf[s])]
    /\ expired' = expired \ {s}
    /\ lost' = lost \ {s}
    /\ UNCHANGED <<db, flag, list, pc, job, changes, unlisted>>

(* OAuth2Logout, or the cookie's own time is over.                            *)
OAuth2Logout(s) ==
    /\ s \notin APIClients
    /\ token' = [token EXCEPT ![s] = NoCookie]
    /\ expired' = expired \ {s}
    /\ lost' = lost \ {s}
    /\ UNCHANGED <<db, flag, list, pc, job, changes, unlisted>>

(* The first request with a GitHub token: GitHub tells whose it is, and the   *)
(* cookie is made and kept whatever becomes of the request.                   *)
lookupToken(s) ==
    /\ s \in APIClients /\ token[s] = NoCookie
    /\ token' = [token EXCEPT ![s] = Rights(UserOf[s])]
    /\ UNCHANGED <<db, flag, list, expired, pc, job, changes, lost, unlisted>>

----------------------------------------------------------------------------
(* UserInterceptor.                                                          *)

(* The request of a session: whom it names, and whether it makes them admins. *)
NewJob(s, m, ids, admin) ==
    [NoJob EXCEPT !.session = s, !.user = UserOf[s], !.method = m, !.ids = ids, !.admin = admin,
                  !.claims = token[s]]

(* A request arrives with a cookie: GetClaims, updateRequired. *)
Receive(h) ==
    /\ pc[h] = "idle"
    /\ \E s \in Sessions, m \in Methods, ids \in SUBSET Users \ {{}}, admin \in BOOLEAN :
        /\ token[s] # NoCookie
        /\ m \in {"GetUser", "DeleteGroup"} => ids = Users
        /\ m = "UpdateUser" => Cardinality(ids) = 1
        /\ m # "UpdateUser" => ~admin
        /\ Fails \/ (Allowed(NewJob(s, m, ids, admin)) /\ (m = "DeleteGroup" => members # {}))
        /\ m # "GetUser" => changes < MaxChanges
        /\ changes' = IF m = "GetUser" THEN changes ELSE changes + 1
        /\ job' = [job EXCEPT ![h] = NewJob(s, m, ids, admin)]
        /\ Goto(h, IF UserOf[s] \in list \/ s \in expired THEN "newCookie" ELSE "access")
    /\ UNCHANGED <<db, flag, list, token, expired, lost, unlisted>>

(* Mutant: the new cookie is a copy of the old one. *)
RenewOldClaims(h) ==
    /\ pc[h] = "newCookie"
    /\ job' = [job EXCEPT ![h].cookie = job[h].claims]
    /\ Goto(h, "removeFlag")
    /\ UNCHANGED <<db, flag, list, token, expired, changes, lost, unlisted>>

(* UpdateCookie makes the new cookie first ...                               *)
NewAuthCookie(h) ==
    /\ pc[h] = "newCookie"
    /\ job' = [job EXCEPT ![h].cookie = Rights(job[h].user)]
    /\ Goto(h, "removeFlag")
    /\ UNCHANGED <<db, flag, list, token, expired, changes, lost, unlisted>>

(* ... and then removes the user: from the database, which is the last that   *)
(* the user's other sessions hear of it, ...                                  *)
RemoveFlag(h) ==
    LET u == job[h].user IN
    /\ pc[h] = "removeFlag"
    /\ \/ /\ u \notin list
          /\ Goto(h, "access")
          /\ UNCHANGED <<flag, lost, unlisted>>
       \/ /\ u \in list
          /\ flag' = flag \ {u}
          /\ lost' = lost \cup {s \in Sessions \ {job[h].session} :
                                        UserOf[s] = u /\ token[s] # NoCookie}
          /\ Goto(h, "removeRead")
    /\ UNCHANGED <<db, list, token, expired, job, changes, unlisted>>

(* ... and from the list, by building another. *)
RemoveRead(h) ==
    /\ pc[h] = "removeRead"
    /\ job' = [job EXCEPT ![h].read = list]
    /\ Goto(h, "removeWrite")
    /\ UNCHANGED <<db, flag, list, token, expired, changes, lost, unlisted>>

RemoveWrite(h) ==
    /\ pc[h] = "removeWrite"
    /\ list' = job[h].read \ {job[h].user}
    /\ Goto(h, "access")
    /\ UNCHANGED <<db, flag, token, expired, job, changes, lost, unlisted>>

----------------------------------------------------------------------------
(* AccessControlInterceptor, then TokenInterceptor.                          *)

(* Mutant: DeleteGroup announces the users of its own request, who are none. *)
AnnounceRequest(h) ==
    LET m == job[h].method IN
    /\ pc[h] = "access"
    /\ Allowed(job[h])
    /\ m = "DeleteGroup" => members # {}
    /\ job' = [job EXCEPT ![h].todo = IF m = "DeleteGroup" THEN {} ELSE job[h].ids]
    /\ Goto(h, IF m = "GetUser" THEN "handle" ELSE "announce")
    /\ UNCHANGED <<db, flag, list, token, expired, changes, lost, unlisted>>

(* The users to announce are those the request names; for DeleteGroup, the    *)
(* members of the group, which must have some.                                *)
AccessControl(h) ==
    LET m == job[h].method IN
    /\ pc[h] = "access"
    /\ Allowed(job[h])
    /\ m = "DeleteGroup" => members # {}
    /\ job' = [job EXCEPT ![h].todo = IF m = "DeleteGroup" THEN members ELSE job[h].ids]
    /\ Goto(h, IF m = "GetUser" THEN "handle" ELSE "announce")
    /\ UNCHANGED <<db, flag, list, token, expired, changes, lost, unlisted>>

(* TokenManager.Add for the next of them, unless it is on the list already.   *)
AddFlag(h) ==
    /\ pc[h] = "announce"
    /\ \E u \in job[h].todo :
        \/ /\ u \in list
           /\ job' = [job EXCEPT ![h].todo = @ \ {u}]
           /\ UNCHANGED <<flag, pc, unlisted>>
        \/ /\ u \notin list
           /\ flag' = flag \cup {u}
           /\ unlisted' = unlisted \ {u}
           /\ job' = [job EXCEPT ![h].todo = @ \ {u}, ![h].who = u]
           /\ Goto(h, "addRead")
    /\ UNCHANGED <<db, list, token, expired, changes, lost>>

AddRead(h) ==
    /\ pc[h] = "addRead"
    /\ job' = [job EXCEPT ![h].read = list]
    /\ Goto(h, "addWrite")
    /\ UNCHANGED <<db, flag, list, token, expired, changes, lost, unlisted>>

AddWrite(h) ==
    /\ pc[h] = "addWrite"
    /\ list' = job[h].read \cup {job[h].who}
    /\ Goto(h, "announce")
    /\ UNCHANGED <<db, flag, token, expired, job, changes, lost, unlisted>>

Announced(h) ==
    /\ pc[h] = "announce"
    /\ job[h].todo = {}
    /\ Goto(h, "handle")
    /\ UNCHANGED <<db, flag, list, token, expired, job, changes, lost, unlisted>>

----------------------------------------------------------------------------
(* The handlers, as far as rights are concerned.                             *)

(* UpdateUser makes admins, or takes it from them, if its user is one according *)
(* to the database.                                                           *)
editUserProfile(j) ==
    IF j.user \in admins /\ superAdmin \notin j.ids
    THEN IF j.admin THEN admins \cup j.ids ELSE admins \ j.ids
    ELSE admins

(* UpdateEnrollments promotes students and demotes teachers, other than the    *)
(* course creator, who is not among the Users.                                 *)
Handle(h) ==
    LET m == job[h].method ids == job[h].ids IN
    /\ pc[h] = "handle"
    /\ teachers' = IF m = "UpdateEnrollments" THEN (teachers \ ids) \cup (ids \ teachers)
                   ELSE teachers
    /\ members' = CASE m = "UpdateGroup" -> ids
                    [] m = "DeleteGroup" -> {}
                    [] OTHER -> members
    /\ admins' = IF m = "UpdateUser" THEN editUserProfile(job[h]) ELSE admins
    /\ unlisted' = IF m = "UpdateGroup" THEN unlisted \cup ((members \ ids) \ list) ELSE unlisted
    /\ Goto(h, "respond")
    /\ UNCHANGED <<flag, list, token, expired, job, changes, lost>>

(* The response of a request that succeeds carries the new cookie, if any.    *)
Respond(h) ==
    LET s == job[h].session cookie == job[h].cookie IN
    /\ pc[h] = "respond"
    /\ token' = IF cookie = NoCookie THEN token ELSE [token EXCEPT ![s] = cookie]
    /\ expired' = IF cookie = NoCookie THEN expired ELSE expired \ {s}
    /\ lost' = IF cookie = NoCookie THEN lost ELSE lost \ {s}
    /\ Goto(h, "idle")
    /\ job' = [job EXCEPT ![h] = NoJob]
    /\ UNCHANGED <<db, flag, list, changes, unlisted>>

LosesCookie(hs) == {job[h].session : h \in {g \in hs : job[g].cookie # NoCookie}}

(* A denied request, an error of a handler, before or after the change is made,*)
(* and a lost response carry none.                                             *)
Fail(h) ==
    /\ \/ /\ pc[h] = "access"
          /\ ~Allowed(job[h])
             \/ (job[h].method = "DeleteGroup" /\ members = {})
          /\ UNCHANGED teachers
       \/ /\ Fails
          /\ pc[h] = "handle"
          /\ IF job[h].method = "UpdateEnrollments"
             THEN \E ids \in SUBSET job[h].ids \ {job[h].ids} :
                    teachers' = (teachers \ ids) \cup (ids \ teachers)
             ELSE UNCHANGED teachers
       \/ Fails /\ pc[h] = "respond" /\ UNCHANGED teachers
    /\ Goto(h, "idle")
    /\ job' = [job EXCEPT ![h] = NoJob]
    /\ lost' = lost \cup LosesCookie({h})
    /\ UNCHANGED <<members, admins, flag, list, token, expired, changes, unlisted>>

----------------------------------------------------------------------------
(* Only the arrival of a request looks at the time.                           *)
Expire(s) ==
    /\ token[s] # NoCookie
    /\ \E h \in Handlers : pc[h] = "idle"
    /\ expired' = expired \cup {s}
    /\ UNCHANGED <<db, flag, list, token, pc, job, changes, lost, unlisted>>

(* Requests are gone, and the cookies that the server kept; the list is as it  *)
(* was read by NewTokenManager.                                               *)
Restarted(read) ==
    /\ Fails
    /\ list' = read
    /\ token' = [s \in Sessions |-> IF s \in APIClients THEN NoCookie ELSE token[s]]
    /\ expired' = expired \ APIClients
    /\ lost' = (lost \cup LosesCookie(Handlers)) \ APIClients
    /\ pc' = [h \in Handlers |-> "idle"]
    /\ job' = [h \in Handlers |-> NoJob]
    /\ UNCHANGED <<db, flag, changes, unlisted>>

(* Mutant: the list starts empty. *)
RestartEmpty == Restarted({})

Restart == Restarted(flag)

Request(h) ==
    \/ Receive(h) \/ NewAuthCookie(h) \/ RemoveFlag(h) \/ RemoveRead(h) \/ RemoveWrite(h)
    \/ AccessControl(h) \/ AddFlag(h) \/ AddRead(h) \/ AddWrite(h) \/ Announced(h)
    \/ Handle(h) \/ Respond(h) \/ Fail(h)

Next ==
    \/ \E h \in Handlers : Request(h)
    \/ \E s \in Sessions : OAuth2Callback(s) \/ OAuth2Logout(s) \/ lookupToken(s) \/ Expire(s)
    \/ Restart

Spec == Init /\ [][Next]_vars

----------------------------------------------------------------------------
Idle == \A h \in Handlers : pc[h] = "idle"

(* Between requests, a user of whom a cookie no longer tells the truth is on   *)
(* the list: the next request brings a new cookie (tokens.go:67).  It does not  *)
(* hold of a session that the new cookie did not reach, because the request     *)
(* failed or another session of the user asked first: it keeps the old claims  *)
(* until they expire.  Nor does it hold of those whom UpdateGroup removes, as   *)
(* its request names the group's new users only.                               *)
StaleIsListed ==
    Idle => \A s \in Sessions \ (expired \cup lost) :
        token[s] \notin {Rights(UserOf[s]), NoCookie} => UserOf[s] \in list \cup unlisted

(* What tokens.go:31 says: UpdateGroup lists the users it removes from a group. *)
(* False: a removed user keeps a cookie with the group, and is not listed.      *)
RemovedAreListed ==
    Idle => \A s \in Sessions \ (expired \cup lost) :
        token[s] # NoCookie /\ token[s].group /\ UserOf[s] \notin members => UserOf[s] \in list

(* Whoever's rights a request changes has been put on the list before, other   *)
(* than those whom UpdateGroup removes.                                       *)
AffectedAreListed ==
    [][\A u \in Users : Rights(u)' # Rights(u) => u \in list \cup unlisted']_vars

(* The list in memory and the flags in the database agree between requests,   *)
(* also when the server has been stopped in the middle of one.                *)
ListMatchesFlags == Idle => list = flag

(* A flag is cleared only by a request of the user, and only when the cookie  *)
(* that goes back with it has the user's rights of that moment.               *)
ClearedWithCurrentCookie ==
    [][\A u \in flag \ flag' :
        \E h \in Handlers : job[h].user = u /\ job[h].cookie = Rights(u)]_vars
=============================================================================
