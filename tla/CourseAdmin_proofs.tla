------------------------- MODULE CourseAdmin_proofs -------------------------
(***************************************************************************)
(* The safety of CourseAdmin for any users, groups and names, with one     *)
(* request at a time and any number of failures and stops.  Two requests   *)
(* that overlap may break each of the properties: a rejection deletes the  *)
(* record that an acceptance has just found.                               *)
(***************************************************************************)
EXTENDS CourseAdmin, FiniteSetTheorems, TLAPS

OneHandler == \E h \in Handlers : Handlers = {h}

\* Two owners never have the same name for a repository.  The code makes it so
\* for users and courses; a group that calls itself "<login>-labs" is not
\* refused by checkGroupName, and is left out here.
NamesApart ==
    /\ \A u, v \in Users : StudentRepoName[u] = StudentRepoName[v] => u = v
    /\ \A u \in Users : StudentRepoName[u] \notin GroupNames \union CourseRepos
    /\ GroupNames \cap CourseRepos = {}

Names == {StudentRepoName[u] : u \in Users} \union GroupNames \union CourseRepos
ID == (Names \X Nat) \union {<<>>}
Repo == [id : ID, users : SUBSET Users]

Forking == {"createForkedRepo", "addUser", "CreateRepository"}
Saving == {"updateUserFromSCM", "enrollTeacher", "revokeTeacherStatus", "UpdateEnrollment"}
Inviting == {"enrollStudent", "ExchangeAndUpdateToken", "UpdateUser", "updatePermission"}
Invited == {"acceptOrgInvitation", "addToAssignments"}
Rejecting == {"rejectEnrollment", "RejectEnrollment"}
Grouping == {"createRepo", "updateGroupMembers", "UpdateGroup"}

Pc == {"idle", "createCourseRepo", "CreateCourse", "DeleteRepository", "deleteRepository",
       "CreateGroup", "DeleteGroup"}
          \union Forking \union Saving \union Inviting \union Invited \union Rejecting
          \union Grouping

Job == [pc : Pc, user : Users, to : {"NONE", "STUDENT", "TEACHER", "same", "changed"},
        enrollment : Enrollment, group : Groups \union {"none"}, name : Names \union {""},
        users : SUBSET Users, todo : SUBSET (Users \union CourseRepos), id : ID]

\* The types that TypeOK leaves open.
RowsTyped == rows \subseteq [owner : Owner, id : ID] /\ IsFiniteSet(rows)
GHTyped ==
    /\ gh \in [role : [DOMAIN gh.role -> {"admin", "member"}], active : SUBSET Users,
               repos : [DOMAIN gh.repos -> Repo]]
    /\ DOMAIN gh.repos \subseteq Names /\ IsFiniteSet(DOMAIN gh.repos)
Typed == TypeOK /\ RowsTyped /\ GHTyped /\ job \in [Handlers -> Job]

\* The repository n is that of a record's owner; a student can push to it.
Owns(r, n) ==
    IF r.owner \in CourseRepos THEN n = r.owner
    ELSE IF r.owner \in Users
         THEN /\ n = StudentRepoName[r.owner]
              /\ r.owner \in gh.repos[n].users
              /\ r.owner \in DOMAIN gh.role
    ELSE n \in GroupNames

\* No two repositories have an ID in common, and no two records.
IDsApart ==
    /\ \A m, n \in DOMAIN gh.repos : gh.repos[m].id = gh.repos[n].id => m = n
    /\ \A r, s \in rows : r.id = s.id => r = s

RowInv ==
    /\ \A r \in rows : \E n \in DOMAIN gh.repos : gh.repos[n].id = r.id /\ Owns(r, n)
    /\ creator \in DOMAIN gh.role

Enrolled == {"STUDENT", "TEACHER"}

EnrolInv == \A u \in Users : enrol[u].status \in Enrolled => getRepo(u) # {}

GroupInv ==
    \A g \in Groups :
        /\ groups[g].status # "NONE" => groups[g].name \in GroupNames
        /\ groups[g].status = "APPROVED" => getRepo(g) # {}

\* Before the course has a record nobody is enrolled.
NoCourse ==
    ~ course => /\ \A u \in Users : enrol[u].status = "NONE"
                /\ \A g \in Groups : groups[g].status = "NONE"

\* What the steps of the request j rely on.  Before the course has a record, all
\* there is is the request that creates it.
CreateInv(j) ==
    /\ ~ course => /\ j.pc \in {"idle", "createCourseRepo", "CreateCourse"} \union Forking
                   /\ j.user = creator /\ j.group = "none"
    /\ j.pc = "createCourseRepo" =>
          /\ ~ course
          /\ j.todo \subseteq CourseRepos /\ CourseRepos \ j.todo \subseteq DOMAIN gh.repos
    /\ j.pc \in Forking /\ ~ course => CourseRepos \subseteq DOMAIN gh.repos
    /\ j.pc = "CreateCourse" => ~ course /\ getRepo(creator) # {}

\* The repository of the student, or of the group, that is about to be recorded.
ForkInv(j) ==
    /\ j.pc \in Invited \union Forking /\ j.group = "none" => j.user \in DOMAIN gh.role
    /\ j.pc \in Forking /\ j.group = "none" => j.name = StudentRepoName[j.user]
    /\ j.pc \in Grouping \union {"createForkedRepo", "addUser"} => j.todo \subseteq Users
    /\ j.pc = "createForkedRepo" /\ j.group = "none" => j.user \in j.todo
    /\ j.pc \in {"addUser", "CreateRepository"} =>
          j.name \in DOMAIN gh.repos /\ gh.repos[j.name].id = j.id
    /\ j.pc = "addUser" /\ j.group = "none" => j.user \in j.todo \union gh.repos[j.name].users
    /\ j.pc = "CreateRepository" /\ j.group = "none" => j.user \in gh.repos[j.name].users

GroupJobInv(j) ==
    /\ j.pc \in Grouping \union {"DeleteGroup"} => j.group # "none"
    /\ j.pc \in Invited \union Inviting \union Rejecting => j.group = "none"
    /\ j.pc = "CreateGroup" => j.name \in GroupNames
    /\ j.group # "none" /\ j.pc \in Forking \union Grouping => j.name \in GroupNames
    /\ j.group # "none" /\ j.pc = "createForkedRepo" => ~ HasRepo(gh, j.name)
    /\ j.group # "none" /\ j.pc \in {"addUser", "CreateRepository"} => \A r \in rows : r.id # j.id
    /\ j.pc \in {"updateGroupMembers", "UpdateGroup"} => getRepo(j.group) # {}

SaveInv(j) ==
    /\ j.pc \in Saving /\ j.enrollment.status \in Enrolled => getRepo(j.user) # {}
    /\ j.pc \in {"enrollTeacher", "revokeTeacherStatus"} => j.enrollment.status \in Enrolled
    /\ j.pc = "updateUserFromSCM" =>
          /\ j.user # creator /\ j.group = "none"
          /\ updateEnrollment(j.enrollment.status, j.to) # "error"

RejectInv(j) ==
    /\ j.pc \in Rejecting => j.user # creator
    /\ j.pc \in {"DeleteRepository", "RejectEnrollment"} /\ j.group = "none" =>
          j.user # creator /\ enrol[j.user].status \notin Enrolled
    /\ j.pc = "DeleteRepository" /\ j.group # "none" => groups[j.group].status = "NONE"
    /\ j.pc = "RejectEnrollment" => getRepo(j.user) = {}
    /\ j.pc \in {"RejectEnrollment", "deleteRepository"} => \A r \in rows : r.id # j.id

JobInv(j) == CreateInv(j) /\ ForkInv(j) /\ GroupJobInv(j) /\ SaveInv(j) /\ RejectInv(j)

DBInv == IDsApart /\ RowInv /\ EnrolInv /\ GroupInv /\ NoCourse

IInv == Typed /\ DBInv /\ \A h \in Handlers : JobInv(job[h])

-----------------------------------------------------------------------------
(* The invariant for ApprovedGroupCanPush.                                 *)

\* A group is approved, and the repository n has its name and its members.
Settled(g, n) ==
    /\ groups[g].status = "APPROVED" /\ n = groups[g].name
    /\ GetGroup(g) \subseteq gh.repos[n].users

\* Each group with a record is settled, but the one a request is at work on.
PushInv(busy) ==
    \A r \in rows : r.owner \in Groups \ {busy} =>
        \A n \in ReposByID(gh, r.id) : Settled(r.owner, n)

\* A request keeps the group of the enrollment that it is to save.
Enrolling == Saving \union Inviting \union Invited

SameGroup(j) ==
    /\ j.pc \in {"idle", "CreateGroup"} \union Enrolling => j.group = "none"
    /\ j.pc \in Enrolling \/ (j.pc \in Forking /\ course /\ j.group = "none") =>
          /\ enrol[j.user].status # "NONE"
          /\ j.enrollment.group = enrol[j.user].group

\* The request on a group gives its members access before it saves them.
MembersInv(j) ==
    j.group # "none" =>
        /\ j.pc \in Forking \union Grouping => \A u \in j.users : enrol[u].status # "NONE"
        /\ j.pc \in {"createRepo", "deleteRepository"} \union Forking => getRepo(j.group) = {}
        /\ j.pc \in {"createRepo", "createForkedRepo"} => j.users \subseteq j.todo
        /\ j.pc = "addUser" => j.users \ j.todo \subseteq gh.repos[j.name].users
        /\ j.pc = "CreateRepository" => j.users \subseteq gh.repos[j.name].users
        /\ j.pc \in {"updateGroupMembers", "UpdateGroup"} =>
              \A r \in getRepo(j.group) : \A n \in ReposByID(gh, r.id) :
                  /\ n = j.name
                  /\ j.users \ j.todo \subseteq gh.repos[n].users
                  /\ j.pc = "UpdateGroup" \/ j.to # "changed" => j.users \subseteq gh.repos[n].users

NoFaultInv(j) == SameGroup(j) /\ (faults = 0 => PushInv(j.group) /\ MembersInv(j))

IInvPush == IInv /\ \A h \in Handlers : NoFaultInv(job[h])

-----------------------------------------------------------------------------
(* Helpers.                                                                *)

\* The values of a function on a finite set are finitely many.
LEMMA FiniteImage ==
  ASSUME NEW S, IsFiniteSet(S), NEW f
  PROVE  IsFiniteSet({f[x] : x \in S})
  <1> DEFINE T == {f[x] : x \in S}
             F == [x \in S |-> f[x]]
  <1>1. F \in Surjection(S, T)
    BY DEF Surjection
  <1>2. QED
    BY <1>1, FS_Surjection

\* GitHub gives a repository an ID that nothing refers to (NewID).
LEMMA FreshID ==
  ASSUME Typed, OneHandler, NEW name \in Names
  PROVE  NewID(name) \in ID /\ NewID(name) \notin Known
  <1> DEFINE C == Cardinality(Known)
             S == {name} \X (1..(C + 1))
  <1>1. IsFiniteSet(Known)
    <2> DEFINE A == {r.id : r \in rows}
               B == {job[h].id : h \in Handlers}
               D == {gh.repos[n].id : n \in DOMAIN gh.repos}
    <2>1. IsFiniteSet(A)
      <3> DEFINE F == [r \in rows |-> r.id]
      <3>1. A = {F[r] : r \in rows}
        OBVIOUS
      <3> HIDE DEF F
      <3>2. IsFiniteSet({F[r] : r \in rows})
        BY FiniteImage DEF Typed, RowsTyped, GHTyped
      <3>3. QED
        BY <3>1, <3>2
    <2>2. IsFiniteSet(B)
      <3>1. IsFiniteSet(Handlers)
        BY FS_Singleton DEF OneHandler
      <3> DEFINE F == [h \in Handlers |-> job[h].id]
      <3>2. B = {F[h] : h \in Handlers}
        OBVIOUS
      <3> HIDE DEF F
      <3>3. IsFiniteSet({F[h] : h \in Handlers})
        BY <3>1, FiniteImage
      <3>4. QED
        BY <3>2, <3>3
    <2>3. IsFiniteSet(D)
      <3> DEFINE F == [n \in DOMAIN gh.repos |-> gh.repos[n].id]
      <3>1. D = {F[n] : n \in DOMAIN gh.repos}
        OBVIOUS
      <3> HIDE DEF F
      <3>2. IsFiniteSet({F[n] : n \in DOMAIN gh.repos})
        BY FiniteImage DEF Typed, RowsTyped, GHTyped
      <3>3. QED
        BY <3>1, <3>2
    <2> HIDE DEF A, B, D
    <2>4. IsFiniteSet(A \union B)
      BY <2>1, <2>2, FS_Union
    <2>5. IsFiniteSet((A \union B) \union D)
      BY <2>3, <2>4, FS_Union
    <2>6. QED
      BY <2>5 DEF Known, A, B, D
  <1>2. C \in Nat
    BY <1>1, FS_CardinalityType
  <1> HIDE DEF C
  <1>3. IsFiniteSet(S) /\ Cardinality(S) = C + 1
    <2>1. IsFiniteSet(1..(C + 1)) /\ Cardinality(1..(C + 1)) = C + 1
      BY <1>2, FS_Interval
    <2>2. IsFiniteSet({name}) /\ Cardinality({name}) = 1
      BY FS_Singleton
    <2>3. QED
      BY <1>2, <2>1, <2>2, FS_Product
  <1>4. ~ (S \subseteq Known)
    BY <1>1, <1>2, <1>3, FS_Subset DEF C
  <1>5. NewID(name) \in S /\ NewID(name) \notin Known
    BY <1>4 DEF NewID, C
  <1>6. QED
    BY <1>2, <1>5 DEF ID

\* The invariant holds before the app is installed.
LEMMA InitIInv == Init => IInv
  <1> SUFFICES ASSUME Init PROVE IInv
    OBVIOUS
  <1>1. Idle \in Job /\ Idle.pc = "idle" /\ Idle.user = creator /\ Idle.group = "none"
    BY CourseAssumption DEF Idle, Job, Pc, NoEnrollment, Enrollment, ID
  <1>2. job \in [Handlers -> Job]
    BY <1>1 DEF Init
  <1>3. DOMAIN gh.repos = {} /\ gh.role = [u \in {creator} |-> "admin"] /\ gh.active = {creator}
    BY DEF Init, NewOrganization
  <1>4. gh \in [role : [DOMAIN gh.role -> {"admin", "member"}], active : SUBSET Users,
                repos : [DOMAIN gh.repos -> Repo]]
    BY CourseAssumption DEF Init, NewOrganization
  <1>5. TypeOK
    <2>1. NoEnrollment \in Enrollment /\ NoGroup \in Group
      BY DEF NoEnrollment, Enrollment, NoGroup, Group
    <2>2. enrol \in [Users -> Enrollment] /\ groups \in [Groups -> Group]
      BY <2>1 DEF Init
    <2>3. course = FALSE /\ rows = {} /\ token = Users /\ faults = 0
      BY DEF Init
    <2>4. faults \in 0..MaxFaults
      BY <2>3, CourseAssumption
    <2>5. QED
      BY <2>2, <2>3, <2>4 DEF TypeOK
  <1>6. Typed
    BY <1>2, <1>3, <1>4, <1>5, FS_EmptySet DEF Init, Typed, RowsTyped, GHTyped
  <1>7. DBInv
    BY <1>3 DEF Init, DBInv, IDsApart, RowInv, EnrolInv, GroupInv, NoCourse, NoEnrollment, NoGroup,
       Enrolled
  <1>8. \A h \in Handlers : job[h] = Idle
    BY DEF Init
  <1>9. ~ course
    BY DEF Init
  <1> HIDE DEF Init
  <1>10. \A h \in Handlers : JobInv(job[h])
    BY <1>1, <1>8, <1>9 DEF JobInv, CreateInv, ForkInv, GroupJobInv, SaveInv, RejectInv, Forking,
       Saving, Inviting, Invited, Rejecting, Grouping
  <1>11. QED
    BY <1>6, <1>7, <1>10 DEF IInv

\* One request: its new state is all there is to know of the jobs.
LEMMA JobsPrimed ==
  ASSUME NEW h, Handlers = {h}, NEW x, job' = [job EXCEPT ![h] = x], job \in [Handlers -> Job],
         JobInv(x)'
  PROVE  (\A k \in Handlers : JobInv(job[k]))'
  <1>1. job'[h] = x
    OBVIOUS
  <1>2. QED
    BY <1>1 DEF JobInv, CreateInv, ForkInv, GroupJobInv, SaveInv, RejectInv, getRepo, HasRepo,
       updateEnrollment

\* A step that changes the request only.
LEMMA LocalStep ==
  ASSUME IInv, NEW h, Handlers = {h}, NEW x \in Job, job' = [job EXCEPT ![h] = x],
         JobInv(x), UNCHANGED <<course, enrol, groups, rows, gh>>, token' \subseteq Users,
         faults' \in 0..MaxFaults
  PROVE  IInv'
  <1>1. job' \in [Handlers -> Job]
    BY DEF IInv, Typed
  <1>2. Typed'
    BY <1>1 DEF IInv, Typed, RowsTyped, GHTyped, TypeOK
  <1>3. DBInv'
    BY DEF IInv, DBInv, IDsApart, RowInv, Owns, EnrolInv, GroupInv, NoCourse, getRepo
  <1>4. JobInv(x)'
    BY DEF JobInv, CreateInv, ForkInv, GroupJobInv, SaveInv, RejectInv, getRepo, HasRepo,
       updateEnrollment
  <1>5. QED
    BY <1>2, <1>3, <1>4, JobsPrimed DEF IInv, Typed

\* No request is in the way of the invariant.
LEMMA IdleOK ==
    ASSUME IInv
    PROVE  Idle \in Job /\ JobInv(Idle)
  <1>1. Idle \in Job /\ Idle.pc = "idle" /\ Idle.user = creator /\ Idle.group = "none"
    BY CourseAssumption DEF Idle, Job, Pc, NoEnrollment, Enrollment, ID
  <1>2. QED
    BY <1>1 DEF JobInv, CreateInv, ForkInv, GroupJobInv, SaveInv, RejectInv, Forking, Saving,
       Inviting, Invited, Rejecting, Grouping

\* The end of a request that changes nothing else, or its failure.
LEMMA ReturnStep ==
  ASSUME IInv, NEW h, Handlers = {h}, job' = [job EXCEPT ![h] = Idle],
         UNCHANGED <<course, enrol, groups, rows, gh>>, token' \subseteq Users,
         faults' = faults \/ (faults < MaxFaults /\ faults' = faults + 1)
  PROVE  IInv'
  <1>1. faults' \in 0..MaxFaults
    BY CourseAssumption DEF IInv, Typed, TypeOK
  <1>2. Idle \in Job /\ JobInv(Idle)
    BY IdleOK
  <1>3. QED
    BY <1>1, <1>2, LocalStep

\* A call that changes nothing on GitHub, and one that needs no call.
LEMMA CallStep ==
  ASSUME IInv, NEW h, Handlers = {h}, NEW x \in Job, JobInv(x), Call(h, x, gh)
  PROVE  IInv'
  <1>1. UNCHANGED <<course, enrol, groups, rows, token, gh>>
    BY DEF Call, Fails, db
  <1>2. token' \subseteq Users /\ faults \in 0..MaxFaults
    BY <1>1 DEF IInv, Typed, TypeOK
  <1>3. CASE job' = [job EXCEPT ![h] = x] /\ faults' = faults
    BY <1>1, <1>2, <1>3, LocalStep
  <1>4. CASE Fails(h)
    BY <1>1, <1>2, <1>4, ReturnStep DEF Fails
  <1>5. QED
    BY <1>3, <1>4 DEF Call

\* A step of the request that needs no call.
LEMMA NoCallStep ==
  ASSUME IInv, NEW h, Handlers = {h}, NEW x \in Job, JobInv(x), Local(h, x), UNCHANGED db,
         token' \subseteq Users
  PROVE  IInv'
  <1>1. UNCHANGED <<course, enrol, groups, rows, gh, faults>> /\ job' = [job EXCEPT ![h] = x]
    BY DEF Local, db
  <1>2. faults' \in 0..MaxFaults
    BY <1>1 DEF IInv, Typed, TypeOK
  <1>3. QED
    BY <1>1, <1>2, LocalStep

-----------------------------------------------------------------------------
(* The steps that change the request only.                                 *)

\* What the request of a handler satisfies.
LEMMA JobFacts ==
  ASSUME IInv, NEW h \in Handlers
  PROVE  job[h] \in Job /\ JobInv(job[h])
  BY DEF IInv, Typed

\* The GitHub app is installed: the course is to be created.
LEMMA StartCourse ==
  ASSUME IInv, NEW h, Handlers = {h}, handleInstallationCreated(h)
  PROVE  IInv'
  <1> DEFINE x == [Idle EXCEPT !.pc = "createCourseRepo", !.todo = CourseRepos]
  <1>1. Idle \in Job
    BY IdleOK
  <1>2. x \in Job /\ x.pc = "createCourseRepo" /\ x.todo = CourseRepos
    BY <1>1 DEF Job, Pc
  <1>3. x.user = creator /\ x.group = "none"
    BY <1>1 DEF Job, Idle
  <1>4. ~ course /\ Call(h, x, gh)
    BY DEF handleInstallationCreated
  <1> HIDE DEF x
  <1>5. JobInv(x)
    BY <1>2, <1>3, <1>4 DEF JobInv, CreateInv, ForkInv, GroupJobInv, SaveInv, RejectInv, Forking,
       Saving, Inviting, Invited, Rejecting, Grouping
  <1>6. QED
    BY <1>2, <1>4, <1>5, CallStep

\* A teacher changes the status of an enrollment.
LEMMA StartEnrollment ==
  ASSUME IInv, NEW h, Handlers = {h}, NEW u \in Users, NEW to \in {"NONE", "STUDENT", "TEACHER"},
         UpdateEnrollments(h, u, to)
  PROVE  IInv'
  <1> DEFINE x == [Idle EXCEPT !.pc = "updateUserFromSCM", !.user = u, !.to = to,
                               !.enrollment = enrol[u]]
  <1>1. Idle \in Job /\ enrol[u] \in Enrollment /\ token \subseteq Users
    BY IdleOK DEF IInv, Typed, TypeOK
  <1>2. x \in Job /\ x.pc = "updateUserFromSCM" /\ x.user = u /\ x.to = to
          /\ x.enrollment = enrol[u]
    BY <1>1 DEF Job, Pc, Saving
  <1>3. x.group = "none"
    BY <1>1 DEF Job, Idle
  <1>4. /\ course /\ u # creator /\ updateEnrollment(enrol[u].status, to) # "error"
        /\ Local(h, x) /\ UNCHANGED <<db, token>>
    BY DEF UpdateEnrollments, isCourseCreator
  <1> HIDE DEF x
  <1>5. JobInv(x)
    BY <1>2, <1>3, <1>4 DEF IInv, DBInv, EnrolInv, JobInv, CreateInv, ForkInv, GroupJobInv, SaveInv,
       RejectInv, Forking, Saving, Inviting, Invited, Rejecting, Grouping
  <1>6. QED
    BY <1>1, <1>2, <1>4, <1>5, NoCallStep

\* An enrollment is read, to be saved with another visibility or date.
LEMMA StartSave ==
  ASSUME IInv, NEW h, Handlers = {h}, NEW u \in Users, UpdateCourseVisibility(h, u)
  PROVE  IInv'
  <1> DEFINE x == [Idle EXCEPT !.pc = "UpdateEnrollment", !.user = u, !.enrollment = enrol[u]]
  <1>1. Idle \in Job /\ enrol[u] \in Enrollment /\ token \subseteq Users
    BY IdleOK DEF IInv, Typed, TypeOK
  <1>2. x \in Job /\ x.pc = "UpdateEnrollment" /\ x.user = u /\ x.enrollment = enrol[u]
    BY <1>1 DEF Job, Pc, Saving
  <1>3. x.group = "none"
    BY <1>1 DEF Job, Idle
  <1>4. course /\ Local(h, x) /\ UNCHANGED <<db, token>>
    BY DEF UpdateCourseVisibility, IInv, DBInv, NoCourse
  <1> HIDE DEF x
  <1>5. JobInv(x)
    BY <1>2, <1>3, <1>4 DEF IInv, DBInv, EnrolInv, JobInv, CreateInv, ForkInv, GroupJobInv, SaveInv,
       RejectInv, Forking, Saving, Inviting, Invited, Rejecting, Grouping
  <1>6. QED
    BY <1>1, <1>2, <1>4, <1>5, NoCallStep

\* A student asks for a group.
LEMMA StartCreateGroup ==
  ASSUME IInv, NEW h, Handlers = {h}, NEW n \in GroupNames, NEW m \in SUBSET Users,
         CreateGroup(h, n, m)
  PROVE  IInv'
  <1> DEFINE x == [Idle EXCEPT !.pc = "CreateGroup", !.name = n, !.users = m]
  <1>1. Idle \in Job /\ token \subseteq Users
    BY IdleOK DEF IInv, Typed, TypeOK
  <1>2. x \in Job /\ x.pc = "CreateGroup" /\ x.name = n
    BY <1>1 DEF Job, Pc, Names
  <1>3. x.group = "none"
    BY <1>1 DEF Job, Idle
  <1>4. course /\ Local(h, x) /\ UNCHANGED <<db, token>>
    BY DEF CreateGroup
  <1> HIDE DEF x
  <1>5. JobInv(x)
    BY <1>2, <1>3, <1>4 DEF JobInv, CreateInv, ForkInv, GroupJobInv, SaveInv, RejectInv, Forking,
       Saving, Inviting, Invited, Rejecting, Grouping
  <1>6. QED
    BY <1>1, <1>2, <1>4, <1>5, NoCallStep

\* A teacher approves a group or changes it.
LEMMA StartUpdateGroup ==
  ASSUME IInv, NEW h, Handlers = {h}, NEW g \in Groups, NEW n \in GroupNames,
         NEW m \in SUBSET Users, internalUpdateGroup(h, g, n, m)
  PROVE  IInv'
  <1> DEFINE new == newGroup(g, n, m)
             to == IF ContainsAll(g, m) THEN "same" ELSE "changed"
             pc == IF getRepo(g) = {} THEN "createRepo"
                   ELSE IF ContainsAll(g, m) THEN "UpdateGroup" ELSE "updateGroupMembers"
             x == [Idle EXCEPT !.group = g, !.name = new.name, !.users = m, !.pc = pc, !.to = to,
                               !.todo = m]
  <1>1. Idle \in Job /\ g # "none"
    BY IdleOK, CourseAssumption
  <1>2. course
    BY DEF internalUpdateGroup, HasGroup, IInv, DBInv, NoCourse
  <1>3. Call(h, x, gh)
    BY DEF internalUpdateGroup
  <1>4. new.name \in GroupNames
    <2>1. groups[g] \in Group /\ groups[g].name \in GroupNames
      BY DEF internalUpdateGroup, HasGroup, IInv, DBInv, GroupInv, Typed, TypeOK
    <2>2. QED
      BY <2>1 DEF newGroup, Group
  <1>5. /\ pc \in Grouping /\ to \in {"same", "changed"}
        /\ pc = "createRepo" \/ (getRepo(g) # {} /\ pc \in {"updateGroupMembers", "UpdateGroup"})
    BY DEF Grouping
  <1> HIDE DEF new, pc, to
  <1>6. x \in Job /\ x.pc = pc /\ x.group = g /\ x.name = new.name /\ x.todo = m
    BY <1>1, <1>4, <1>5 DEF Job, Pc, Names
  <1> HIDE DEF x
  <1>7. JobInv(x)
    BY <1>1, <1>2, <1>4, <1>5, <1>6 DEF JobInv, CreateInv, ForkInv, GroupJobInv, SaveInv, RejectInv,
       Forking, Saving, Inviting, Invited, Rejecting, Grouping
  <1>8. QED
    BY <1>3, <1>6, <1>7, CallStep

\* A teacher deletes a group.
LEMMA StartDeleteGroup ==
  ASSUME IInv, NEW h, Handlers = {h}, NEW g \in Groups, internalDeleteGroup(h, g)
  PROVE  IInv'
  <1> DEFINE x == [Idle EXCEPT !.pc = "DeleteGroup", !.group = g]
  <1>1. Idle \in Job /\ token \subseteq Users /\ g # "none"
    BY IdleOK, CourseAssumption DEF IInv, Typed, TypeOK
  <1>2. x \in Job /\ x.pc = "DeleteGroup" /\ x.group = g
    BY <1>1 DEF Job, Pc
  <1>3. course /\ Local(h, x) /\ UNCHANGED <<db, token>>
    BY DEF internalDeleteGroup, HasGroup, IInv, DBInv, NoCourse
  <1> HIDE DEF x
  <1>4. JobInv(x)
    BY <1>1, <1>2, <1>3 DEF JobInv, CreateInv, ForkInv, GroupJobInv, SaveInv, RejectInv, Forking,
       Saving, Inviting, Invited, Rejecting, Grouping
  <1>5. QED
    BY <1>1, <1>2, <1>3, <1>4, NoCallStep

-----------------------------------------------------------------------------
(* The steps that change GitHub.                                           *)

\* A step of the request whose parts are shown one by one.
LEMMA Assemble ==
  ASSUME IInv, NEW h, Handlers = {h}, NEW x \in Job, job' = [job EXCEPT ![h] = x],
         TypeOK', RowsTyped', GHTyped', DBInv', JobInv(x)'
  PROVE  IInv'
  <1>1. job' \in [Handlers -> Job]
    BY DEF IInv, Typed
  <1>2. QED
    BY <1>1, JobsPrimed DEF IInv, Typed

\* A step that leaves the database alone keeps its types.
LEMMA SameDB ==
  ASSUME IInv, UNCHANGED <<course, enrol, groups, rows, token>>,
         faults' = faults \/ (faults < MaxFaults /\ faults' = faults + 1)
  PROVE  TypeOK' /\ RowsTyped'
  BY CourseAssumption DEF IInv, Typed, TypeOK, RowsTyped

\* The organization gains members and collaborators, and loses nothing.
Gains ==
    /\ DOMAIN gh'.repos = DOMAIN gh.repos
    /\ DOMAIN gh.role \subseteq DOMAIN gh'.role
    /\ \A n \in DOMAIN gh.repos : /\ gh'.repos[n].id = gh.repos[n].id
                                  /\ gh.repos[n].users \subseteq gh'.repos[n].users

\* The relation of records and repositories survives such a gain.
LEMMA GainsKeeps ==
  ASSUME DBInv, Gains, UNCHANGED <<course, enrol, groups, rows>>
  PROVE  DBInv'
  <1>1. IDsApart'
    BY DEF DBInv, IDsApart, Gains
  <1>2. RowInv'
    BY DEF DBInv, RowInv, Owns, Gains
  <1>3. QED
    BY <1>1, <1>2 DEF DBInv, EnrolInv, GroupInv, NoCourse, getRepo

\* A membership is put: nobody leaves.
LEMMA Membership ==
  ASSUME GHTyped, NEW u \in Users, NEW role \in {"admin", "member"},
         gh' = PutMembership(gh, u, role)
  PROVE  GHTyped' /\ Gains /\ u \in DOMAIN gh'.role /\ gh'.repos = gh.repos
  <1> DEFINE R == [v \in DOMAIN gh.role \union {u} |-> IF v = u THEN role ELSE gh.role[v]]
  <1>1. gh' = [gh EXCEPT !.role = R]
    BY DEF PutMembership
  <1>2. DOMAIN R = DOMAIN gh.role \union {u} /\ R \in [DOMAIN R -> {"admin", "member"}]
    BY DEF GHTyped
  <1> HIDE DEF R
  <1>3. gh'.role = R /\ gh'.repos = gh.repos /\ gh'.active = gh.active
    BY <1>1 DEF GHTyped
  <1>4. gh' = [role |-> gh'.role, active |-> gh'.active, repos |-> gh'.repos]
    BY <1>1 DEF GHTyped
  <1>5. GHTyped'
    BY <1>2, <1>3, <1>4 DEF GHTyped
  <1>6. QED
    BY <1>2, <1>3, <1>5 DEF Gains

\* An invitation is accepted.
LEMMA Accepted ==
  ASSUME GHTyped, NEW u \in Users, gh' = PatchOwnMembership(gh, u)
  PROVE  GHTyped' /\ Gains /\ gh'.role = gh.role /\ gh'.repos = gh.repos
  <1>1. gh'.role = gh.role /\ gh'.repos = gh.repos /\ gh'.active = gh.active \union {u}
    BY DEF PatchOwnMembership, GHTyped
  <1>2. gh' = [role |-> gh'.role, active |-> gh'.active, repos |-> gh'.repos]
    BY DEF PatchOwnMembership, GHTyped
  <1>3. QED
    BY <1>1, <1>2 DEF GHTyped, Gains

\* A collaborator is put.
LEMMA Collaborator ==
  ASSUME GHTyped, NEW name \in DOMAIN gh.repos, NEW u \in Users,
         gh' = PutCollaborator(gh, name, u)
  PROVE  /\ GHTyped' /\ Gains /\ gh'.role = gh.role
         /\ \A n \in DOMAIN gh.repos :
               gh'.repos[n].users = IF n = name THEN gh.repos[n].users \union {u}
                                    ELSE gh.repos[n].users
  <1> DEFINE R == [gh.repos EXCEPT ![name].users = @ \union {u}]
  <1>1. gh' = [gh EXCEPT !.repos = R]
    BY DEF PutCollaborator
  <1>2. DOMAIN R = DOMAIN gh.repos /\ R \in [DOMAIN R -> Repo]
    BY DEF GHTyped, Repo
  <1>3. \A n \in DOMAIN gh.repos :
           /\ R[n].id = gh.repos[n].id
           /\ R[n].users = IF n = name THEN gh.repos[n].users \union {u} ELSE gh.repos[n].users
    <2>1. \A n \in DOMAIN gh.repos : n # name => R[n] = gh.repos[n]
      OBVIOUS
    <2>2. R[name] = [gh.repos[name] EXCEPT !.users = @ \union {u}] /\ gh.repos[name] \in Repo
      BY DEF GHTyped
    <2>3. R[name].id = gh.repos[name].id /\ R[name].users = gh.repos[name].users \union {u}
      BY <2>2 DEF Repo
    <2>4. QED
      BY <2>1, <2>3
  <1> HIDE DEF R
  <1>4. gh'.role = gh.role /\ gh'.repos = R /\ gh'.active = gh.active
    BY <1>1 DEF GHTyped
  <1>5. gh' = [role |-> gh'.role, active |-> gh'.active, repos |-> gh'.repos]
    BY <1>1 DEF GHTyped
  <1>6. GHTyped'
    BY <1>2, <1>4, <1>5 DEF GHTyped
  <1>7. QED
    BY <1>2, <1>3, <1>4, <1>6 DEF Gains

\* A repository is made, with an ID that no record has.
LEMMA NewRepo ==
  ASSUME IInv, OneHandler, NEW name \in Names, ~ HasRepo(gh, name), NEW id, id = NewID(name),
         gh' = PostRepo(gh, name, id), UNCHANGED <<course, enrol, groups, rows>>
  PROVE  /\ GHTyped' /\ DBInv' /\ gh'.role = gh.role
         /\ DOMAIN gh'.repos = DOMAIN gh.repos \union {name}
         /\ \A n \in DOMAIN gh.repos : gh'.repos[n] = gh.repos[n]
         /\ gh'.repos[name].id = id /\ id \in ID /\ \A r \in rows : r.id # id
  <1> DEFINE R == [n \in DOMAIN gh.repos \union {name} |->
                      IF n = name THEN [id |-> id, users |-> {}] ELSE gh.repos[n]]
  <1>1. id \in ID /\ id \notin Known
    BY FreshID DEF IInv
  <1>2. (\A r \in rows : r.id # id) /\ \A n \in DOMAIN gh.repos : gh.repos[n].id # id
    BY <1>1 DEF Known
  <1>3. gh' = [gh EXCEPT !.repos = R]
    BY DEF PostRepo
  <1>4. DOMAIN R = DOMAIN gh.repos \union {name} /\ R \in [DOMAIN R -> Repo]
    <2>1. [id |-> id, users |-> {}] \in Repo
      BY <1>1 DEF Repo
    <2>2. QED
      BY <2>1 DEF GHTyped, IInv, Typed
  <1>5. (\A n \in DOMAIN gh.repos : R[n] = gh.repos[n]) /\ R[name].id = id
    BY DEF HasRepo
  <1> HIDE DEF R
  <1>6. gh'.role = gh.role /\ gh'.repos = R /\ gh'.active = gh.active
    BY <1>3 DEF IInv, Typed, GHTyped
  <1>7. gh' = [role |-> gh'.role, active |-> gh'.active, repos |-> gh'.repos]
    BY <1>3 DEF IInv, Typed, GHTyped
  <1>8. IsFiniteSet(DOMAIN gh.repos \union {name})
    BY FS_AddElement DEF IInv, Typed, GHTyped
  <1>9. GHTyped'
    BY <1>4, <1>6, <1>7, <1>8 DEF IInv, Typed, GHTyped
  <1>10. IDsApart'
    BY <1>2, <1>4, <1>5, <1>6 DEF IInv, DBInv, IDsApart
  <1>11. RowInv'
    BY <1>4, <1>5, <1>6 DEF IInv, DBInv, RowInv, Owns
  <1>12. DBInv'
    BY <1>10, <1>11 DEF IInv, DBInv, EnrolInv, GroupInv, NoCourse, getRepo
  <1>13. QED
    BY <1>1, <1>2, <1>4, <1>5, <1>6, <1>9, <1>12

\* One of the repositories of the course is made, or found.
LEMMA CourseRepoStep ==
  ASSUME IInv, NEW h, Handlers = {h}, createCourseRepo(h)
  PROVE  IInv'
  <1> DEFINE j == job[h]
  <1>1. j \in Job /\ JobInv(j) /\ j.pc = "createCourseRepo"
    BY JobFacts DEF createCourseRepo
  <1> HIDE DEF j
  <1>2. /\ ~ course /\ j.user = creator /\ j.group = "none"
        /\ j.todo \subseteq CourseRepos /\ CourseRepos \ j.todo \subseteq DOMAIN gh.repos
    BY <1>1 DEF JobInv, CreateInv
  <1>3. ASSUME NEW name \in j.todo, HasRepo(gh, name), Call(h, [j EXCEPT !.todo = @ \ {name}], gh)
        PROVE  IInv'
    <2> DEFINE x == [j EXCEPT !.todo = @ \ {name}]
    <2>1. x \in Job /\ x.todo = j.todo \ {name} /\ x.pc = j.pc /\ x.user = j.user
            /\ x.group = j.group
      BY <1>1 DEF Job
    <2>2. Call(h, x, gh)
      BY <1>3
    <2> HIDE DEF x
    <2>3. JobInv(x)
      BY <1>1, <1>2, <1>3, <2>1 DEF JobInv, CreateInv, ForkInv, GroupJobInv, SaveInv, RejectInv,
         Forking, Saving, Inviting, Invited, Rejecting, Grouping, HasRepo
    <2>4. QED
      BY <2>1, <2>2, <2>3, CallStep
  <1>4. ASSUME NEW name \in j.todo, ~ HasRepo(gh, name),
               Call(h, [j EXCEPT !.todo = @ \ {name}], PostRepo(gh, name, NewID(name)))
        PROVE  IInv'
    <2> DEFINE x == [j EXCEPT !.todo = @ \ {name}]
    <2>1. x \in Job /\ x.todo = j.todo \ {name} /\ x.pc = j.pc /\ x.user = j.user
            /\ x.group = j.group
      BY <1>1 DEF Job
    <2>2. Call(h, x, PostRepo(gh, name, NewID(name)))
      BY <1>4
    <2> HIDE DEF x
    <2>3. UNCHANGED <<course, enrol, groups, rows, token>>
      BY <2>2 DEF Call, db
    <2>4. CASE Fails(h) /\ UNCHANGED gh
      <3>1. token' \subseteq Users
        BY <2>3 DEF IInv, Typed, TypeOK
      <3>2. QED
        BY <2>3, <2>4, <3>1, ReturnStep DEF Fails
    <2>5. CASE /\ job' = [job EXCEPT ![h] = x] /\ faults' = faults
               /\ gh' = PostRepo(gh, name, NewID(name))
      <3>1. name \in Names
        BY <1>2 DEF Names
      <3>2. PICK id : id = NewID(name)
        OBVIOUS
      <3>3. /\ GHTyped' /\ DBInv' /\ gh'.role = gh.role
            /\ DOMAIN gh'.repos = DOMAIN gh.repos \union {name}
        BY <1>4, <2>3, <2>5, <3>1, <3>2, NewRepo DEF OneHandler
      <3>4. TypeOK' /\ RowsTyped'
        BY <2>3, <2>5, SameDB
      <3>5. PICK y \in Job : y = x
        BY <2>1
      <3>6. JobInv(y)'
        BY <1>1, <1>2, <2>1, <2>3, <3>3, <3>5 DEF JobInv, CreateInv, ForkInv, GroupJobInv, SaveInv,
           RejectInv, Forking, Saving, Inviting, Invited, Rejecting, Grouping
      <3>7. QED
        BY <2>5, <3>3, <3>4, <3>5, <3>6, Assemble
    <2>6. QED
      BY <2>2, <2>4, <2>5 DEF Call
  <1>5. ASSUME j.todo = {}, UNCHANGED <<db, token>>,
               Local(h, [j EXCEPT !.pc = "createForkedRepo", !.name = StudentRepoName[creator],
                                  !.todo = {creator}])
        PROVE  IInv'
    <2> DEFINE x == [j EXCEPT !.pc = "createForkedRepo", !.name = StudentRepoName[creator],
                              !.todo = {creator}]
    <2>1. /\ x \in Job /\ x.todo = {creator} /\ x.pc = "createForkedRepo" /\ x.user = j.user
          /\ x.group = j.group /\ x.name = StudentRepoName[creator]
      BY <1>1, CourseAssumption DEF Job, Pc, Forking, Names
    <2>2. Local(h, x)
      BY <1>5
    <2> HIDE DEF x
    <2>3. JobInv(x)
      BY <1>1, <1>2, <1>5, <2>1, CourseAssumption DEF JobInv, CreateInv, ForkInv, GroupJobInv,
         SaveInv, RejectInv,
         Forking, Saving, Inviting, Invited, Rejecting, Grouping, IInv, DBInv, RowInv
    <2>4. token' \subseteq Users
      BY <1>5 DEF IInv, Typed, TypeOK
    <2>5. QED
      BY <1>5, <2>1, <2>2, <2>3, <2>4, NoCallStep
  <1>6. QED
    BY <1>3, <1>4, <1>5 DEF createCourseRepo, j

\* The student is invited, accepts, and gets to see the assignments.
LEMMA InviteStep ==
  ASSUME IInv, NEW h, Handlers = {h}, UpdateEnrollmentOnGitHub(h) \/ acceptOrgInvitation(h)
  PROVE  IInv'
  <1> DEFINE j == job[h]
  <1>1. j \in Job /\ JobInv(j) /\ j.pc \in Invited \union {"updatePermission"}
    BY JobFacts DEF UpdateEnrollmentOnGitHub, acceptOrgInvitation, Invited
  <1>2. course /\ j.group = "none" /\ (j.pc \in Invited => j.user \in DOMAIN gh.role)
    BY <1>1 DEF JobInv, CreateInv, ForkInv, GroupJobInv, Invited, Inviting, Forking
  <1>3. PICK x, g2 :
           /\ x \in Job
           /\ Call(h, x, g2)
           /\ x.user = j.user /\ x.group = "none"
           /\ \/ j.pc = "updatePermission" /\ x.pc = "acceptOrgInvitation"
                   /\ g2 = PutMembership(gh, j.user, "member")
              \/ j.pc = "acceptOrgInvitation" /\ x.pc = "addToAssignments"
                   /\ g2 = PatchOwnMembership(gh, j.user)
              \/ j.pc = "addToAssignments" /\ x.pc = "createForkedRepo"
                   /\ x.name = StudentRepoName[j.user] /\ x.todo = {j.user}
                   /\ g2 = PutCollaborator(gh, "assignments", j.user)
    <2>1. CASE j.pc = "updatePermission"
      <3> DEFINE x == [j EXCEPT !.pc = "acceptOrgInvitation"]
      <3>1. Call(h, x, PutMembership(gh, j.user, "member"))
        BY <2>1 DEF UpdateEnrollmentOnGitHub, acceptOrgInvitation
      <3>2. x \in Job /\ x.pc = "acceptOrgInvitation" /\ x.user = j.user /\ x.group = "none"
        BY <1>1, <1>2 DEF Job, Pc, Invited
      <3>3. QED
        BY <2>1, <3>1, <3>2
    <2>2. CASE j.pc = "acceptOrgInvitation"
      <3> DEFINE x == [j EXCEPT !.pc = "addToAssignments"]
      <3>1. Call(h, x, PatchOwnMembership(gh, j.user))
        BY <2>2 DEF UpdateEnrollmentOnGitHub, acceptOrgInvitation
      <3>2. x \in Job /\ x.pc = "addToAssignments" /\ x.user = j.user /\ x.group = "none"
        BY <1>1, <1>2 DEF Job, Pc, Invited
      <3>3. QED
        BY <2>2, <3>1, <3>2
    <2>3. CASE j.pc = "addToAssignments"
      <3> DEFINE x == [j EXCEPT !.pc = "createForkedRepo", !.name = StudentRepoName[j.user],
                                !.todo = {j.user}]
      <3>1. Call(h, x, PutCollaborator(gh, "assignments", j.user))
        BY <2>3 DEF UpdateEnrollmentOnGitHub, acceptOrgInvitation
      <3>2. j.user \in Users
        BY <1>1 DEF Job
      <3>3. /\ x \in Job /\ x.pc = "createForkedRepo" /\ x.user = j.user /\ x.group = "none"
            /\ x.name = StudentRepoName[j.user] /\ x.todo = {j.user}
        BY <1>1, <1>2, <3>2 DEF Job, Pc, Forking, Names
      <3>4. QED
        BY <2>3, <3>1, <3>3
    <2>4. QED
      BY <1>1, <2>1, <2>2, <2>3 DEF Invited
  <1>4. UNCHANGED <<course, enrol, groups, rows, token>> /\ x.user \in Users
    BY <1>3 DEF Call, db, Job
  <1>5. CASE Fails(h) /\ UNCHANGED gh
    <2>1. token' \subseteq Users
      BY <1>4 DEF IInv, Typed, TypeOK
    <2>2. QED
      BY <1>4, <1>5, <2>1, ReturnStep DEF Fails
  <1>6. CASE job' = [job EXCEPT ![h] = x] /\ faults' = faults /\ gh' = g2
    <2>1. GHTyped' /\ Gains /\ x.user \in DOMAIN gh'.role
      <3>1. GHTyped
        BY DEF IInv, Typed
      <3>2. CASE gh' = PutMembership(gh, j.user, "member")
        BY <1>3, <1>4, <3>1, <3>2, Membership
      <3>3. CASE gh' = PatchOwnMembership(gh, j.user) /\ j.pc = "acceptOrgInvitation"
        BY <1>2, <1>3, <1>4, <3>1, <3>3, Accepted DEF Invited
      <3>4. CASE gh' = PutCollaborator(gh, "assignments", j.user) /\ j.pc = "addToAssignments"
        <4>1. CASE "assignments" \in DOMAIN gh.repos
          BY <1>2, <1>3, <1>4, <3>1, <3>4, <4>1, Collaborator DEF Invited
        <4>2. CASE "assignments" \notin DOMAIN gh.repos
          <5>1. [gh.repos EXCEPT !["assignments"].users = @ \union {j.user}] = gh.repos
            BY <3>1, <4>2 DEF GHTyped
          <5>2. gh' = gh
            BY <3>1, <3>4, <5>1 DEF PutCollaborator, GHTyped
          <5>3. QED
            BY <1>2, <1>3, <3>1, <3>4, <5>2 DEF Invited, Gains, GHTyped
        <4>3. QED
          BY <4>1, <4>2
      <3>5. QED
        BY <1>3, <1>6, <3>2, <3>3, <3>4
    <2>2. DBInv'
      BY <1>4, <2>1, GainsKeeps DEF IInv
    <2>3. TypeOK' /\ RowsTyped'
      BY <1>4, <1>6, SameDB
    <2>4. JobInv(x)'
      BY <1>2, <1>3, <1>4, <2>1 DEF JobInv, CreateInv, ForkInv, GroupJobInv, SaveInv, RejectInv,
         Forking, Saving, Inviting, Invited, Rejecting, Grouping
    <2>5. QED
      BY <1>3, <1>6, <2>1, <2>2, <2>3, <2>4, Assemble
  <1>7. QED
    BY <1>3, <1>5, <1>6 DEF Call

\* The repository is there, or a fork is made.
LEMMA ForkStep ==
  ASSUME IInv, NEW h, Handlers = {h}, createForkedRepo(h)
  PROVE  IInv'
  <1> DEFINE j == job[h]
  <1>1. j \in Job /\ JobInv(j) /\ j.pc = "createForkedRepo"
    BY JobFacts DEF createForkedRepo
  <1>2. /\ j.group = "none" => j.name = StudentRepoName[j.user] /\ j.user \in DOMAIN gh.role
        /\ j.group # "none" => j.name \in GroupNames /\ ~ HasRepo(gh, j.name)
        /\ ~ course => /\ j.user = creator /\ j.group = "none"
                       /\ CourseRepos \subseteq DOMAIN gh.repos
        /\ j.name \in Names
    <2>1. j.user \in Users
      BY <1>1 DEF Job
    <2> HIDE DEF j
    <2>2. QED
      BY <1>1, <2>1 DEF JobInv, CreateInv, ForkInv, GroupJobInv, Forking, Names
  <1>3. ASSUME NEW id \in ID
        PROVE  LET x == [j EXCEPT !.pc = "addUser", !.id = id]
               IN  /\ x \in Job /\ x.pc = "addUser" /\ x.id = id /\ x.name = j.name
                   /\ x.user = j.user /\ x.group = j.group /\ x.todo = j.todo
    BY <1>1 DEF Job, Pc, Forking
  <1>4. j.todo \subseteq Users /\ (j.group = "none" => j.user \in j.todo)
    BY <1>1 DEF JobInv, ForkInv
  <1>5. UNCHANGED <<course, enrol, groups, rows, token>>
    BY DEF createForkedRepo, db
  <1> HIDE DEF j
  <1>6. CASE HasRepo(gh, j.name) /\ Local(h, [j EXCEPT !.pc = "addUser",
                                                       !.id = gh.repos[j.name].id])
    <2>1. gh.repos[j.name].id \in ID /\ j.name \in DOMAIN gh.repos /\ j.group = "none"
      BY <1>2, <1>6 DEF IInv, Typed, GHTyped, Repo, HasRepo
    <2>2. PICK x \in Job :
             /\ x = [j EXCEPT !.pc = "addUser", !.id = gh.repos[j.name].id]
             /\ x.pc = "addUser" /\ x.id = gh.repos[j.name].id /\ x.name = j.name
             /\ x.user = j.user /\ x.group = j.group /\ x.todo = j.todo
      BY <1>3, <2>1
    <2>3. Local(h, x) /\ token' \subseteq Users /\ UNCHANGED db
      BY <1>5, <1>6, <2>2 DEF IInv, Typed, TypeOK, db
    <2>4. JobInv(x)
      BY <1>2, <1>4, <2>1, <2>2 DEF JobInv, CreateInv, ForkInv, GroupJobInv, SaveInv, RejectInv,
         Forking, Saving, Inviting, Invited, Rejecting, Grouping
    <2>5. QED
      BY <2>3, <2>4, NoCallStep
  <1>7. ASSUME ~ HasRepo(gh, j.name), NEW id, id = NewID(j.name), gh' = PostRepo(gh, j.name, id),
               job' = [job EXCEPT ![h] = [j EXCEPT !.pc = "addUser", !.id = id]], faults' = faults
        PROVE  IInv'
    <2>1. /\ GHTyped' /\ DBInv' /\ gh'.role = gh.role
          /\ DOMAIN gh'.repos = DOMAIN gh.repos \union {j.name}
          /\ gh'.repos[j.name].id = id /\ id \in ID /\ \A r \in rows : r.id # id
      BY <1>2, <1>5, <1>7, NewRepo DEF OneHandler
    <2>2. TypeOK' /\ RowsTyped'
      BY <1>5, <1>7, SameDB
    <2>3. PICK x \in Job :
             /\ x = [j EXCEPT !.pc = "addUser", !.id = id]
             /\ x.pc = "addUser" /\ x.id = id /\ x.name = j.name
             /\ x.user = j.user /\ x.group = j.group /\ x.todo = j.todo
      BY <1>3, <2>1
    <2>4. JobInv(x)'
      BY <1>2, <1>4, <1>5, <2>1, <2>3 DEF JobInv, CreateInv, ForkInv, GroupJobInv, SaveInv,
         RejectInv, Forking, Saving, Inviting, Invited, Rejecting, Grouping
    <2>5. QED
      BY <1>7, <2>1, <2>2, <2>3, <2>4, Assemble
  <1>8. ASSUME ~ HasRepo(gh, j.name), waitForRepository(h, j.name)
        PROVE  IInv'
    <2>1. /\ job' = [job EXCEPT ![h] = Idle] /\ faults < MaxFaults /\ faults' = faults + 1
          /\ gh' = gh \/ gh' = PostRepo(gh, j.name, NewID(j.name))
      BY <1>8 DEF waitForRepository, Fails, PostFork
    <2>2. CASE gh' = gh
      <3>1. token' \subseteq Users
        BY <1>5 DEF IInv, Typed, TypeOK
      <3>2. QED
        BY <1>5, <2>1, <2>2, <3>1, ReturnStep
    <2>3. CASE gh' = PostRepo(gh, j.name, NewID(j.name))
      <3>1. PICK id : id = NewID(j.name)
        OBVIOUS
      <3>2. GHTyped' /\ DBInv'
        BY <1>2, <1>5, <1>8, <2>3, <3>1, NewRepo DEF OneHandler
      <3>3. TypeOK' /\ RowsTyped'
        BY <1>5, <2>1, SameDB
      <3>4. PICK x \in Job : x = Idle /\ x.pc = "idle" /\ x.user = creator /\ x.group = "none"
        BY IdleOK DEF Idle
      <3>5. JobInv(x)'
        BY <3>4 DEF JobInv, CreateInv, ForkInv, GroupJobInv, SaveInv, RejectInv, Forking, Saving,
           Inviting, Invited, Rejecting, Grouping
      <3>6. QED
        BY <2>1, <3>2, <3>3, <3>4, <3>5, Assemble
    <2>4. QED
      BY <2>1, <2>2, <2>3
  <1>9. QED
    <2>1. PICK id : id = NewID(j.name)
      OBVIOUS
    <2>2. QED
      BY <1>6, <1>7, <1>8, <2>1 DEF createForkedRepo, j, PostFork

\* Push access for one user, or all have it.
LEMMA AddUserStep ==
  ASSUME IInv, NEW h, Handlers = {h}, addUser(h)
  PROVE  IInv'
  <1> DEFINE j == job[h]
  <1>1. j \in Job /\ JobInv(j) /\ j.pc = "addUser"
    BY JobFacts DEF addUser
  <1>2. UNCHANGED <<course, enrol, groups, rows, token>>
    BY DEF addUser, Call, db
  <1>3. addUser(h) => 
          \/ \E u \in j.todo : Call(h, [j EXCEPT !.todo = @ \ {u}], PutCollaborator(gh, j.name, u))
          \/ j.todo = {} /\ Local(h, [j EXCEPT !.pc = "CreateRepository"])
    BY DEF addUser
  <1> HIDE DEF j
  <1>4. /\ j.group = "none" => j.name = StudentRepoName[j.user] /\ j.user \in DOMAIN gh.role
        /\ j.group # "none" => j.name \in GroupNames /\ \A r \in rows : r.id # j.id
        /\ ~ course => /\ j.user = creator /\ j.group = "none"
                       /\ CourseRepos \subseteq DOMAIN gh.repos
        /\ j.name \in DOMAIN gh.repos /\ gh.repos[j.name].id = j.id
        /\ j.group = "none" => j.user \in j.todo \union gh.repos[j.name].users
        /\ j.todo \subseteq Users
    BY <1>1 DEF JobInv, CreateInv, ForkInv, GroupJobInv, Forking
  <1>5. ASSUME NEW u \in j.todo,
               Call(h, [j EXCEPT !.todo = @ \ {u}], PutCollaborator(gh, j.name, u))
        PROVE  IInv'
    <2> DEFINE y == [j EXCEPT !.todo = @ \ {u}]
    <2>0. /\ y \in Job /\ y.pc = "addUser" /\ y.id = j.id /\ y.name = j.name
          /\ y.user = j.user /\ y.group = j.group /\ y.todo = j.todo \ {u}
      BY <1>1 DEF Job
    <2>1. PICK x \in Job :
             /\ x = y
             /\ x.pc = "addUser" /\ x.id = j.id /\ x.name = j.name
             /\ x.user = j.user /\ x.group = j.group /\ x.todo = j.todo \ {u}
      BY <2>0
    <2>2. CASE Fails(h) /\ UNCHANGED gh
      <3>1. token' \subseteq Users
        BY <1>2 DEF IInv, Typed, TypeOK
      <3>2. QED
        BY <1>2, <2>2, <3>1, ReturnStep DEF Fails
    <2>3. CASE /\ job' = [job EXCEPT ![h] = x] /\ faults' = faults
               /\ gh' = PutCollaborator(gh, j.name, u)
      <3>1. u \in Users
        BY <1>4
      <3>2. /\ GHTyped' /\ Gains /\ gh'.role = gh.role
            /\ gh'.repos[j.name].users = gh.repos[j.name].users \union {u}
        BY <1>4, <2>3, <3>1, Collaborator DEF IInv, Typed
      <3>3. DBInv'
        BY <1>2, <3>2, GainsKeeps DEF IInv
      <3>4. TypeOK' /\ RowsTyped'
        BY <1>2, <2>3, SameDB
      <3>5. JobInv(x)'
        BY <1>2, <1>4, <2>1, <3>2 DEF JobInv, CreateInv, ForkInv, GroupJobInv, SaveInv,
           RejectInv, Forking, Saving, Inviting, Invited, Rejecting, Grouping, Gains
      <3>6. QED
        BY <2>3, <3>2, <3>3, <3>4, <3>5, Assemble
    <2>4. QED
      BY <1>5, <2>1, <2>2, <2>3 DEF Call
  <1>6. CASE j.todo = {} /\ Local(h, [j EXCEPT !.pc = "CreateRepository"])
    <2> DEFINE y == [j EXCEPT !.pc = "CreateRepository"]
    <2>0. /\ y \in Job /\ y.pc = "CreateRepository" /\ y.id = j.id /\ y.name = j.name
          /\ y.user = j.user /\ y.group = j.group
      BY <1>1 DEF Job, Pc, Forking
    <2>1. PICK x \in Job :
             /\ x = y
             /\ x.pc = "CreateRepository" /\ x.id = j.id /\ x.name = j.name
             /\ x.user = j.user /\ x.group = j.group
      BY <2>0
    <2>2. Local(h, x) /\ token' \subseteq Users /\ UNCHANGED db
      BY <1>2, <1>6, <2>1 DEF IInv, Typed, TypeOK, db
    <2>3. JobInv(x)
      BY <1>4, <1>6, <2>1 DEF JobInv, CreateInv, ForkInv, GroupJobInv, SaveInv, RejectInv, Forking,
         Saving, Inviting, Invited, Rejecting, Grouping
    <2>4. QED
      BY <2>1, <2>2, <2>3, NoCallStep
  <1>7. QED
    BY <1>3, <1>5, <1>6

-----------------------------------------------------------------------------
(* The steps that change the table of repositories.                        *)

\* A record is added whose repository is its owner's, and no other's.
LEMMA NewRow ==
  ASSUME IInv, NamesApart, NEW o \in Owner, NEW n \in DOMAIN gh.repos,
         AddRepository(o, gh.repos[n].id), Owns([owner |-> o, id |-> gh.repos[n].id], n),
         o \in Groups => \A r \in rows : r.id # gh.repos[n].id,
         UNCHANGED <<course, enrol, groups, gh>>
  PROVE  /\ RowsTyped' /\ DBInv' /\ getRepo(o)' # {}
         /\ \A p \in Owner : getRepo(p) \subseteq getRepo(p)'
         /\ \A r, s \in rows' : r.owner = s.owner => r = s
  <1> DEFINE new == [owner |-> o, id |-> gh.repos[n].id]
  <1>1. rows' = rows \union {new} /\ getRepo(o) = {}
    BY DEF AddRepository
  <1>2. new \in [owner : Owner, id : ID] /\ new.owner = o /\ new.id = gh.repos[n].id
    BY DEF IInv, Typed, GHTyped, Repo
  <1>3. \A r \in rows : r.owner # o
    BY <1>1 DEF getRepo
  <1>4. Owns(new, n)
    OBVIOUS
  <1> HIDE DEF new
  <1>5. ASSUME NEW r \in rows, r.id = new.id
        PROVE  FALSE
    <2>1. Owns(r, n) /\ r.owner \in Owner
      BY <1>2, <1>5 DEF IInv, DBInv, RowInv, IDsApart, Typed, RowsTyped
    <2>2. o \notin Groups
      BY <1>2, <1>5
    <2>3. o \in Users \union CourseRepos
      BY <2>2 DEF Owner
    <2>4. r.owner = o
      BY <1>2, <1>4, <2>1, <2>3, NamesApart, CourseAssumption DEF Owns, NamesApart, Owner
    <2>5. QED
      BY <1>3, <2>4
  <1>6. RowsTyped'
    BY <1>1, <1>2, FS_AddElement DEF IInv, Typed, RowsTyped
  <1>7. IDsApart'
    BY <1>1, <1>2, <1>5 DEF IInv, DBInv, IDsApart
  <1>8. RowInv'
    BY <1>1, <1>2, <1>4 DEF IInv, DBInv, RowInv, Owns
  <1>9. \A p \in Owner : getRepo(p) \subseteq getRepo(p)'
    BY <1>1 DEF getRepo
  <1>10. getRepo(o)' # {}
    BY <1>1, <1>2 DEF getRepo
  <1>11. EnrolInv' /\ GroupInv' /\ NoCourse'
    <2>1. \A p \in Users \union Groups : getRepo(p) # {} => getRepo(p)' # {}
      BY <1>9 DEF Owner
    <2> HIDE DEF getRepo
    <2>2. QED
      BY <2>1 DEF IInv, DBInv, EnrolInv, GroupInv, NoCourse
  <1>12. QED
    BY <1>1, <1>2, <1>3, <1>6, <1>7, <1>8, <1>9, <1>10, <1>11 DEF DBInv, IInv, Typed, TypeOK

\* The student's record, or the group's.
LEMMA RecordStep ==
  ASSUME IInv, NamesApart, NEW h, Handlers = {h}, CreateRepository(h)
  PROVE  IInv'
  <1> DEFINE j == job[h]
  <1>1. j \in Job /\ JobInv(j) /\ j.pc = "CreateRepository" /\ course
    BY JobFacts DEF CreateRepository
  <1>2. UNCHANGED <<course, enrol, groups, token, gh, faults>>
    BY DEF CreateRepository, Local
  <1>3. \/ /\ j.group = "none" /\ AddRepository(j.user, j.id)
           /\ job' = [job EXCEPT ![h] = [j EXCEPT !.pc = "UpdateEnrollment"]]
        \/ /\ j.group # "none" /\ AddRepository(j.group, j.id)
           /\ job' = [job EXCEPT ![h] = [j EXCEPT !.pc = "updateGroupMembers", !.todo = j.users]]
    BY DEF CreateRepository, Local
  <1> HIDE DEF j
  <1>4. /\ j.group = "none" => /\ j.name = StudentRepoName[j.user] /\ j.user \in DOMAIN gh.role
                               /\ j.user \in gh.repos[j.name].users
        /\ j.group # "none" => j.name \in GroupNames /\ \A r \in rows : r.id # j.id
        /\ j.name \in DOMAIN gh.repos /\ gh.repos[j.name].id = j.id
        /\ j.user \in Users /\ j.group \in Groups \union {"none"} /\ j.users \subseteq Users
    <2>1. j.user \in Users /\ j.group \in Groups \union {"none"} /\ j.users \subseteq Users
      BY <1>1 DEF Job
    <2>2. QED
      BY <1>1, <2>1 DEF JobInv, CreateInv, ForkInv, GroupJobInv, Forking
  <1>5. CASE /\ j.group = "none" /\ AddRepository(j.user, j.id)
             /\ job' = [job EXCEPT ![h] = [j EXCEPT !.pc = "UpdateEnrollment"]]
    <2> DEFINE y == [j EXCEPT !.pc = "UpdateEnrollment"]
    <2>1. y \in Job /\ y.pc = "UpdateEnrollment" /\ y.user = j.user /\ y.group = j.group
      BY <1>1 DEF Job, Pc, Saving
    <2>2. PICK x \in Job :
            x = y /\ x.pc = "UpdateEnrollment" /\ x.user = j.user /\ x.group = j.group
      BY <2>1
    <2>3. Owns([owner |-> j.user, id |-> gh.repos[j.name].id], j.name)
      BY <1>4, <1>5, CourseAssumption DEF Owns
    <2>4. j.user \in Owner /\ j.user \notin Groups
      BY <1>4, CourseAssumption DEF Owner
    <2> PICK o \in Owner : o = j.user
      BY <2>4
    <2>5. /\ RowsTyped' /\ DBInv' /\ getRepo(o)' # {}
          /\ \A r, s \in rows' : r.owner = s.owner => r = s
      BY <1>2, <1>4, <1>5, <2>3, <2>4, NewRow
    <2>6. TypeOK'
      BY <1>2, <2>5 DEF IInv, Typed, TypeOK, RowsTyped
    <2>7. GHTyped'
      BY <1>2 DEF IInv, Typed, GHTyped
    <2>8. JobInv(x)'
      BY <1>1, <1>2, <1>5, <2>2, <2>5 DEF JobInv, CreateInv, ForkInv, GroupJobInv, SaveInv,
         RejectInv, Forking, Saving, Inviting, Invited, Rejecting, Grouping
    <2>9. QED
      BY <1>5, <2>2, <2>5, <2>6, <2>7, <2>8, Assemble
  <1>6. CASE /\ j.group # "none" /\ AddRepository(j.group, j.id)
             /\ job' = [job EXCEPT ![h] = [j EXCEPT !.pc = "updateGroupMembers", !.todo = j.users]]
    <2> DEFINE y == [j EXCEPT !.pc = "updateGroupMembers", !.todo = j.users]
    <2>1. /\ y \in Job /\ y.pc = "updateGroupMembers" /\ y.group = j.group /\ y.name = j.name
          /\ y.todo = j.users
      BY <1>1, <1>4 DEF Job, Pc, Grouping
    <2>2. PICK x \in Job : /\ x = y /\ x.pc = "updateGroupMembers" /\ x.group = j.group
                           /\ x.name = j.name /\ x.todo = j.users
      BY <2>1
    <2>3. j.group \in Groups /\ j.group \in Owner /\ j.group \notin Users \union CourseRepos
      BY <1>4, <1>6, CourseAssumption DEF Owner
    <2>4. Owns([owner |-> j.group, id |-> gh.repos[j.name].id], j.name)
      BY <1>4, <1>6, <2>3 DEF Owns
    <2> PICK o \in Owner : o = j.group
      BY <2>3
    <2>5. /\ RowsTyped' /\ DBInv' /\ getRepo(o)' # {}
          /\ \A r, s \in rows' : r.owner = s.owner => r = s
      BY <1>2, <1>4, <1>6, <2>3, <2>4, NewRow
    <2>6. TypeOK'
      BY <1>2, <2>5 DEF IInv, Typed, TypeOK, RowsTyped
    <2>7. GHTyped'
      BY <1>2 DEF IInv, Typed, GHTyped
    <2>8. JobInv(x)'
      BY <1>1, <1>2, <1>4, <1>6, <2>2, <2>5 DEF JobInv, CreateInv, ForkInv, GroupJobInv, SaveInv,
         RejectInv, Forking, Saving, Inviting, Invited, Rejecting, Grouping
    <2>9. QED
      BY <1>6, <2>2, <2>5, <2>6, <2>7, <2>8, Assemble
  <1>7. QED
    BY <1>3, <1>5, <1>6

\* The records of the course's own repositories and of the creator's.
LEMMA CreateCourseStep ==
  ASSUME IInv, NamesApart, NEW h, Handlers = {h}, createCourse(h)
  PROVE  IInv'
  <1> DEFINE j == job[h]
  <1>1. j \in Job /\ JobInv(j) /\ j.pc = "CreateRepository" /\ ~ course
    BY JobFacts DEF createCourse
  <1>2. UNCHANGED <<course, enrol, groups, token, gh, faults>>
    BY DEF createCourse, Local
  <1>3. \/ \E o \in CourseRepos \union {creator} :
              /\ AddRepository(o, IF o = creator THEN j.id ELSE gh.repos[o].id)
              /\ job' = [job EXCEPT ![h] = j]
        \/ /\ \A o \in CourseRepos \union {creator} : getRepo(o) # {}
           /\ Local(h, [j EXCEPT !.pc = "CreateCourse"]) /\ UNCHANGED rows
    BY DEF createCourse, Local
  <1> HIDE DEF j
  <1>4. /\ j.user = creator /\ j.group = "none" /\ j.name = StudentRepoName[creator]
        /\ creator \in gh.repos[j.name].users /\ creator \in DOMAIN gh.role
        /\ j.name \in DOMAIN gh.repos /\ gh.repos[j.name].id = j.id
        /\ CourseRepos \subseteq DOMAIN gh.repos
    BY <1>1 DEF JobInv, CreateInv, ForkInv, Forking
  <1>5. ASSUME NEW o \in CourseRepos \union {creator}, job' = [job EXCEPT ![h] = j],
               AddRepository(o, IF o = creator THEN j.id ELSE gh.repos[o].id)
        PROVE  IInv'
    <2>1. PICK n \in DOMAIN gh.repos :
             n = (IF o = creator THEN j.name ELSE o) /\ AddRepository(o, gh.repos[n].id)
      BY <1>4, <1>5
    <2>2. Owns([owner |-> o, id |-> gh.repos[n].id], n) /\ o \in Owner /\ o \notin Groups
      <3>1. CASE o = creator
        BY <1>4, <2>1, <3>1, CourseAssumption DEF Owns, Owner
      <3>2. CASE o # creator
        BY <1>4, <2>1, <3>2, CourseAssumption DEF Owns, Owner
      <3>3. QED
        BY <3>1, <3>2
    <2>3. RowsTyped' /\ DBInv' /\ \A r, s \in rows' : r.owner = s.owner => r = s
      BY <1>2, <2>1, <2>2, NewRow
    <2>4. TypeOK'
      BY <1>2, <2>3 DEF IInv, Typed, TypeOK, RowsTyped
    <2>5. GHTyped'
      BY <1>2 DEF IInv, Typed, GHTyped
    <2>6. PICK x \in Job : x = j
      BY <1>1
    <2>7. JobInv(x)'
      BY <1>1, <1>2, <1>4, <2>6 DEF JobInv, CreateInv, ForkInv, GroupJobInv, SaveInv, RejectInv,
         Forking, Saving, Inviting, Invited, Rejecting, Grouping
    <2>8. QED
      BY <1>5, <2>3, <2>4, <2>5, <2>6, <2>7, Assemble
  <1>6. CASE /\ \A o \in CourseRepos \union {creator} : getRepo(o) # {}
             /\ Local(h, [j EXCEPT !.pc = "CreateCourse"]) /\ UNCHANGED rows
    <2> DEFINE y == [j EXCEPT !.pc = "CreateCourse"]
    <2>1. y \in Job /\ y.pc = "CreateCourse" /\ y.user = creator /\ y.group = "none"
      BY <1>1, <1>4 DEF Job, Pc
    <2>2. Local(h, y) /\ token' \subseteq Users /\ UNCHANGED db
      BY <1>2, <1>6 DEF IInv, Typed, TypeOK, db
    <2> HIDE DEF y
    <2>3. JobInv(y)
      BY <1>1, <1>6, <2>1 DEF JobInv, CreateInv, ForkInv, GroupJobInv, SaveInv, RejectInv,
         Forking, Saving, Inviting, Invited, Rejecting, Grouping
    <2>4. QED
      BY <2>1, <2>2, <2>3, NoCallStep
  <1>7. QED
    BY <1>3, <1>5, <1>6

\* The course has a record, and its creator is a teacher.
LEMMA CourseRecordStep ==
  ASSUME IInv, NEW h, Handlers = {h}, CreateCourse(h)
  PROVE  IInv'
  <1>1. getRepo(creator) # {}
    BY JobFacts DEF CreateCourse, JobInv, CreateInv
  <1>2. /\ course' = TRUE /\ UNCHANGED <<groups, rows, token, gh, faults>>
        /\ enrol' = [enrol EXCEPT ![creator] = [status |-> "TEACHER", group |-> "none"]]
        /\ job' = [job EXCEPT ![h] = Idle]
    BY DEF CreateCourse, Return, Local
  <1>3. TypeOK'
    <2>1. [status |-> "TEACHER", group |-> "none"] \in Enrollment
      BY DEF Enrollment
    <2>2. enrol' \in [Users -> Enrollment]
      BY <1>2, <2>1 DEF IInv, Typed, TypeOK
    <2>3. QED
      BY <1>2, <2>2 DEF IInv, Typed, TypeOK
  <1>4. RowsTyped' /\ GHTyped'
    BY <1>2 DEF IInv, Typed, RowsTyped, GHTyped
  <1>5. IDsApart' /\ RowInv' /\ GroupInv' /\ NoCourse'
    BY <1>2 DEF IInv, DBInv, IDsApart, RowInv, Owns, GroupInv, NoCourse, getRepo
  <1>6. EnrolInv'
    <2>1. \A u \in Users : u # creator => enrol'[u] = enrol[u]
      BY <1>2
    <2>2. getRepo(creator)' # {}
      BY <1>1, <1>2 DEF getRepo
    <2>3. QED
      BY <1>2, <2>1, <2>2 DEF IInv, DBInv, EnrolInv, getRepo
  <1>7. PICK x \in Job : x = Idle /\ x.pc = "idle"
    BY IdleOK DEF Idle
  <1>8. JobInv(x)'
    BY <1>2, <1>7 DEF JobInv, CreateInv, ForkInv, GroupJobInv, SaveInv, RejectInv, Forking, Saving,
       Inviting, Invited, Rejecting, Grouping
  <1>9. QED
    BY <1>2, <1>3, <1>4, <1>5, <1>6, <1>7, <1>8, Assemble DEF DBInv

-----------------------------------------------------------------------------
(* Enrollments: acceptance, other roles, and the record.                   *)

\* The user is looked up; then each change of status has its own steps.
LEMMA LookUpStep ==
  ASSUME IInv, NEW h, Handlers = {h}, updateUserFromSCM(h)
  PROVE  IInv'
  <1> DEFINE j == job[h]
  <1>1. j \in Job /\ JobInv(j) /\ j.pc = "updateUserFromSCM"
    BY JobFacts DEF updateUserFromSCM
  <1> DEFINE to == updateEnrollment(j.enrollment.status, j.to)
             x == [j EXCEPT !.pc = to]
  <1>2. Call(h, x, gh)
    BY DEF updateUserFromSCM
  <1> HIDE DEF j
  <1>3. /\ to \in {"rejectEnrollment", "enrollStudent", "enrollTeacher", "revokeTeacherStatus"}
        /\ to \in {"enrollTeacher", "revokeTeacherStatus"} => j.enrollment.status \in Enrolled
    BY <1>1 DEF JobInv, SaveInv, updateEnrollment, Enrolled
  <1> HIDE DEF to
  <1>4. /\ x \in Job /\ x.pc = to /\ x.user = j.user /\ x.group = j.group
        /\ x.enrollment = j.enrollment
    BY <1>1, <1>3 DEF Job, Pc, Saving, Inviting, Rejecting
  <1>5. j.user # creator /\ j.group = "none" /\ course
    BY <1>1 DEF JobInv, SaveInv, CreateInv, Forking
  <1>6. j.enrollment.status \in Enrolled => getRepo(j.user) # {}
    BY <1>1 DEF JobInv, SaveInv, Saving
  <1> HIDE DEF x
  <1>7. JobInv(x)
    BY <1>3, <1>4, <1>5, <1>6 DEF JobInv, CreateInv, ForkInv, GroupJobInv, SaveInv, RejectInv,
       Forking, Saving, Inviting, Invited, Rejecting, Grouping
  <1>8. QED
    BY <1>2, <1>4, <1>7, CallStep

\* One whose repository has a record is only saved.
LEMMA AcceptStep ==
  ASSUME IInv, NEW h, Handlers = {h}, enrollStudent(h)
  PROVE  IInv'
  <1> DEFINE j == job[h]
             pc == IF getRepo(j.user) # {} THEN "UpdateEnrollment" ELSE "ExchangeAndUpdateToken"
             x == [j EXCEPT !.enrollment.status = "STUDENT", !.pc = pc]
  <1>1. j \in Job /\ JobInv(j) /\ j.pc = "enrollStudent"
    BY JobFacts DEF enrollStudent
  <1>2. Local(h, x) /\ UNCHANGED <<db, token>>
    BY DEF enrollStudent
  <1> HIDE DEF j
  <1>3. pc \in {"UpdateEnrollment", "ExchangeAndUpdateToken"}
          /\ (pc = "UpdateEnrollment" => getRepo(j.user) # {})
    OBVIOUS
  <1> HIDE DEF pc
  <1>4. j.enrollment \in Enrollment
    BY <1>1 DEF Job
  <1>5. [j.enrollment EXCEPT !.status = "STUDENT"] \in Enrollment
    BY <1>4 DEF Enrollment
  <1>6. x \in Job /\ x.pc = pc /\ x.user = j.user /\ x.group = j.group
    BY <1>1, <1>3, <1>5 DEF Job, Pc, Saving, Inviting
  <1>7. j.group = "none" /\ course
    BY <1>1 DEF JobInv, GroupJobInv, CreateInv, Inviting, Forking
  <1> HIDE DEF x
  <1>8. JobInv(x)
    BY <1>3, <1>6, <1>7 DEF JobInv, CreateInv, ForkInv, GroupJobInv, SaveInv, RejectInv,
       Forking, Saving, Inviting, Invited, Rejecting, Grouping
  <1>9. token' \subseteq Users
    BY <1>2 DEF IInv, Typed, TypeOK
  <1>10. QED
    BY <1>2, <1>6, <1>8, <1>9, NoCallStep

\* The refresh token is taken and the next one is saved.
LEMMA TokenStep ==
  ASSUME IInv, NEW h, Handlers = {h}, ExchangeAndUpdateToken(h) \/ UpdateUser(h)
  PROVE  IInv'
  <1> DEFINE j == job[h]
  <1>1. j \in Job /\ JobInv(j) /\ j.pc \in {"ExchangeAndUpdateToken", "UpdateUser"}
    BY JobFacts DEF ExchangeAndUpdateToken, UpdateUser
  <1>2. UNCHANGED db /\ token' \subseteq token \union {j.user}
    BY DEF ExchangeAndUpdateToken, UpdateUser
  <1>3. token' \subseteq Users
    BY <1>1, <1>2 DEF Job, IInv, Typed, TypeOK
  <1>4. \/ Return(h)
        \/ \E pc \in {"UpdateUser", "updatePermission"} : Local(h, [j EXCEPT !.pc = pc])
    BY DEF ExchangeAndUpdateToken, UpdateUser
  <1> HIDE DEF j
  <1>5. ASSUME NEW pc \in {"UpdateUser", "updatePermission"}, Local(h, [j EXCEPT !.pc = pc])
        PROVE  IInv'
    <2> DEFINE x == [j EXCEPT !.pc = pc]
    <2>1. x \in Job /\ x.pc = pc /\ x.user = j.user /\ x.group = j.group
      BY <1>1 DEF Job, Pc, Inviting
    <2>2. j.group = "none" /\ course
      BY <1>1 DEF JobInv, GroupJobInv, CreateInv, Inviting, Forking
    <2>3. Local(h, x)
      BY <1>5
    <2> HIDE DEF x
    <2>4. JobInv(x)
      BY <2>1, <2>2 DEF JobInv, CreateInv, ForkInv, GroupJobInv, SaveInv, RejectInv,
         Forking, Saving, Inviting, Invited, Rejecting, Grouping
    <2>5. QED
      BY <1>2, <1>3, <2>1, <2>3, <2>4, NoCallStep
  <1>6. CASE Return(h)
    BY <1>2, <1>3, <1>6, IdleOK, NoCallStep DEF Return
  <1>7. QED
    BY <1>4, <1>5, <1>6

\* A student becomes a teacher, or a teacher a student.
LEMMA RoleStep ==
  ASSUME IInv, NEW h, Handlers = {h}, enrollTeacher(h) \/ revokeTeacherStatus(h)
  PROVE  IInv'
  <1> DEFINE j == job[h]
  <1>1. j \in Job /\ JobInv(j) /\ j.pc \in {"enrollTeacher", "revokeTeacherStatus"}
    BY JobFacts DEF enrollTeacher, revokeTeacherStatus
  <1>2. UNCHANGED <<course, enrol, groups, rows, token>> /\ token' \subseteq Users
    BY DEF enrollTeacher, revokeTeacherStatus, Call, db, IInv, Typed, TypeOK
  <1>3. getRepo(j.user) # {} /\ course /\ j.user \in Users /\ j.enrollment \in Enrollment
    BY <1>1 DEF Job, JobInv, SaveInv, CreateInv, Saving, Forking
  <1>4. \/ job' = [job EXCEPT ![h] = Idle] /\ gh' = gh
             /\ (faults' = faults \/ (faults < MaxFaults /\ faults' = faults + 1))
        \/ \E s \in {"TEACHER", "STUDENT"}, role \in {"admin", "member"} :
              /\ job' = [job EXCEPT ![h] = [j EXCEPT !.pc = "UpdateEnrollment",
                                                     !.enrollment.status = s]]
              /\ gh' = PutMembership(gh, j.user, role) \/ gh' = gh
              /\ (faults' = faults \/ (faults < MaxFaults /\ faults' = faults + 1))
    BY DEF enrollTeacher, revokeTeacherStatus, Call, Fails, Return, Local
  <1> HIDE DEF j
  <1>5. CASE job' = [job EXCEPT ![h] = Idle] /\ gh' = gh
               /\ (faults' = faults \/ (faults < MaxFaults /\ faults' = faults + 1))
    BY <1>2, <1>5, ReturnStep
  <1>6. ASSUME NEW s \in {"TEACHER", "STUDENT"}, NEW role \in {"admin", "member"},
               job' = [job EXCEPT ![h] = [j EXCEPT !.pc = "UpdateEnrollment",
                                                   !.enrollment.status = s]],
               gh' = PutMembership(gh, j.user, role) \/ gh' = gh,
               faults' = faults \/ (faults < MaxFaults /\ faults' = faults + 1)
        PROVE  IInv'
    <2> DEFINE y == [j EXCEPT !.pc = "UpdateEnrollment", !.enrollment.status = s]
    <2>1. [j.enrollment EXCEPT !.status = s] \in Enrollment
      BY <1>3 DEF Enrollment
    <2>2. y \in Job /\ y.pc = "UpdateEnrollment" /\ y.user = j.user
      BY <1>1, <2>1 DEF Job, Pc, Saving
    <2>3. PICK x \in Job : x = y /\ x.pc = "UpdateEnrollment" /\ x.user = j.user
      BY <2>2
    <2>4. GHTyped' /\ Gains
      <3>1. GHTyped
        BY DEF IInv, Typed
      <3>2. CASE gh' = gh
        BY <3>1, <3>2 DEF Gains, GHTyped
      <3>3. QED
        BY <1>3, <1>6, <3>1, <3>2, Membership
    <2>5. DBInv' /\ TypeOK' /\ RowsTyped'
      BY <1>2, <1>6, <2>4, GainsKeeps, SameDB DEF IInv
    <2>6. getRepo(x.user)' # {}
      BY <1>2, <1>3, <2>3 DEF getRepo
    <2>7. JobInv(x)'
      BY <1>2, <1>3, <2>3, <2>6 DEF JobInv, CreateInv, ForkInv, GroupJobInv, SaveInv, RejectInv,
         Forking, Saving, Inviting, Invited, Rejecting, Grouping
    <2>8. QED
      BY <1>6, <2>3, <2>4, <2>5, <2>7, Assemble
  <1>7. QED
    BY <1>4, <1>5, <1>6

\* A step after which the request is over, and the tables have new records.
LEMMA ReturnDB ==
  ASSUME IInv, NEW h, Handlers = {h}, job' = [job EXCEPT ![h] = Idle],
         UNCHANGED <<course, rows, token, gh, faults>>,
         enrol' \in [Users -> Enrollment], groups' \in [Groups -> Group],
         EnrolInv', GroupInv', NoCourse'
  PROVE  IInv'
  <1>1. TypeOK' /\ RowsTyped' /\ GHTyped'
    BY DEF IInv, Typed, TypeOK, RowsTyped, GHTyped
  <1>2. IDsApart' /\ RowInv'
    BY DEF IInv, DBInv, IDsApart, RowInv, Owns
  <1>3. PICK x \in Job : x = Idle /\ x.pc = "idle" /\ x.user = creator /\ x.group = "none"
    BY IdleOK DEF Idle
  <1>4. JobInv(x)'
    BY <1>3 DEF JobInv, CreateInv, ForkInv, GroupJobInv, SaveInv, RejectInv, Forking, Saving,
       Inviting, Invited, Rejecting, Grouping
  <1>5. QED
    BY <1>1, <1>2, <1>3, <1>4, Assemble DEF DBInv

\* The enrollment is saved as the request has it.
LEMMA SaveStep ==
  ASSUME IInv, NEW h, Handlers = {h}, UpdateEnrollment(h)
  PROVE  IInv'
  <1> DEFINE j == job[h]
  <1>1. j \in Job /\ JobInv(j) /\ j.pc = "UpdateEnrollment"
    BY JobFacts DEF UpdateEnrollment
  <1>2. /\ job' = [job EXCEPT ![h] = Idle] /\ UNCHANGED <<course, groups, rows, token, gh, faults>>
        /\ enrol' = [enrol EXCEPT ![j.user] = IF @.status = "NONE" THEN @ ELSE j.enrollment]
    BY DEF UpdateEnrollment, Return, Local, SaveEnrollment
  <1> HIDE DEF j
  <1>3. j.user \in Users /\ j.enrollment \in Enrollment
    BY <1>1 DEF Job
  <1>4. course /\ (j.enrollment.status \in Enrolled => getRepo(j.user) # {})
    BY <1>1 DEF JobInv, SaveInv, CreateInv, Saving, Forking
  <1>5. \A u \in Users : enrol'[u] = IF u = j.user /\ enrol[u].status # "NONE" THEN j.enrollment
                                     ELSE enrol[u]
    BY <1>2, <1>3 DEF IInv, Typed, TypeOK
  <1>6. enrol' \in [Users -> Enrollment] /\ groups' \in [Groups -> Group]
    BY <1>2, <1>3 DEF IInv, Typed, TypeOK
  <1>7. EnrolInv'
    BY <1>2, <1>4, <1>5 DEF EnrolInv, IInv, DBInv, getRepo
  <1>8. GroupInv' /\ NoCourse'
    BY <1>2, <1>4 DEF GroupInv, NoCourse, IInv, DBInv, getRepo
  <1>9. QED
    BY <1>2, <1>6, <1>7, <1>8, ReturnDB

\* Users ask for an enrollment, and sign in again.
LEMMA UserStep ==
  ASSUME IInv, OneHandler, NEW u \in Users, CreateEnrollment(u) \/ SignIn(u)
  PROVE  IInv'
  <1>1. PICK h \in Handlers : Handlers = {h}
    BY DEF OneHandler
  <1>2. CASE SignIn(u)
    <2>1. token' \subseteq Users /\ UNCHANGED <<course, enrol, groups, rows, gh, job, faults>>
      BY <1>2 DEF SignIn, db, IInv, Typed, TypeOK
    <2>2. job' = [job EXCEPT ![h] = job[h]] /\ faults' \in 0..MaxFaults
      BY <2>1 DEF IInv, Typed, TypeOK
    <2>3. job[h] \in Job /\ JobInv(job[h])
      BY JobFacts
    <2>4. QED
      BY <1>1, <2>1, <2>2, <2>3, LocalStep
  <1>3. CASE CreateEnrollment(u)
    <2>1. /\ course /\ enrol[u].status = "NONE"
          /\ enrol' = [enrol EXCEPT ![u] = [status |-> "PENDING", group |-> "none"]]
          /\ UNCHANGED <<course, groups, rows, token, gh, job, faults>>
      BY <1>3 DEF CreateEnrollment
    <2>2. [status |-> "PENDING", group |-> "none"] \in Enrollment
      BY DEF Enrollment
    <2>3. enrol' \in [Users -> Enrollment]
      BY <2>1, <2>2 DEF IInv, Typed, TypeOK
    <2>4. \A v \in Users : enrol'[v].status \in Enrolled <=> enrol[v].status \in Enrolled
      BY <2>1 DEF Enrolled, IInv, Typed, TypeOK
    <2>5. TypeOK' /\ RowsTyped' /\ GHTyped'
      BY <2>1, <2>3 DEF IInv, Typed, TypeOK, RowsTyped, GHTyped
    <2>6. IDsApart' /\ RowInv' /\ EnrolInv' /\ GroupInv' /\ NoCourse'
      BY <2>1, <2>4 DEF IInv, DBInv, IDsApart, RowInv, Owns, EnrolInv, GroupInv, NoCourse, getRepo
    <2>7. PICK x \in Job : x = job[h] /\ JobInv(x)
      BY JobFacts
    <2>8. job' = [job EXCEPT ![h] = x]
      BY <2>1, <2>7 DEF IInv, Typed
    <2>9. x.user \in Users
      BY DEF Job
    <2>10. JobInv(x)'
      BY <2>1, <2>4, <2>7, <2>9 DEF JobInv, CreateInv, ForkInv, GroupJobInv, SaveInv, RejectInv,
         getRepo, HasRepo, updateEnrollment
    <2>11. QED
      BY <1>1, <2>5, <2>6, <2>8, <2>10, Assemble DEF DBInv
  <1>4. QED
    BY <1>2, <1>3

-----------------------------------------------------------------------------
(* Rejection, and the removal of a repository.                             *)

\* The enrollment goes first.
LEMMA RejectStep ==
  ASSUME IInv, NEW h, Handlers = {h}, rejectEnrollment(h)
  PROVE  IInv'
  <1> DEFINE j == job[h]
             y == [j EXCEPT !.pc = "DeleteRepository"]
  <1>1. j \in Job /\ JobInv(j) /\ j.pc = "rejectEnrollment"
    BY JobFacts DEF rejectEnrollment
  <1>2. /\ enrol' = [enrol EXCEPT ![j.user] = NoEnrollment] /\ job' = [job EXCEPT ![h] = y]
        /\ UNCHANGED <<course, groups, rows, token, gh, faults>>
    BY DEF rejectEnrollment, Local
  <1> HIDE DEF j
  <1>3. j.user # creator /\ j.user \in Users /\ j.group = "none" /\ course
    BY <1>1 DEF Job, JobInv, CreateInv, GroupJobInv, RejectInv, Rejecting, Forking
  <1>4. y \in Job /\ y.pc = "DeleteRepository" /\ y.user = j.user /\ y.group = j.group
    BY <1>1 DEF Job, Pc
  <1>5. PICK x \in Job : x = y /\ x.pc = "DeleteRepository" /\ x.user = j.user /\ x.group = "none"
    BY <1>3, <1>4
  <1>6. NoEnrollment \in Enrollment /\ NoEnrollment.status = "NONE"
    BY DEF NoEnrollment, Enrollment
  <1>7. enrol' \in [Users -> Enrollment]
    BY <1>2, <1>6 DEF IInv, Typed, TypeOK
  <1>8. \A u \in Users : enrol'[u] = IF u = j.user THEN NoEnrollment ELSE enrol[u]
    BY <1>2, <1>3 DEF IInv, Typed, TypeOK
  <1>9. TypeOK' /\ RowsTyped' /\ GHTyped'
    BY <1>2, <1>7 DEF IInv, Typed, TypeOK, RowsTyped, GHTyped
  <1>10. IDsApart' /\ RowInv' /\ GroupInv'
    BY <1>2 DEF IInv, DBInv, IDsApart, RowInv, Owns, GroupInv, getRepo
  <1>11. EnrolInv' /\ NoCourse'
    BY <1>2, <1>3, <1>6, <1>8 DEF IInv, DBInv, EnrolInv, NoCourse, getRepo, Enrolled
  <1>12. enrol'[x.user].status = "NONE"
    BY <1>3, <1>5, <1>6, <1>8
  <1>13. JobInv(x)'
    BY <1>2, <1>3, <1>5, <1>12 DEF JobInv, CreateInv, ForkInv, GroupJobInv, SaveInv, RejectInv,
       Forking, Saving, Inviting, Invited, Rejecting, Grouping, Enrolled
  <1>14. QED
    BY <1>2, <1>5, <1>9, <1>10, <1>11, <1>13, Assemble DEF DBInv

\* Then the record of the repository, of a user or of a group.
LEMMA DeleteRecordStep ==
  ASSUME IInv, NEW h, Handlers = {h}, DeleteRepository(h)
  PROVE  IInv'
  <1> DEFINE j == job[h]
             pc == IF j.group = "none" THEN "RejectEnrollment" ELSE "deleteRepository"
  <1>1. j \in Job /\ JobInv(j) /\ j.pc = "DeleteRepository"
    BY JobFacts DEF DeleteRepository
  <1>2. PICK o : o = IF j.group = "none" THEN j.user ELSE j.group
    OBVIOUS
  <1>3. /\ UNCHANGED <<course, enrol, groups, token, gh, faults>>
        /\ \/ job' = [job EXCEPT ![h] = Idle] /\ UNCHANGED rows
           \/ \E r \in getRepo(o) : /\ rows' = rows \ {r}
                                    /\ job' = [job EXCEPT ![h] = [j EXCEPT !.id = r.id, !.pc = pc]]
    BY <1>2 DEF DeleteRepository, Local, Return
  <1> HIDE DEF j
  <1>4. CASE job' = [job EXCEPT ![h] = Idle] /\ UNCHANGED rows
    <2>1. token' \subseteq Users
      BY <1>3 DEF IInv, Typed, TypeOK
    <2>2. QED
      BY <1>3, <1>4, <2>1, ReturnStep
  <1>5. ASSUME NEW r \in getRepo(o), rows' = rows \ {r},
               job' = [job EXCEPT ![h] = [j EXCEPT !.id = r.id, !.pc = pc]]
        PROVE  IInv'
    <2>1. r \in rows /\ r.owner = o /\ r.id \in ID
      BY <1>5 DEF getRepo, IInv, Typed, RowsTyped
    <2>2. /\ course /\ j.user \in Users /\ j.group \in Groups \union {"none"}
          /\ j.group = "none" => j.user # creator /\ enrol[j.user].status \notin Enrolled
          /\ j.group # "none" => groups[j.group].status = "NONE"
      BY <1>1 DEF Job, JobInv, CreateInv, RejectInv, Forking
    <2>3. pc \in {"RejectEnrollment", "deleteRepository"}
            /\ (pc = "RejectEnrollment" => j.group = "none")
      OBVIOUS
    <2> DEFINE y == [j EXCEPT !.id = r.id, !.pc = pc]
    <2> HIDE DEF pc
    <2>4. y \in Job /\ y.pc = pc /\ y.user = j.user /\ y.group = j.group /\ y.id = r.id
      BY <1>1, <2>1, <2>3 DEF Job, Pc, Rejecting
    <2>5. PICK x \in Job : /\ x = y /\ x.pc = pc /\ x.user = j.user /\ x.group = j.group
                           /\ x.id = r.id
      BY <2>4
    <2>6. \A s \in rows' : s \in rows /\ s.id # r.id /\ s.owner # o
      BY <1>5, <2>1 DEF IInv, DBInv, IDsApart, Typed, TypeOK
    <2>7. RowsTyped' /\ TypeOK' /\ GHTyped'
      <3>1. IsFiniteSet(rows \ {r})
        BY FS_RemoveElement DEF IInv, Typed, RowsTyped
      <3>2. RowsTyped'
        BY <1>5, <3>1 DEF IInv, Typed, RowsTyped
      <3>3. TypeOK' /\ GHTyped'
        BY <1>3, <2>6 DEF IInv, Typed, TypeOK, GHTyped
      <3>4. QED
        BY <3>2, <3>3
    <2>8. IDsApart' /\ RowInv' /\ NoCourse'
      BY <1>3, <2>6 DEF IInv, DBInv, IDsApart, RowInv, Owns, NoCourse
    <2>9. \A p \in Users \union Groups : p # o => getRepo(p)' = getRepo(p)
      BY <1>5, <2>1 DEF getRepo
    <2>10. EnrolInv'
      <3>1. \A u \in Users : enrol[u].status \in Enrolled => u # o
        BY <1>2, <2>2, CourseAssumption
      <3>2. QED
        BY <1>3, <2>9, <3>1 DEF IInv, DBInv, EnrolInv
    <2>11. GroupInv'
      <3>1. \A g \in Groups : groups[g].status = "APPROVED" => g # o
        BY <1>2, <2>2, CourseAssumption
      <3>2. QED
        BY <1>3, <2>9, <3>1 DEF IInv, DBInv, GroupInv
    <2>12. x.pc = "RejectEnrollment" => getRepo(x.user)' = {}
      BY <1>2, <2>3, <2>5, <2>6 DEF getRepo
    <2>13. JobInv(x)'
      BY <1>3, <2>2, <2>3, <2>5, <2>6, <2>12 DEF JobInv, CreateInv, ForkInv, GroupJobInv, SaveInv,
         RejectInv, Forking, Saving, Inviting, Invited, Rejecting, Grouping
    <2>14. QED
      BY <1>5, <2>5, <2>7, <2>8, <2>10, <2>11, <2>13, Assemble DEF DBInv
  <1>6. QED
    BY <1>3, <1>4, <1>5

\* The user leaves the organization.
LEMMA LeaveStep ==
  ASSUME IInv, NEW h, Handlers = {h}, RejectEnrollment(h)
  PROVE  IInv'
  <1> DEFINE j == job[h]
             y == [j EXCEPT !.pc = "deleteRepository"]
  <1>1. j \in Job /\ JobInv(j) /\ j.pc = "RejectEnrollment"
    BY JobFacts DEF RejectEnrollment
  <1>2. UNCHANGED <<course, enrol, groups, rows, token>> /\ token' \subseteq Users
    BY DEF RejectEnrollment, Call, db, IInv, Typed, TypeOK
  <1>3. \/ /\ job' = [job EXCEPT ![h] = Idle] /\ UNCHANGED gh
           /\ (faults' = faults \/ (faults < MaxFaults /\ faults' = faults + 1))
        \/ job' = [job EXCEPT ![h] = y] /\ gh' = DeleteMember(gh, j.user) /\ faults' = faults
    BY DEF RejectEnrollment, Call, Fails, Return, Local
  <1> HIDE DEF j
  <1>4. CASE /\ job' = [job EXCEPT ![h] = Idle] /\ UNCHANGED gh
             /\ (faults' = faults \/ (faults < MaxFaults /\ faults' = faults + 1))
    BY <1>2, <1>4, ReturnStep
  <1>5. CASE job' = [job EXCEPT ![h] = y] /\ gh' = DeleteMember(gh, j.user) /\ faults' = faults
    <2>1. /\ course /\ j.user \in Users /\ j.user # creator /\ j.group = "none"
          /\ getRepo(j.user) = {} /\ \A r \in rows : r.id # j.id
      BY <1>1 DEF Job, JobInv, CreateInv, GroupJobInv, RejectInv, Forking, Rejecting
    <2>2. y \in Job /\ y.pc = "deleteRepository" /\ y.group = j.group /\ y.id = j.id
      BY <1>1 DEF Job, Pc
    <2>3. PICK x \in Job : x = y /\ x.pc = "deleteRepository" /\ x.group = "none" /\ x.id = j.id
      BY <2>1, <2>2
    <2> DEFINE R == [v \in DOMAIN gh.role \ {j.user} |-> gh.role[v]]
    <2>4. gh' = [gh EXCEPT !.role = R, !.active = gh.active \ {j.user}]
      BY <1>5 DEF DeleteMember
    <2>5. DOMAIN R = DOMAIN gh.role \ {j.user} /\ R \in [DOMAIN R -> {"admin", "member"}]
      BY DEF IInv, Typed, GHTyped
    <2> HIDE DEF R
    <2>6. gh'.role = R /\ gh'.repos = gh.repos /\ gh'.active = gh.active \ {j.user}
      BY <2>4 DEF IInv, Typed, GHTyped
    <2>7. gh' = [role |-> gh'.role, active |-> gh'.active, repos |-> gh'.repos]
      BY <2>4 DEF IInv, Typed, GHTyped
    <2>8. GHTyped'
      BY <2>5, <2>6, <2>7 DEF IInv, Typed, GHTyped
    <2>9. TypeOK' /\ RowsTyped'
      BY <1>2, <1>5, SameDB
    <2>10. RowInv'
      <3>1. \A r \in rows : r.owner # j.user
        BY <2>1 DEF getRepo
      <3>2. QED
        BY <1>2, <2>1, <2>5, <2>6, <3>1 DEF IInv, DBInv, RowInv, Owns
    <2>11. IDsApart' /\ EnrolInv' /\ GroupInv' /\ NoCourse'
      BY <1>2, <2>6 DEF IInv, DBInv, IDsApart, EnrolInv, GroupInv, NoCourse, getRepo
    <2>12. JobInv(x)'
      BY <1>2, <2>1, <2>3 DEF JobInv, CreateInv, ForkInv, GroupJobInv, SaveInv, RejectInv,
         Forking, Saving, Inviting, Invited, Rejecting, Grouping
    <2>13. QED
      BY <1>5, <2>3, <2>8, <2>9, <2>10, <2>11, <2>12, Assemble DEF DBInv
  <1>6. QED
    BY <1>3, <1>4, <1>5

\* The repository, which no record refers to any more, is deleted.
LEMMA DeleteRepoStep ==
  ASSUME IInv, NEW h, Handlers = {h}, deleteRepository(h)
  PROVE  IInv'
  <1> DEFINE j == job[h]
  <1>1. j \in Job /\ JobInv(j) /\ j.pc = "deleteRepository"
    BY JobFacts DEF deleteRepository
  <1>2. UNCHANGED <<course, enrol, groups, rows, token>> /\ token' \subseteq Users
    BY DEF deleteRepository, Call, db, IInv, Typed, TypeOK
  <1>3. /\ job' = [job EXCEPT ![h] = Idle]
        /\ (faults' = faults \/ (faults < MaxFaults /\ faults' = faults + 1))
        /\ UNCHANGED gh \/ \E n \in ReposByID(gh, j.id) : gh' = DeleteRepo(gh, n)
    BY DEF deleteRepository, Call, Fails, Return, Local
  <1> HIDE DEF j
  <1>4. CASE UNCHANGED gh
    BY <1>2, <1>3, <1>4, ReturnStep
  <1>5. ASSUME NEW n \in ReposByID(gh, j.id), gh' = DeleteRepo(gh, n)
        PROVE  IInv'
    <2>1. \A r \in rows : r.id # gh.repos[n].id
      BY <1>1, <1>5 DEF JobInv, RejectInv, ReposByID
    <2> DEFINE R == [m \in DOMAIN gh.repos \ {n} |-> gh.repos[m]]
    <2>2. gh' = [gh EXCEPT !.repos = R]
      BY <1>5 DEF DeleteRepo
    <2>3. DOMAIN R = DOMAIN gh.repos \ {n} /\ R \in [DOMAIN R -> Repo]
            /\ \A m \in DOMAIN R : R[m] = gh.repos[m]
      BY DEF IInv, Typed, GHTyped
    <2>4. IsFiniteSet(DOMAIN gh.repos \ {n})
      BY FS_RemoveElement DEF IInv, Typed, GHTyped
    <2> HIDE DEF R
    <2>5. gh'.role = gh.role /\ gh'.repos = R /\ gh'.active = gh.active
      BY <2>2 DEF IInv, Typed, GHTyped
    <2>6. gh' = [role |-> gh'.role, active |-> gh'.active, repos |-> gh'.repos]
      BY <2>2 DEF IInv, Typed, GHTyped
    <2>7. GHTyped'
      BY <2>3, <2>4, <2>5, <2>6 DEF IInv, Typed, GHTyped
    <2>8. TypeOK' /\ RowsTyped'
      BY <1>2, <1>3, SameDB
    <2>9. IDsApart' /\ RowInv'
      BY <1>2, <2>1, <2>3, <2>5 DEF IInv, DBInv, IDsApart, RowInv, Owns
    <2>10. EnrolInv' /\ GroupInv' /\ NoCourse'
      BY <1>2 DEF IInv, DBInv, EnrolInv, GroupInv, NoCourse, getRepo
    <2>11. PICK x \in Job : x = Idle /\ x.pc = "idle" /\ x.user = creator /\ x.group = "none"
      BY IdleOK DEF Idle
    <2>12. JobInv(x)'
      BY <2>11 DEF JobInv, CreateInv, ForkInv, GroupJobInv, SaveInv, RejectInv, Forking, Saving,
         Inviting, Invited, Rejecting, Grouping
    <2>13. QED
      BY <1>3, <2>7, <2>8, <2>9, <2>10, <2>11, <2>12, Assemble DEF DBInv
  <1>6. QED
    BY <1>3, <1>4, <1>5

-----------------------------------------------------------------------------
(* Groups.                                                                 *)

\* The record of a new group.
LEMMA NewGroupStep ==
  ASSUME IInv, NEW h, Handlers = {h}, dbCreateGroup(h)
  PROVE  IInv'
  <1> DEFINE j == job[h]
  <1>1. j \in Job /\ JobInv(j) /\ j.pc = "CreateGroup"
    BY JobFacts DEF dbCreateGroup
  <1>2. job' = [job EXCEPT ![h] = Idle] /\ UNCHANGED <<course, rows, token, gh, faults>>
    BY DEF dbCreateGroup, Return, Local
  <1>3. \/ UNCHANGED <<groups, enrol>>
        \/ \E g \in Groups :
              /\ groups[g].status = "NONE"
              /\ groups' = [groups EXCEPT ![g] = [name |-> j.name, status |-> "PENDING",
                                                  users |-> j.users]]
              /\ enrol' = [u \in Users |-> IF u \in j.users THEN [enrol[u] EXCEPT !.group = g]
                                           ELSE enrol[u]]
    BY Zenon DEF dbCreateGroup
  <1> HIDE DEF j
  <1>4. CASE UNCHANGED <<groups, enrol>>
    <2>1. token' \subseteq Users
      BY <1>2 DEF IInv, Typed, TypeOK
    <2>2. QED
      BY <1>2, <1>4, <2>1, ReturnStep
  <1>5. ASSUME NEW g \in Groups, groups[g].status = "NONE",
               groups' = [groups EXCEPT ![g] = [name |-> j.name, status |-> "PENDING",
                                                users |-> j.users]],
               enrol' = [u \in Users |-> IF u \in j.users THEN [enrol[u] EXCEPT !.group = g]
                                         ELSE enrol[u]]
        PROVE  IInv'
    <2>1. course /\ j.name \in GroupNames /\ j.users \in SUBSET Users
      BY <1>1 DEF Job, JobInv, CreateInv, GroupJobInv, Forking
    <2>2. [name |-> j.name, status |-> "PENDING", users |-> j.users] \in Group
      BY <2>1 DEF Group
    <2>3. \A u \in Users : /\ enrol'[u] \in Enrollment
                           /\ enrol'[u].status = enrol[u].status
      BY <1>5 DEF Enrollment, IInv, Typed, TypeOK
    <2>4. groups' \in [Groups -> Group] /\ enrol' \in [Users -> Enrollment]
      BY <1>5, <2>2, <2>3 DEF IInv, Typed, TypeOK
    <2>5. /\ groups'[g].name = j.name /\ groups'[g].status = "PENDING"
          /\ \A k \in Groups : k # g => groups'[k] = groups[k]
      BY <1>5 DEF IInv, Typed, TypeOK
    <2>6. EnrolInv' /\ GroupInv' /\ NoCourse'
      BY <1>2, <2>1, <2>3, <2>5 DEF IInv, DBInv, EnrolInv, GroupInv, NoCourse, getRepo
    <2>7. QED
      BY <1>2, <2>4, <2>6, ReturnDB
  <1>6. QED
    BY <1>3, <1>4, <1>5

\* A group's repository must be a new one.
LEMMA CreateRepoStep ==
  ASSUME IInv, NEW h, Handlers = {h}, createRepo(h)
  PROVE  IInv'
  <1> DEFINE j == job[h]
             x == [j EXCEPT !.pc = "createForkedRepo"]
  <1>1. j \in Job /\ JobInv(j) /\ j.pc = "createRepo"
    BY JobFacts DEF createRepo
  <1>2. \/ Return(h) /\ UNCHANGED <<db, token>>
        \/ ~ HasRepo(gh, j.name) /\ Call(h, x, gh)
    BY DEF createRepo
  <1> HIDE DEF j
  <1>3. CASE Return(h) /\ UNCHANGED <<db, token>>
    <2>1. token' \subseteq Users
      BY <1>3 DEF IInv, Typed, TypeOK
    <2>2. QED
      BY <1>3, <2>1, IdleOK, NoCallStep DEF Return
  <1>4. CASE ~ HasRepo(gh, j.name) /\ Call(h, x, gh)
    <2>1. /\ x \in Job /\ x.pc = "createForkedRepo" /\ x.group = j.group /\ x.name = j.name
          /\ x.todo = j.todo
      BY <1>1 DEF Job, Pc, Forking
    <2>2. course /\ j.group # "none" /\ j.name \in GroupNames /\ j.todo \subseteq Users
      BY <1>1 DEF JobInv, CreateInv, GroupJobInv, ForkInv, Forking, Grouping
    <2> HIDE DEF x
    <2>3. JobInv(x)
      BY <1>4, <2>1, <2>2 DEF JobInv, CreateInv, ForkInv, GroupJobInv, SaveInv, RejectInv, Forking,
         Saving, Inviting, Invited, Rejecting, Grouping
    <2>4. QED
      BY <1>4, <2>1, <2>3, CallStep
  <1>5. QED
    BY <1>2, <1>3, <1>4

\* Access to the group's repository: new members get it, others lose it.
LEMMA MembersStep ==
  ASSUME IInv, NamesApart, NEW h, Handlers = {h}, UpdateGroupMembers(h)
  PROVE  IInv'
  <1> DEFINE j == job[h]
             z == [j EXCEPT !.pc = "UpdateGroup"]
  <1>1. j \in Job /\ JobInv(j) /\ j.pc = "updateGroupMembers"
    BY JobFacts DEF UpdateGroupMembers
  <1>2. UNCHANGED <<course, enrol, groups, rows, token>> /\ token' \subseteq Users
    BY DEF UpdateGroupMembers, Call, db, IInv, Typed, TypeOK
  <1>3. \/ Return(h)
        \/ Local(h, z)
        \/ HasRepo(gh, j.name) /\ \E u \in j.todo :
              Call(h, [j EXCEPT !.todo = @ \ {u}], PutCollaborator(gh, j.name, u))
        \/ HasRepo(gh, j.name) /\ \E u \in gh.repos[j.name].users \ j.users :
              Call(h, j, DeleteCollaborator(gh, j.name, u))
    BY DEF UpdateGroupMembers
  <1> HIDE DEF j
  <1>4. /\ course /\ j.group \in Groups /\ j.group # "none" /\ j.name \in GroupNames
        /\ j.todo \subseteq Users /\ getRepo(j.group) # {}
    BY <1>1 DEF Job, JobInv, CreateInv, ForkInv, GroupJobInv, Forking, Grouping
  <1>5. CASE Return(h)
    BY <1>2, <1>5, IdleOK, NoCallStep DEF Return, db
  <1>6. CASE Local(h, z)
    <2>1. z \in Job /\ z.pc = "UpdateGroup" /\ z.group = j.group /\ z.name = j.name
            /\ z.todo = j.todo
      BY <1>1 DEF Job, Pc, Grouping
    <2> HIDE DEF z
    <2>2. JobInv(z)
      BY <1>4, <2>1 DEF JobInv, CreateInv, ForkInv, GroupJobInv, SaveInv, RejectInv, Forking,
         Saving, Inviting, Invited, Rejecting, Grouping
    <2>3. QED
      BY <1>2, <1>6, <2>1, <2>2, NoCallStep DEF db
  <1>7. ASSUME HasRepo(gh, j.name), NEW u \in j.todo,
               Call(h, [j EXCEPT !.todo = @ \ {u}], PutCollaborator(gh, j.name, u))
        PROVE  IInv'
    <2> DEFINE y == [j EXCEPT !.todo = @ \ {u}]
    <2>1. /\ y \in Job /\ y.pc = "updateGroupMembers" /\ y.group = j.group /\ y.name = j.name
          /\ y.todo \subseteq j.todo
      BY <1>1 DEF Job
    <2>2. PICK x \in Job : /\ x = y /\ x.pc = "updateGroupMembers" /\ x.group = j.group
                           /\ x.name = j.name /\ x.todo \subseteq j.todo
      BY <2>1
    <2>3. \/ Fails(h) /\ UNCHANGED gh
          \/ /\ job' = [job EXCEPT ![h] = x] /\ faults' = faults
             /\ gh' = PutCollaborator(gh, j.name, u)
      BY <1>7, <2>2 DEF Call
    <2>4. CASE Fails(h) /\ UNCHANGED gh
      BY <1>2, <2>4, ReturnStep DEF Fails
    <2>5. CASE /\ job' = [job EXCEPT ![h] = x] /\ faults' = faults
               /\ gh' = PutCollaborator(gh, j.name, u)
      <3>1. GHTyped' /\ Gains
        BY <1>4, <1>7, <2>5, Collaborator DEF IInv, Typed, HasRepo
      <3>2. DBInv' /\ TypeOK' /\ RowsTyped'
        BY <1>2, <2>5, <3>1, GainsKeeps, SameDB DEF IInv
      <3>3. getRepo(x.group)' # {}
        BY <1>2, <1>4, <2>2 DEF getRepo
      <3>4. JobInv(x)'
        BY <1>2, <1>4, <2>2, <3>3 DEF JobInv, CreateInv, ForkInv, GroupJobInv, SaveInv, RejectInv,
           Forking, Saving, Inviting, Invited, Rejecting, Grouping
      <3>5. QED
        BY <2>2, <2>5, <3>1, <3>2, <3>4, Assemble
    <2>6. QED
      BY <2>3, <2>4, <2>5
  <1>8. ASSUME HasRepo(gh, j.name), NEW u \in gh.repos[j.name].users \ j.users,
               Call(h, j, DeleteCollaborator(gh, j.name, u))
        PROVE  IInv'
    <2>1. \/ Fails(h) /\ UNCHANGED gh
          \/ /\ job' = [job EXCEPT ![h] = j] /\ faults' = faults
             /\ gh' = DeleteCollaborator(gh, j.name, u)
      BY <1>8 DEF Call
    <2>2. CASE Fails(h) /\ UNCHANGED gh
      BY <1>2, <2>2, ReturnStep DEF Fails
    <2>3. CASE /\ job' = [job EXCEPT ![h] = j] /\ faults' = faults
               /\ gh' = DeleteCollaborator(gh, j.name, u)
      <3> DEFINE R == [gh.repos EXCEPT ![j.name].users = @ \ {u}]
      <3>1. gh' = [gh EXCEPT !.repos = R]
        BY <2>3 DEF DeleteCollaborator
      <3>2. DOMAIN R = DOMAIN gh.repos /\ R \in [DOMAIN R -> Repo]
        BY DEF IInv, Typed, GHTyped, Repo
      <3>3. \A n \in DOMAIN gh.repos : /\ R[n].id = gh.repos[n].id
                                       /\ n # j.name => R[n].users = gh.repos[n].users
        BY DEF IInv, Typed, GHTyped, Repo
      <3> HIDE DEF R
      <3>4. gh'.role = gh.role /\ gh'.repos = R /\ gh'.active = gh.active
        BY <3>1 DEF IInv, Typed, GHTyped
      <3>5. gh' = [role |-> gh'.role, active |-> gh'.active, repos |-> gh'.repos]
        BY <3>1 DEF IInv, Typed, GHTyped
      <3>6. GHTyped'
        BY <3>2, <3>4, <3>5 DEF IInv, Typed, GHTyped
      <3>7. TypeOK' /\ RowsTyped'
        BY <1>2, <2>3, SameDB
      <3>8. IDsApart' /\ EnrolInv' /\ GroupInv' /\ NoCourse'
        BY <1>2, <3>2, <3>3, <3>4 DEF IInv, DBInv, IDsApart, EnrolInv, GroupInv, NoCourse, getRepo
      <3>9. RowInv'
        <4>1. \A v \in Users : StudentRepoName[v] # j.name
          BY <1>4 DEF NamesApart
        <4>2. QED
          BY <1>2, <3>2, <3>3, <3>4, <4>1 DEF IInv, DBInv, RowInv, Owns
      <3>10. PICK x \in Job : x = j
        BY <1>1
      <3>11. getRepo(x.group)' # {}
        BY <1>2, <1>4, <3>10 DEF getRepo
      <3>12. JobInv(x)'
        BY <1>1, <1>2, <1>4, <3>10, <3>11 DEF JobInv, CreateInv, ForkInv, GroupJobInv, SaveInv,
           RejectInv, Forking, Saving, Inviting, Invited, Rejecting, Grouping
      <3>13. QED
        BY <2>3, <3>6, <3>7, <3>8, <3>9, <3>10, <3>12, Assemble DEF DBInv
    <2>4. QED
      BY <2>1, <2>2, <2>3
  <1>9. QED
    BY <1>3, <1>5, <1>6, <1>7, <1>8

\* The record of the group, once it has a repository.
LEMMA SaveGroupStep ==
  ASSUME IInv, NEW h, Handlers = {h}, UpdateGroup(h)
  PROVE  IInv'
  <1> DEFINE j == job[h]
  <1>1. j \in Job /\ JobInv(j) /\ j.pc = "UpdateGroup"
    BY JobFacts DEF UpdateGroup
  <1>2. job' = [job EXCEPT ![h] = Idle] /\ UNCHANGED <<course, rows, token, gh, faults>>
    BY DEF UpdateGroup, Return, Local
  <1>3. \/ UNCHANGED <<groups, enrol>>
        \/ /\ groups' = [groups EXCEPT ![j.group] = [name |-> j.name, status |-> "APPROVED",
                                                     users |-> j.users]]
           /\ enrol' = [u \in Users |->
                            IF u \in j.users THEN [enrol[u] EXCEPT !.group = j.group]
                            ELSE IF enrol[u].group = j.group
                                 THEN [enrol[u] EXCEPT !.group = "none"]
                            ELSE enrol[u]]
    BY Zenon DEF UpdateGroup
  <1> HIDE DEF j
  <1>4. CASE UNCHANGED <<groups, enrol>>
    <2>1. token' \subseteq Users
      BY <1>2 DEF IInv, Typed, TypeOK
    <2>2. QED
      BY <1>2, <1>4, <2>1, ReturnStep
  <1>5. CASE /\ groups' = [groups EXCEPT ![j.group] = [name |-> j.name, status |-> "APPROVED",
                                                       users |-> j.users]]
             /\ enrol' = [u \in Users |->
                            IF u \in j.users THEN [enrol[u] EXCEPT !.group = j.group]
                            ELSE IF enrol[u].group = j.group
                                 THEN [enrol[u] EXCEPT !.group = "none"]
                            ELSE enrol[u]]
    <2>1. /\ course /\ j.name \in GroupNames /\ j.users \in SUBSET Users /\ j.group \in Groups
          /\ getRepo(j.group) # {}
      BY <1>1 DEF Job, JobInv, CreateInv, GroupJobInv, Forking, Grouping
    <2>2. [name |-> j.name, status |-> "APPROVED", users |-> j.users] \in Group
      BY <2>1 DEF Group
    <2>3. \A u \in Users : /\ enrol'[u] \in Enrollment
                           /\ enrol'[u].status = enrol[u].status
      BY <1>5, <2>1 DEF Enrollment, IInv, Typed, TypeOK
    <2>4. groups' \in [Groups -> Group] /\ enrol' \in [Users -> Enrollment]
      BY <1>5, <2>2, <2>3 DEF IInv, Typed, TypeOK
    <2>5. /\ groups'[j.group].name = j.name
          /\ \A k \in Groups : k # j.group => groups'[k] = groups[k]
      BY <1>5, <2>1 DEF IInv, Typed, TypeOK
    <2>6. EnrolInv' /\ GroupInv' /\ NoCourse'
      BY <1>2, <2>1, <2>3, <2>5 DEF IInv, DBInv, EnrolInv, GroupInv, NoCourse, getRepo
    <2>7. QED
      BY <1>2, <2>4, <2>6, ReturnDB
  <1>6. QED
    BY <1>3, <1>4, <1>5

\* The record of the group is removed.
LEMMA DeleteGroupStep ==
  ASSUME IInv, NEW h, Handlers = {h}, DeleteGroup(h)
  PROVE  IInv'
  <1> DEFINE j == job[h]
             y == [j EXCEPT !.pc = "DeleteRepository"]
  <1>1. j \in Job /\ JobInv(j) /\ j.pc = "DeleteGroup"
    BY JobFacts DEF DeleteGroup
  <1>2. /\ groups' = [groups EXCEPT ![j.group] = NoGroup]
        /\ enrol' = [u \in Users |-> IF enrol[u].group = j.group
                                     THEN [enrol[u] EXCEPT !.group = "none"] ELSE enrol[u]]
        /\ job' = [job EXCEPT ![h] = y]
        /\ UNCHANGED <<course, rows, token, gh, faults>>
    BY DEF DeleteGroup, Local
  <1> HIDE DEF j
  <1>3. course /\ j.group \in Groups /\ j.group # "none"
    BY <1>1 DEF Job, JobInv, CreateInv, GroupJobInv, Forking, Grouping
  <1>4. y \in Job /\ y.pc = "DeleteRepository" /\ y.group = j.group
    BY <1>1 DEF Job, Pc
  <1>5. PICK x \in Job : x = y /\ x.pc = "DeleteRepository" /\ x.group = j.group
    BY <1>4
  <1>6. NoGroup \in Group /\ NoGroup.status = "NONE"
    BY DEF NoGroup, Group
  <1>7. \A u \in Users : enrol'[u] \in Enrollment /\ enrol'[u].status = enrol[u].status
    BY <1>2 DEF Enrollment, IInv, Typed, TypeOK
  <1>8. groups' \in [Groups -> Group] /\ enrol' \in [Users -> Enrollment]
    BY <1>2, <1>6, <1>7 DEF IInv, Typed, TypeOK
  <1>9. groups'[j.group].status = "NONE" /\ \A k \in Groups : k # j.group => groups'[k] = groups[k]
    BY <1>2, <1>3, <1>6 DEF IInv, Typed, TypeOK
  <1>10. TypeOK' /\ RowsTyped' /\ GHTyped'
    BY <1>2, <1>8 DEF IInv, Typed, TypeOK, RowsTyped, GHTyped
  <1>11. IDsApart' /\ RowInv'
    BY <1>2 DEF IInv, DBInv, IDsApart, RowInv, Owns
  <1>12. EnrolInv' /\ GroupInv' /\ NoCourse'
    BY <1>2, <1>3, <1>7, <1>9 DEF IInv, DBInv, EnrolInv, GroupInv, NoCourse, getRepo
  <1>13. JobInv(x)'
    BY <1>2, <1>3, <1>5, <1>9 DEF JobInv, CreateInv, ForkInv, GroupJobInv, SaveInv, RejectInv,
       Forking, Saving, Inviting, Invited, Rejecting, Grouping
  <1>14. QED
    BY <1>2, <1>5, <1>10, <1>11, <1>12, <1>13, Assemble DEF DBInv

-----------------------------------------------------------------------------
(* The theorems.                                                           *)

\* Every step, a failure and a stop among them, keeps the invariant.
LEMMA StepIInv ==
  ASSUME OneHandler, NamesApart
  PROVE  IInv /\ [Next]_vars => IInv'
  <1> SUFFICES ASSUME IInv, [Next]_vars
               PROVE  IInv'
    OBVIOUS
  <1>1. PICK h \in Handlers : Handlers = {h}
    BY DEF OneHandler
  <1>2. ASSUME UNCHANGED vars
        PROVE  IInv'
    <2>1. job[h] \in Job /\ JobInv(job[h])
      BY JobFacts
    <2>2. job' = [job EXCEPT ![h] = job[h]] /\ token' \subseteq Users /\ faults' \in 0..MaxFaults
      BY <1>2 DEF vars, IInv, Typed, TypeOK
    <2>3. QED
      BY <1>1, <1>2, <2>1, <2>2, LocalStep DEF vars
  <1>3. ASSUME Stop
        PROVE  IInv'
    <2>1. job' = [job EXCEPT ![h] = Idle]
      BY <1>1, <1>3 DEF Stop, IInv, Typed
    <2>2. token' \subseteq Users
      BY <1>3 DEF Stop, IInv, Typed, TypeOK
    <2>3. QED
      BY <1>1, <1>3, <2>1, <2>2, ReturnStep DEF Stop, db
  <1>4. ASSUME Request(h)
        PROVE  IInv'
    BY <1>1, <1>4, StartCourse, StartEnrollment, StartSave, StartCreateGroup, StartUpdateGroup,
       StartDeleteGroup DEF Request, updateLastActivityDate
  <1>5. ASSUME Step(h)
        PROVE  IInv'
    BY <1>1, <1>5, CourseRepoStep, CreateCourseStep, CourseRecordStep, LookUpStep, SaveStep,
       RejectStep, DeleteRecordStep, LeaveStep, DeleteRepoStep, AcceptStep, TokenStep, InviteStep,
       ForkStep, AddUserStep, RecordStep, RoleStep, NewGroupStep, CreateRepoStep, MembersStep,
       SaveGroupStep, DeleteGroupStep DEF Step
  <1>6. QED
    BY <1>1, <1>2, <1>3, <1>4, <1>5, UserStep DEF Next

\* What the invariant says of the enrolled and of the records.
LEMMA IInvImplies == IInv => EnrolledHaveRepo /\ RowsHaveOwnRepo
  <1> SUFFICES ASSUME IInv
               PROVE  EnrolledHaveRepo /\ RowsHaveOwnRepo
    OBVIOUS
  <1>1. ASSUME NEW u \in Users, enrol[u].status \in {"STUDENT", "TEACHER"}
        PROVE  /\ u \in DOMAIN gh.role
               /\ \E r \in getRepo(u), n \in DOMAIN gh.repos :
                     gh.repos[n].id = r.id /\ u \in gh.repos[n].users
    <2>1. PICK r \in getRepo(u) : r \in rows /\ r.owner = u
      BY <1>1 DEF IInv, DBInv, EnrolInv, Enrolled, getRepo
    <2>2. PICK n \in DOMAIN gh.repos : gh.repos[n].id = r.id /\ Owns(r, n)
      BY <2>1 DEF IInv, DBInv, RowInv
    <2>3. u \in DOMAIN gh.role /\ u \in gh.repos[n].users
      BY <2>1, <2>2, CourseAssumption DEF Owns
    <2>4. QED
      BY <2>2, <2>3
  <1>2. RowsHaveOwnRepo
    BY DEF IInv, DBInv, IDsApart, RowInv, RowsHaveOwnRepo, ReposByID
  <1>3. QED
    BY <1>1, <1>2 DEF EnrolledHaveRepo

\* Whatever fails, between any two steps: whoever is enrolled has a repository
\* with a record, and can push to it as a member of the organization.
THEOREM CoursesEnrolled ==
  ASSUME OneHandler, NamesApart
  PROVE  Spec => []EnrolledHaveRepo
  <1>1. IInv /\ [Next]_vars => IInv'
    BY StepIInv
  <1>2. QED
    BY <1>1, InitIInv, IInvImplies, PTL DEF Spec

\* Every record is that of a repository, which no other record refers to.
THEOREM CoursesRows ==
  ASSUME OneHandler, NamesApart
  PROVE  Spec => [](TypeOK /\ RowsHaveOwnRepo)
  <1>1. IInv /\ [Next]_vars => IInv'
    BY StepIInv
  <1>2. IInv => TypeOK
    BY DEF IInv, Typed
  <1>3. QED
    BY <1>1, <1>2, InitIInv, IInvImplies, PTL DEF Spec

-----------------------------------------------------------------------------
(* Approved groups: what a step leaves alone.                              *)

\* The repositories of records keep their names and their collaborators.
GHKeeps ==
    \A r \in rows : \A n \in ReposByID(gh', r.id) :
        n \in ReposByID(gh, r.id) /\ gh.repos[n].users \subseteq gh'.repos[n].users

\* No enrollment gets into a group.
EnrolKeeps == \A u \in Users, g \in Groups : enrol'[u].group = g => enrol[u].group = g

\* A step that keeps groups, enrollments and repositories keeps the groups settled.
LEMMA PushKept ==
  ASSUME TypeOK, NEW busy, PushInv(busy), GHKeeps, EnrolKeeps, UNCHANGED groups,
         \A r \in rows' : r \in rows \/ r.owner \notin Groups \ {busy}
  PROVE  PushInv(busy)'
  <1>1. \A g \in Groups : GetGroup(g)' \subseteq GetGroup(g)
    BY DEF TypeOK, Group, GetGroup, EnrolKeeps
  <1>2. ASSUME NEW r \in rows', r.owner \in Groups \ {busy}, NEW n \in ReposByID(gh', r.id)
        PROVE  Settled(r.owner, n)'
    <2>1. PICK g \in Groups : g = r.owner
      BY <1>2
    <2>2. r \in rows
      BY <1>2
    <2>3. n \in ReposByID(gh, r.id) /\ gh.repos[n].users \subseteq gh'.repos[n].users
      BY <1>2, <2>2 DEF GHKeeps
    <2>4. Settled(g, n)
      BY <1>2, <2>1, <2>2, <2>3 DEF PushInv
    <2>5. Settled(g, n)'
      BY <1>1, <2>3, <2>4 DEF Settled
    <2>6. QED
      BY <2>1, <2>5
  <1>3. QED
    BY <1>2 DEF PushInv

\* What a step does to GitHub, unless it changes a group's members.
GHEffect ==
    \/ gh' = gh
    \/ \E name \in Names : ~ HasRepo(gh, name) /\ gh' = PostRepo(gh, name, NewID(name))
    \/ \E u \in Users, role \in {"admin", "member"} : gh' = PutMembership(gh, u, role)
    \/ \E u \in Users : gh' = PatchOwnMembership(gh, u) \/ gh' = DeleteMember(gh, u)
    \/ \E u \in Users : \E n : gh' = PutCollaborator(gh, n, u)
    \/ \E n : gh' = DeleteRepo(gh, n)

\* None of these effects takes access to the repository of a record away.
LEMMA EffectKeeps ==
  ASSUME IInv, OneHandler, GHEffect
  PROVE  GHKeeps
  <1>1. GHTyped
    BY DEF IInv, Typed
  <1>2. CASE gh' = gh
    BY <1>2 DEF GHKeeps, ReposByID
  <1>3. ASSUME NEW name \in Names, ~ HasRepo(gh, name), gh' = PostRepo(gh, name, NewID(name))
        PROVE  GHKeeps
    <2>1. PICK id : id = NewID(name) /\ id \notin Known
      BY FreshID DEF IInv
    <2>2. \A r \in rows : r.id # id
      BY <2>1 DEF Known
    <2>3. gh'.repos = [n \in DOMAIN gh.repos \union {name} |->
                          IF n = name THEN [id |-> id, users |-> {}] ELSE gh.repos[n]]
      BY <1>1, <1>3, <2>1 DEF PostRepo, GHTyped
    <2>4. QED
      BY <2>2, <2>3 DEF GHKeeps, ReposByID
  <1>4. ASSUME NEW u \in Users, NEW role \in {"admin", "member"}, gh' = PutMembership(gh, u, role)
        PROVE  GHKeeps
    BY <1>1, <1>4 DEF PutMembership, GHTyped, GHKeeps, ReposByID
  <1>5. ASSUME NEW u \in Users, gh' = PatchOwnMembership(gh, u) \/ gh' = DeleteMember(gh, u)
        PROVE  GHKeeps
    BY <1>1, <1>5 DEF PatchOwnMembership, DeleteMember, GHTyped, GHKeeps, ReposByID
  <1>6. ASSUME NEW u \in Users, NEW n, gh' = PutCollaborator(gh, n, u)
        PROVE  GHKeeps
    <2> DEFINE R == [gh.repos EXCEPT ![n].users = @ \union {u}]
    <2>1. gh'.repos = R
      BY <1>1, <1>6 DEF PutCollaborator, GHTyped
    <2>2. /\ DOMAIN R = DOMAIN gh.repos
          /\ \A m \in DOMAIN gh.repos : R[m].id = gh.repos[m].id
                                        /\ gh.repos[m].users \subseteq R[m].users
      BY <1>1 DEF GHTyped, Repo
    <2> HIDE DEF R
    <2>3. QED
      BY <2>1, <2>2 DEF GHKeeps, ReposByID
  <1>7. ASSUME NEW n, gh' = DeleteRepo(gh, n)
        PROVE  GHKeeps
    <2>1. gh'.repos = [m \in DOMAIN gh.repos \ {n} |-> gh.repos[m]]
      BY <1>1, <1>7 DEF DeleteRepo, GHTyped
    <2>2. QED
      BY <2>1 DEF GHKeeps, ReposByID
  <1>8. QED
    BY <1>2, <1>3, <1>4, <1>5, <1>6, <1>7 DEF GHEffect

\* These are the effects of the steps.
LEMMA StepEffect ==
  ASSUME IInv, NEW h, Handlers = {h}, Step(h), job[h].pc # "updateGroupMembers"
  PROVE  GHEffect
  <1> DEFINE j == job[h]
  <1>1. j \in Job /\ JobInv(j)
    BY JobFacts
  <1>2. j.user \in Users
    BY <1>1 DEF Job
  <1>3. j.pc = "createCourseRepo" => j.todo \subseteq Names
    BY <1>1 DEF JobInv, CreateInv, Names
  <1>4. j.pc = "createForkedRepo" => j.name \in Names
    BY <1>1, <1>2 DEF JobInv, ForkInv, GroupJobInv, Forking, Names
  <1>5. j.pc = "addUser" => j.todo \subseteq Users
    BY <1>1 DEF JobInv, ForkInv
  <1>6. CASE createCourseRepo(h)
    BY <1>3, <1>6 DEF createCourseRepo, Call, Local, GHEffect
  <1>7. CASE createForkedRepo(h)
    BY <1>4, <1>7 DEF createForkedRepo, waitForRepository, PostFork, Local, Return, GHEffect
  <1>8. CASE addUser(h)
    BY <1>5, <1>8 DEF addUser, Call, Local, GHEffect
  <1>9. CASE UpdateEnrollmentOnGitHub(h) \/ acceptOrgInvitation(h)
    BY <1>2, <1>9 DEF UpdateEnrollmentOnGitHub, acceptOrgInvitation, Call, GHEffect
  <1>10. CASE enrollTeacher(h) \/ revokeTeacherStatus(h)
    BY <1>2, <1>10 DEF enrollTeacher, revokeTeacherStatus, Call, Local, Return, GHEffect
  <1>11. CASE RejectEnrollment(h) \/ deleteRepository(h)
    BY <1>2, <1>11 DEF RejectEnrollment, deleteRepository, Call, Local, Return, GHEffect
  <1>12. CASE createCourse(h) \/ CreateCourse(h) \/ UpdateEnrollment(h) \/ rejectEnrollment(h)
                \/ DeleteRepository(h) \/ enrollStudent(h) \/ ExchangeAndUpdateToken(h)
                \/ UpdateUser(h) \/ CreateRepository(h) \/ dbCreateGroup(h) \/ UpdateGroup(h)
                \/ DeleteGroup(h)
    <2>1. gh' = gh
      BY <1>12 DEF createCourse, CreateCourse, UpdateEnrollment, rejectEnrollment, DeleteRepository,
         enrollStudent, ExchangeAndUpdateToken, UpdateUser, CreateRepository, dbCreateGroup,
         UpdateGroup, DeleteGroup, Local, Return
    <2>2. QED
      BY <2>1 DEF GHEffect
  <1>13. CASE updateUserFromSCM(h) \/ createRepo(h)
    BY <1>13 DEF updateUserFromSCM, createRepo, Call, Local, Return, GHEffect
  <1>14. ~ UpdateGroupMembers(h)
    BY DEF UpdateGroupMembers
  <1>15. QED
    BY <1>6, <1>7, <1>8, <1>9, <1>10, <1>11, <1>12, <1>13, <1>14 DEF Step

\* Steps of requests on no group change none, and stay requests on no group.
LEMMA PlainStep ==
  ASSUME IInv, NEW h, Handlers = {h}, Step(h), job[h].group = "none", job[h].pc # "CreateGroup",
         SameGroup(job[h])
  PROVE  /\ UNCHANGED groups /\ EnrolKeeps /\ job'[h].group = "none"
         /\ \A r \in rows' : r \in rows \/ r.owner \notin Groups
  <1> DEFINE j == job[h]
  <1>1. j \in Job /\ JobInv(j) /\ job \in [Handlers -> Job] /\ h \in Handlers
    BY JobFacts DEF IInv, Typed
  <1>2. j.pc \notin Grouping \union {"DeleteGroup"}
    BY <1>1 DEF JobInv, GroupJobInv
  <1>3. Idle.group = "none" /\ enrol \in [Users -> Enrollment] /\ j.user \in Users
    BY <1>1 DEF Idle, IInv, Typed, TypeOK, Job
  <1>4. CASE UpdateEnrollment(h)
    <2>1. /\ UNCHANGED <<groups, rows>> /\ j.pc = "UpdateEnrollment"
          /\ enrol' = [enrol EXCEPT ![j.user] = IF @.status = "NONE" THEN @ ELSE j.enrollment]
      BY <1>4 DEF UpdateEnrollment, SaveEnrollment
    <2>2. job'[h].group = "none"
      BY <1>1, <1>3, <1>4 DEF UpdateEnrollment, Return, Local
    <2>3. j.enrollment.group = enrol[j.user].group
      BY <2>1 DEF SameGroup, Enrolling, Saving
    <2>4. EnrolKeeps
      BY <1>3, <2>1, <2>3 DEF EnrolKeeps
    <2>5. QED
      BY <2>1, <2>2, <2>4
  <1>5. CASE rejectEnrollment(h) \/ CreateCourse(h)
    <2>1. UNCHANGED groups /\ rows' = rows
      BY <1>5 DEF rejectEnrollment, CreateCourse
    <2>2. job'[h].group = "none"
      BY <1>1, <1>3, <1>5 DEF rejectEnrollment, CreateCourse, Local, Return, Job
    <2>3. enrol' = [enrol EXCEPT ![j.user] = NoEnrollment]
          \/ enrol' = [enrol EXCEPT ![creator] = [status |-> "TEACHER", group |-> "none"]]
      BY <1>5 DEF rejectEnrollment, CreateCourse
    <2>4. EnrolKeeps
      BY <1>3, <2>3, CourseAssumption DEF EnrolKeeps, NoEnrollment
    <2>5. QED
      BY <2>1, <2>2, <2>4
  <1>6. CASE createCourse(h) \/ CreateRepository(h)
    <2>1. UNCHANGED <<groups, enrol>>
      BY <1>6 DEF createCourse, CreateRepository
    <2>2. job'[h].group = "none"
      BY <1>1, <1>6 DEF createCourse, CreateRepository, Local, Job
    <2>3. \A r \in rows' : r \in rows \/ r.owner \in Users \union CourseRepos
      BY <1>3, <1>6, CourseAssumption DEF createCourse, CreateRepository, AddRepository
    <2>4. QED
      BY <2>1, <2>2, <2>3, CourseAssumption DEF EnrolKeeps
  <1>7. CASE DeleteRepository(h)
    <2>1. UNCHANGED <<groups, enrol>> /\ rows' \subseteq rows
      BY <1>7 DEF DeleteRepository
    <2>2. job'[h].group = "none"
      BY <1>1, <1>3, <1>7 DEF DeleteRepository, Local, Return, Job
    <2>3. QED
      BY <2>1, <2>2 DEF EnrolKeeps
  <1>8. CASE createCourseRepo(h) \/ createForkedRepo(h) \/ addUser(h)
    <2>1. UNCHANGED <<groups, enrol, rows>>
      BY <1>8 DEF createCourseRepo, createForkedRepo, addUser, Call, db
    <2>2. job'[h].group = "none"
      <3>1. CASE createCourseRepo(h)
        BY <1>1, <1>3, <3>1 DEF createCourseRepo, Call, Fails, Local, Job
      <3>2. CASE createForkedRepo(h)
        BY <1>1, <1>3, <3>2 DEF createForkedRepo, waitForRepository, Fails, Local, Job
      <3>3. CASE addUser(h)
        BY <1>1, <1>3, <3>3 DEF addUser, Call, Fails, Local, Job
      <3>4. QED
        BY <1>8, <3>1, <3>2, <3>3
    <2>3. QED
      BY <2>1, <2>2 DEF EnrolKeeps
  <1>9. CASE \/ UpdateEnrollmentOnGitHub(h) \/ acceptOrgInvitation(h) \/ enrollTeacher(h)
             \/ revokeTeacherStatus(h) \/ RejectEnrollment(h) \/ deleteRepository(h)
    <2>1. UNCHANGED <<groups, enrol, rows>>
      BY <1>9 DEF UpdateEnrollmentOnGitHub, acceptOrgInvitation, enrollTeacher,
         revokeTeacherStatus, RejectEnrollment, deleteRepository, Call, db
    <2>2. job'[h].group = "none"
      <3>1. CASE UpdateEnrollmentOnGitHub(h)
        BY <1>1, <1>3, <3>1 DEF UpdateEnrollmentOnGitHub, Call, Fails, Job
      <3>2. CASE acceptOrgInvitation(h)
        BY <1>1, <1>3, <3>2 DEF acceptOrgInvitation, Call, Fails, Job
      <3>3. CASE enrollTeacher(h)
        BY <1>1, <1>3, <3>3 DEF enrollTeacher, Call, Fails, Local, Return, Job
      <3>4. CASE revokeTeacherStatus(h)
        BY <1>1, <1>3, <3>4 DEF revokeTeacherStatus, Job
      <3>5. CASE RejectEnrollment(h)
        BY <1>1, <1>3, <3>5 DEF RejectEnrollment, Call, Fails, Local, Return, Job
      <3>6. CASE deleteRepository(h)
        BY <1>1, <1>3, <3>6 DEF deleteRepository, Call, Fails, Local, Return, Job
      <3>7. QED
        BY <1>9, <3>1, <3>2, <3>3, <3>4, <3>5, <3>6
    <2>3. QED
      BY <2>1, <2>2 DEF EnrolKeeps
  <1>10. CASE updateUserFromSCM(h) \/ enrollStudent(h) \/ ExchangeAndUpdateToken(h) \/ UpdateUser(h)
    <2>1. UNCHANGED <<groups, enrol, rows>>
      BY <1>10 DEF updateUserFromSCM, enrollStudent, ExchangeAndUpdateToken, UpdateUser, Call, db
    <2>2. job'[h].group = "none"
      <3>1. CASE updateUserFromSCM(h)
        BY <1>1, <1>3, <3>1 DEF updateUserFromSCM, Call, Fails, Job
      <3>2. CASE enrollStudent(h)
        BY <1>1, <1>3, <3>2 DEF enrollStudent, Local, Job
      <3>3. CASE ExchangeAndUpdateToken(h)
        BY <1>1, <1>3, <3>3 DEF ExchangeAndUpdateToken, Local, Return, Job
      <3>4. CASE UpdateUser(h)
        BY <1>1, <1>3, <3>4 DEF UpdateUser, Local, Job
      <3>5. QED
        BY <1>10, <3>1, <3>2, <3>3, <3>4
    <2>3. QED
      BY <2>1, <2>2 DEF EnrolKeeps
  <1>11. ~ (dbCreateGroup(h) \/ createRepo(h) \/ UpdateGroupMembers(h) \/ UpdateGroup(h)
              \/ DeleteGroup(h))
    BY <1>2 DEF dbCreateGroup, createRepo, UpdateGroupMembers, UpdateGroup, DeleteGroup, Grouping
  <1>12. QED
    BY <1>4, <1>5, <1>6, <1>7, <1>8, <1>9, <1>10, <1>11 DEF Step

\* A step that leaves a request on an enrollment going is one of that request.
LEMMA ChainStep ==
  ASSUME IInv, NEW h, Handlers = {h}, Step(h), job[h].group = "none", job[h].pc # "CreateGroup",
         job'[h].pc \in Enrolling \union Forking
  PROVE  /\ UNCHANGED <<enrol, course>>
         /\ job'[h].user = job[h].user /\ job'[h].enrollment.group = job[h].enrollment.group
         /\ job[h].pc \in Enrolling \union Forking \union {"createCourseRepo"}
  <1> DEFINE j == job[h]
  <1>1. j \in Job /\ JobInv(j) /\ job \in [Handlers -> Job] /\ h \in Handlers
    BY JobFacts DEF IInv, Typed
  <1>2. j.pc \notin Grouping \union {"DeleteGroup"} /\ j.enrollment \in Enrollment
    BY <1>1 DEF JobInv, GroupJobInv, Job
  <1>3. Idle.pc = "idle"
    BY DEF Idle
  <1>4. job' # [job EXCEPT ![h] = Idle]
    BY <1>1, <1>3 DEF Enrolling, Saving, Inviting, Invited, Forking
  <1> DEFINE Goes(y) == job' = [job EXCEPT ![h] = y]
  <1>5. CASE createCourseRepo(h) \/ createForkedRepo(h) \/ addUser(h)
    <2>1. UNCHANGED <<enrol, course>>
      BY <1>5 DEF createCourseRepo, createForkedRepo, addUser, Call, db
    <2>2. j.pc \in Forking \union {"createCourseRepo"}
      BY <1>5 DEF createCourseRepo, createForkedRepo, addUser, Forking
    <2>3. job'[h].user = j.user /\ job'[h].enrollment = j.enrollment
      <3>1. CASE createCourseRepo(h)
        <4>1. \/ \E t : Goes([j EXCEPT !.todo = t])
              \/ \E n, t : Goes([j EXCEPT !.pc = "createForkedRepo", !.name = n, !.todo = t])
          BY <1>4, <3>1 DEF createCourseRepo, Call, Fails, Local
        <4>2. QED
          BY <1>1, <4>1 DEF Job
      <3>2. CASE createForkedRepo(h)
        <4>1. \E i : Goes([j EXCEPT !.pc = "addUser", !.id = i])
          BY <1>4, <3>2 DEF createForkedRepo, waitForRepository, Fails, Local
        <4>2. QED
          BY <1>1, <4>1 DEF Job
      <3>3. CASE addUser(h)
        <4>1. \/ \E t : Goes([j EXCEPT !.todo = t])
              \/ Goes([j EXCEPT !.pc = "CreateRepository"])
          BY <1>4, <3>3 DEF addUser, Call, Fails, Local
        <4>2. QED
          BY <1>1, <4>1 DEF Job
      <3>4. QED
        BY <1>5, <3>1, <3>2, <3>3
    <2>4. QED
      BY <2>1, <2>2, <2>3
  <1>6. CASE createCourse(h) \/ CreateRepository(h)
    <2>1. CASE createCourse(h)
      BY <1>1, <2>1 DEF createCourse, Local, Job, Forking
    <2>2. CASE CreateRepository(h)
      BY <1>1, <2>2 DEF CreateRepository, Local, Job, Forking
    <2>3. QED
      BY <1>6, <2>1, <2>2
  <1>7. CASE UpdateEnrollmentOnGitHub(h) \/ acceptOrgInvitation(h)
    <2>1. CASE UpdateEnrollmentOnGitHub(h)
      BY <1>1, <1>4, <2>1 DEF UpdateEnrollmentOnGitHub, Call, Fails, db, Job,
         Enrolling, Inviting, Invited
    <2>2. CASE acceptOrgInvitation(h)
      BY <1>1, <1>4, <2>2 DEF acceptOrgInvitation, Call, Fails, db, Job,
         Enrolling, Inviting, Invited
    <2>3. QED
      BY <1>7, <2>1, <2>2
  <1>8. CASE enrollTeacher(h) \/ revokeTeacherStatus(h)
    <2>1. UNCHANGED <<enrol, course>> /\ j.pc \in Enrolling
      BY <1>8 DEF enrollTeacher, revokeTeacherStatus, Call, Return, db, Enrolling, Saving
    <2>2. \E s : Goes([j EXCEPT !.pc = "UpdateEnrollment", !.enrollment.status = s])
      BY <1>4, <1>8 DEF enrollTeacher, revokeTeacherStatus, Call, Fails, Return, Local
    <2>3. PICK s : Goes([j EXCEPT !.pc = "UpdateEnrollment", !.enrollment.status = s])
      BY <2>2
    <2>4. job'[h] = [j EXCEPT !.pc = "UpdateEnrollment", !.enrollment.status = s]
      BY <1>1, <2>3
    <2>5. job'[h].user = j.user /\ job'[h].enrollment = [j.enrollment EXCEPT !.status = s]
      BY <1>1, <2>4 DEF Job
    <2>6. job'[h].enrollment.group = j.enrollment.group
      BY <1>2, <2>5 DEF Enrollment
    <2>7. QED
      BY <2>1, <2>5, <2>6
  <1>9. CASE updateUserFromSCM(h)
    BY <1>1, <1>4, <1>9 DEF updateUserFromSCM, Call, Fails, db, Job, Enrolling, Saving
  <1>10. CASE enrollStudent(h)
    BY <1>1, <1>2, <1>10 DEF enrollStudent, Local, db, Job, Enrollment, Enrolling, Inviting
  <1>11. CASE ExchangeAndUpdateToken(h) \/ UpdateUser(h)
    <2>1. CASE ExchangeAndUpdateToken(h)
      BY <1>1, <1>4, <2>1 DEF ExchangeAndUpdateToken, Local, Return, db, Job,
         Enrolling, Inviting
    <2>2. CASE UpdateUser(h)
      BY <1>1, <1>4, <2>2 DEF UpdateUser, Local, db, Job, Enrolling, Inviting
    <2>3. QED
      BY <1>11, <2>1, <2>2
  <1>12. CASE UpdateEnrollment(h) \/ CreateCourse(h) \/ deleteRepository(h)
    BY <1>4, <1>12 DEF UpdateEnrollment, CreateCourse, deleteRepository, Return, Local, Call, Fails
  <1>13. CASE rejectEnrollment(h) \/ RejectEnrollment(h) \/ DeleteRepository(h)
    <2>1. job'[h].pc \in {"idle", "DeleteRepository", "RejectEnrollment", "deleteRepository"}
      <3>1. CASE rejectEnrollment(h)
        BY <1>1, <1>3, <3>1 DEF rejectEnrollment, Local, Job
      <3>2. CASE RejectEnrollment(h)
        BY <1>1, <1>3, <3>2 DEF RejectEnrollment, Call, Fails, Local, Return, Job
      <3>3. CASE DeleteRepository(h)
        BY <1>1, <1>3, <3>3 DEF DeleteRepository, Local, Return, Job
      <3>4. QED
        BY <1>13, <3>1, <3>2, <3>3
    <2>2. QED
      BY <2>1 DEF Enrolling, Saving, Inviting, Invited, Forking
  <1>14. ~ (dbCreateGroup(h) \/ createRepo(h) \/ UpdateGroupMembers(h) \/ UpdateGroup(h)
              \/ DeleteGroup(h))
    BY <1>2 DEF dbCreateGroup, createRepo, UpdateGroupMembers, UpdateGroup, DeleteGroup, Grouping
  <1>15. QED
    BY <1>5, <1>6, <1>7, <1>8, <1>9, <1>10, <1>11, <1>12, <1>13, <1>14 DEF Step

\* One request, as for the invariant above.
LEMMA NoFaultPrimed ==
  ASSUME NEW h, Handlers = {h}, NEW x, job'[h] = x, NoFaultInv(x)'
  PROVE  (\A k \in Handlers : NoFaultInv(job[k]))'
  BY DEF NoFaultInv, SameGroup, MembersInv, PushInv, Settled, GetGroup, getRepo, ReposByID

\* A step of a request that is on no group.
LEMMA PlainPush ==
  ASSUME IInvPush, IInv', OneHandler, NEW h, Handlers = {h}, Step(h), job[h].group = "none",
         job[h].pc # "CreateGroup", faults' >= faults
  PROVE  (\A k \in Handlers : NoFaultInv(job[k]))'
  <1> DEFINE j == job[h]
  <1>1. j \in Job /\ JobInv(j) /\ NoFaultInv(j) /\ j.group = "none" /\ IInv
    BY JobFacts DEF IInvPush
  <1>2. PICK x : x = job'[h]
    OBVIOUS
  <1>3. x \in Job
    BY <1>2 DEF IInv, Typed
  <1>4. /\ UNCHANGED groups /\ EnrolKeeps /\ x.group = "none"
        /\ \A r \in rows' : r \in rows \/ r.owner \notin Groups
    BY <1>1, <1>2, PlainStep DEF NoFaultInv
  <1>5. SameGroup(x)'
    <2>1. ASSUME x.pc \in Enrolling \/ (x.pc \in Forking /\ course')
          PROVE  enrol'[x.user].status # "NONE" /\ x.enrollment.group = enrol'[x.user].group
      <3>1. /\ UNCHANGED <<enrol, course>>
            /\ x.user = j.user /\ x.enrollment.group = j.enrollment.group
            /\ j.pc \in Enrolling \union Forking \union {"createCourseRepo"}
        BY <1>1, <1>2, <2>1, ChainStep
      <3>2. j.pc = "createCourseRepo" => ~ course
        BY <1>1 DEF JobInv, CreateInv
      <3>3. j.pc \in Enrolling \/ (j.pc \in Forking /\ course)
        <4>1. x.pc \in Forking => course
          BY <2>1, <3>1 DEF Enrolling, Saving, Inviting, Invited, Forking
        <4>2. ~ course => j.pc \notin Enrolling /\ x.pc \notin Enrolling
          BY <1>1, <1>2, <1>3, <3>1, JobFacts DEF JobInv, CreateInv, Forking, Enrolling, Saving,
             Inviting, Invited, IInv
        <4>3. QED
          BY <2>1, <3>1, <3>2, <4>1, <4>2
      <3>4. QED
        BY <1>1, <3>1, <3>3 DEF NoFaultInv, SameGroup
    <2>2. QED
      BY <1>4, <2>1 DEF SameGroup
  <1>6. ASSUME faults' = 0
        PROVE  PushInv("none")'
    <2>1. faults = 0
      BY <1>1, <1>6 DEF IInv, Typed, TypeOK
    <2>2. PushInv("none")
      BY <1>1, <2>1 DEF NoFaultInv
    <2>3. j.pc # "updateGroupMembers"
      BY <1>1 DEF JobInv, GroupJobInv, Grouping
    <2>4. GHKeeps
      BY <1>1, <2>3, StepEffect, EffectKeeps
    <2>5. TypeOK
      BY <1>1 DEF IInv, Typed
    <2>6. QED
      BY <1>4, <2>2, <2>4, <2>5, PushKept
  <1>7. MembersInv(x)'
    BY <1>4 DEF MembersInv
  <1>8. NoFaultInv(x)'
    BY <1>4, <1>5, <1>6, <1>7 DEF NoFaultInv
  <1>9. QED
    BY <1>2, <1>8, NoFaultPrimed

-----------------------------------------------------------------------------
(* Approved groups: the steps of requests on a group.                      *)

\* The groups but b keep what they have, and those with a record were settled.
LEMMA PushOthers ==
  ASSUME TypeOK, NEW busy, NEW b, PushInv(busy),
         \A r \in rows' : r.owner \in Groups \ {b} => r \in rows /\ r.owner # busy,
         \A r \in rows : r.owner \in Groups \ {b} => \A n \in ReposByID(gh', r.id) :
             n \in ReposByID(gh, r.id) /\ gh.repos[n].users \subseteq gh'.repos[n].users,
         \A r \in rows, g \in Groups \ {b} : r.owner = g =>
             groups'[g] = groups[g] /\ \A u \in Users : enrol'[u].group = g => enrol[u].group = g
  PROVE  PushInv(b)'
  <1>1. ASSUME NEW r \in rows', r.owner \in Groups \ {b}, NEW n \in ReposByID(gh', r.id)
        PROVE  Settled(r.owner, n)'
    <2>1. PICK g \in Groups \ {b} : g = r.owner
      BY <1>1
    <2>2. r \in rows /\ g # busy
      BY <1>1, <2>1
    <2>3. n \in ReposByID(gh, r.id) /\ gh.repos[n].users \subseteq gh'.repos[n].users
      BY <1>1, <2>2
    <2>4. Settled(g, n)
      BY <2>1, <2>2, <2>3 DEF PushInv
    <2>5. groups'[g] = groups[g] /\ \A u \in Users : enrol'[u].group = g => enrol[u].group = g
      BY <2>1, <2>2
    <2>6. GetGroup(g)' \subseteq GetGroup(g)
      BY <2>5 DEF TypeOK, Group, GetGroup
    <2>7. Settled(g, n)'
      BY <2>3, <2>4, <2>5, <2>6 DEF Settled
    <2>8. QED
      BY <2>1, <2>7
  <1>2. QED
    BY <1>1 DEF PushInv

\* The end of a request, after a failure or with its group settled.
LEMMA EndPush ==
  ASSUME IInvPush, NEW h, Handlers = {h}, job' = [job EXCEPT ![h] = Idle],
         faults' # 0 \/ PushInv("none")'
  PROVE  (\A k \in Handlers : NoFaultInv(job[k]))'
  <1>1. Idle.pc = "idle" /\ Idle.group = "none"
    BY DEF Idle
  <1>2. job'[h] = Idle
    BY DEF IInvPush, IInv, Typed
  <1>3. SameGroup(Idle)' /\ MembersInv(Idle)'
    BY <1>1 DEF SameGroup, MembersInv, Enrolling, Saving, Inviting, Invited, Forking
  <1>4. NoFaultInv(Idle)'
    BY <1>1, <1>3 DEF NoFaultInv
  <1>5. QED
    BY <1>2, <1>4, NoFaultPrimed

\* A request on a group goes on with it.
LEMMA GoPush ==
  ASSUME IInvPush, NEW h, Handlers = {h}, NEW x, job' = [job EXCEPT ![h] = x],
         x.pc \notin {"idle", "CreateGroup"} \union Enrolling, x.group # "none",
         faults' = 0 => PushInv(x.group)' /\ MembersInv(x)'
  PROVE  (\A k \in Handlers : NoFaultInv(job[k]))'
  <1>1. job'[h] = x
    BY DEF IInvPush, IInv, Typed
  <1>2. SameGroup(x)'
    BY DEF SameGroup
  <1>3. NoFaultInv(x)'
    BY <1>2 DEF NoFaultInv
  <1>4. QED
    BY <1>1, <1>3, NoFaultPrimed

\* A request starts, or goes on, with a step that changes nothing else.
LEMMA LocalPush ==
  ASSUME IInvPush, NEW h, Handlers = {h}, NEW x, job' = [job EXCEPT ![h] = x],
         UNCHANGED <<course, enrol, groups, rows, gh, faults>>, NoFaultInv(x)
  PROVE  (\A k \in Handlers : NoFaultInv(job[k]))'
  <1>1. job'[h] = x
    BY DEF IInvPush, IInv, Typed
  <1>2. NoFaultInv(x)'
    BY DEF NoFaultInv, SameGroup, MembersInv, PushInv, Settled, GetGroup, getRepo, ReposByID
  <1>3. QED
    BY <1>1, <1>2, NoFaultPrimed

\* What is known of the request of the handler.
LEMMA PushFacts ==
  ASSUME IInvPush, NEW h, Handlers = {h}
  PROVE  /\ job[h] \in Job /\ JobInv(job[h]) /\ SameGroup(job[h])
         /\ faults = 0 => PushInv(job[h].group) /\ MembersInv(job[h])
         /\ IInv /\ TypeOK /\ faults \in Nat /\ "none" \notin Groups
  BY JobFacts, CourseAssumption DEF IInvPush, NoFaultInv, IInv, Typed, TypeOK

\* A call on behalf of the request fails, or does what it is for.
LEMMA CallPush ==
  ASSUME IInvPush, NEW h, Handlers = {h}, NEW x, NEW gh2, Call(h, x, gh2),
         (job' = [job EXCEPT ![h] = x] /\ gh' = gh2
            /\ UNCHANGED <<course, enrol, groups, rows, token, faults>>) =>
               (\A k \in Handlers : NoFaultInv(job[k]))'
  PROVE  (\A k \in Handlers : NoFaultInv(job[k]))'
  <1>1. UNCHANGED <<course, enrol, groups, rows, token>>
    BY DEF Call, db
  <1>2. CASE Fails(h)
    <2>1. faults \in Nat
      BY PushFacts
    <2>2. faults' = faults + 1 /\ job' = [job EXCEPT ![h] = Idle]
      BY <1>2 DEF Fails
    <2>3. faults' # 0
      BY <2>1, <2>2
    <2>4. QED
      BY <2>2, <2>3, EndPush
  <1>3. CASE job' = [job EXCEPT ![h] = x] /\ gh' = gh2 /\ UNCHANGED faults
    BY <1>1, <1>3
  <1>4. QED
    BY <1>2, <1>3 DEF Call

\* A request that starts with a call which changes nothing on GitHub.
LEMMA StartCallPush ==
  ASSUME IInvPush, NEW h, Handlers = {h}, NEW x, Call(h, x, gh), NoFaultInv(x)
  PROVE  (\A k \in Handlers : NoFaultInv(job[k]))'
  <1>1. (job' = [job EXCEPT ![h] = x] /\ gh' = gh
            /\ UNCHANGED <<course, enrol, groups, rows, token, faults>>) =>
               (\A k \in Handlers : NoFaultInv(job[k]))'
    BY LocalPush
  <1>2. QED
    BY <1>1, CallPush

\* The end of a request on a group that has no record.
LEMMA NoRecordPush ==
  ASSUME IInvPush, NEW h, Handlers = {h}, job' = [job EXCEPT ![h] = Idle],
         UNCHANGED <<groups, enrol, rows>>, GHKeeps, faults' = 0 => faults = 0,
         faults = 0 => getRepo(job[h].group) = {}
  PROVE  (\A k \in Handlers : NoFaultInv(job[k]))'
  <1>1. ASSUME faults' = 0
        PROVE  PushInv("none")'
    <2>1. PushInv(job[h].group) /\ getRepo(job[h].group) = {} /\ TypeOK
      BY <1>1, PushFacts
    <2>2. \A r \in rows' : r.owner \in Groups \ {"none"} => r \in rows /\ r.owner # job[h].group
      BY <2>1 DEF getRepo
    <2>3. PICK busy : busy = job[h].group
      OBVIOUS
    <2>4. QED
      BY <2>1, <2>2, <2>3, PushOthers DEF GHKeeps
  <1>2. QED
    BY <1>1, EndPush

\* Before the first request there is nothing to settle.
LEMMA InitPush == Init => IInvPush
  <1> SUFFICES ASSUME Init
               PROVE  IInvPush
    OBVIOUS
  <1>1. IInv
    BY InitIInv
  <1>2. Idle.pc = "idle" /\ Idle.group = "none" /\ \A h \in Handlers : job[h] = Idle
    BY DEF Init, Idle
  <1>3. PushInv("none")
    BY DEF Init, PushInv
  <1>4. SameGroup(Idle) /\ MembersInv(Idle)
    BY <1>2 DEF SameGroup, MembersInv, Enrolling, Saving, Inviting, Invited, Forking
  <1>5. QED
    BY <1>1, <1>2, <1>3, <1>4 DEF IInvPush, NoFaultInv

\* The requests on an enrollment, and those that create a course or a group, start.
LEMMA StartPlain ==
  ASSUME IInvPush, NEW h, Handlers = {h}, job[h].pc = "idle",
         \/ handleInstallationCreated(h)
         \/ \E u \in Users, to \in {"NONE", "STUDENT", "TEACHER"} : UpdateEnrollments(h, u, to)
         \/ \E u \in Users : UpdateCourseVisibility(h, u)
         \/ \E n \in GroupNames, m \in SUBSET Users : CreateGroup(h, n, m)
  PROVE  (\A k \in Handlers : NoFaultInv(job[k]))'
  <1>1. Idle.group = "none" /\ Idle \in Job
    BY IdleOK DEF Idle, IInvPush
  <1>2. job[h].group = "none" /\ (faults = 0 => PushInv("none"))
    BY PushFacts DEF SameGroup
  <1>3. ASSUME NEW x, x.group = "none", SameGroup(x)
        PROVE  NoFaultInv(x)
    BY <1>2, <1>3 DEF NoFaultInv, MembersInv
  <1>4. CASE handleInstallationCreated(h)
    <2> DEFINE x == [Idle EXCEPT !.pc = "createCourseRepo", !.todo = CourseRepos]
    <2>1. x.group = "none" /\ x.pc = "createCourseRepo"
      BY <1>1 DEF Job
    <2>2. Call(h, x, gh)
      BY <1>4 DEF handleInstallationCreated
    <2> HIDE DEF x
    <2>3. SameGroup(x)
      BY <2>1 DEF SameGroup, Enrolling, Saving, Inviting, Invited, Forking
    <2>4. NoFaultInv(x)
      BY <1>3, <2>1, <2>3
    <2>5. QED
      BY <2>2, <2>4, StartCallPush
  <1>5. ASSUME NEW u \in Users, NEW to \in {"NONE", "STUDENT", "TEACHER"},
               UpdateEnrollments(h, u, to)
        PROVE  (\A k \in Handlers : NoFaultInv(job[k]))'
    <2> DEFINE x == [Idle EXCEPT !.pc = "updateUserFromSCM", !.user = u, !.to = to,
                                 !.enrollment = enrol[u]]
    <2>1. x.group = "none" /\ x.pc = "updateUserFromSCM" /\ x.user = u /\ x.enrollment = enrol[u]
      BY <1>1 DEF Job
    <2>2. job' = [job EXCEPT ![h] = x] /\ UNCHANGED <<course, enrol, groups, rows, gh, faults>>
      BY <1>5 DEF UpdateEnrollments, Local, db
    <2>3. enrol[u].status # "NONE"
      BY <1>5 DEF UpdateEnrollments, updateEnrollment
    <2> HIDE DEF x
    <2>4. SameGroup(x)
      BY <2>1, <2>3 DEF SameGroup, Enrolling, Saving
    <2>5. NoFaultInv(x)
      BY <1>3, <2>1, <2>4
    <2>6. QED
      BY <2>2, <2>5, LocalPush
  <1>6. ASSUME NEW u \in Users, UpdateCourseVisibility(h, u)
        PROVE  (\A k \in Handlers : NoFaultInv(job[k]))'
    <2> DEFINE x == [Idle EXCEPT !.pc = "UpdateEnrollment", !.user = u, !.enrollment = enrol[u]]
    <2>1. x.group = "none" /\ x.pc = "UpdateEnrollment" /\ x.user = u /\ x.enrollment = enrol[u]
      BY <1>1 DEF Job
    <2>2. job' = [job EXCEPT ![h] = x] /\ UNCHANGED <<course, enrol, groups, rows, gh, faults>>
      BY <1>6 DEF UpdateCourseVisibility, Local, db
    <2>3. enrol[u].status # "NONE"
      BY <1>6 DEF UpdateCourseVisibility
    <2> HIDE DEF x
    <2>4. SameGroup(x)
      BY <2>1, <2>3 DEF SameGroup, Enrolling, Saving
    <2>5. NoFaultInv(x)
      BY <1>3, <2>1, <2>4
    <2>6. QED
      BY <2>2, <2>5, LocalPush
  <1>7. ASSUME NEW n \in GroupNames, NEW m \in SUBSET Users, CreateGroup(h, n, m)
        PROVE  (\A k \in Handlers : NoFaultInv(job[k]))'
    <2> DEFINE x == [Idle EXCEPT !.pc = "CreateGroup", !.name = n, !.users = m]
    <2>1. x.group = "none" /\ x.pc = "CreateGroup"
      BY <1>1 DEF Job
    <2>2. job' = [job EXCEPT ![h] = x] /\ UNCHANGED <<course, enrol, groups, rows, gh, faults>>
      BY <1>7 DEF CreateGroup, Local, db
    <2> HIDE DEF x
    <2>3. SameGroup(x)
      BY <2>1 DEF SameGroup, Enrolling, Saving, Inviting, Invited, Forking
    <2>4. NoFaultInv(x)
      BY <1>3, <2>1, <2>3
    <2>5. QED
      BY <2>2, <2>4, LocalPush
  <1>8. QED
    BY <1>4, <1>5, <1>6, <1>7

\* A teacher's request to approve or change a settled group, or a new one.
LEMMA StartUpdatePush ==
  ASSUME IInvPush, NEW h, Handlers = {h}, NEW g \in Groups, NEW n \in GroupNames,
         NEW m \in SUBSET Users, internalUpdateGroup(h, g, n, m)
  PROVE  (\A k \in Handlers : NoFaultInv(job[k]))'
  <1> DEFINE new == newGroup(g, n, m)
             to == IF ContainsAll(g, m) THEN "same" ELSE "changed"
             pc == IF getRepo(g) = {} THEN "createRepo"
                   ELSE IF ContainsAll(g, m) THEN "UpdateGroup" ELSE "updateGroupMembers"
             x == [Idle EXCEPT !.group = g, !.name = new.name, !.users = m, !.pc = pc, !.to = to,
                               !.todo = m]
  <1>1. Idle \in Job /\ g # "none" /\ IInv /\ job[h].group = "none"
        /\ (faults = 0 => PushInv("none"))
    BY IdleOK, PushFacts, CourseAssumption DEF IInvPush, SameGroup, internalUpdateGroup
  <1>2. Call(h, x, gh) /\ m \subseteq getGroupUsers(g)
    BY DEF internalUpdateGroup
  <1>3. groups[g].status = "APPROVED" => new.name = groups[g].name
    BY <1>1 DEF newGroup, IInv, Typed, TypeOK, Group
  <1>4. /\ pc \in {"createRepo", "UpdateGroup", "updateGroupMembers"}
        /\ pc = "createRepo" <=> getRepo(g) = {}
        /\ pc = "UpdateGroup" \/ to # "changed" => m = GetGroup(g) \/ getRepo(g) = {}
    BY DEF ContainsAll
  <1> HIDE DEF new, pc, to
  <1>5. x.pc = pc /\ x.group = g /\ x.name = new.name /\ x.todo = m /\ x.users = m /\ x.to = to
    BY <1>1 DEF Job
  <1> HIDE DEF x
  <1>6. \A u \in m : enrol[u].status # "NONE"
    BY <1>2 DEF getGroupUsers
  <1>7. ASSUME faults = 0
        PROVE  PushInv(g) /\ MembersInv(x)
    <2>1. PushInv("none") /\ "none" \notin Groups
      BY <1>1, <1>7, CourseAssumption
    <2>2. PushInv(g)
      BY <2>1 DEF PushInv
    <2>3. \A r \in getRepo(g) : \A k \in ReposByID(gh, r.id) : Settled(g, k)
      BY <2>1 DEF PushInv, getRepo
    <2>4. \A r \in getRepo(g) : \A k \in ReposByID(gh, r.id) :
              k = new.name /\ GetGroup(g) \subseteq gh.repos[k].users
      BY <1>3, <2>3 DEF Settled
    <2>5. MembersInv(x)
      BY <1>4, <1>5, <1>6, <2>4 DEF MembersInv, Forking, Grouping
    <2>6. QED
      BY <2>2, <2>5
  <1>8. SameGroup(x)
    BY <1>1, <1>4, <1>5 DEF SameGroup, Enrolling, Saving, Inviting, Invited, Forking
  <1>9. NoFaultInv(x)
    BY <1>5, <1>7, <1>8 DEF NoFaultInv
  <1>10. QED
    BY <1>2, <1>9, StartCallPush

\* A teacher's request to delete a group starts.
LEMMA StartDeletePush ==
  ASSUME IInvPush, NEW h, Handlers = {h}, NEW g \in Groups, internalDeleteGroup(h, g)
  PROVE  (\A k \in Handlers : NoFaultInv(job[k]))'
  <1> DEFINE x == [Idle EXCEPT !.pc = "DeleteGroup", !.group = g]
  <1>1. Idle \in Job /\ job[h].group = "none" /\ (faults = 0 => PushInv("none"))
    BY IdleOK, PushFacts DEF IInvPush, SameGroup, internalDeleteGroup
  <1>2. x.pc = "DeleteGroup" /\ x.group = g
    BY <1>1 DEF Job
  <1>3. job' = [job EXCEPT ![h] = x] /\ UNCHANGED <<course, enrol, groups, rows, gh, faults>>
    BY DEF internalDeleteGroup, Local, db
  <1> HIDE DEF x
  <1>4. faults = 0 => PushInv(g)
    BY <1>1, CourseAssumption DEF PushInv
  <1>5. SameGroup(x) /\ MembersInv(x)
    BY <1>2 DEF SameGroup, MembersInv, Enrolling, Saving, Inviting, Invited, Forking, Grouping
  <1>6. NoFaultInv(x)
    BY <1>2, <1>4, <1>5 DEF NoFaultInv
  <1>7. QED
    BY <1>3, <1>6, LocalPush

\* A new group takes the place of one without a record.
LEMMA NewGroupPush ==
  ASSUME IInvPush, NEW h, Handlers = {h}, dbCreateGroup(h)
  PROVE  (\A k \in Handlers : NoFaultInv(job[k]))'
  <1> DEFINE j == job[h]
  <1>1. j.pc = "CreateGroup" /\ j \in Job /\ j.group = "none" /\ IInv /\ TypeOK
        /\ (faults = 0 => PushInv("none"))
    BY PushFacts DEF dbCreateGroup, SameGroup
  <1>2. job' = [job EXCEPT ![h] = Idle] /\ UNCHANGED <<course, rows, token, gh, faults>>
    BY DEF dbCreateGroup, Return, Local
  <1>3. \/ UNCHANGED <<groups, enrol>>
        \/ \E g \in Groups :
              /\ groups[g].status = "NONE"
              /\ groups' = [groups EXCEPT ![g] = [name |-> j.name, status |-> "PENDING",
                                                  users |-> j.users]]
              /\ enrol' = [u \in Users |-> IF u \in j.users THEN [enrol[u] EXCEPT !.group = g]
                                           ELSE enrol[u]]
    BY Zenon DEF dbCreateGroup
  <1> HIDE DEF j
  <1>4. ASSUME faults' = 0
        PROVE  PushInv("none")'
    <2>1. PushInv("none")
      BY <1>1, <1>2, <1>4
    <2>2. \A r \in rows : \A n \in ReposByID(gh', r.id) : n \in ReposByID(gh, r.id)
             /\ gh.repos[n].users \subseteq gh'.repos[n].users
      BY <1>2
    <2>3. CASE UNCHANGED <<groups, enrol>>
      BY <1>2, <2>1, <2>3 DEF PushInv, Settled, GetGroup, ReposByID
    <2>4. ASSUME NEW g \in Groups, groups[g].status = "NONE",
                 groups' = [groups EXCEPT ![g] = [name |-> j.name, status |-> "PENDING",
                                                  users |-> j.users]],
                 enrol' = [u \in Users |-> IF u \in j.users THEN [enrol[u] EXCEPT !.group = g]
                                           ELSE enrol[u]]
          PROVE  PushInv("none")'
      <3>1. \A r \in rows : r.owner # g
        <4>1. ASSUME NEW r \in rows, r.owner = g
              PROVE  FALSE
          <5>1. PICK n \in ReposByID(gh, r.id) : TRUE
            BY <1>1 DEF IInv, DBInv, RowInv, ReposByID
          <5>2. Settled(r.owner, n)
            BY <2>1, <4>1, <5>1, CourseAssumption DEF PushInv
          <5>3. QED
            BY <2>4, <4>1, <5>2 DEF Settled
        <4>2. QED
          BY <4>1
      <3>2. \A k \in Groups : k # g =>
               groups'[k] = groups[k] /\ \A u \in Users : enrol'[u].group = k => enrol[u].group = k
        BY <1>1, <2>4 DEF TypeOK, Enrollment
      <3>3. \A r \in rows' : r.owner \in Groups \ {"none"} => r \in rows /\ r.owner # "none"
        BY <1>2
      <3>4. \A r \in rows, k \in Groups \ {"none"} : r.owner = k =>
               groups'[k] = groups[k] /\ \A u \in Users : enrol'[u].group = k => enrol[u].group = k
        BY <3>1, <3>2
      <3>5. QED
        BY <1>1, <2>1, <2>2, <3>3, <3>4, PushOthers
    <2>5. QED
      BY <1>3, <2>3, <2>4
  <1>5. QED
    BY <1>2, <1>4, EndPush

\* The organization is asked for a repository of the group's name.
LEMMA CreateRepoPush ==
  ASSUME IInvPush, NEW h, Handlers = {h}, createRepo(h), job[h].group # "none"
  PROVE  (\A k \in Handlers : NoFaultInv(job[k]))'
  <1> DEFINE j == job[h]
             x == [j EXCEPT !.pc = "createForkedRepo"]
  <1>1. j.pc = "createRepo" /\ j \in Job /\ (faults = 0 => PushInv(j.group) /\ MembersInv(j))
    BY PushFacts DEF createRepo
  <1>2. CASE Return(h) /\ UNCHANGED <<db, token>>
    <2>1. GHKeeps /\ UNCHANGED <<groups, enrol, rows>> /\ job' = [job EXCEPT ![h] = Idle]
          /\ (faults' = 0 => faults = 0)
      BY <1>2 DEF Return, Local, GHKeeps, db
    <2>2. faults = 0 => getRepo(j.group) = {}
      BY <1>1 DEF MembersInv
    <2>3. QED
      BY <2>1, <2>2, NoRecordPush
  <1>3. CASE Call(h, x, gh)
    <2>1. /\ x.pc = "createForkedRepo" /\ x.group = j.group /\ x.users = j.users
          /\ x.todo = j.todo
      BY <1>1 DEF Job
    <2> HIDE DEF x, j
    <2>2. faults = 0 => PushInv(x.group) /\ MembersInv(x)
      BY <1>1, <2>1 DEF MembersInv, Forking, Grouping
    <2>3. SameGroup(x)
      BY <2>1 DEF SameGroup, Enrolling, Saving, Inviting, Invited, Forking, j
    <2>4. NoFaultInv(x)
      BY <2>2, <2>3 DEF NoFaultInv
    <2>5. QED
      BY <1>3, <2>4, StartCallPush
  <1>4. QED
    BY <1>2, <1>3 DEF createRepo

\* What a step that leaves the database alone does not change.
LEMMA SameDBPush ==
  ASSUME IInvPush, NEW h, Handlers = {h}, UNCHANGED <<course, enrol, groups, rows, faults>>,
         GHKeeps, faults' = 0, NEW b, b = job[h].group
  PROVE  PushInv(b)'
  <1>1. PushInv(b) /\ TypeOK
    BY PushFacts
  <1>2. EnrolKeeps /\ \A r \in rows' : r \in rows \/ r.owner \notin Groups \ {b}
    BY DEF EnrolKeeps
  <1>3. QED
    BY <1>1, <1>2, PushKept

\* The group's repository is new: its members are yet to be added.
LEMMA ForkPush ==
  ASSUME IInvPush, OneHandler, NEW h, Handlers = {h}, createForkedRepo(h), job[h].group # "none"
  PROVE  (\A k \in Handlers : NoFaultInv(job[k]))'
  <1> DEFINE j == job[h]
             x == [j EXCEPT !.pc = "addUser", !.id = NewID(j.name)]
  <1>1. j.pc = "createForkedRepo" /\ j \in Job /\ JobInv(j) /\ IInv /\ faults \in Nat
        /\ (faults = 0 => PushInv(j.group) /\ MembersInv(j))
    BY PushFacts DEF createForkedRepo
  <1>2. ~ HasRepo(gh, j.name) /\ j.name \in Names
    BY <1>1 DEF JobInv, GroupJobInv, Forking, Names
  <1>3. UNCHANGED <<course, enrol, groups, rows, token>>
    BY DEF createForkedRepo, db
  <1>4. CASE waitForRepository(h, j.name)
    <2>1. job' = [job EXCEPT ![h] = Idle] /\ faults' = faults + 1
      BY <1>4 DEF waitForRepository, Fails
    <2>2. faults' # 0
      BY <1>1, <2>1
    <2>3. QED
      BY <2>1, <2>2, EndPush
  <1>5. CASE /\ gh' = PostFork(gh, j.name, NewID(j.name))
             /\ job' = [job EXCEPT ![h] = x] /\ UNCHANGED faults
    <2>1. x.pc = "addUser" /\ x.group = j.group /\ x.users = j.users /\ x.todo = j.todo
      BY <1>1 DEF Job
    <2>2. GHKeeps
      BY <1>1, <1>2, <1>5, EffectKeeps DEF GHEffect, PostFork
    <2>3. PICK y : y = x /\ y.pc = "addUser" /\ y.group = j.group /\ y.users = j.users
                   /\ y.todo = j.todo
      BY <2>1
    <2>4. faults' = 0 => PushInv(y.group)'
      BY <1>3, <1>5, <2>2, <2>3, SameDBPush
    <2> HIDE DEF x, j
    <2>5. getRepo(y.group)' = getRepo(j.group)
      BY <1>3, <2>3 DEF getRepo
    <2>6. faults' = 0 => MembersInv(y)'
      BY <1>1, <1>3, <1>5, <2>3, <2>5 DEF MembersInv, Forking, Grouping
    <2>7. y.pc \notin {"idle", "CreateGroup"} \union Enrolling /\ y.group # "none"
      BY <2>3 DEF Enrolling, Saving, Inviting, Invited, j
    <2>8. QED
      BY <1>5, <2>3, <2>4, <2>6, <2>7, GoPush
  <1>6. QED
    BY <1>2, <1>4, <1>5 DEF createForkedRepo

\* A collaborator is added.
LEMMA PutFacts ==
  ASSUME IInvPush, OneHandler, NEW u \in Users, NEW n \in DOMAIN gh.repos,
         gh' = PutCollaborator(gh, n, u)
  PROVE  GHKeeps /\ gh'.repos[n].users = gh.repos[n].users \union {u}
  <1>1. IInv /\ GHTyped
    BY DEF IInvPush, IInv, Typed
  <1>2. GHKeeps
    BY <1>1, EffectKeeps DEF GHEffect
  <1>3. gh'.repos = [gh.repos EXCEPT ![n].users = @ \union {u}]
    BY <1>1 DEF PutCollaborator, GHTyped
  <1>4. [gh.repos EXCEPT ![n].users = @ \union {u}][n].users = gh.repos[n].users \union {u}
    BY <1>1 DEF GHTyped, Repo
  <1>5. QED
    BY <1>2, <1>3, <1>4

\* The members get access to the group's new repository.
LEMMA AddUserPush ==
  ASSUME IInvPush, OneHandler, NEW h, Handlers = {h}, addUser(h), job[h].group # "none"
  PROVE  (\A k \in Handlers : NoFaultInv(job[k]))'
  <1> DEFINE j == job[h]
             z == [j EXCEPT !.pc = "CreateRepository"]
  <1>1. j.pc = "addUser" /\ j \in Job /\ JobInv(j)
        /\ (faults = 0 => PushInv(j.group) /\ MembersInv(j))
    BY PushFacts DEF addUser
  <1>2. j.todo \subseteq Users /\ j.name \in DOMAIN gh.repos
    BY <1>1 DEF JobInv, ForkInv, Forking
  <1>3. ASSUME NEW u \in j.todo,
               Call(h, [j EXCEPT !.todo = @ \ {u}], PutCollaborator(gh, j.name, u))
        PROVE  (\A k \in Handlers : NoFaultInv(job[k]))'
    <2> DEFINE x == [j EXCEPT !.todo = @ \ {u}]
    <2>1. x.pc = "addUser" /\ x.group = j.group /\ x.users = j.users /\ x.name = j.name
          /\ x.todo = j.todo \ {u}
      BY <1>1 DEF Job
    <2>2. PICK y : y = x /\ y.pc = "addUser" /\ y.group = j.group /\ y.users = j.users
                   /\ y.name = j.name /\ y.todo = j.todo \ {u}
      BY <2>1
    <2>3. ASSUME job' = [job EXCEPT ![h] = y], gh' = PutCollaborator(gh, j.name, u),
                 UNCHANGED <<course, enrol, groups, rows, token, faults>>
          PROVE  (\A k \in Handlers : NoFaultInv(job[k]))'
      <3>1. GHKeeps /\ gh'.repos[j.name].users = gh.repos[j.name].users \union {u}
        BY <1>2, <2>3, PutFacts
      <3>2. faults' = 0 => PushInv(y.group)'
        BY <2>2, <2>3, <3>1, SameDBPush
      <3> HIDE DEF x, j
      <3>3. getRepo(y.group)' = getRepo(j.group)
        BY <2>2, <2>3 DEF getRepo
      <3>4. faults' = 0 => MembersInv(y)'
        BY <1>1, <2>2, <2>3, <3>1, <3>3 DEF MembersInv, Forking, Grouping
      <3>5. y.pc \notin {"idle", "CreateGroup"} \union Enrolling /\ y.group # "none"
        BY <2>2 DEF Enrolling, Saving, Inviting, Invited, j
      <3>6. QED
        BY <2>2, <2>3, <3>2, <3>4, <3>5, GoPush
    <2>4. Call(h, y, PutCollaborator(gh, j.name, u))
      BY <1>3, <2>2
    <2>5. PICK gh2 : gh2 = PutCollaborator(gh, j.name, u)
      OBVIOUS
    <2> HIDE DEF x, j
    <2>6. QED
      BY <2>3, <2>4, <2>5, CallPush
  <1>4. CASE j.todo = {} /\ Local(h, z) /\ UNCHANGED <<db, token>>
    <2>1. z.pc = "CreateRepository" /\ z.group = j.group /\ z.users = j.users /\ z.name = j.name
      BY <1>1 DEF Job
    <2>2. job' = [job EXCEPT ![h] = z] /\ UNCHANGED <<course, enrol, groups, rows, gh, faults>>
      BY <1>4 DEF Local, db
    <2> HIDE DEF z, j
    <2>3. faults = 0 => PushInv(z.group) /\ MembersInv(z)
      BY <1>1, <1>4, <2>1 DEF MembersInv, Forking, Grouping
    <2>4. SameGroup(z)
      BY <2>1 DEF SameGroup, Enrolling, Saving, Inviting, Invited, Forking, j
    <2>5. NoFaultInv(z)
      BY <2>3, <2>4 DEF NoFaultInv
    <2>6. QED
      BY <2>2, <2>5, LocalPush
  <1>5. QED
    BY <1>3, <1>4 DEF addUser

\* The record of the group's repository.
LEMMA RecordPush ==
  ASSUME IInvPush, NEW h, Handlers = {h}, CreateRepository(h), job[h].group # "none"
  PROVE  (\A k \in Handlers : NoFaultInv(job[k]))'
  <1> DEFINE j == job[h]
             x == [j EXCEPT !.pc = "updateGroupMembers", !.todo = j.users]
             new == [owner |-> j.group, id |-> j.id]
  <1>1. j.pc = "CreateRepository" /\ j \in Job /\ JobInv(j) /\ IInv /\ TypeOK
        /\ (faults = 0 => PushInv(j.group) /\ MembersInv(j))
    BY PushFacts DEF CreateRepository
  <1>2. /\ getRepo(j.group) = {} /\ rows' = rows \union {new} /\ job' = [job EXCEPT ![h] = x]
        /\ UNCHANGED <<course, enrol, groups, token, gh, faults>>
    BY DEF CreateRepository, AddRepository, Local
  <1>3. x.pc = "updateGroupMembers" /\ x.group = j.group /\ x.users = j.users
        /\ x.name = j.name /\ x.todo = j.users
    BY <1>1 DEF Job
  <1>4. j.name \in DOMAIN gh.repos /\ gh.repos[j.name].id = j.id
    BY <1>1 DEF JobInv, ForkInv
  <1>5. new.owner = j.group /\ new.id = j.id
    OBVIOUS
  <1>6. PICK y : y = x /\ y.pc = "updateGroupMembers" /\ y.group = j.group /\ y.users = j.users
                 /\ y.name = j.name /\ y.todo = j.users
    BY <1>3
  <1> HIDE DEF x, new
  <1>7. ASSUME faults' = 0
        PROVE  PushInv(y.group)'
    <2>1. PushInv(y.group)
      BY <1>1, <1>2, <1>6, <1>7
    <2>2. GHKeeps /\ EnrolKeeps
      BY <1>2 DEF GHKeeps, EnrolKeeps
    <2>3. \A r \in rows' : r \in rows \/ r.owner \notin Groups \ {y.group}
      BY <1>2, <1>5, <1>6
    <2>4. QED
      BY <1>1, <1>2, <2>1, <2>2, <2>3, PushKept
  <1>8. ASSUME faults' = 0
        PROVE  MembersInv(y)'
    <2>1. \A r \in getRepo(y.group)' : r = new
      BY <1>2, <1>6 DEF getRepo
    <2>2. \A n \in ReposByID(gh, j.id) : n = j.name
      BY <1>1, <1>4 DEF IInv, DBInv, IDsApart, ReposByID
    <2>3. \A r \in getRepo(y.group)' : \A n \in ReposByID(gh', r.id) : n = j.name
      BY <1>2, <1>5, <2>1, <2>2
    <2>4. /\ \A u \in j.users : enrol[u].status # "NONE"
          /\ j.users \subseteq gh.repos[j.name].users
      BY <1>1, <1>2, <1>8 DEF MembersInv, Forking
    <2>5. getRepo(y.group)' = {r \in rows' : r.owner = y.group}
      BY DEF getRepo
    <2> HIDE DEF j
    <2>6. QED
      BY <1>2, <1>6, <2>3, <2>4, <2>5 DEF MembersInv, Forking, Grouping, getRepo
  <1>9. y.pc \notin {"idle", "CreateGroup"} \union Enrolling /\ y.group # "none"
    BY <1>6 DEF Enrolling, Saving, Inviting, Invited
  <1>10. QED
    BY <1>2, <1>6, <1>7, <1>8, <1>9, GoPush

\* The access of the members changes, that of others is revoked.
LEMMA MembersPush ==
  ASSUME IInvPush, OneHandler, NEW h, Handlers = {h}, UpdateGroupMembers(h)
  PROVE  (\A k \in Handlers : NoFaultInv(job[k]))'
  <1> DEFINE j == job[h]
             z == [j EXCEPT !.pc = "UpdateGroup"]
  <1>1. j.pc = "updateGroupMembers" /\ j \in Job /\ JobInv(j) /\ IInv /\ TypeOK
        /\ (faults = 0 => PushInv(j.group) /\ MembersInv(j))
    BY PushFacts DEF UpdateGroupMembers
  <1>2. j.group # "none" /\ j.todo \subseteq Users /\ getRepo(j.group) # {}
    BY <1>1 DEF JobInv, GroupJobInv, ForkInv, Grouping
  <1>3. PICK row \in getRepo(j.group) : row \in rows /\ row.owner = j.group
    BY <1>2 DEF getRepo
  <1>4. ReposByID(gh, row.id) # {}
    BY <1>1, <1>3 DEF IInv, DBInv, RowInv, ReposByID
  <1>5. ASSUME faults = 0
        PROVE  j.name \in ReposByID(gh, row.id)
    BY <1>1, <1>2, <1>3, <1>4, <1>5 DEF MembersInv
  <1>6. ASSUME NEW y, job' = [job EXCEPT ![h] = y], y.pc = "updateGroupMembers",
               y.group = j.group, y.users = j.users, y.name = j.name, y.to = "changed",
               UNCHANGED <<course, enrol, groups, rows, faults>>,
               faults' = 0 => PushInv(y.group)',
               faults' = 0 => \A n \in ReposByID(gh', row.id) :
                   n = j.name /\ j.users \ y.todo \subseteq gh'.repos[n].users
        PROVE  (\A k \in Handlers : NoFaultInv(job[k]))'
    <2>1. ASSUME faults' = 0
          PROVE  MembersInv(y)'
      <3>1. \A r \in getRepo(y.group)' : r = row
        BY <1>1, <1>3, <1>6 DEF getRepo, TypeOK
      <3>2. \A u \in j.users : enrol[u].status # "NONE"
        BY <1>1, <1>2, <1>6, <2>1 DEF MembersInv, Grouping
      <3>3. \A r \in getRepo(y.group)' : \A n \in ReposByID(gh', r.id) :
                n = j.name /\ j.users \ y.todo \subseteq gh'.repos[n].users
        BY <1>6, <2>1, <3>1
      <3> HIDE DEF j
      <3>4. QED
        BY <1>6, <3>2, <3>3 DEF MembersInv, Forking
    <2>2. y.pc \notin {"idle", "CreateGroup"} \union Enrolling /\ y.group # "none"
      BY <1>2, <1>6 DEF Enrolling, Saving, Inviting, Invited
    <2>3. QED
      BY <1>6, <2>1, <2>2, GoPush
  <1>7. CASE ~ HasRepo(gh, j.name) /\ Return(h) /\ UNCHANGED <<db, token>>
    <2>1. faults # 0
      BY <1>5, <1>7 DEF HasRepo, ReposByID
    <2>2. faults' # 0 /\ job' = [job EXCEPT ![h] = Idle]
      BY <1>7, <2>1 DEF Return, Local
    <2>3. QED
      BY <2>2, EndPush
  <1>8. ASSUME j.to = "changed", HasRepo(gh, j.name), NEW u \in j.todo,
               Call(h, [j EXCEPT !.todo = @ \ {u}], PutCollaborator(gh, j.name, u))
        PROVE  (\A k \in Handlers : NoFaultInv(job[k]))'
    <2> DEFINE x == [j EXCEPT !.todo = @ \ {u}]
    <2>1. x.pc = j.pc /\ x.group = j.group /\ x.users = j.users /\ x.name = j.name
          /\ x.to = j.to /\ x.todo = j.todo \ {u}
      BY <1>1 DEF Job
    <2>2. PICK y : y = x /\ y.pc = "updateGroupMembers" /\ y.group = j.group
                   /\ y.users = j.users /\ y.name = j.name /\ y.to = "changed"
                   /\ y.todo = j.todo \ {u}
      BY <1>1, <1>8, <2>1
    <2>3. ASSUME job' = [job EXCEPT ![h] = y], gh' = PutCollaborator(gh, j.name, u),
                 UNCHANGED <<course, enrol, groups, rows, token, faults>>
          PROVE  (\A k \in Handlers : NoFaultInv(job[k]))'
      <3>1. GHKeeps /\ gh'.repos[j.name].users = gh.repos[j.name].users \union {u}
        BY <1>2, <1>8, <2>3, PutFacts DEF HasRepo
      <3>2. faults' = 0 => PushInv(y.group)'
        BY <2>2, <2>3, <3>1, SameDBPush
      <3>3. ASSUME faults' = 0, NEW n \in ReposByID(gh', row.id)
            PROVE  n = j.name /\ j.users \ y.todo \subseteq gh'.repos[n].users
        <4>1. n \in ReposByID(gh, row.id)
          BY <1>3, <3>1 DEF GHKeeps
        <4>2. MembersInv(j)
          BY <1>1, <2>3, <3>3
        <4>3. n = j.name /\ j.users \ j.todo \subseteq gh.repos[n].users
          BY <1>1, <1>2, <1>3, <4>1, <4>2 DEF MembersInv
        <4>4. QED
          BY <2>2, <3>1, <4>3
      <3>4. QED
        BY <1>6, <2>2, <2>3, <3>2, <3>3
    <2>4. Call(h, y, PutCollaborator(gh, j.name, u))
      BY <1>8, <2>2
    <2>5. PICK gh2 : gh2 = PutCollaborator(gh, j.name, u)
      OBVIOUS
    <2> HIDE DEF x, j
    <2>6. QED
      BY <2>3, <2>4, <2>5, CallPush
  <1>9. ASSUME j.to = "changed", HasRepo(gh, j.name), NEW u \in gh.repos[j.name].users \ j.users,
               Call(h, j, DeleteCollaborator(gh, j.name, u))
        PROVE  (\A k \in Handlers : NoFaultInv(job[k]))'
    <2>1. PICK y : y = j
      OBVIOUS
    <2>2. ASSUME job' = [job EXCEPT ![h] = y], gh' = DeleteCollaborator(gh, j.name, u),
                 UNCHANGED <<course, enrol, groups, rows, token, faults>>
          PROVE  (\A k \in Handlers : NoFaultInv(job[k]))'
      <3> DEFINE R == [gh.repos EXCEPT ![j.name].users = @ \ {u}]
      <3>1. gh'.repos = R
        BY <1>1, <2>2 DEF DeleteCollaborator, IInv, Typed, GHTyped
      <3>2. /\ DOMAIN R = DOMAIN gh.repos
            /\ \A n \in DOMAIN R : R[n].id = gh.repos[n].id
            /\ \A n \in DOMAIN R : n # j.name => R[n].users = gh.repos[n].users
            /\ \A n \in DOMAIN R : gh.repos[n].users \ {u} \subseteq R[n].users
        BY <1>1 DEF IInv, Typed, GHTyped, Repo
      <3> HIDE DEF R
      <3>3. \A r \in rows : ReposByID(gh', r.id) = ReposByID(gh, r.id)
        BY <3>1, <3>2 DEF ReposByID
      <3>4. ASSUME faults' = 0, NEW r \in rows, r.owner # j.group, NEW n \in ReposByID(gh', r.id)
            PROVE  n \in ReposByID(gh, r.id) /\ gh.repos[n].users \subseteq gh'.repos[n].users
        <4>1. n \in ReposByID(gh, r.id)
          BY <3>3
        <4>2. n # j.name
          BY <1>1, <1>3, <1>5, <2>2, <3>4, <4>1 DEF IInv, DBInv, IDsApart, ReposByID
        <4>3. QED
          BY <3>1, <3>2, <4>1, <4>2 DEF ReposByID
      <3>5. ASSUME faults' = 0
            PROVE  PushInv(y.group)'
        <4>1. PushInv(y.group)
          BY <1>1, <2>1, <2>2, <3>5
        <4>2. \A r \in rows' : r.owner \in Groups \ {y.group} => r \in rows /\ r.owner # y.group
          BY <2>2
        <4>3. \A r \in rows : r.owner \in Groups \ {y.group} => \A n \in ReposByID(gh', r.id) :
                  n \in ReposByID(gh, r.id) /\ gh.repos[n].users \subseteq gh'.repos[n].users
          BY <2>1, <3>4, <3>5
        <4>4. \A r \in rows, g \in Groups \ {y.group} : r.owner = g =>
                 groups'[g] = groups[g] /\ \A v \in Users : enrol'[v].group = g => enrol[v].group = g
          BY <2>2
        <4>5. QED
          BY <1>1, <4>1, <4>2, <4>3, <4>4, PushOthers
      <3>6. ASSUME faults' = 0, NEW n \in ReposByID(gh', row.id)
            PROVE  n = j.name /\ j.users \ y.todo \subseteq gh'.repos[n].users
        <4>1. n \in ReposByID(gh, row.id)
          BY <1>3, <3>3
        <4>2. MembersInv(j)
          BY <1>1, <2>2, <3>6
        <4>3. n = j.name /\ j.users \ j.todo \subseteq gh.repos[n].users
          BY <1>1, <1>2, <1>3, <4>1, <4>2 DEF MembersInv
        <4>4. gh.repos[n].users \ {u} \subseteq gh'.repos[n].users
          BY <3>1, <3>2, <4>1 DEF ReposByID
        <4>5. QED
          BY <1>9, <2>1, <4>3, <4>4
      <3>7. QED
        BY <1>1, <1>6, <1>9, <2>1, <2>2, <3>5, <3>6
    <2>3. Call(h, y, DeleteCollaborator(gh, j.name, u))
      BY <1>9, <2>1
    <2>4. PICK gh2 : gh2 = DeleteCollaborator(gh, j.name, u)
      OBVIOUS
    <2> HIDE DEF j
    <2>5. QED
      BY <2>2, <2>3, <2>4, CallPush
  <1>10. CASE /\ Local(h, z) /\ UNCHANGED <<db, token>>
              /\ \/ j.to = "same"
                 \/ j.todo = {} /\ gh.repos[j.name].users \ j.users = {}
    <2>1. z.pc = "UpdateGroup" /\ z.group = j.group /\ z.users = j.users /\ z.name = j.name
          /\ z.todo = j.todo
      BY <1>1 DEF Job
    <2>2. job' = [job EXCEPT ![h] = z] /\ UNCHANGED <<course, enrol, groups, rows, gh, faults>>
      BY <1>10 DEF Local, db
    <2> HIDE DEF z, j
    <2>3. ASSUME faults = 0
          PROVE  MembersInv(z)
      <3>1. MembersInv(j)
        BY <1>1, <2>3
      <3>2. \A r \in getRepo(j.group) : \A n \in ReposByID(gh, r.id) :
               n = j.name /\ j.users \ j.todo \subseteq gh.repos[n].users
               /\ j.users \subseteq gh.repos[n].users
        BY <1>1, <1>2, <1>10, <3>1 DEF MembersInv
      <3>3. \A u \in j.users : enrol[u].status # "NONE"
        BY <1>1, <1>2, <3>1 DEF MembersInv, Grouping
      <3>4. QED
        BY <2>1, <3>2, <3>3 DEF MembersInv, Forking
    <2>4. SameGroup(z)
      BY <2>1 DEF SameGroup, Enrolling, Saving, Inviting, Invited, Forking
    <2>5. NoFaultInv(z)
      BY <1>1, <2>1, <2>3, <2>4 DEF NoFaultInv
    <2>6. QED
      BY <2>2, <2>5, LocalPush
  <1>11. QED
    BY <1>7, <1>8, <1>9, <1>10 DEF UpdateGroupMembers

\* The group is settled when its record is saved.
LEMMA SaveGroupPush ==
  ASSUME IInvPush, NEW h, Handlers = {h}, UpdateGroup(h)
  PROVE  (\A k \in Handlers : NoFaultInv(job[k]))'
  <1> DEFINE j == job[h]
             new == [name |-> j.name, status |-> "APPROVED", users |-> j.users]
  <1>1. j.pc = "UpdateGroup" /\ j \in Job /\ JobInv(j) /\ IInv /\ TypeOK
        /\ (faults = 0 => PushInv(j.group) /\ MembersInv(j))
    BY PushFacts DEF UpdateGroup
  <1>2. job' = [job EXCEPT ![h] = Idle] /\ UNCHANGED <<course, rows, token, gh, faults>>
    BY DEF UpdateGroup, Return, Local
  <1>3. j.group \in Groups /\ j.users \subseteq Users
    BY <1>1 DEF JobInv, GroupJobInv, Grouping, Job
  <1>4. ASSUME faults' = 0
        PROVE  PushInv("none")'
    <2>1. PushInv(j.group) /\ MembersInv(j) /\ j.group # "none"
      BY <1>1, <1>2, <1>4 DEF JobInv, GroupJobInv, Grouping
    <2>2. \A u \in j.users : enrol[u].status # "NONE"
      BY <1>1, <2>1 DEF MembersInv, Grouping
    <2>3. /\ groups' = [groups EXCEPT ![j.group] = new]
          /\ enrol' = [u \in Users |->
                          IF u \in j.users THEN [enrol[u] EXCEPT !.group = j.group]
                          ELSE IF enrol[u].group = j.group THEN [enrol[u] EXCEPT !.group = "none"]
                          ELSE enrol[u]]
      BY <2>2, Zenon DEF UpdateGroup
    <2>4. groups'[j.group] = new /\ \A g \in Groups : g # j.group => groups'[g] = groups[g]
      BY <1>1, <1>3, <2>3 DEF TypeOK
    <2>5. \A u \in Users : enrol'[u].group = enrol[u].group \/ enrol'[u].group \in {j.group, "none"}
      BY <1>1, <2>3 DEF TypeOK, Enrollment
    <2>6. PICK b : b = j.group
      OBVIOUS
    <2>7. PushInv(b)'
      <3>1. \A r \in rows' : r.owner \in Groups \ {b} => r \in rows /\ r.owner # b
        BY <1>2
      <3>2. \A r \in rows : r.owner \in Groups \ {b} => \A n \in ReposByID(gh', r.id) :
               n \in ReposByID(gh, r.id) /\ gh.repos[n].users \subseteq gh'.repos[n].users
        BY <1>2
      <3>3. \A r \in rows, g \in Groups \ {b} : r.owner = g =>
               groups'[g] = groups[g] /\ \A u \in Users : enrol'[u].group = g => enrol[u].group = g
        BY <2>4, <2>5, <2>6, CourseAssumption
      <3>4. QED
        BY <1>1, <2>1, <2>6, <3>1, <3>2, <3>3, PushOthers
    <2>8. ASSUME NEW r \in rows', r.owner = b, NEW n \in ReposByID(gh', r.id)
          PROVE  Settled(b, n)'
      <3>1. r \in getRepo(j.group) /\ n \in ReposByID(gh, r.id)
        BY <1>2, <2>6, <2>8 DEF getRepo
      <3>2. n = j.name /\ j.users \subseteq gh.repos[n].users
        BY <1>1, <2>1, <3>1 DEF MembersInv
      <3>3. groups'[b].status = "APPROVED" /\ groups'[b].name = j.name /\ groups'[b].users = j.users
        BY <2>4, <2>6
      <3>4. GetGroup(b)' \subseteq j.users
        BY <3>3 DEF GetGroup
      <3>5. QED
        BY <1>2, <3>2, <3>3, <3>4 DEF Settled
    <2>9. QED
      BY <2>7, <2>8 DEF PushInv
  <1>5. QED
    BY <1>2, <1>4, EndPush

\* A group without a record of its repository, or one that is about to lose it.
LEMMA DeleteGroupPush ==
  ASSUME IInvPush, NEW h, Handlers = {h}, DeleteGroup(h)
  PROVE  (\A k \in Handlers : NoFaultInv(job[k]))'
  <1> DEFINE j == job[h]
             x == [j EXCEPT !.pc = "DeleteRepository"]
  <1>1. j.pc = "DeleteGroup" /\ j \in Job /\ JobInv(j) /\ IInv /\ TypeOK
        /\ (faults = 0 => PushInv(j.group) /\ MembersInv(j))
    BY PushFacts DEF DeleteGroup
  <1>2. /\ groups' = [groups EXCEPT ![j.group] = NoGroup]
        /\ enrol' = [u \in Users |-> IF enrol[u].group = j.group
                                     THEN [enrol[u] EXCEPT !.group = "none"] ELSE enrol[u]]
        /\ job' = [job EXCEPT ![h] = x]
        /\ UNCHANGED <<course, rows, token, gh, faults>>
    BY DEF DeleteGroup, Local
  <1>3. x.pc = "DeleteRepository" /\ x.group = j.group /\ j.group \in Groups
    BY <1>1 DEF Job, JobInv, GroupJobInv
  <1>4. PICK y : y = x /\ y.pc = "DeleteRepository" /\ y.group = j.group /\ y.group \in Groups
    BY <1>3
  <1>5. ASSUME faults' = 0
        PROVE  PushInv(y.group)'
    <2>1. PushInv(y.group)
      BY <1>1, <1>2, <1>4, <1>5
    <2>2. \A r \in rows' : r.owner \in Groups \ {y.group} => r \in rows /\ r.owner # y.group
      BY <1>2
    <2>3. \A r \in rows : r.owner \in Groups \ {y.group} => \A n \in ReposByID(gh', r.id) :
             n \in ReposByID(gh, r.id) /\ gh.repos[n].users \subseteq gh'.repos[n].users
      BY <1>2
    <2>4. \A g \in Groups : g # y.group => groups'[g] = groups[g]
      BY <1>1, <1>2, <1>4 DEF TypeOK
    <2>5. \A u \in Users : enrol'[u].group \in {enrol[u].group, "none"}
      BY <1>1, <1>2 DEF TypeOK, Enrollment
    <2>6. \A r \in rows, g \in Groups \ {y.group} : r.owner = g =>
             groups'[g] = groups[g] /\ \A u \in Users : enrol'[u].group = g => enrol[u].group = g
      BY <2>4, <2>5, CourseAssumption
    <2>7. QED
      BY <1>1, <2>1, <2>2, <2>3, <2>6, PushOthers
  <1>6. MembersInv(y)'
    BY <1>4 DEF MembersInv, Forking, Grouping
  <1>7. y.pc \notin {"idle", "CreateGroup"} \union Enrolling /\ y.group # "none"
    BY <1>4, CourseAssumption DEF Enrolling, Saving, Inviting, Invited
  <1>8. QED
    BY <1>2, <1>4, <1>5, <1>6, <1>7, GoPush

\* The record of the deleted group's repository goes ...
LEMMA DeleteRecordPush ==
  ASSUME IInvPush, NEW h, Handlers = {h}, DeleteRepository(h), job[h].group # "none"
  PROVE  (\A k \in Handlers : NoFaultInv(job[k]))'
  <1> DEFINE j == job[h]
  <1>1. j.pc = "DeleteRepository" /\ j \in Job /\ IInv /\ TypeOK
        /\ (faults = 0 => PushInv(j.group) /\ MembersInv(j))
    BY PushFacts DEF DeleteRepository
  <1>2. UNCHANGED <<course, enrol, groups, token, gh, faults>>
    BY DEF DeleteRepository, Return, Local
  <1>3. CASE getRepo(j.group) = {} /\ Return(h) /\ UNCHANGED rows
    <2>1. GHKeeps /\ job' = [job EXCEPT ![h] = Idle]
      BY <1>2, <1>3 DEF GHKeeps, Return, Local
    <2>2. QED
      BY <1>2, <1>3, <2>1, NoRecordPush
  <1>4. ASSUME NEW r \in getRepo(j.group), rows' = rows \ {r},
               job' = [job EXCEPT ![h] = [j EXCEPT !.id = r.id, !.pc = "deleteRepository"]]
        PROVE  (\A k \in Handlers : NoFaultInv(job[k]))'
    <2> DEFINE x == [j EXCEPT !.id = r.id, !.pc = "deleteRepository"]
    <2>1. x.pc = "deleteRepository" /\ x.group = j.group
      BY <1>1 DEF Job
    <2>2. PICK y : y = x /\ y.pc = "deleteRepository" /\ y.group = j.group
      BY <2>1
    <2>3. ASSUME faults' = 0
          PROVE  PushInv(y.group)'
      <3>1. PushInv(y.group) /\ GHKeeps /\ EnrolKeeps
        BY <1>1, <1>2, <2>2, <2>3 DEF GHKeeps, EnrolKeeps
      <3>2. \A q \in rows' : q \in rows \/ q.owner \notin Groups \ {y.group}
        BY <1>4
      <3>3. QED
        BY <1>1, <1>2, <3>1, <3>2, PushKept
    <2>4. getRepo(y.group)' = {}
      BY <1>1, <1>4, <2>2 DEF getRepo, TypeOK
    <2>5. MembersInv(y)'
      BY <2>2, <2>4 DEF MembersInv, Forking, Grouping
    <2>6. y.pc \notin {"idle", "CreateGroup"} \union Enrolling /\ y.group # "none"
      BY <2>2 DEF Enrolling, Saving, Inviting, Invited
    <2>7. QED
      BY <1>4, <2>2, <2>3, <2>5, <2>6, GoPush
  <1>5. QED
    BY <1>3, <1>4 DEF DeleteRepository, Local

\* ... and then the repository.
LEMMA DeleteRepoPush ==
  ASSUME IInvPush, OneHandler, NEW h, Handlers = {h}, deleteRepository(h), job[h].group # "none"
  PROVE  (\A k \in Handlers : NoFaultInv(job[k]))'
  <1> DEFINE j == job[h]
  <1>1. j.pc = "deleteRepository" /\ j \in Job /\ IInv /\ (faults = 0 => MembersInv(j))
    BY PushFacts DEF deleteRepository
  <1>2. faults = 0 => getRepo(j.group) = {}
    BY <1>1 DEF MembersInv
  <1>3. CASE Return(h) /\ UNCHANGED <<db, token>>
    <2>1. GHKeeps /\ UNCHANGED <<groups, enrol, rows, faults>> /\ job' = [job EXCEPT ![h] = Idle]
      BY <1>3 DEF Return, Local, GHKeeps, db
    <2>2. QED
      BY <1>2, <2>1, NoRecordPush
  <1>4. ASSUME NEW n \in ReposByID(gh, j.id), Call(h, Idle, DeleteRepo(gh, n))
        PROVE  (\A k \in Handlers : NoFaultInv(job[k]))'
    <2>1. ASSUME job' = [job EXCEPT ![h] = Idle], gh' = DeleteRepo(gh, n),
                 UNCHANGED <<course, enrol, groups, rows, token, faults>>
          PROVE  (\A k \in Handlers : NoFaultInv(job[k]))'
      <3>1. GHKeeps
        BY <1>1, <2>1, EffectKeeps DEF GHEffect
      <3>2. QED
        BY <1>2, <2>1, <3>1, NoRecordPush
    <2>2. PICK gh2 : gh2 = DeleteRepo(gh, n)
      OBVIOUS
    <2> HIDE DEF j
    <2>3. QED
      BY <1>4, <2>1, <2>2, CallPush
  <1>5. QED
    BY <1>3, <1>4 DEF deleteRepository

\* Users enrol and sign in between the steps of a request.
LEMMA UserPush ==
  ASSUME IInvPush, NEW h, Handlers = {h}, NEW u \in Users, CreateEnrollment(u) \/ SignIn(u)
  PROVE  (\A k \in Handlers : NoFaultInv(job[k]))'
  <1>1. PICK x : x = job[h] /\ x \in Job /\ x.user \in Users
    BY PushFacts DEF Job
  <1>2. job' = job /\ UNCHANGED <<course, groups, rows, gh, faults>>
    BY DEF CreateEnrollment, SignIn, db
  <1>3. SameGroup(x) /\ (faults = 0 => PushInv(x.group) /\ MembersInv(x)) /\ TypeOK
    BY <1>1, PushFacts
  <1>4. enrol' = enrol \/ (enrol[u].status = "NONE"
                           /\ enrol' = [enrol EXCEPT ![u] = [status |-> "PENDING", group |-> "none"]])
    BY DEF CreateEnrollment, SignIn, db
  <1>5. \A v \in Users : enrol[v].status # "NONE" => enrol'[v] = enrol[v]
    BY <1>3, <1>4 DEF TypeOK
  <1>6. EnrolKeeps /\ GHKeeps
    BY <1>2, <1>3, <1>4, CourseAssumption DEF EnrolKeeps, GHKeeps, TypeOK
  <1>7. SameGroup(x)'
    BY <1>1, <1>2, <1>3, <1>5 DEF SameGroup
  <1>8. faults' = 0 => PushInv(x.group)'
    BY <1>2, <1>3, <1>6, PushKept
  <1>9. x.users \subseteq Users
    BY <1>1 DEF Job
  <1>10. faults' = 0 => MembersInv(x)'
    BY <1>2, <1>3, <1>5, <1>9 DEF MembersInv, getRepo, ReposByID
  <1>11. NoFaultInv(x)'
    BY <1>7, <1>8, <1>10 DEF NoFaultInv
  <1>12. QED
    BY <1>1, <1>2, <1>11, NoFaultPrimed

-----------------------------------------------------------------------------
\* Every step keeps the invariant.
LEMMA StepPush ==
  ASSUME OneHandler, NamesApart
  PROVE  IInvPush /\ [Next]_vars => IInvPush'
  <1> SUFFICES ASSUME IInvPush, [Next]_vars
               PROVE  IInvPush'
    OBVIOUS
  <1>1. PICK h \in Handlers : Handlers = {h}
    BY DEF OneHandler
  <1>2. IInv'
    BY StepIInv DEF IInvPush
  <1>3. faults \in Nat
    BY <1>1, PushFacts
  <1>4. ASSUME UNCHANGED vars
        PROVE  (\A k \in Handlers : NoFaultInv(job[k]))'
    BY <1>4 DEF vars, IInvPush, NoFaultInv, SameGroup, MembersInv, PushInv, Settled, GetGroup,
       getRepo, ReposByID
  <1>5. ASSUME Stop
        PROVE  (\A k \in Handlers : NoFaultInv(job[k]))'
    <2>1. job' = [job EXCEPT ![h] = Idle]
      BY <1>1, <1>5 DEF Stop, IInvPush, IInv, Typed
    <2>2. faults' # 0
      BY <1>3, <1>5 DEF Stop
    <2>3. QED
      BY <1>1, <2>1, <2>2, EndPush
  <1>6. ASSUME Request(h)
        PROVE  (\A k \in Handlers : NoFaultInv(job[k]))'
    <2>1. job[h].pc = "idle"
      BY <1>6 DEF Request, handleInstallationCreated, UpdateEnrollments, updateLastActivityDate,
         UpdateCourseVisibility, CreateGroup, internalUpdateGroup, internalDeleteGroup
    <2>2. QED
      BY <1>1, <1>6, <2>1, StartPlain, StartUpdatePush, StartDeletePush
      DEF Request, updateLastActivityDate
  <1>7. ASSUME Step(h), job[h].group = "none", job[h].pc # "CreateGroup"
        PROVE  (\A k \in Handlers : NoFaultInv(job[k]))'
    <2>1. faults' = faults \/ faults' = faults + 1
      BY <1>7 DEF Step, createCourseRepo, createCourse, CreateCourse, updateUserFromSCM,
         UpdateEnrollment, rejectEnrollment, DeleteRepository, RejectEnrollment, deleteRepository,
         enrollStudent, ExchangeAndUpdateToken, UpdateUser, UpdateEnrollmentOnGitHub,
         acceptOrgInvitation, createForkedRepo, waitForRepository, addUser, CreateRepository,
         enrollTeacher, revokeTeacherStatus, dbCreateGroup, createRepo, UpdateGroupMembers,
         UpdateGroup, DeleteGroup, Call, Fails, Local, Return
    <2>2. faults' >= faults
      BY <1>3, <2>1
    <2>3. QED
      BY <1>1, <1>2, <1>7, <2>2, PlainPush
  <1>8. ASSUME Step(h), job[h].pc = "CreateGroup"
        PROVE  (\A k \in Handlers : NoFaultInv(job[k]))'
    <2>1. dbCreateGroup(h)
      BY <1>8 DEF Step, createCourseRepo, createCourse, CreateCourse, updateUserFromSCM,
         UpdateEnrollment, rejectEnrollment, DeleteRepository, RejectEnrollment, deleteRepository,
         enrollStudent, ExchangeAndUpdateToken, UpdateUser, UpdateEnrollmentOnGitHub,
         acceptOrgInvitation, createForkedRepo, addUser, CreateRepository, enrollTeacher,
         revokeTeacherStatus, createRepo, UpdateGroupMembers, UpdateGroup, DeleteGroup
    <2>2. QED
      BY <1>1, <2>1, NewGroupPush
  <1>9. ASSUME Step(h), job[h].group # "none"
        PROVE  (\A k \in Handlers : NoFaultInv(job[k]))'
    <2>1. JobInv(job[h]) /\ SameGroup(job[h])
      BY <1>1, PushFacts
    <2>2. job[h].pc \notin {"CreateGroup"} \union Enrolling \union Rejecting
      BY <1>9, <2>1 DEF JobInv, GroupJobInv, SameGroup
    <2>3. course
      BY <1>9, <2>1 DEF JobInv, CreateInv
    <2>4. job[h].pc \notin {"createCourseRepo", "CreateCourse"}
      BY <2>1, <2>3 DEF JobInv, CreateInv
    <2>5. \/ DeleteRepository(h) \/ deleteRepository(h) \/ createForkedRepo(h) \/ addUser(h)
          \/ CreateRepository(h) \/ createRepo(h) \/ UpdateGroupMembers(h) \/ UpdateGroup(h)
          \/ DeleteGroup(h)
      BY <1>9, <2>2, <2>3, <2>4 DEF Step, createCourseRepo, createCourse, CreateCourse,
         updateUserFromSCM, UpdateEnrollment, rejectEnrollment, RejectEnrollment, enrollStudent,
         ExchangeAndUpdateToken, UpdateUser, UpdateEnrollmentOnGitHub, acceptOrgInvitation,
         enrollTeacher, revokeTeacherStatus, dbCreateGroup, Enrolling, Saving, Inviting, Invited,
         Rejecting
    <2>6. QED
      BY <1>1, <1>9, <2>5, DeleteRecordPush, DeleteRepoPush, ForkPush, AddUserPush, RecordPush,
         CreateRepoPush, MembersPush, SaveGroupPush, DeleteGroupPush
  <1>10. (\A k \in Handlers : NoFaultInv(job[k]))'
    BY <1>1, <1>4, <1>5, <1>6, <1>7, <1>8, <1>9, UserPush DEF Next
  <1>11. QED
    BY <1>2, <1>10 DEF IInvPush

\* Between requests no group is being worked on.
LEMMA PushImplies ==
  ASSUME OneHandler
  PROVE  IInvPush => ApprovedGroupCanPush
  <1> SUFFICES ASSUME IInvPush, NEW g \in Groups, groups[g].status = "APPROVED"
               PROVE  /\ job = [h \in Handlers |-> Idle] => getRepo(g) # {}
                      /\ (faults = 0 /\ job = [h \in Handlers |-> Idle]) =>
                            \A r \in getRepo(g), n \in DOMAIN gh.repos :
                               gh.repos[n].id = r.id => GetGroup(g) \subseteq gh.repos[n].users
    BY DEF ApprovedGroupCanPush
  <1>1. getRepo(g) # {}
    BY DEF IInvPush, IInv, DBInv, GroupInv
  <1>2. ASSUME faults = 0, job = [h \in Handlers |-> Idle], NEW r \in getRepo(g),
               NEW n \in DOMAIN gh.repos, gh.repos[n].id = r.id
        PROVE  GetGroup(g) \subseteq gh.repos[n].users
    <2>1. PICK h \in Handlers : Handlers = {h}
      BY DEF OneHandler
    <2>2. job[h].group = "none"
      BY <1>2, <2>1 DEF Idle
    <2>3. PushInv("none") /\ g # "none"
      BY <1>2, <2>1, <2>2, PushFacts
    <2>4. n \in ReposByID(gh, r.id) /\ r \in rows /\ r.owner = g
      BY <1>2 DEF ReposByID, getRepo
    <2>5. Settled(g, n)
      BY <2>3, <2>4 DEF PushInv
    <2>6. QED
      BY <2>5 DEF Settled
  <1>3. QED
    BY <1>1, <1>2

\* Between requests an approved group has a record of its repository, and unless a
\* request has failed all its members can push to it: internalUpdateGroup gives them
\* access before it saves them, and leaves the other groups' repositories alone.
THEOREM CoursesPush ==
  ASSUME OneHandler, NamesApart
  PROVE  Spec => []ApprovedGroupCanPush
  <1>1. IInvPush /\ [Next]_vars => IInvPush'
    BY StepPush
  <1>2. IInvPush => ApprovedGroupCanPush
    BY PushImplies
  <1>3. QED
    BY <1>1, <1>2, InitPush, PTL DEF Spec
=============================================================================
