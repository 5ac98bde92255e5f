---------------------------- MODULE CourseAdmin ----------------------------
(***************************************************************************)
(* A course: its creation when the GitHub app is installed, enrollments,   *)
(* groups and their repositories.  Each request is a sequence of database  *)
(* statements and of calls to GitHub, with nothing that rolls them back.   *)
(* A job's "pc" names the step it takes next; any call to GitHub may fail, *)
(* and the server may stop, MaxFaults times in all.                        *)
(*                                                                         *)
(* An enrollment without a record has status "NONE".  Logins and profiles  *)
(* do not change: a user's login is the user.  UpdateEnrollments for many  *)
(* enrollments is one request for each, up to the first that fails.        *)
(***************************************************************************)
EXTENDS GitHub

CONSTANTS Users, creator, Groups, GroupNames, StudentRepoName, Handlers,
          MaxFaults   \* failing calls and stops

CourseRepos == {"info", "assignments", "tests"}

ASSUME CourseAssumption ==
    /\ creator \in Users
    /\ MaxFaults \in Nat
    /\ Users \cap Groups = {} /\ Users \cap CourseRepos = {} /\ Groups \cap CourseRepos = {}
    /\ "none" \notin Groups

VARIABLES
    course,  \* the course has a record
    enrol,   \* user -> [status, group] of the enrollment record
    groups,  \* group -> [name, status, users] of the group record
    rows,    \* the repository table: [owner, id]
    token,   \* users whose refresh token in the database is still good
    gh,      \* the organization on GitHub
    job,     \* handler -> the request it handles
    faults   \* failures so far

db == <<course, enrol, groups, rows>>
vars == <<course, enrol, groups, rows, token, gh, job, faults>>

\* The records of the database, as far as they matter here.
Enrollment == [status : {"NONE", "PENDING", "STUDENT", "TEACHER"}, group : Groups \union {"none"}]
Group == [name : GroupNames \union {""}, status : {"NONE", "PENDING", "APPROVED"},
          users : SUBSET Users]
Owner == Users \union Groups \union CourseRepos

NoEnrollment == [status |-> "NONE", group |-> "none"]
NoGroup == [name |-> "", status |-> "NONE", users |-> {}]
Idle == [pc |-> "idle", user |-> creator, to |-> "NONE", enrollment |-> NoEnrollment,
         group |-> "none", name |-> "", users |-> {}, todo |-> {}, id |-> <<>>]

Init ==
    /\ course = FALSE
    /\ enrol = [u \in Users |-> NoEnrollment]
    /\ groups = [g \in Groups |-> NoGroup]
    /\ rows = {}
    /\ token = Users
    /\ gh = NewOrganization(creator)
    /\ job = [h \in Handlers |-> Idle]
    /\ faults = 0

\* The job goes on as j without a call to GitHub; or ends.
Local(h, j) == job' = [job EXCEPT ![h] = j] /\ UNCHANGED <<gh, faults>>
Return(h) == Local(h, Idle)

\* A call to GitHub fails, and with it the request.
Fails(h) == faults < MaxFaults /\ faults' = faults + 1 /\ job' = [job EXCEPT ![h] = Idle]

\* A call to GitHub makes gh2 of it and the job goes on as j; or it fails.
Call(h, j, gh2) ==
    /\ \/ job' = [job EXCEPT ![h] = j] /\ gh' = gh2 /\ UNCHANGED faults
       \/ Fails(h) /\ UNCHANGED gh
    /\ UNCHANGED <<db, token>>

\* GitHub never uses an ID again; one that nothing refers to is as good as new.
Known == {r.id : r \in rows} \union {job[h].id : h \in Handlers}
             \union {gh.repos[n].id : n \in DOMAIN gh.repos}
NewID(name) == CHOOSE i \in {name} \X (1..(Cardinality(Known) + 1)) : i \notin Known

-----------------------------------------------------------------------------
(* Database and helpers.                                                   *)

\* The repository record of an owner, if there is one.
getRepo(o) == {r \in rows : r.owner = o}

\* An enrollment is saved whole; a record that is gone is not created again.
SaveEnrollment(u, e) ==
    enrol' = [enrol EXCEPT ![u] = IF @.status = "NONE" THEN @ ELSE e]

\* The unique index allows an owner one repository record.
AddRepository(o, id) == getRepo(o) = {} /\ rows' = rows \union {[owner |-> o, id |-> id]}

\* A group's users are those whose enrollment says so too; none is an error.
GetGroup(g) == {u \in groups[g].users : enrol[u].group = g}
HasGroup(g) == groups[g].status # "NONE" /\ \E u \in Users : enrol[u].group = g

\* Those that may be members of the group, or of a new one.
getGroupUsers(g) ==
    {u \in Users : enrol[u].status \in {"STUDENT", "TEACHER"} /\ enrol[u].group \in {g, "none"}}

\* A new name is in use by no group; GroupNames has only well-formed ones.
checkGroupName(name) ==
    \A g \in Groups : groups[g].status # "NONE" => groups[g].name # name

isCourseCreator(u) == u = creator

-----------------------------------------------------------------------------
(* Course creation.                                                        *)

\* An organization with any of the course's repositories is refused.
isDirty == CourseRepos \cap DOMAIN gh.repos # {}

GetOrganization == ~ isDirty /\ gh.role[creator] = "admin"

handleInstallationCreated(h) ==
    /\ job[h].pc = "idle" /\ ~ course
    /\ GetOrganization
    /\ Call(h, [Idle EXCEPT !.pc = "createCourseRepo", !.todo = CourseRepos], gh)

\* One after the other, in any order: they are keys of a Go map.
createCourseRepo(h) ==
    LET j == job[h] IN
    /\ j.pc = "createCourseRepo"
    /\ \/ \E name \in j.todo :
            Call(h, [j EXCEPT !.todo = @ \ {name}],
                 IF HasRepo(gh, name) THEN gh ELSE PostRepo(gh, name, NewID(name)))
       \/ /\ j.todo = {}
          /\ Local(h, [j EXCEPT !.pc = "createForkedRepo", !.name = StudentRepoName[creator],
                                !.todo = {creator}])
          /\ UNCHANGED <<db, token>>

\* The records of the four repositories, one after the other; the student
\* repository is the creator's.
createCourse(h) ==
    LET j == job[h]
        missing == {o \in CourseRepos \union {creator} : getRepo(o) = {}}
    IN  /\ j.pc = "CreateRepository" /\ ~ course
        /\ \/ \E o \in missing : /\ AddRepository(o, IF o = creator THEN j.id ELSE gh.repos[o].id)
                                  /\ Local(h, j)
           \/ missing = {} /\ Local(h, [j EXCEPT !.pc = "CreateCourse"]) /\ UNCHANGED rows
        /\ UNCHANGED <<course, enrol, groups, token>>

\* The record of the course, whose creator is its first teacher.
CreateCourse(h) ==
    /\ job[h].pc = "CreateCourse"
    /\ course' = TRUE
    /\ enrol' = [enrol EXCEPT ![creator] = [status |-> "TEACHER", group |-> "none"]]
    /\ Return(h)
    /\ UNCHANGED <<groups, rows, token>>

-----------------------------------------------------------------------------
(* Enrollments.                                                            *)

CreateEnrollment(u) ==
    /\ course
    /\ enrol[u].status = "NONE"
    /\ enrol' = [enrol EXCEPT ![u] = [status |-> "PENDING", group |-> "none"]]
    /\ UNCHANGED <<course, groups, rows, token, gh, job, faults>>

\* What a change of status calls for; any other is an error.
updateEnrollment(from, to) ==
    CASE from \in {"PENDING", "STUDENT"} /\ to = "NONE" -> "rejectEnrollment"
      [] from = "PENDING" /\ to = "STUDENT" -> "enrollStudent"
      [] from = "STUDENT" /\ to = "TEACHER" -> "enrollTeacher"
      [] from = "TEACHER" /\ to = "STUDENT" -> "revokeTeacherStatus"
      [] OTHER -> "error"

\* The enrollment is read here and used until the request ends.
UpdateEnrollments(h, u, to) ==
    /\ job[h].pc = "idle" /\ course
    /\ ~ isCourseCreator(u)
    /\ updateEnrollment(enrol[u].status, to) # "error"
    /\ Local(h, [Idle EXCEPT !.pc = "updateUserFromSCM", !.user = u, !.to = to,
                             !.enrollment = enrol[u]])
    /\ UNCHANGED <<db, token>>

updateUserFromSCM(h) ==
    LET j == job[h] IN
    /\ j.pc = "updateUserFromSCM"
    /\ Call(h, [j EXCEPT !.pc = updateEnrollment(j.enrollment.status, j.to)], gh)

\* Mutation: The enrollment is not deleted.
KeepEnrollment(h) ==
    /\ job[h].pc = "rejectEnrollment"
    /\ Local(h, [job[h] EXCEPT !.pc = "DeleteRepository"])
    /\ UNCHANGED <<db, token>>

\* The enrollment goes first, then the repository record, then GitHub, whose
\* errors are only logged.
rejectEnrollment(h) ==
    LET j == job[h] IN
    /\ j.pc = "rejectEnrollment"
    /\ enrol' = [enrol EXCEPT ![j.user] = NoEnrollment]
    /\ Local(h, [j EXCEPT !.pc = "DeleteRepository"])
    /\ UNCHANGED <<course, groups, rows, token>>

\* Mutation: The repository record is not deleted.
KeepRow(h) ==
    LET j == job[h]
        o == IF j.group = "none" THEN j.user ELSE j.group
    IN  /\ j.pc = "DeleteRepository"
        /\ \/ getRepo(o) = {} /\ Return(h)
           \/ \E r \in getRepo(o) :
                Local(h, [j EXCEPT !.id = r.id, !.pc = "deleteRepository"])
        /\ UNCHANGED <<db, token>>

\* Of the user or of the group; without a record there is nothing left to do.
DeleteRepository(h) ==
    LET j == job[h]
        o == IF j.group = "none" THEN j.user ELSE j.group
    IN  /\ j.pc = "DeleteRepository"
        /\ \/ getRepo(o) = {} /\ Return(h) /\ UNCHANGED rows
           \/ \E r \in getRepo(o) :
                /\ rows' = rows \ {r}
                /\ Local(h, [j EXCEPT !.id = r.id,
                                      !.pc = IF j.group = "none" THEN "RejectEnrollment"
                                             ELSE "deleteRepository"])
        /\ UNCHANGED <<course, enrol, groups, token>>

\* One that is not a member any more is an error, and keeps the repository.
RejectEnrollment(h) ==
    LET j == job[h] IN
    /\ j.pc = "RejectEnrollment"
    /\ IF j.user \in DOMAIN gh.role
       THEN Call(h, [j EXCEPT !.pc = "deleteRepository"], DeleteMember(gh, j.user))
       ELSE Return(h) /\ UNCHANGED <<db, token>>

deleteRepository(h) ==
    LET j == job[h] IN
    /\ j.pc = "deleteRepository"
    /\ IF ReposByID(gh, j.id) = {} THEN Return(h) /\ UNCHANGED <<db, token>>
       ELSE \E n \in ReposByID(gh, j.id) : Call(h, Idle, DeleteRepo(gh, n))

\* A student that has a repository record only gets the new status.
enrollStudent(h) ==
    LET j == job[h] IN
    /\ j.pc = "enrollStudent"
    /\ Local(h, [j EXCEPT !.enrollment.status = "STUDENT",
                          !.pc = IF getRepo(j.user) # {} THEN "UpdateEnrollment"
                                 ELSE "ExchangeAndUpdateToken"])
    /\ UNCHANGED <<db, token>>

\* GitHub takes a refresh token once; the next one is yet to be saved.
ExchangeAndUpdateToken(h) ==
    LET j == job[h] IN
    /\ j.pc = "ExchangeAndUpdateToken"
    /\ IF j.user \in token THEN Local(h, [j EXCEPT !.pc = "UpdateUser"]) ELSE Return(h)
    /\ token' = token \ {j.user}
    /\ UNCHANGED db

UpdateUser(h) ==
    LET j == job[h] IN
    /\ j.pc = "UpdateUser"
    /\ token' = token \union {j.user}
    /\ Local(h, [j EXCEPT !.pc = "updatePermission"])
    /\ UNCHANGED db

\* scm.UpdateEnrollment for a student: invite, accept in the student's name,
\* add to the assignments repository, and fork it.
UpdateEnrollmentOnGitHub(h) ==
    LET j == job[h] IN
    \/ /\ j.pc = "updatePermission"
       /\ CanPutMembership(gh, j.user, "member")
       /\ Call(h, [j EXCEPT !.pc = "acceptOrgInvitation"], PutMembership(gh, j.user, "member"))
    \/ /\ j.pc = "addToAssignments"
       /\ Call(h, [j EXCEPT !.pc = "createForkedRepo", !.name = StudentRepoName[j.user],
                            !.todo = {j.user}],
               PutCollaborator(gh, "assignments", j.user))

acceptOrgInvitation(h) ==
    LET j == job[h] IN
    /\ j.pc = "acceptOrgInvitation"
    /\ Call(h, [j EXCEPT !.pc = "addToAssignments"], PatchOwnMembership(gh, j.user))

\* The fork is not there after the last attempt, and may still be made.
waitForRepository(h, name) == Fails(h) /\ gh' \in {gh, PostFork(gh, name, NewID(name))}

\* Mutation: A repository left over by an earlier attempt is an error.
ForkOnce(h) ==
    LET j == job[h] IN
    /\ j.pc = "createForkedRepo"
    /\ \/ HasRepo(gh, j.name) /\ Return(h)
       \/ /\ ~ HasRepo(gh, j.name)
          /\ \/ /\ gh' = PostFork(gh, j.name, NewID(j.name))
                /\ job' = [job EXCEPT ![h] = [j EXCEPT !.pc = "addUser", !.id = NewID(j.name)]]
                /\ UNCHANGED faults
             \/ waitForRepository(h, j.name)
    /\ UNCHANGED <<db, token>>

\* The repository that has the name, or else a fork of the assignments.
createForkedRepo(h) ==
    LET j == job[h] IN
    /\ j.pc = "createForkedRepo"
    /\ \/ /\ HasRepo(gh, j.name)
          /\ Local(h, [j EXCEPT !.pc = "addUser", !.id = gh.repos[j.name].id])
       \/ /\ ~ HasRepo(gh, j.name)
          /\ \/ /\ gh' = PostFork(gh, j.name, NewID(j.name))
                /\ job' = [job EXCEPT ![h] = [j EXCEPT !.pc = "addUser", !.id = NewID(j.name)]]
                /\ UNCHANGED faults
             \/ waitForRepository(h, j.name)
    /\ UNCHANGED <<db, token>>

\* Push access for the repository's users, one after the other.
addUser(h) ==
    LET j == job[h] IN
    /\ j.pc = "addUser"
    /\ \/ \E u \in j.todo : Call(h, [j EXCEPT !.todo = @ \ {u}], PutCollaborator(gh, j.name, u))
       \/ /\ j.todo = {}
          /\ Local(h, [j EXCEPT !.pc = "CreateRepository"])
          /\ UNCHANGED <<db, token>>

\* The record of a student's or a group's new repository.
CreateRepository(h) ==
    LET j == job[h] IN
    /\ j.pc = "CreateRepository" /\ course
    /\ IF j.group = "none" THEN /\ AddRepository(j.user, j.id)
                                /\ Local(h, [j EXCEPT !.pc = "UpdateEnrollment"])
       ELSE /\ AddRepository(j.group, j.id)
            /\ Local(h, [j EXCEPT !.pc = "updateGroupMembers", !.todo = j.users])
    /\ UNCHANGED <<course, enrol, groups, token>>

enrollTeacher(h) ==
    LET j == job[h] IN
    /\ j.pc = "enrollTeacher"
    /\ IF CanPutMembership(gh, j.user, "admin")
       THEN Call(h, [j EXCEPT !.pc = "UpdateEnrollment", !.enrollment.status = "TEACHER"],
                 PutMembership(gh, j.user, "admin"))
       ELSE Return(h) /\ UNCHANGED <<db, token>>

\* The enrollment is updated even when GitHub refuses.
revokeTeacherStatus(h) ==
    LET j == job[h] IN
    /\ j.pc = "revokeTeacherStatus"
    /\ job' = [job EXCEPT ![h] = [j EXCEPT !.pc = "UpdateEnrollment",
                                           !.enrollment.status = "STUDENT"]]
    /\ \/ gh' = PutMembership(gh, j.user, "member") /\ UNCHANGED faults
       \/ faults < MaxFaults /\ faults' = faults + 1 /\ UNCHANGED gh
    /\ UNCHANGED <<db, token>>

\* The whole enrollment as read when the request began, with its changes.
UpdateEnrollment(h) ==
    /\ job[h].pc = "UpdateEnrollment"
    /\ SaveEnrollment(job[h].user, job[h].enrollment)
    /\ Return(h)
    /\ UNCHANGED <<course, groups, rows, token>>

\* The course's visibility to a user, and the date of the last push, are saved
\* with the whole enrollment as it was read.
UpdateCourseVisibility(h, u) ==
    /\ job[h].pc = "idle" /\ enrol[u].status # "NONE"
    /\ Local(h, [Idle EXCEPT !.pc = "UpdateEnrollment", !.user = u, !.enrollment = enrol[u]])
    /\ UNCHANGED <<db, token>>

updateLastActivityDate(h, u) == getRepo(u) # {} /\ UpdateCourseVisibility(h, u)

\* Signing in again stores a new refresh token.
SignIn(u) ==
    /\ u \notin token
    /\ token' = token \union {u}
    /\ UNCHANGED <<db, gh, job, faults>>

-----------------------------------------------------------------------------
(* Groups.                                                                 *)

\* A student's request for a group: its name and its users are checked.
CreateGroup(h, name, members) ==
    /\ job[h].pc = "idle" /\ course
    /\ checkGroupName(name)
    /\ members # {} /\ members \subseteq getGroupUsers("none")
    /\ Local(h, [Idle EXCEPT !.pc = "CreateGroup", !.name = name, !.users = members])
    /\ UNCHANGED <<db, token>>

\* One transaction: the record, and the users' enrollments, which must all be
\* those of students or teachers.  (Bound: there are no more than Groups.)
dbCreateGroup(h) ==
    LET j == job[h] IN
    /\ j.pc = "CreateGroup"
    /\ IF checkGroupName(j.name)
          /\ \A u \in j.users : enrol[u].status \in {"STUDENT", "TEACHER"}
          /\ \E g \in Groups : groups[g].status = "NONE"
       THEN \E g \in Groups :
              /\ groups[g].status = "NONE"
              /\ groups' = [groups EXCEPT ![g] = [name |-> j.name, status |-> "PENDING",
                                                  users |-> j.users]]
              /\ enrol' = [u \in Users |-> IF u \in j.users THEN [enrol[u] EXCEPT !.group = g]
                                           ELSE enrol[u]]
       ELSE UNCHANGED <<groups, enrol>>
    /\ Return(h)
    /\ UNCHANGED <<course, rows, token>>

\* The new group: its name may still change while it is pending.
newGroup(g, name, members) ==
    IF name # groups[g].name /\ groups[g].status = "PENDING"
    THEN [groups[g] EXCEPT !.name = name, !.users = members]
    ELSE [groups[g] EXCEPT !.users = members]

\* Mutation: Only one direction of the comparison.
ContainsOnly(g, members) == GetGroup(g) \subseteq members

\* The members are those of the group as read.
ContainsAll(g, members) == members = GetGroup(g)

\* A teacher approves a group or changes it.  The users' information is
\* fetched from GitHub; the repository is created unless there is a record.
\* "to" keeps whether the members differ from those read.
internalUpdateGroup(h, g, name, members) ==
    /\ job[h].pc = "idle"
    /\ HasGroup(g)
    /\ members # {} /\ members \subseteq getGroupUsers(g)
    /\ LET new == newGroup(g, name, members) IN
       /\ new.name # groups[g].name => checkGroupName(name)
       /\ Call(h, [Idle EXCEPT !.group = g, !.name = new.name, !.users = members,
                               !.pc = IF getRepo(g) = {} THEN "createRepo"
                                      ELSE IF ContainsAll(g, members) THEN "UpdateGroup"
                                      ELSE "updateGroupMembers",
                               !.to = IF ContainsAll(g, members) THEN "same" ELSE "changed",
                               !.todo = members],
               gh)

\* A repository of that name must not exist yet.
createRepo(h) ==
    LET j == job[h] IN
    /\ j.pc = "createRepo"
    /\ IF HasRepo(gh, j.name) THEN Return(h) /\ UNCHANGED <<db, token>>
       ELSE Call(h, [j EXCEPT !.pc = "createForkedRepo"], gh)

\* scm.UpdateGroupMembers: the new members are added, then others removed.
UpdateGroupMembers(h) ==
    LET j == job[h]
        others == gh.repos[j.name].users \ j.users
    IN  /\ j.pc = "updateGroupMembers"
        /\ \/ j.to = "changed" /\ ~ HasRepo(gh, j.name) /\ Return(h) /\ UNCHANGED <<db, token>>
           \/ /\ j.to = "changed" /\ HasRepo(gh, j.name)
              /\ \/ \E u \in j.todo :
                      Call(h, [j EXCEPT !.todo = @ \ {u}], PutCollaborator(gh, j.name, u))
                 \/ /\ j.todo = {}
                    /\ \E u \in others : Call(h, j, DeleteCollaborator(gh, j.name, u))
                 \/ /\ j.todo = {} /\ others = {}
                    /\ Local(h, [j EXCEPT !.pc = "UpdateGroup"])
                    /\ UNCHANGED <<db, token>>
           \/ /\ j.to = "same"
              /\ Local(h, [j EXCEPT !.pc = "UpdateGroup"])
              /\ UNCHANGED <<db, token>>

\* One transaction: the record, its users and their enrollments.
UpdateGroup(h) ==
    LET j == job[h] IN
    /\ j.pc = "UpdateGroup"
    /\ IF \A u \in j.users : enrol[u].status # "NONE"
       THEN /\ groups' = [groups EXCEPT ![j.group] = [name |-> j.name, status |-> "APPROVED",
                                                      users |-> j.users]]
            /\ enrol' = [u \in Users |->
                            IF u \in j.users THEN [enrol[u] EXCEPT !.group = j.group]
                            ELSE IF enrol[u].group = j.group
                                 THEN [enrol[u] EXCEPT !.group = "none"]
                            ELSE enrol[u]]
       ELSE UNCHANGED <<groups, enrol>>
    /\ Return(h)
    /\ UNCHANGED <<course, rows, token>>

\* The group goes from the database first, then its repository.
internalDeleteGroup(h, g) ==
    /\ job[h].pc = "idle"
    /\ HasGroup(g)
    /\ Local(h, [Idle EXCEPT !.pc = "DeleteGroup", !.group = g])
    /\ UNCHANGED <<db, token>>

DeleteGroup(h) ==
    LET g == job[h].group IN
    /\ job[h].pc = "DeleteGroup"
    /\ groups' = [groups EXCEPT ![g] = NoGroup]
    /\ enrol' = [u \in Users |-> IF enrol[u].group = g THEN [enrol[u] EXCEPT !.group = "none"]
                                 ELSE enrol[u]]
    /\ Local(h, [job[h] EXCEPT !.pc = "DeleteRepository"])
    /\ UNCHANGED <<course, rows, token>>

-----------------------------------------------------------------------------
\* The server stops: requests end where they are.
Stop ==
    /\ faults < MaxFaults /\ faults' = faults + 1
    /\ \E h \in Handlers : job[h].pc # "idle"
    /\ job' = [h \in Handlers |-> Idle]
    /\ UNCHANGED <<db, token, gh>>

Request(h) ==
    \/ handleInstallationCreated(h)
    \/ \E u \in Users, s \in {"NONE", "STUDENT", "TEACHER"} : UpdateEnrollments(h, u, s)
    \/ \E u \in Users : UpdateCourseVisibility(h, u) \/ updateLastActivityDate(h, u)
    \/ \E n \in GroupNames, m \in SUBSET Users : CreateGroup(h, n, m)
    \/ \E g \in Groups, n \in GroupNames, m \in SUBSET Users : internalUpdateGroup(h, g, n, m)
    \/ \E g \in Groups : internalDeleteGroup(h, g)

Step(h) ==
    \/ createCourseRepo(h) \/ createCourse(h) \/ CreateCourse(h)
    \/ updateUserFromSCM(h) \/ UpdateEnrollment(h)
    \/ rejectEnrollment(h) \/ DeleteRepository(h) \/ RejectEnrollment(h) \/ deleteRepository(h)
    \/ enrollStudent(h) \/ ExchangeAndUpdateToken(h) \/ UpdateUser(h)
    \/ UpdateEnrollmentOnGitHub(h) \/ acceptOrgInvitation(h)
    \/ createForkedRepo(h) \/ addUser(h) \/ CreateRepository(h)
    \/ enrollTeacher(h) \/ revokeTeacherStatus(h)
    \/ dbCreateGroup(h) \/ createRepo(h) \/ UpdateGroupMembers(h) \/ UpdateGroup(h)
    \/ DeleteGroup(h)

Next ==
    \/ \E u \in Users : CreateEnrollment(u) \/ SignIn(u)
    \/ \E h \in Handlers : Request(h) \/ Step(h)
    \/ Stop

Spec == Init /\ [][Next]_vars

\* Handlers run; and users and teachers try again: whoever lost the refresh
\* token signs in, and a pending enrollment is accepted until it succeeds.
FairSpec ==
    /\ Spec
    /\ \A h \in Handlers : WF_vars(Step(h))
    /\ \A u \in Users : WF_vars(SignIn(u))
    /\ \A u \in Users : SF_vars(\E h \in Handlers : UpdateEnrollments(h, u, "STUDENT"))

-----------------------------------------------------------------------------
\* The state: one enrollment and one repository record for each owner.
TypeOK ==
    /\ course \in BOOLEAN
    /\ enrol \in [Users -> Enrollment]
    /\ groups \in [Groups -> Group]
    /\ \A r \in rows : r.owner \in Owner
    /\ \A r, s \in rows : r.owner = s.owner => r = s
    /\ token \subseteq Users
    /\ faults \in 0..MaxFaults

\* Whoever is enrolled has a repository record, the repository, and push access
\* to it as a member of the organization, whatever failed before: enrollStudent,
\* rejectEnrollment and CreateCourse order their steps so that it holds between
\* any two of them.
EnrolledHaveRepo ==
    \A u \in Users : enrol[u].status \in {"STUDENT", "TEACHER"} =>
        /\ u \in DOMAIN gh.role
        /\ \E r \in getRepo(u), n \in DOMAIN gh.repos :
              gh.repos[n].id = r.id /\ u \in gh.repos[n].users

\* Every repository record has a repository of its own on GitHub: "if repo is
\* found, it is safe to reuse it" (scm/github.go:577).
RowsHaveOwnRepo ==
    /\ \A r \in rows : ReposByID(gh, r.id) # {}
    /\ \A r, s \in rows : r.id = s.id => r = s

\* Between requests an approved group has a repository record, and unless a
\* request has failed all its members can push to the repository:
\* internalUpdateGroup, UpdateGroupMembers and the two transactions.
ApprovedGroupCanPush ==
    \A g \in Groups : groups[g].status = "APPROVED" =>
        /\ job = [h \in Handlers |-> Idle] => getRepo(g) # {}
        /\ (faults = 0 /\ job = [h \in Handlers |-> Idle]) =>
              \A r \in getRepo(g), n \in DOMAIN gh.repos :
                 gh.repos[n].id = r.id => GetGroup(g) \subseteq gh.repos[n].users

\* A pending enrollment that is accepted again and again is settled, whichever
\* of the steps of the earlier attempts failed: enrollStudent repeats them.
AcceptSettles ==
    \A u \in Users : enrol[u].status = "PENDING" ~> enrol[u].status # "PENDING"
=============================================================================
