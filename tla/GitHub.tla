------------------------------- MODULE GitHub -------------------------------
(***************************************************************************)
(* One organization on GitHub, as the code expects GitHub to answer.  The  *)
(* repository states that expectation in its own fake of the GitHub API,   *)
(* scm/github_mock.go, and each operator below is the effect of one of its *)
(* handlers.  An organization is a record:                                 *)
(*   role    its members, and invited users, with their role               *)
(*   active  those that have accepted their invitation                     *)
(*   repos   name -> [id, users] of its repositories and collaborators     *)
(* The ID of a new repository is an argument: one that nobody knows yet.   *)
(* The fake also makes a member of every collaborator, because it does not *)
(* keep invitations to repositories; that shortcut is left out.            *)
(***************************************************************************)
EXTENDS Naturals, FiniteSets

\* The organization and its owner, who creates the course.
NewOrganization(owner) ==
    [role |-> [u \in {owner} |-> "admin"], active |-> {owner}, repos |-> <<>>]

\* A repository exists; 404 otherwise.
HasRepo(gh, name) == name \in DOMAIN gh.repos

\* The names of the repository with an ID: at most one.
ReposByID(gh, id) == {n \in DOMAIN gh.repos : gh.repos[n].id = id}

\* PUT membership: a member's role is replaced, others are invited, but not as
\* owners.
CanPutMembership(gh, u, role) == u \in DOMAIN gh.role \/ role # "admin"
PutMembership(gh, u, role) ==
    [gh EXCEPT !.role = [v \in DOMAIN @ \union {u} |-> IF v = u THEN role ELSE @[v]]]

\* PATCH of a user's own membership: the invitation is accepted.
PatchOwnMembership(gh, u) == [gh EXCEPT !.active = @ \union {u}]

\* DELETE of a member.
DeleteMember(gh, u) ==
    [gh EXCEPT !.role = [v \in DOMAIN @ \ {u} |-> @[v]], !.active = @ \ {u}]

\* POST of a repository, with nobody as collaborator.
PostRepo(gh, name, id) ==
    [gh EXCEPT !.repos = [n \in DOMAIN @ \union {name} |->
                             IF n = name THEN [id |-> id, users |-> {}] ELSE @[n]]]

\* POST of a fork: a repository whose name is given.
PostFork(gh, name, id) == PostRepo(gh, name, id)

\* DELETE of a repository, with its collaborators.
DeleteRepo(gh, name) == [gh EXCEPT !.repos = [n \in DOMAIN @ \ {name} |-> @[n]]]

\* PUT and DELETE of a collaborator; both may be repeated.
PutCollaborator(gh, name, u) == [gh EXCEPT !.repos[name].users = @ \union {u}]
DeleteCollaborator(gh, name, u) == [gh EXCEPT !.repos[name].users = @ \ {u}]
=============================================================================
