----------------------------- MODULE Gradebook ------------------------------
(***************************************************************************)
(* What the owners of a submission and their teachers are promised, without *)
(* handlers, copies of rows, commits and IDs: each operation is one step on *)
(* the entry as it is.  There is one entry, with a grade for each member of *)
(* the group and nobody else; a date of delivery is a time that has been,   *)
(* and only a new delivery moves it, forward; each member is charged the    *)
(* slip days of the last delivery that did not pass.                        *)
(***************************************************************************)
EXTENDS Integers, Sequences

CONSTANTS Users, Times, Scores, ScoreLimit, AutoApprove, TeacherStatus

VARIABLES
    now,
    members,
    entry,      \* the entry, if there is one: <<>> or <<[score, date, grades]>>
    due,        \* the members who have still to be charged for the last delivery
    charged     \* the slip days each user has been charged: <<>> or <<days>>

vars == <<now, members, entry, due, charged>>

Init ==
    /\ now \in Times
    /\ members \in SUBSET Users \ {{}}
    /\ entry = <<>>
    /\ due = {}
    /\ charged = [u \in Users |-> <<>>]

Passes(score) == AutoApprove /\ score >= ScoreLimit

(* The grades, or first ones, after a result with this score. *)
Graded(grades, score) ==
    [u \in members |-> IF Passes(score) THEN "APPROVED" ELSE grades[u]]
Ungraded == [u \in members |-> "NONE"]

(* More than two hours into a day count as a day. *)
Days(hours) == (hours + 21) \div 24

----------------------------------------------------------------------------
TimePasses ==
    /\ \E t \in Times : t > now /\ now' = t
    /\ UNCHANGED <<members, entry, due, charged>>

(* The first delivery: tested, or to be reviewed, with no points yet. *)
DeliverFirst(score, date) ==
    /\ entry = <<>>
    /\ date <= now
    /\ entry' = <<[score |-> score, date |-> date, grades |-> Graded(Ungraded, score)]>>
    /\ due' = members
    /\ UNCHANGED <<now, members, charged>>

(* A later one, which has been tested ... *)
DeliverTested(score, date) ==
    /\ entry # <<>> /\ due = {}
    /\ entry[1].date <= date /\ date <= now
    /\ entry' = <<[score |-> score, date |-> date, grades |-> Graded(entry[1].grades, score)]>>
    /\ due' = members
    /\ UNCHANGED <<now, members, charged>>

(* ... or waits for its review with the old result. *)
DeliverForReview(date) ==
    /\ entry # <<>> /\ due = {}
    /\ entry[1].date <= date /\ date <= now
    /\ entry' = <<[entry[1] EXCEPT !.date = date]>>
    /\ due' = members
    /\ UNCHANGED <<now, members, charged>>

(* The tests are run again: a new result for the old delivery. *)
Rebuild(score) ==
    /\ entry # <<>> /\ due = {}
    /\ entry' = <<[score |-> score, date |-> entry[1].date,
                 grades |-> Graded(entry[1].grades, score)]>>
    /\ UNCHANGED <<now, members, due, charged>>

(* A member is charged for a late delivery, unless it passes. *)
Charge(u) ==
    /\ u \in due
    /\ due' = due \ {u}
    /\ charged' =
        IF entry[1].score < ScoreLimit /\ entry[1].grades[u] # "APPROVED" /\ entry[1].date > 0
        THEN [charged EXCEPT ![u] = <<Days(entry[1].date)>>]
        ELSE charged
    /\ UNCHANGED <<now, members, entry>>

(* A teacher sets the grade of one or of all ... *)
SetGrade(ids, status) ==
    /\ entry # <<>> /\ due = {}
    /\ entry' = <<[entry[1] EXCEPT !.grades = [u \in members |-> IF u \in ids THEN status ELSE @[u]]]>>
    /\ UNCHANGED <<now, members, due, charged>>

(* ... or a score. *)
Review(score) ==
    /\ entry # <<>> /\ due = {}
    /\ entry' = <<[entry[1] EXCEPT !.score = score]>>
    /\ UNCHANGED <<now, members, due, charged>>

(* The group changes: those who stay keep their grades. *)
Regroup(ids) ==
    /\ due = {}
    /\ members' = ids
    /\ entry' = [i \in DOMAIN entry |-> [entry[i] EXCEPT !.grades =
            [u \in ids |-> IF Passes(entry[i].score) THEN "APPROVED"
                           ELSE IF u \in members THEN @[u] ELSE "NONE"]]]
    /\ UNCHANGED <<now, due, charged>>

Next ==
    \/ TimePasses
    \/ \E date \in Times :
        \/ DeliverForReview(date)
        \/ \E score \in Scores : DeliverFirst(score, date) \/ DeliverTested(score, date)
        \/ DeliverFirst(0, date)
    \/ \E score \in Scores : Rebuild(score) \/ Review(score)
    \/ \E u \in due : Charge(u)
    \/ \E ids \in {{u} : u \in Users} \cup {Users}, status \in TeacherStatus : SetGrade(ids, status)
    \/ \E ids \in SUBSET Users \ {{}} : Regroup(ids)

Spec == Init /\ [][Next]_vars
=============================================================================
