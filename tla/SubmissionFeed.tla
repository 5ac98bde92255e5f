--------------------------- MODULE SubmissionFeed ---------------------------
(***************************************************************************)
(* What the stream service promises a browser, without goroutines, mutexes  *)
(* and channels: a user has at most one current connection; a submission is *)
(* handed to current connections only, at most once to each, and in the     *)
(* order in which the submissions were published; a connection that has     *)
(* been replaced or removed never becomes current again.                    *)
(***************************************************************************)
EXTENDS Naturals, Sequences

CONSTANTS Users, Conns, ConnUser, None

VARIABLES
    feed,       \* the current connection of each user
    seen,       \* the connections that have been current
    published,  \* the number of submissions published so far
    handed      \* the submissions handed to each connection

vars == <<feed, seen, published, handed>>

Init ==
    /\ feed = [u \in Users |-> None]
    /\ seen = {}
    /\ published = 0
    /\ handed = [c \in Conns |-> <<>>]

Attach(c) ==
    /\ c \notin seen
    /\ feed[ConnUser[c]] = None
    /\ feed' = [feed EXCEPT ![ConnUser[c]] = c]
    /\ seen' = seen \cup {c}
    /\ UNCHANGED <<published, handed>>

Detach(u) ==
    /\ feed[u] # None
    /\ feed' = [feed EXCEPT ![u] = None]
    /\ UNCHANGED <<seen, published, handed>>

Publish ==
    /\ published' = published + 1
    /\ UNCHANGED <<feed, seen, handed>>

(* The latest submission is handed to u's current connection, once. *)
Hand(u) ==
    LET c == feed[u] IN
    /\ c # None
    /\ \A i \in 1 .. Len(handed[c]) : handed[c][i] < published
    /\ handed' = [handed EXCEPT ![c] = Append(@, published)]
    /\ UNCHANGED <<feed, seen, published>>

Next ==
    \/ \E c \in Conns : Attach(c)
    \/ \E u \in Users : Detach(u) \/ Hand(u)
    \/ Publish

Spec == Init /\ [][Next]_vars
=============================================================================
