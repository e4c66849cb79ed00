--------------------------- MODULE Subscriptions ---------------------------
(***************************************************************************)
(* What the read-model projections promise, without checkpoints, batches,  *)
(* dead letters or drainers: each feed takes the events it wants out of    *)
(* one growing log, in the order of the log, and leaves none out.  To take *)
(* an event is to project it or to put it on record as failed.  A feed may *)
(* admit events it does not want, and take one when its turn has come.     *)
(* Projections implements this specification.                              *)
(***************************************************************************)
EXTENDS Naturals, Sequences

CONSTANTS Feed,      \* the subscribers
          Event,     \* what the log may hold
          Wants,     \* feed -> the set of events it wants
          Admits     \* feed -> the set of events it may take, wanted or not

VARIABLES log,       \* every event published, oldest first
          taken      \* feed -> the positions of the log it has taken
vars == <<log, taken>>

Init ==
    /\ log = <<>>
    /\ taken = [f \in Feed |-> {}]

Publish(e) ==
    /\ log' = Append(log, e)
    /\ UNCHANGED taken

\* An event with every wanted event of the log before it taken.
Take(f, n) ==
    /\ n \notin taken[f]
    /\ log[n] \in Admits[f]
    /\ \A m \in 1 .. (n - 1) : log[m] \in Wants[f] => m \in taken[f]
    /\ taken' = [taken EXCEPT ![f] = @ \cup {n}]
    /\ UNCHANGED log

Next ==
    \/ \E e \in Event : Publish(e)
    \/ \E f \in Feed, n \in DOMAIN log : Take(f, n)

Spec == Init /\ [][Next]_vars

\* A feed that is served takes every event it wants.
Served(f, n) == n \in DOMAIN log /\ log[n] \in Wants[f] ~> n \in taken[f]
=============================================================================
