----------------------------- MODULE WorkOrder -----------------------------
(***************************************************************************)
(* What the ingest queue promises, without workers, leases, heartbeats or  *)
(* passes: an order is accepted under a key, is worked on, and ends done,   *)
(* failed or cancelled.  An order that is worked on can come back only by   *)
(* spending one try of its allowance, or untouched.  IngestQueue implements *)
(* this specification.                                                      *)
(***************************************************************************)
EXTENDS Naturals

CONSTANTS Order,       \* the orders ever placed
          Key,         \* what an order is for; one open order per key
          Allowance,   \* the numbers of tries an order may be given
          NoKey        \* the key of an order not yet placed

VARIABLES phase,       \* order -> where it stands
          spent,       \* order -> the tries it has used
          allowed,     \* order -> the tries it was given
          key          \* order -> what it is for
vars == <<phase, spent, allowed, key>>

Open == {"pending", "running"}

Init ==
    /\ phase = [o \in Order |-> "absent"]
    /\ spent = [o \in Order |-> 0]
    /\ allowed = [o \in Order |-> 0]
    /\ key = [o \in Order |-> NoKey]

\* Taken on, unless an open order has the same key.
Accept(o, k, n) ==
    /\ phase[o] = "absent"
    /\ \A p \in Order : phase[p] \in Open => key[p] # k
    /\ phase' = [phase EXCEPT ![o] = "pending"]
    /\ allowed' = [allowed EXCEPT ![o] = n]
    /\ key' = [key EXCEPT ![o] = k]
    /\ UNCHANGED spent

Begin(o) ==
    /\ phase[o] = "pending"
    /\ phase' = [phase EXCEPT ![o] = "running"]
    /\ UNCHANGED <<spent, allowed, key>>

GiveBack(o) ==
    /\ phase[o] = "running"
    /\ phase' = [phase EXCEPT ![o] = "pending"]
    /\ UNCHANGED <<spent, allowed, key>>

Complete(o) ==
    /\ phase[o] = "running"
    /\ phase' = [phase EXCEPT ![o] = "done"]
    /\ UNCHANGED <<spent, allowed, key>>

CancelOrder(o) ==
    /\ phase[o] \in Open
    /\ phase' = [phase EXCEPT ![o] = "cancelled"]
    /\ UNCHANGED <<spent, allowed, key>>

\* Some orders being worked on lose a try each; the last one allowed fails them.
Spend(S) ==
    /\ S # {}
    /\ \A o \in S : phase[o] = "running" /\ spent[o] < allowed[o]
    /\ spent' = [o \in Order |-> IF o \in S THEN spent[o] + 1 ELSE spent[o]]
    /\ phase' = [o \in Order |->
                   IF o \notin S THEN phase[o]
                   ELSE IF spent'[o] = allowed[o] THEN "failed" ELSE "pending"]
    /\ UNCHANGED <<allowed, key>>

Next ==
    \/ \E o \in Order, k \in Key, n \in Allowance : Accept(o, k, n)
    \/ \E o \in Order : Begin(o) \/ GiveBack(o) \/ Complete(o) \/ CancelOrder(o)
    \/ \E S \in SUBSET Order : Spend(S)

Spec == Init /\ [][Next]_vars

\* Every order accepted ends.
EveryOrderEnds ==
    \A o \in Order : phase[o] \in Open ~> phase[o] \in {"done", "failed", "cancelled"}
=============================================================================
