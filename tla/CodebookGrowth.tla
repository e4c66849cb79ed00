--------------------------- MODULE CodebookGrowth ---------------------------
(***************************************************************************)
(* What promotion promises of the proposals and of the codebook that grows *)
(* from them: versions are only added, each for a proposal that is there;  *)
(* a proposal is promoted once at most, by a step that also names a version *)
(* of its own, and keeps that name whatever blocks it later.               *)
(***************************************************************************)
EXTENDS Naturals, Sequences

CONSTANT Proposal

VARIABLES verdict,   \* proposal -> what has been decided of it
          name,      \* proposal -> the version it was promoted to, 0 for none
          book       \* the proposals the versions are of, in order

Propose(P) ==
    /\ P # {} /\ \A p \in P : verdict[p] = "absent"
    /\ verdict' = [p \in Proposal |-> IF p \in P THEN "proposed" ELSE verdict[p]]
    /\ UNCHANGED <<name, book>>

Grow(p) ==
    /\ verdict[p] # "absent"
    /\ book' = Append(book, p)
    /\ UNCHANGED <<verdict, name>>

Promote(p) ==
    /\ verdict[p] = "proposed" /\ name[p] = 0
    /\ \E v \in DOMAIN book : book[v] = p /\ name' = [name EXCEPT ![p] = v]
    /\ verdict' = [verdict EXCEPT ![p] = "promoted"]
    /\ UNCHANGED book

Block(p) ==
    /\ verdict[p] # "absent"
    /\ verdict' = [verdict EXCEPT ![p] = "duplicate_blocked"]
    /\ UNCHANGED <<name, book>>

Init ==
    /\ verdict = [p \in Proposal |-> "absent"]
    /\ name = [p \in Proposal |-> 0]
    /\ book = <<>>

Next ==
    \/ \E P \in SUBSET Proposal : Propose(P)
    \/ \E p \in Proposal : Grow(p) \/ Promote(p) \/ Block(p)

Spec == Init /\ [][Next]_<<verdict, name, book>>
=============================================================================
