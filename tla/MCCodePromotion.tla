-------------------------- MODULE MCCodePromotion --------------------------
(* A small instance of CodePromotion for TLC.                                *)
EXTENDS CodePromotion

CONSTANTS p1, p2, c1, c2

\* Each proposal is like itself; p1 and p2 are of one
\* cluster, seen in two runs.
MCAlike == {<<p, p>> : p \in Proposal} \cup {<<p1, p2>>, <<p2, p1>>}
=============================================================================
