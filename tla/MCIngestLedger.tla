-------------------------- MODULE MCIngestLedger --------------------------
(* Small instances of IngestLedger for TLC. *)
EXTENDS IngestLedger, TLC

CONSTANTS p1, p2, s1, s2, long, short, empty, x, y

\* A content of two chunks, one that changes the first of them and drops the
\* second, and one for which the strategy plans no chunk at all.
MCParts == [c \in Content |->
    CASE c = long -> <<x, y>> [] c = short -> <<y>> [] c = empty -> <<>>]

CONSTANT MaxCollidedRuns

\* Three runs follow one another; where activities overlap, nothing is claimed
\* of the source any more, and two runs are explored.
Bound == collided # {} => \A r \in RunId : status[r] # "absent" => r <= MaxCollidedRuns

Symmetry == Permutations(Runner)
=============================================================================
