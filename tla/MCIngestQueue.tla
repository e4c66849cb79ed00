--------------------------- MODULE MCIngestQueue ---------------------------
(* Small instances of IngestQueue for TLC. *)
EXTENDS IngestQueue, TLC

CONSTANTS w1, w2, w3, c1, c2, h1, h2

\* No property that uses this symmetry is a liveness property.
Symmetry == Permutations(Worker) \cup Permutations(Client)
=============================================================================
