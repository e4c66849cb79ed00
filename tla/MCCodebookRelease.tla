------------------------- MODULE MCCodebookRelease -------------------------
(* A small instance of CodebookRelease for TLC.                              *)
EXTENDS CodebookRelease, TLC

CONSTANTS h1, h2, r1, r2

Symmetry == Permutations(Handler) \cup Permutations(Release)
=============================================================================
