--------------------------- MODULE MCIngestWatch ---------------------------
(* A small instance of IngestWatch for TLC.                                  *)
EXTENDS IngestWatch

CONSTANT forever     \* not a number, so not a count of passes

MCLimits == {0, 2, forever}
=============================================================================
