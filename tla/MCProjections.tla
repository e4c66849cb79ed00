--------------------------- MODULE MCProjections ---------------------------
(* Small instances of Projections for TLC, and what the repository says of   *)
(* the projections that they do not do.                                      *)
EXTENDS Projections

CONSTANTS docs, docsCatchup, embeds, embedsCatchup, research, researchCatchup,
          doc1, doc2

CONSTANTS WindowSize,        \* events per read
          FlakyPositions

MCWindow == [p \in Projection |-> WindowSize]
MCFlaky == [p \in Projection |-> FlakyPositions]

\* catchup.py:24 "Advance research + documents + embeds projections to the
\* event head": the embeds get to every text event of the log.
EmbedsReachHead ==
    \A n \in Pos : Feeds!Served("embeds", n)
=============================================================================
