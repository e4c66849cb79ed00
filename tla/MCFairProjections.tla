------------------------- MODULE MCFairProjections -------------------------
(* The projections of documents and of research for TLC, each followed by    *)
(* itself: a behaviour is about one of them and the drainers of the other    *)
(* are off.  The two share no state but the log and the documents' rows.     *)
EXTENDS Projections

CONSTANTS docs, docsCatchup, research, researchCatchup, doc1,
          MaxResearchLog   \* bound: events ever written, where research is followed

MCWindow == [p \in Projection |-> IF p = "documents" THEN 3 ELSE 2]
MCFlaky == [p \in Projection |-> IF p = "documents" THEN {1} ELSE 1 .. 2]

VARIABLE subject     \* the projection that is followed

FairInit == Init /\ subject \in {"documents", "research"}

Follows(d) == ProjectionOf(d) = subject

\* Blank events are left out: no projection owes them anything, and a failing
\* checkpoint write of one leaves the batch as that of a text does.
FairNext ==
    /\ \/ /\ subject = "research" => Len(log) < MaxResearchLog
          /\ \E e \in Event : e.kind # "blank" /\ Write(e)
       \/ \E d \in Drainer : Follows(d) /\ (DrainStep(d) \/ StoreRaises(d) \/ Crash(d))
    /\ UNCHANGED subject

FollowSpec ==
    /\ FairInit /\ [][FairNext]_<<vars, subject>>
    /\ \A d \in Steady : WF_vars(Follows(d) /\ DrainStep(d))

\* DocumentsServed or ResearchServed, of the projection that is followed: a loop
\* of documents settles each event it handles, and research catch-ups settle
\* each of theirs, although others overlap with them, crash and raise.
LogIsFollowed ==
    /\ subject = "documents" => DocumentsServed
    /\ subject = "research" => ResearchServed
=============================================================================
