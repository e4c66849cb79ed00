-------------------------- MODULE MCResearchCycle --------------------------
(***************************************************************************)
(* A small instance of ResearchCycle for TLC, with a time from which on    *)
(* nothing disturbs it.                                                    *)
(***************************************************************************)
EXTENDS ResearchCycle

\* Keywords and notebook raise no gates and are left out of the instance.
MCStages == <<"ingest", "inductive", "deductive", "report">>

MCConfigs == {{}, Gate \ {"codebook_promotion"}}

VARIABLE calm   \* whether that time has come

\* Each call is started after the one before it is over, none crashes, no stage
\* is unavailable, nobody denies, and every catch-up shows what was saved.  Gates
\* may halt every stage.
CalmNext ==
    /\ calm
    /\ \/ Active = {} /\ Load
       \/ \E i \in Active : Step(i) \/ Open(i, {}) \/ Seal(i, {})
    /\ UNCHANGED calm

CalmInit == Init /\ calm = FALSE

CalmSpec ==
    /\ CalmInit
    /\ [][\/ ~calm /\ Next /\ calm' \in {FALSE, Active' = {}}
          \/ CalmNext
          \/ calm /\ CatchUp({}) /\ UNCHANGED calm]_<<runs, calm>>
    /\ WF_<<runs, calm>>(CalmNext)

\* A person who keeps starting the cycle again gets it completed, again and
\* again, in any mix of modes and however many gates halt it.
CycleCompletes ==
    [](calm => <>(\E i \in DOMAIN runs : runs[i].saved.kind = "cycle_complete"))
=============================================================================
