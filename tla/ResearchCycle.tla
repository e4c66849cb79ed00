--------------------------- MODULE ResearchCycle ---------------------------
(***************************************************************************)
(* The research cycle (research/cycle.py and its cycle_* modules): a chain *)
(* of stages that a person starts again and again, each call a run of its  *)
(* own that goes on where the last one stopped.                            *)
(*                                                                         *)
(* A run keeps its state in checkpoint events.  The next call does not     *)
(* read them: it reads the row of the newest run, which a catch-up of the  *)
(* projections has written.  Reading that row and starting, and saving a   *)
(* checkpoint and catching up, are two steps each; a process may end       *)
(* between them; a catch-up may fail on an event and pass it, or write an  *)
(* older one back; and nothing keeps two calls from overlapping.           *)
(*                                                                         *)
(* The mode of a call and the halts it configures are chosen where they    *)
(* are used, so that one run may stand for calls of several settings.      *)
(***************************************************************************)
EXTENDS Integers, FiniteSets, Sequences

CONSTANTS Stages,      \* the chain, in order
          Configs,     \* the sets of gates that callers configure as halts
          MaxActive,   \* bound: calls in progress at a time
          MaxRuns,     \* bound: runs that later calls can still meet
          None

StageName == {"ingest", "inductive", "deductive", "keywords", "report", "notebook"}

Gate == {"codebook_promotion", "interpretive_code_review",
         "gray_zone_escalation", "drift_alarm", "overlap_conflict",
         "threshold_unreliable", "human_parity_breach", "unreleased_draft"}

ASSUME CycleAssumption ==
    /\ Stages \in Seq(StageName) /\ Len(Stages) > 0
    /\ \A m, n \in DOMAIN Stages : Stages[m] = Stages[n] => m = n
    /\ MaxActive \in Nat \ {0}
    /\ MaxRuns \in Nat
    /\ None \notin Gate

VARIABLE runs   \* the runs the next call can meet, in the order they started,
                \* and the calls that have yet to start theirs

\* The gates a stage can raise, in the order they are looked at.
GatesOf(stage) ==
    CASE stage = "inductive" ->
            <<"drift_alarm", "codebook_promotion", "gray_zone_escalation">>
      [] stage = "deductive" ->
            <<"threshold_unreliable", "interpretive_code_review",
              "gray_zone_escalation">>
      [] stage = "report" -> <<"overlap_conflict", "human_parity_breach">>
      [] OTHER -> <<>>

\* A bug: the configured gates replace the floor.
Fault_HaltSet(configured) == configured

HaltSet(configured) == configured \cup {"codebook_promotion"}

Last1 == Len(Stages)

\* Stages go by their position; 0 stands for no stage.
Checkpoint ==
    [kind : {"none", "stage_complete", "stage_unavailable", "gate_halt",
             "approval_denied", "cycle_complete"},
     stage : 0 .. Last1, gate : Gate \cup {None}]

ASSUME NoneAssumption == None \notin Checkpoint

\* A bug: the checkpoint names the stage that comes next.
Fault_Plain(kind, stage) ==
    [kind |-> kind, stage |-> IF stage = 0 THEN 0 ELSE stage + 1, gate |-> None]

Plain(kind, stage) == [kind |-> kind, stage |-> stage, gate |-> None]

Run ==
    [pc : {"load", "open", "stage", "seal", "gates", "mode", "over"},
     suppressed : Gate \cup {None},
     at : 0 .. Last1 + 1,              \* the stage it is at, 0 once it stops
     blocked : BOOLEAN,                \* whether that stage was blocked
     saved : Checkpoint,               \* its last checkpoint event
     past : SUBSET Checkpoint,         \* every one it has saved, and none
     row : {"none", "behind", "shown"}, \* what its row holds: the last one, or
                                       \* an earlier one
     covered : SUBSET (1 .. Last1),    \* history: the stages that ran, here
                                       \* and before the point it resumes at
     barred : SUBSET (1 .. Last1),     \* history: those that were blocked
     unheeded : SUBSET Gate]           \* history: halt gates it went past

TypeOK == runs \in Seq(Run) /\ Len(runs) <= MaxRuns

\* A call that is over, or that has only its last checkpoint to seal (pc), leaves
\* no more than what is stored.
Ended(r, pc) ==
    [r EXCEPT !.pc = pc, !.suppressed = None, !.at = 0, !.blocked = FALSE, !.unheeded = {}]

Over(r) == Ended(r, "over")

Active == {i \in DOMAIN runs : runs[i].pc # "over"}

\* The runs rs with only those at the places K left, in their order: the one
\* sequence of this set.
Left(rs, K) ==
    {[n \in 1 .. Cardinality(K) |-> rs[f[n]]] :
       f \in {g \in [1 .. Cardinality(K) -> K] : \A m, n \in DOMAIN g : m < n => g[m] < g[n]}}

\* A run that is over matters only as long as no later run has a row.
Relevant(rs) ==
    {i \in DOMAIN rs :
       rs[i].pc # "over" \/ \A j \in DOMAIN rs : rs[j].row # "none" => j <= i}

\* Run i becomes r.
Becomes(i, r) == runs' = [runs EXCEPT ![i] = r]

Ends(i) ==
    LET rs == [runs EXCEPT ![i] = Over(runs[i])]
    IN runs' \in Left(rs, Relevant(rs))

Init == runs = <<>>

----------------------------------------------------------------------------
(* Where a new run begins.                                                   *)

Resumable(c) == c.kind \in {"stage_complete", "gate_halt", "approval_denied"}

\* A bug: a stage that could not run is taken for one that is complete.
Fault_ResumePoint(c) ==
    [after |-> IF c.kind \in {"stage_complete", "gate_halt", "approval_denied",
                              "stage_unavailable"}
               THEN c.stage ELSE 0,
     suppressed |-> IF c.kind = "gate_halt" THEN c.gate ELSE None]

\* After the stage of the checkpoint, or from the first.
ResumePoint(c) ==
    [after |-> IF Resumable(c) THEN c.stage ELSE 0,
     suppressed |-> IF c.kind = "gate_halt" THEN c.gate ELSE None]

\* The newest run that has a row; none before the first.
Anchor == {i \in DOMAIN runs :
             /\ runs[i].row # "none"
             /\ \A j \in DOMAIN runs : runs[j].row # "none" => j <= i}

\* The checkpoints its row may hold.
Held(r) == IF r.row = "shown" THEN {r.saved} ELSE r.past

\* A bug: the stage of the checkpoint is run again.
Fault_FirstOf(point) == IF point.after = 0 THEN 1 ELSE point.after

FirstOf(point) == point.after + 1

\* What a call has read: the checkpoint it goes on from, and the history up to
\* there.
Loaded(point, covered, barred) ==
    [pc |-> "load",
     suppressed |-> point.suppressed, at |-> FirstOf(point),
     blocked |-> FALSE,
     saved |-> Plain("none", 0), past |-> {Plain("none", 0)}, row |-> "none",
     covered |-> covered \cap (1 .. point.after),
     barred |-> barred \cap (1 .. point.after),
     unheeded |-> {}]

\* _last_cycle_run: the row of the anchor, or none.
Calls ==
    IF Anchor = {} THEN {Loaded(ResumePoint(Plain("none", 0)), {}, {})}
    ELSE UNION {{Loaded(ResumePoint(c), runs[i].covered, runs[i].barred) : c \in Held(runs[i])} :
                  i \in Anchor}

\* A call reads.  Runs that are over and have no row may be forgotten here: the
\* projection has failed on their start.
Load ==
    /\ Cardinality(Active) < MaxActive
    /\ \E K \in SUBSET Relevant(runs) :
         /\ Active \cup Anchor \subseteq K
         /\ Cardinality(K) < MaxRuns
         /\ \E left \in Left(runs, K), call \in Calls : runs' = Append(left, call)

\* start_coding_run: the call has a run now, the newest one, whatever it has read.
\* A run that resumes catches up before it goes on: what a person has done since
\* the last one is in the log.
Start(i) ==
    /\ runs[i].pc = "load"
    /\ \E left \in Left(runs, DOMAIN runs \ {i}) :
         runs' = Append(left, [runs[i] EXCEPT
                                 !.pc = IF runs[i].at = 1 THEN "stage" ELSE "open"])

----------------------------------------------------------------------------
(* Checkpoints and their projection.                                         *)

\* The row of a run is brought up to its last checkpoint.
Shown(r) == IF r.pc = "load" THEN r ELSE [r EXCEPT !.row = "shown"]

\* A catch-up.  F are the runs on whose last events the projection fails, which
\* it puts aside, or which the catch-up does not reach.
Projected(rs, F) ==
    LET caught == [i \in DOMAIN rs |-> IF i \in F THEN rs[i] ELSE Shown(rs[i])]
    IN Left(caught, Relevant(caught))

\* The runs whose rows may be read, now or once they have one.
Behind == {i \in DOMAIN runs : runs[i].row # "shown" /\ \A j \in Anchor : j <= i}

\* Any tool call and any stage catches the projections up.
CatchUp(F) == runs # <<>> /\ runs' \in Projected(runs, F)

\* Another drain of the projection is behind: its UPDATE of the row is as good
\* as any, and writes an older checkpoint back.
WriteBack(i) ==
    /\ i \in Anchor /\ runs[i].row = "shown"
    /\ Becomes(i, [runs[i] EXCEPT !.row = "behind"])

\* The event is saved; the catch-up that shows it is the next step.
Checkpointed(r, c) ==
    [r EXCEPT !.pc = "seal", !.saved = c, !.past = r.past \cup {c},
              !.row = IF r.row = "none" THEN "none" ELSE "behind"]

Stopping(r, c) == Checkpointed(Ended(r, "seal"), c)

Sealed(r) == [r EXCEPT !.pc = IF r.at = 0 THEN "over" ELSE "gates"]

\* A bug: the checkpoint is left for somebody else's catch-up to project.
Fault_Seal(i, F) == runs[i].pc = "seal" /\ Becomes(i, Sealed(runs[i]))

Seal(i, F) ==
    /\ runs[i].pc = "seal"
    /\ runs' \in Projected([runs EXCEPT ![i] = Sealed(runs[i])], F)

Open(i, F) ==
    /\ runs[i].pc = "open"
    /\ runs' \in Projected([runs EXCEPT ![i] = [runs[i] EXCEPT !.pc = "stage"]], F)

----------------------------------------------------------------------------
(* One stage.                                                                *)

\* The stage answers; the deductive one may also say that it was blocked, which
\* is recorded as complete.
RunStage(i) ==
    LET r == runs[i]
        complete == Checkpointed(r, Plain("stage_complete", r.at))
    IN
    /\ r.pc = "stage" /\ r.at <= Last1
    /\ \/ Becomes(i, [complete EXCEPT !.covered = r.covered \cup {r.at}])
       \/ /\ Stages[r.at] = "deductive"
          /\ Becomes(i, [complete EXCEPT !.blocked = TRUE, !.barred = r.barred \cup {r.at}])

Unavailable(i) ==
    LET r == runs[i] IN
    /\ r.pc = "stage" /\ r.at <= Last1
    /\ Becomes(i, Stopping(r, Plain("stage_unavailable", r.at)))

\* What the gates of a stage may find.
Findings(r) ==
    IF r.blocked THEN {{"unreleased_draft"}}
    ELSE LET order == GatesOf(Stages[r.at]) IN SUBSET {order[n] : n \in DOMAIN order}

\* Of several halting gates the first one is put on record.
First(r, gates) ==
    IF r.blocked THEN "unreleased_draft"
    ELSE LET order == GatesOf(Stages[r.at]) IN
         order[CHOOSE n \in DOMAIN order :
                 /\ order[n] \in gates
                 /\ \A m \in DOMAIN order : m < n => order[m] \notin gates]

\* The gates a caller configures are looked at here, where they are used.
LookAtGates(i) ==
    LET r == runs[i] IN
    /\ r.pc = "gates"
    /\ \E findings \in Findings(r), configured \in Configs :
        LET halting == (findings \cap HaltSet(configured)) \ {r.suppressed}
            floored == configured \cup {"codebook_promotion"}
        IN
        \/ /\ halting # {}
           /\ Becomes(i, Stopping(r, [kind |-> "gate_halt", stage |-> r.at,
                                      gate |-> First(r, halting)]))
        \/ /\ halting = {}
           /\ Becomes(i, [r EXCEPT !.pc = "mode", !.blocked = FALSE,
                                   !.unheeded = r.unheeded \cup (findings \cap floored)])

----------------------------------------------------------------------------
(* Between stages, and at the end.                                           *)

GoOn(i) == Becomes(i, [runs[i] EXCEPT !.pc = "stage", !.at = runs[i].at + 1])

\* Mode in stops.  The receipt of a proposal, if there is one, is sealed with
\* the checkpoint of the stage.
StopAfterOne(i) ==
    /\ runs[i].pc = "mode"
    /\ \/ Ends(i)
       \/ Becomes(i, Stopping(runs[i], Plain("stage_complete", runs[i].at)))

\* Mode on asks, or stops where there is nobody to ask.
AskApproval(i) ==
    /\ runs[i].pc = "mode"
    /\ Ends(i) \/ GoOn(i)

Deny(i) ==
    /\ runs[i].pc = "mode"
    /\ Becomes(i, Stopping(runs[i], Plain("approval_denied", runs[i].at)))

Unattended(i) ==
    /\ runs[i].pc = "mode"
    /\ GoOn(i)

\* Of the alarms a receipt at most is added to the checkpoint.
Complete(i) ==
    /\ runs[i].pc = "stage" /\ runs[i].at > Last1
    /\ Becomes(i, Stopping(runs[i], Plain("cycle_complete", 0)))

\* The process ends, or an exception leaves run_cycle.  A call that has not
\* started its run leaves nothing.
Crash(i) ==
    /\ i \in Active
    /\ \/ runs[i].pc = "load" /\ runs' \in Left(runs, DOMAIN runs \ {i})
       \/ runs[i].pc # "load" /\ Ends(i)

Step(i) ==
    \/ Start(i) \/ RunStage(i) \/ LookAtGates(i)
    \/ StopAfterOne(i) \/ AskApproval(i) \/ Unattended(i) \/ Complete(i)

Next ==
    \/ Load
    \/ \E F \in SUBSET Behind :
         CatchUp(F) \/ \E i \in DOMAIN runs : Open(i, F) \/ Seal(i, F)
    \/ \E i \in DOMAIN runs :
         Step(i) \/ Unavailable(i) \/ Deny(i) \/ Crash(i) \/ WriteBack(i)

vars == runs

Spec == Init /\ [][Next]_vars

----------------------------------------------------------------------------
(* What the cycle promises.                                                  *)

Before(n) == {m \in 1 .. Last1 : m < n}

\* Whatever crashes, overlaps and denials came before, and whichever of its
\* checkpoints the row of a run holds, a run is at a stage only if each stage
\* before it has run, in this run or in those it goes on from, or was blocked
\* there: cycle_reads.py:67-69 has the cycle halt at a block "instead of marching
\* past a stage that never ran", and so it does, but its next run marches past.
\* So a complete cycle has run every stage, or was blocked at it.
NothingSkipped ==
    \A i \in DOMAIN runs : Before(runs[i].at) \subseteq runs[i].covered \cup runs[i].barred

\* The gate a run was resumed from is the only halt gate it can go past of those
\* it looks at, however the halts are configured, and that happens at one place: a
\* gray zone that halted the inductive stage does not halt the deductive one.  So
\* no run that looks at the gates of its stage goes past a promotion they raise.
\* (Two ways past a promotion remain: a run that halts at a drift recorded with
\* it, and one that ends between sealing the stage and looking at its gates.  The
\* next run goes on after the stage and does not look at its gates again.)
SuppressionIsLocal ==
    \A i \in DOMAIN runs : runs[i].unheeded # {} =>
        /\ runs[i].unheeded = {"gray_zone_escalation"}
        /\ runs[i].suppressed = "gray_zone_escalation"
        /\ \E n \in 1 .. Last1 : Stages[n] = "deductive" /\ n < runs[i].at + 1

\* The run that started last.
NewestRun ==
    {n \in DOMAIN runs :
       /\ runs[n].pc # "load"
       /\ \A j \in DOMAIN runs : j > n => runs[j].pc = "load"}

\* When the newest run has stopped at a stage one can resume after, and its row
\* says so, the next call begins beyond everything that run has run or gone on
\* from.  After a stage that was unavailable, a complete cycle, or on a row that is
\* behind, it does not: it begins at the first stage, or at an earlier one, and
\* runs stages again.
ResumedBeyond ==
    [][\A n \in NewestRun :
         /\ Load
         /\ runs[n].row = "shown"
         /\ Resumable(runs[n].saved)
         => \A m \in runs[n].covered : m < runs'[Len(runs')].at]_vars
=============================================================================
