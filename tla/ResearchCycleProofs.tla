------------------------ MODULE ResearchCycleProofs ------------------------
(***************************************************************************)
(* Machine-checked theorems about ResearchCycle, for every chain of        *)
(* distinct stages, every choice of halts, and any number of calls at a    *)
(* time, however they overlap, halt, are denied or crash.                  *)
(*                                                                         *)
(* The invariant speaks of one run at a time: what its history, its last   *)
(* checkpoint and its row say of each other.  So an action preserves it    *)
(* when the one run it changes still satisfies it, or when the call it      *)
(* adds goes on from a checkpoint of a run that satisfies it.              *)
(***************************************************************************)
EXTENDS ResearchCycle, FiniteSetTheorems, SequenceTheorems, TLAPS

----------------------------------------------------------------------------
(* The invariant of a run.                                                   *)

\* The stages behind a run: they have run, or were blocked.
Passed(r) == r.covered \cup r.barred

Whole(done, n) == \A m \in 1 .. Last1 : m <= n => m \in done

\* No stage after n has run.
UpTo(covered, n) == \A m \in covered : m <= n

\* A stage may halt at gate g, blocked or not.
MayHalt(stage, g) ==
    \/ \E n \in DOMAIN GatesOf(stage) : GatesOf(stage)[n] = g
    \/ stage = "deductive" /\ g = "unreleased_draft"

\* A checkpoint one can resume at stands for a whole prefix of the chain, and a
\* halt names a gate of its stage.
Sound(done, c) ==
    /\ Resumable(c) => c.stage \in 1 .. Last1 /\ Whole(done, c.stage)
    /\ c.kind = "gate_halt" => MayHalt(Stages[c.stage], c.gate)

\* Every checkpoint of a run is sound, since any may be on its row; the last one
\* names the last stage that has run.
SavedOK(r) ==
    /\ r.saved \in r.past
    /\ \A c \in r.past : Sound(Passed(r), c)
    /\ Resumable(r.saved) => UpTo(r.covered, r.saved.stage)

\* What a run in progress has behind it, and how its last checkpoint stands to
\* the stage it is at.
PlaceOK(r) ==
    /\ r.pc = "over" => r.at = 0
    /\ r.pc = "load" => r.row = "none"
    /\ r.pc \notin {"over", "seal"} => r.at # 0
    /\ r.at # 0 =>
        /\ Whole(Passed(r), r.at - 1) /\ UpTo(r.covered, r.at)
        /\ r.pc \in {"seal", "gates", "mode"} =>
              Resumable(r.saved) /\ r.saved.stage = r.at

\* Where the gate that is suppressed comes from, and what it lets pass.
GatesOK(r) ==
    /\ r.suppressed # None =>
          \E a \in 1 .. Last1 : a < r.at /\ MayHalt(Stages[a], r.suppressed)
    /\ r.blocked =>
          r.pc \in {"seal", "gates"} /\ r.at \in 1 .. Last1 /\ Stages[r.at] = "deductive"
    /\ r.unheeded # {} =>
          /\ r.unheeded = {"gray_zone_escalation"}
          /\ r.suppressed = "gray_zone_escalation"
          /\ \E n \in 1 .. Last1 : Stages[n] = "deductive" /\ n < r.at + 1

RunInv(r) == r \in Run /\ SavedOK(r) /\ PlaceOK(r) /\ GatesOK(r)

\* The runs one can meet, however many.
RunsInv == runs \in Seq(Run) /\ \A i \in DOMAIN runs : RunInv(runs[i])

CycleInv == RunsInv /\ Len(runs) <= MaxRuns

----------------------------------------------------------------------------
(* Gates.                                                                    *)

LEMMA ChainFacts == Last1 \in Nat /\ Last1 > 0 /\ DOMAIN Stages = 1 .. Last1
BY CycleAssumption DEF Last1

\* The gates of each stage, as a set.
LEMMA GateSets ==
    ASSUME NEW stage, NEW g, MayHalt(stage, g)
    PROVE  \/ /\ stage = "inductive"
              /\ g \in {"drift_alarm", "codebook_promotion", "gray_zone_escalation"}
           \/ /\ stage = "deductive"
              /\ g \in {"threshold_unreliable", "interpretive_code_review",
                        "gray_zone_escalation", "unreleased_draft"}
           \/ stage = "report" /\ g \in {"overlap_conflict", "human_parity_breach"}
BY DEF MayHalt, GatesOf

\* Two stages have at most the escalation of gray zones in common.
LEMMA SharedGate ==
    ASSUME NEW m, NEW n, NEW g, MayHalt(m, g), MayHalt(n, g), m # n
    PROVE  g = "gray_zone_escalation" /\ "deductive" \in {m, n}
BY GateSets

LEMMA HaltingGates == \A stage, g : MayHalt(stage, g) => g \in Gate
BY GateSets DEF Gate

\* What the gates find at a stage are gates of the stage.
LEMMA FindingsFacts ==
    ASSUME NEW r, GatesOK(r), NEW findings \in Findings(r), NEW g \in findings
    PROVE  MayHalt(Stages[r.at], g) /\ g \in Gate
<1>1. MayHalt(Stages[r.at], g)
  <2>1. CASE r.blocked
    BY <2>1 DEF Findings, GatesOK, MayHalt
  <2>2. CASE ~r.blocked
    BY <2>2 DEF Findings, MayHalt
  <2> QED
    BY <2>1, <2>2
<1> QED
  BY <1>1, HaltingGates

\* Of several gates that a stage has found there is a first one.
LEMMA FirstFound ==
    ASSUME NEW r, NEW findings \in Findings(r), NEW gates \in SUBSET findings, gates # {}
    PROVE  First(r, gates) \in gates
<1>1. CASE r.blocked
  BY <1>1 DEF Findings, First
<1>2. CASE ~r.blocked
  <2> DEFINE order == GatesOf(Stages[r.at])
             N == {n \in DOMAIN order : order[n] \in gates}
             Least(n) == order[n] \in gates /\ \A m \in DOMAIN order : m < n => order[m] \notin gates
  <2>1. N # {}
    BY <1>2 DEF Findings
  <2>2. DOMAIN order \subseteq {1, 2, 3}
    BY DEF GatesOf
  <2>3. \E n \in N : \A m \in N : n <= m
    <3>1. N \subseteq {1, 2, 3}
      BY <2>2
    <3> HIDE DEF N
    <3>2. CASE 1 \in N
      BY <3>1, <3>2
    <3>3. CASE 1 \notin N /\ 2 \in N
      BY <3>1, <3>3
    <3>4. CASE 1 \notin N /\ 2 \notin N
      <4>1. \A m \in N : m = 3
        BY <3>1, <3>4
      <4> QED
        BY <2>1, <4>1
    <3> QED
      BY <3>2, <3>3, <3>4
  <2>4. \E n \in DOMAIN order : Least(n)
    <3>1. PICK n \in N : \A m \in N : n <= m
      BY <2>3
    <3>2. \A m \in DOMAIN order : m < n => m \notin N
      BY <2>2, <3>1
    <3> QED
      BY <3>1, <3>2
  <2>5. Least(CHOOSE n \in DOMAIN order : Least(n))
    <3> HIDE DEF Least
    <3> QED
      BY <2>4
  <2> QED
    BY <1>2, <2>5 DEF First
<1> QED
  BY <1>1, <1>2

----------------------------------------------------------------------------
(* The updates of a run.                                                     *)

LEMMA RunFields ==
    ASSUME NEW r \in Run
    PROVE  /\ r.at \in 0 .. Last1 + 1 /\ r.blocked \in BOOLEAN
           /\ r.saved \in Checkpoint /\ r.past \in SUBSET Checkpoint
           /\ r.row \in {"none", "behind", "shown"}
           /\ r.covered \in SUBSET (1 .. Last1) /\ r.barred \in SUBSET (1 .. Last1)
           /\ r.unheeded \in SUBSET Gate
           /\ r.suppressed \in Gate \cup {None}
           /\ r.pc \in {"load", "open", "stage", "seal", "gates", "mode", "over"}
BY DEF Run

LEMMA CheckpointFields ==
    ASSUME NEW c \in Checkpoint
    PROVE  c.stage \in 0 .. Last1 /\ c.gate \in Gate \cup {None}
BY DEF Checkpoint

LEMMA PlainFields ==
    ASSUME NEW kind \in {"none", "stage_complete", "stage_unavailable", "approval_denied",
                         "cycle_complete"},
           NEW n \in 0 .. Last1
    PROVE  /\ Plain(kind, n) \in Checkpoint
           /\ Plain(kind, n).kind = kind /\ Plain(kind, n).stage = n
BY DEF Plain, Checkpoint

\* What an update leaves alone: the history and, up to c, the checkpoints.
SameHistory(r, u) == u.covered = r.covered /\ u.barred = r.barred

SameStore(r, u) == u.saved = r.saved /\ u.past = r.past /\ SameHistory(r, u)

SameGates(r, u) ==
    u.suppressed = r.suppressed /\ u.blocked = r.blocked /\ u.unheeded = r.unheeded

LEMMA SavedKept ==
    ASSUME NEW r, NEW u, SavedOK(r), SameStore(r, u)
    PROVE  SavedOK(u)
BY DEF SavedOK, SameStore, SameHistory, Passed

\* A run that has ended stands for what is stored of it.
LEMMA EndedFields ==
    ASSUME NEW r \in Run, NEW pc \in {"seal", "over"}
    PROVE  /\ Ended(r, pc) \in Run /\ Ended(r, pc).pc = pc /\ Ended(r, pc).at = 0
           /\ Ended(r, pc).suppressed = None /\ Ended(r, pc).blocked = FALSE
           /\ Ended(r, pc).unheeded = {} /\ Ended(r, pc).row = r.row
           /\ SameStore(r, Ended(r, pc))
<1>1. 0 \in 0 .. Last1 + 1 /\ {} \in SUBSET Gate
  BY ChainFacts
<1> QED
  BY <1>1 DEF Ended, Run, SameStore, SameHistory

LEMMA OverKeeps ==
    ASSUME NEW r, RunInv(r)
    PROVE  RunInv(Over(r)) /\ Over(r).pc = "over"
<1> DEFINE u == Over(r)
<1>1. r \in Run /\ SavedOK(r)
  BY DEF RunInv
<1>2. /\ u \in Run /\ u.pc = "over" /\ u.suppressed = None /\ u.at = 0 /\ u.blocked = FALSE
      /\ u.unheeded = {} /\ SameStore(r, u)
  BY <1>1, EndedFields DEF Over
<1> HIDE DEF u
<1>3. SavedOK(u)
  BY <1>1, <1>2, SavedKept
<1> QED
  BY <1>2, <1>3 DEF u, RunInv, PlaceOK, GatesOK

\* What the row of a run holds concerns a run only before it has started.
LEMMA RowKeeps ==
    ASSUME NEW r, RunInv(r), r.pc # "load", NEW row \in {"none", "behind", "shown"}
    PROVE  RunInv([r EXCEPT !.row = row])
<1> DEFINE u == [r EXCEPT !.row = row]
<1>1. r \in Run /\ SavedOK(r)
  BY DEF RunInv
<1>2. u \in Run /\ u.pc = r.pc /\ u.at = r.at /\ SameStore(r, u) /\ SameGates(r, u)
  BY <1>1 DEF Run, SameStore, SameHistory, SameGates
<1> HIDE DEF u
<1>3. SavedOK(u)
  BY <1>1, <1>2, SavedKept
<1>4. PlaceOK(u) /\ GatesOK(u)
  BY <1>2 DEF RunInv, PlaceOK, GatesOK, SameStore, SameHistory, SameGates, Passed
<1> QED
  BY <1>2, <1>3, <1>4 DEF RunInv, u

LEMMA ShownKeeps ==
    ASSUME NEW r, RunInv(r)
    PROVE  RunInv(Shown(r))
BY RowKeeps DEF Shown

\* A run that goes to its next place without saving anything: at the start, and
\* once its checkpoint is sealed.
LEMMA PlaceKeeps ==
    ASSUME NEW r, RunInv(r),
           NEW pc, \/ r.pc = "load" /\ pc \in {"stage", "open"}
                   \/ r.pc = "open" /\ pc = "stage"
                   \/ r.pc = "seal" /\ pc = IF r.at = 0 THEN "over" ELSE "gates"
    PROVE  RunInv([r EXCEPT !.pc = pc])
<1> DEFINE u == [r EXCEPT !.pc = pc]
<1>1. r \in Run /\ SavedOK(r)
  BY DEF RunInv
<1>2. u \in Run /\ u.pc = pc /\ u.at = r.at /\ SameStore(r, u) /\ SameGates(r, u)
  BY <1>1 DEF Run, SameStore, SameHistory, SameGates
<1> HIDE DEF u
<1>3. SavedOK(u)
  BY <1>1, <1>2, SavedKept
<1>4. GatesOK(u)
  <2>1. r.blocked => r.pc = "seal" /\ r.at # 0
    BY ChainFacts DEF RunInv, GatesOK
  <2>2. u.blocked => pc = "gates"
    BY <1>2, <2>1 DEF SameGates
  <2> QED
    BY <1>2, <2>2 DEF RunInv, GatesOK, SameGates
<1>5. PlaceOK(u)
  BY <1>2 DEF RunInv, PlaceOK, SameStore, SameHistory, Passed
<1> QED
  BY <1>2, <1>3, <1>4, <1>5 DEF RunInv, u

LEMMA CheckpointedFields ==
    ASSUME NEW r \in Run, NEW c \in Checkpoint
    PROVE  LET u == Checkpointed(r, c) IN
           /\ u \in Run /\ u.pc = "seal" /\ u.saved = c /\ u.past = r.past \cup {c}
           /\ u.at = r.at /\ SameHistory(r, u) /\ SameGates(r, u)
<1>1. (IF r.row = "none" THEN "none" ELSE "behind") \in {"none", "behind", "shown"}
  OBVIOUS
<1>2. r.past \cup {c} \in SUBSET Checkpoint
  BY RunFields
<1> QED
  BY <1>1, <1>2 DEF Checkpointed, Run, SameHistory, SameGates

\* The last checkpoint of a run: at the stage it is at, or one that nobody
\* resumes at.
LEMMA StoppingKeeps ==
    ASSUME NEW r, RunInv(r), r.at # 0, NEW c \in Checkpoint, Sound(Passed(r), c),
           Resumable(c) => c.stage = r.at
    PROVE  RunInv(Stopping(r, c))
<1> DEFINE e == Ended(r, "seal")
           u == Stopping(r, c)
<1>1. r \in Run /\ SavedOK(r) /\ PlaceOK(r)
  BY DEF RunInv
<1>2. /\ e \in Run /\ e.at = 0 /\ e.suppressed = None /\ e.blocked = FALSE /\ e.unheeded = {}
      /\ SameStore(r, e)
  BY <1>1, EndedFields
<1>3. u = Checkpointed(e, c)
  BY DEF Stopping
<1> HIDE DEF e, u
<1>4. /\ u \in Run /\ u.pc = "seal" /\ u.saved = c /\ u.past = e.past \cup {c}
      /\ u.at = e.at /\ SameHistory(e, u) /\ SameGates(e, u)
  BY <1>2, <1>3, CheckpointedFields
<1>5. u.past = r.past \cup {c} /\ u.covered = r.covered /\ u.barred = r.barred
  BY <1>2, <1>4 DEF SameStore, SameHistory
<1>6. SavedOK(u)
  BY <1>1, <1>4, <1>5 DEF SavedOK, PlaceOK, Passed
<1>7. PlaceOK(u) /\ GatesOK(u)
  BY <1>2, <1>4 DEF PlaceOK, GatesOK, SameGates
<1> QED
  BY <1>4, <1>6, <1>7 DEF RunInv, u

\* A stage that has answered has run, or was blocked, and its checkpoint names it.
LEMMA StageKeeps ==
    ASSUME NEW r, RunInv(r), r.pc = "stage", r.at <= Last1,
           NEW u \in Run,
           u.pc = "seal", u.saved = Plain("stage_complete", r.at),
           u.past = r.past \cup {Plain("stage_complete", r.at)},
           u.at = r.at, u.suppressed = r.suppressed, u.unheeded = r.unheeded,
           r.covered \subseteq u.covered, u.covered \subseteq r.covered \cup {r.at},
           Passed(u) = Passed(r) \cup {r.at},
           u.blocked => Stages[r.at] = "deductive"
    PROVE  RunInv(u)
<1>1. r \in Run /\ SavedOK(r) /\ PlaceOK(r) /\ GatesOK(r)
  BY DEF RunInv
<1>2. r.at \in 1 .. Last1 /\ r.covered \subseteq 1 .. Last1
  BY <1>1, RunFields, ChainFacts DEF PlaceOK
<1>3. Whole(Passed(r), r.at - 1) /\ UpTo(r.covered, r.at)
  BY <1>1, <1>2 DEF PlaceOK
<1>4. \A n : Whole(Passed(r), n) => Whole(Passed(u), n)
  BY DEF Whole
<1>5. Whole(Passed(u), r.at)
  <2> SUFFICES ASSUME NEW m \in 1 .. Last1, m <= r.at
               PROVE  m \in Passed(r) \cup {r.at}
    BY DEF Whole
  <2>1. CASE m = r.at
    BY <2>1
  <2>2. CASE m # r.at
    <3>1. m <= r.at - 1
      BY <1>2, <2>2, ChainFacts
    <3> QED
      BY <1>3, <3>1 DEF Whole
  <2> QED
    BY <2>1, <2>2
<1>6. UpTo(u.covered, r.at)
  BY <1>2, <1>3 DEF UpTo
<1>7. u.saved.kind = "stage_complete" /\ u.saved.stage = r.at
  BY <1>2, PlainFields, ChainFacts
<1>8. Sound(Passed(u), u.saved)
  BY <1>2, <1>5, <1>7 DEF Sound
<1>9. \A c \in r.past : Sound(Passed(u), c)
  <2> SUFFICES ASSUME NEW c \in r.past PROVE Sound(Passed(u), c)
    OBVIOUS
  <2>1. Sound(Passed(r), c)
    BY <1>1 DEF SavedOK
  <2>2. Whole(Passed(r), c.stage) => Whole(Passed(u), c.stage)
    BY <1>4
  <2> QED
    BY <2>1, <2>2 DEF Sound
<1>10. SavedOK(u)
  BY <1>6, <1>7, <1>8, <1>9 DEF SavedOK
<1>11. PlaceOK(u)
  <2>1. Whole(Passed(u), u.at - 1)
    BY <1>3, <1>4
  <2>2. Resumable(u.saved)
    BY <1>7 DEF Resumable
  <2> QED
    BY <1>6, <1>7, <2>1, <2>2 DEF PlaceOK
<1>12. GatesOK(u)
  BY <1>1, <1>2 DEF GatesOK
<1> QED
  BY <1>10, <1>11, <1>12 DEF RunInv

LEMMA RunStageKeeps ==
    ASSUME NEW r, RunInv(r), r.pc = "stage", r.at <= Last1
    PROVE  LET complete == Checkpointed(r, Plain("stage_complete", r.at)) IN
           /\ RunInv([complete EXCEPT !.covered = r.covered \cup {r.at}])
           /\ Stages[r.at] = "deductive" =>
                 RunInv([complete EXCEPT !.blocked = TRUE, !.barred = r.barred \cup {r.at}])
<1> DEFINE c == Plain("stage_complete", r.at)
           complete == Checkpointed(r, c)
           ran == [complete EXCEPT !.covered = r.covered \cup {r.at}]
           blocked == [complete EXCEPT !.blocked = TRUE, !.barred = r.barred \cup {r.at}]
<1>1. r \in Run /\ PlaceOK(r) /\ GatesOK(r)
  BY DEF RunInv
<1>2. /\ r.at \in 1 .. Last1 /\ r.blocked = FALSE
      /\ r.covered \cup {r.at} \in SUBSET (1 .. Last1)
      /\ r.barred \cup {r.at} \in SUBSET (1 .. Last1)
  BY <1>1, RunFields, ChainFacts DEF PlaceOK, GatesOK
<1>3. c \in Checkpoint
  BY <1>2, PlainFields, ChainFacts
<1> HIDE DEF c
<1>4. /\ complete \in Run /\ complete.pc = "seal" /\ complete.saved = c
      /\ complete.past = r.past \cup {c}
      /\ complete.at = r.at /\ complete.covered = r.covered /\ complete.barred = r.barred
      /\ complete.suppressed = r.suppressed /\ complete.blocked = FALSE
      /\ complete.unheeded = r.unheeded
  BY <1>1, <1>2, <1>3, CheckpointedFields DEF SameHistory, SameGates
<1> HIDE DEF complete
<1>5. RunInv(ran)
  <2>1. /\ ran \in Run /\ ran.pc = "seal" /\ ran.saved = c /\ ran.past = r.past \cup {c}
        /\ ran.at = r.at /\ ran.covered = r.covered \cup {r.at} /\ ran.barred = r.barred
        /\ ran.suppressed = r.suppressed /\ ran.blocked = FALSE
        /\ ran.unheeded = r.unheeded
    BY <1>2, <1>4 DEF Run
  <2> HIDE DEF ran
  <2>2. Passed(ran) = Passed(r) \cup {r.at}
    BY <2>1 DEF Passed
  <2> QED
    BY <2>1, <2>2, StageKeeps DEF c
<1>6. ASSUME Stages[r.at] = "deductive"
      PROVE  RunInv(blocked)
  <2>1. /\ blocked \in Run /\ blocked.pc = "seal" /\ blocked.saved = c
        /\ blocked.past = r.past \cup {c}
        /\ blocked.at = r.at /\ blocked.covered = r.covered
        /\ blocked.barred = r.barred \cup {r.at}
        /\ blocked.suppressed = r.suppressed /\ blocked.blocked = TRUE
        /\ blocked.unheeded = r.unheeded
    BY <1>2, <1>4 DEF Run
  <2> HIDE DEF blocked
  <2>2. Passed(blocked) = Passed(r) \cup {r.at}
    BY <2>1 DEF Passed
  <2> QED
    BY <1>6, <2>1, <2>2, StageKeeps DEF c
<1> QED
  BY <1>5, <1>6 DEF c, complete

LEMMA AbortKeeps ==
    ASSUME NEW r, RunInv(r), r.pc = "stage", NEW kind \in {"stage_unavailable", "cycle_complete"},
           NEW n \in 0 .. Last1
    PROVE  RunInv(Stopping(r, Plain(kind, n)))
<1>1. r.at # 0
  BY DEF RunInv, PlaceOK
<1>2. /\ Plain(kind, n) \in Checkpoint /\ ~Resumable(Plain(kind, n))
      /\ Plain(kind, n).kind # "gate_halt"
  BY PlainFields DEF Resumable
<1>3. Sound(Passed(r), Plain(kind, n))
  BY <1>2 DEF Sound
<1> QED
  BY <1>1, <1>2, <1>3, StoppingKeeps

\* At the gates and at the choice of the mode the stage is behind the run.
LEMMA StageBehind ==
    ASSUME NEW r, RunInv(r), r.pc \in {"gates", "mode"}
    PROVE  /\ r \in Run /\ r.at # 0 /\ r.at \in 1 .. Last1 /\ Whole(Passed(r), r.at)
           /\ UpTo(r.covered, r.at)
           /\ r.pc = "mode" => r.blocked = FALSE
<1>1. r \in Run /\ SavedOK(r) /\ PlaceOK(r) /\ GatesOK(r)
  BY DEF RunInv
<1>2. r.at # 0 /\ Resumable(r.saved) /\ r.saved.stage = r.at
  BY <1>1 DEF PlaceOK
<1>3. Sound(Passed(r), r.saved)
  BY <1>1 DEF SavedOK
<1>4. r.at \in 1 .. Last1 /\ Whole(Passed(r), r.at)
  BY <1>2, <1>3 DEF Sound
<1>5. UpTo(r.covered, r.at)
  BY <1>1, <1>2 DEF PlaceOK
<1>6. r.pc = "mode" => r.blocked = FALSE
  BY <1>1, RunFields DEF GatesOK
<1> QED
  BY <1>1, <1>2, <1>4, <1>5, <1>6

LEMMA EndKeeps ==
    ASSUME NEW r, RunInv(r), r.pc = "mode", NEW kind \in {"stage_complete", "approval_denied"}
    PROVE  RunInv(Stopping(r, Plain(kind, r.at)))
<1>1. r.at # 0 /\ r.at \in 1 .. Last1 /\ Whole(Passed(r), r.at)
  BY StageBehind
<1>2. /\ Plain(kind, r.at) \in Checkpoint /\ Plain(kind, r.at).kind = kind
      /\ Plain(kind, r.at).stage = r.at
  BY <1>1, PlainFields, ChainFacts
<1>3. Sound(Passed(r), Plain(kind, r.at))
  BY <1>1, <1>2 DEF Sound
<1> QED
  BY <1>1, <1>2, <1>3, StoppingKeeps

LEMMA GoOnKeeps ==
    ASSUME NEW r, RunInv(r), r.pc = "mode"
    PROVE  RunInv([r EXCEPT !.pc = "stage", !.at = r.at + 1])
<1> DEFINE u == [r EXCEPT !.pc = "stage", !.at = r.at + 1]
<1>1. r \in Run /\ r.at \in 1 .. Last1 /\ Whole(Passed(r), r.at) /\ UpTo(r.covered, r.at)
      /\ r.blocked = FALSE
  BY StageBehind
<1>2. r.at + 1 \in 0 .. Last1 + 1
  BY <1>1, ChainFacts
<1>3. u \in Run /\ u.pc = "stage" /\ u.at = r.at + 1 /\ SameStore(r, u) /\ SameGates(r, u)
  BY <1>1, <1>2 DEF Run, SameStore, SameHistory, SameGates
<1> HIDE DEF u
<1>4. SavedOK(u)
  BY <1>3, SavedKept DEF RunInv
<1>5. PlaceOK(u)
  <2>1. u.at - 1 = r.at /\ u.at # 0 /\ Passed(u) = Passed(r) /\ u.covered = r.covered
    BY <1>1, <1>3, ChainFacts DEF SameStore, SameHistory, Passed
  <2>2. UpTo(u.covered, u.at)
    BY <1>1, <1>3, <2>1, ChainFacts, RunFields DEF UpTo
  <2> QED
    BY <1>1, <1>3, <2>1, <2>2 DEF PlaceOK
<1>6. GatesOK(u)
  <2>1. u.suppressed # None =>
          \E a \in 1 .. Last1 : a < u.at /\ MayHalt(Stages[a], u.suppressed)
    BY <1>1, <1>3, ChainFacts DEF RunInv, GatesOK, SameGates
  <2>2. u.unheeded # {} =>
          /\ u.unheeded = {"gray_zone_escalation"} /\ u.suppressed = "gray_zone_escalation"
          /\ \E n \in 1 .. Last1 : Stages[n] = "deductive" /\ n < u.at + 1
    BY <1>1, <1>3, ChainFacts DEF RunInv, GatesOK, SameGates
  <2> QED
    BY <1>1, <1>3, <2>1, <2>2 DEF GatesOK, SameGates
<1> QED
  BY <1>3, <1>4, <1>5, <1>6 DEF RunInv, u

\* A halt puts the first of the gates that halt on record, with its stage.
LEMMA HaltKeeps ==
    ASSUME NEW r, RunInv(r), r.pc = "gates", NEW findings \in Findings(r),
           NEW halting \in SUBSET findings, halting # {}
    PROVE  RunInv(Stopping(r, [kind |-> "gate_halt", stage |-> r.at,
                               gate |-> First(r, halting)]))
<1> DEFINE c == [kind |-> "gate_halt", stage |-> r.at, gate |-> First(r, halting)]
<1>1. GatesOK(r) /\ r.at # 0 /\ r.at \in 1 .. Last1 /\ Whole(Passed(r), r.at)
  BY StageBehind DEF RunInv
<1>2. MayHalt(Stages[r.at], First(r, halting)) /\ First(r, halting) \in Gate
  BY <1>1, FirstFound, FindingsFacts
<1>3. c \in Checkpoint
  BY <1>1, <1>2, ChainFacts DEF Checkpoint
<1>4. c.kind = "gate_halt" /\ c.stage = r.at /\ c.gate = First(r, halting)
  OBVIOUS
<1> HIDE DEF c
<1>5. Sound(Passed(r), c)
  BY <1>1, <1>2, <1>4 DEF Sound
<1> QED
  BY <1>1, <1>3, <1>4, <1>5, StoppingKeeps DEF c

\* Past its gates a run has left at most the suppressed one unheeded, and that
\* was raised at another stage.
LEMMA PassKeeps ==
    ASSUME NEW r, RunInv(r), r.pc = "gates", NEW findings \in Findings(r),
           NEW passed \in SUBSET findings, passed \subseteq {r.suppressed}
    PROVE  RunInv([r EXCEPT !.pc = "mode", !.blocked = FALSE, !.unheeded = r.unheeded \cup passed])
<1> DEFINE unheeded == r.unheeded \cup passed
           u == [r EXCEPT !.pc = "mode", !.blocked = FALSE, !.unheeded = unheeded]
<1>1. /\ r \in Run /\ GatesOK(r) /\ r.at \in 1 .. Last1
      /\ r.pc # "over"
  BY StageBehind DEF RunInv
<1>2. \A g \in passed : MayHalt(Stages[r.at], g) /\ g \in Gate /\ g = r.suppressed
  BY <1>1, FindingsFacts
<1>3. unheeded # {} =>
        /\ unheeded = {"gray_zone_escalation"} /\ r.suppressed = "gray_zone_escalation"
        /\ \E n \in 1 .. Last1 : Stages[n] = "deductive" /\ n < r.at + 1
  <2>1. CASE passed = {}
    BY <1>1, <2>1 DEF GatesOK
  <2>2. CASE passed # {}
    <3>1. PICK g \in passed : MayHalt(Stages[r.at], g) /\ g \in Gate /\ g = r.suppressed
      BY <1>2, <2>2
    <3>2. r.suppressed # None
      BY <3>1, CycleAssumption
    <3>3. PICK a \in 1 .. Last1 : a < r.at /\ MayHalt(Stages[a], r.suppressed)
      BY <1>1, <3>2 DEF GatesOK
    <3>4. Stages[a] # Stages[r.at]
      BY <1>1, <3>3, ChainFacts, CycleAssumption
    <3>5. r.suppressed = "gray_zone_escalation" /\ "deductive" \in {Stages[a], Stages[r.at]}
      BY <3>1, <3>3, <3>4, SharedGate
    <3>6. \E n \in 1 .. Last1 : Stages[n] = "deductive" /\ n < r.at + 1
      BY <1>1, <3>3, <3>5, ChainFacts
    <3>7. unheeded = {"gray_zone_escalation"}
      BY <1>1, <1>2, <2>2, <3>5 DEF GatesOK
    <3> QED
      BY <3>5, <3>6, <3>7
  <2> QED
    BY <2>1, <2>2
<1>4. unheeded \in SUBSET Gate
  BY <1>1, <1>2, RunFields
<1> HIDE DEF unheeded
<1>5. /\ u \in Run /\ u.pc = "mode" /\ u.at = r.at /\ SameStore(r, u)
      /\ u.suppressed = r.suppressed /\ u.blocked = FALSE /\ u.unheeded = unheeded
  BY <1>1, <1>4 DEF Run, SameStore, SameHistory
<1> HIDE DEF u
<1>6. SavedOK(u) /\ PlaceOK(u)
  <2>1. SavedOK(u)
    BY <1>5, SavedKept DEF RunInv
  <2>2. PlaceOK(u)
    BY <1>5 DEF RunInv, PlaceOK, SameStore, SameHistory, Passed
  <2> QED
    BY <2>1, <2>2
<1>7. GatesOK(u)
  BY <1>1, <1>3, <1>5 DEF GatesOK
<1> QED
  BY <1>5, <1>6, <1>7 DEF RunInv, u, unheeded

----------------------------------------------------------------------------
(* The runs one can meet.                                                    *)

LEMMA BecomesKeeps ==
    ASSUME CycleInv, NEW i \in DOMAIN runs, NEW r, RunInv(r), Becomes(i, r)
    PROVE  CycleInv'
<1>1. r \in Run /\ runs \in Seq(Run)
  BY DEF RunInv, CycleInv, RunsInv
<1>2. runs' = [runs EXCEPT ![i] = r]
  BY DEF Becomes
<1>3. runs' \in Seq(Run) /\ DOMAIN runs' = DOMAIN runs /\ Len(runs') = Len(runs)
  BY <1>1, <1>2
<1>4. \A j \in DOMAIN runs' : RunInv(runs'[j])
  BY <1>1, <1>2, <1>3 DEF CycleInv, RunsInv
<1> QED
  BY <1>3, <1>4 DEF CycleInv, RunsInv

\* What is left of a sequence of runs are some of them.
LEMMA LeftFacts ==
    ASSUME NEW rs, NEW N \in Nat, NEW K \in SUBSET (1 .. N), \A i \in K : RunInv(rs[i]),
           NEW s \in Left(rs, K)
    PROVE  /\ s \in Seq(Run) /\ Len(s) = Cardinality(K) /\ Cardinality(K) <= N
           /\ \A n \in DOMAIN s : RunInv(s[n])
<1>1. IsFiniteSet(1 .. N) /\ Cardinality(1 .. N) = N
  BY FS_Interval
<1>2. IsFiniteSet(K) /\ Cardinality(K) <= N /\ Cardinality(K) \in Nat
  BY <1>1, FS_Subset, FS_CardinalityType
<1> DEFINE k == Cardinality(K)
<1> HIDE DEF k
<1>3. PICK f \in [1 .. k -> K] : s = [n \in 1 .. k |-> rs[f[n]]]
  BY DEF Left, k
<1>4. \A n \in 1 .. k : RunInv(s[n]) /\ s[n] \in Run
  BY <1>3 DEF RunInv
<1>5. s \in [1 .. k -> Run] /\ k \in Nat
  BY <1>2, <1>3, <1>4 DEF k
<1>6. s \in Seq(Run) /\ Len(s) = k /\ DOMAIN s = 1 .. k
  BY <1>5
<1> QED
  BY <1>2, <1>4, <1>6 DEF k

\* What is left of runs that satisfy the invariant does, and there are no more.
LEMMA LeftKeeps ==
    ASSUME NEW rs, NEW N \in Nat, DOMAIN rs = 1 .. N, N <= MaxRuns,
           NEW K \in SUBSET DOMAIN rs, \A i \in K : RunInv(rs[i]), runs' \in Left(rs, K)
    PROVE  CycleInv'
<1>1. /\ runs' \in Seq(Run) /\ Len(runs') = Cardinality(K) /\ Cardinality(K) <= N
      /\ \A n \in DOMAIN runs' : RunInv(runs'[n])
  BY LeftFacts
<1>2. Len(runs') \in Nat /\ MaxRuns \in Nat
  BY <1>1, CycleAssumption
<1>3. Len(runs') <= MaxRuns
  BY <1>1, <1>2
<1> QED
  BY <1>1, <1>3 DEF CycleInv, RunsInv

LEMMA RunsFacts ==
    ASSUME CycleInv
    PROVE  /\ Len(runs) \in Nat /\ DOMAIN runs = 1 .. Len(runs) /\ Len(runs) <= MaxRuns
           /\ \A i \in DOMAIN runs : RunInv(runs[i]) /\ runs[i] \in Run
BY DEF CycleInv, RunsInv, RunInv

LEMMA EndsKeeps ==
    ASSUME CycleInv, NEW i \in DOMAIN runs, Ends(i)
    PROVE  CycleInv'
<1> DEFINE rs == [runs EXCEPT ![i] = Over(runs[i])]
<1>1. DOMAIN rs = DOMAIN runs /\ \A j \in DOMAIN runs : RunInv(rs[j])
  BY RunsFacts, OverKeeps
<1>2. runs' \in Left(rs, Relevant(rs))
  BY DEF Ends
<1> HIDE DEF rs
<1>3. Relevant(rs) \in SUBSET DOMAIN rs
  BY DEF Relevant
<1> QED
  BY <1>1, <1>2, <1>3, RunsFacts, LeftKeeps

\* A catch-up shows some runs and leaves the others.
LEMMA ProjectedKeeps ==
    ASSUME CycleInv, NEW rs, DOMAIN rs = DOMAIN runs, NEW F,
           \A i \in DOMAIN runs : RunInv(rs[i]), runs' \in Projected(rs, F)
    PROVE  CycleInv'
<1> DEFINE caught == [i \in DOMAIN rs |-> IF i \in F THEN rs[i] ELSE Shown(rs[i])]
<1>1. DOMAIN caught = DOMAIN runs /\ \A i \in DOMAIN runs : RunInv(caught[i])
  BY ShownKeeps
<1>2. runs' \in Left(caught, Relevant(caught))
  BY DEF Projected
<1> HIDE DEF caught
<1>3. Relevant(caught) \in SUBSET DOMAIN caught
  BY DEF Relevant
<1> QED
  BY <1>1, <1>2, <1>3, RunsFacts, LeftKeeps

\* A call goes on from a checkpoint of a run, whichever its row holds, and from
\* the history up to it.
LEMMA LoadedSound ==
    ASSUME NEW c \in Checkpoint,
           NEW covered \in SUBSET (1 .. Last1), NEW barred \in SUBSET (1 .. Last1),
           Sound(covered \cup barred, c)
    PROVE  RunInv(Loaded(ResumePoint(c), covered, barred))
<1> DEFINE u == Loaded(ResumePoint(c), covered, barred)
           none == Plain("none", 0)
           after == ResumePoint(c).after
           suppressed == ResumePoint(c).suppressed
           ran == covered \cap (1 .. after)
           blocked == barred \cap (1 .. after)
<1>1. none \in Checkpoint /\ none.kind = "none"
  BY PlainFields, ChainFacts
<1>2. /\ after = IF Resumable(c) THEN c.stage ELSE 0
      /\ suppressed = IF c.kind = "gate_halt" THEN c.gate ELSE None
  BY DEF ResumePoint
<1>3. /\ u.pc = "load" /\ u.suppressed = suppressed /\ u.at = after + 1 /\ u.blocked = FALSE
      /\ u.saved = none /\ u.past = {none} /\ u.row = "none" /\ u.covered = ran
      /\ u.barred = blocked /\ u.unheeded = {}
      /\ u = [pc |-> u.pc, suppressed |-> u.suppressed, at |-> u.at, blocked |-> u.blocked,
              saved |-> u.saved, past |-> u.past, row |-> u.row, covered |-> u.covered,
              barred |-> u.barred, unheeded |-> u.unheeded]
  BY DEF Loaded, FirstOf
<1>4. ran \cup blocked = (covered \cup barred) \cap (1 .. after)
  OBVIOUS
<1> HIDE DEF u, none, after, suppressed
<1>5. after \in 0 .. Last1
  BY <1>2, CheckpointFields, ChainFacts
<1>6. Whole(ran \cup blocked, after)
  <2>1. CASE Resumable(c)
    <3>1. Whole(covered \cup barred, after)
      BY <1>2, <2>1 DEF Sound
    <3> QED
      BY <1>4, <1>5, <3>1, ChainFacts DEF Whole
  <2>2. CASE ~Resumable(c)
    BY <1>2, <2>2, ChainFacts DEF Whole
  <2> QED
    BY <2>1, <2>2
<1>7. UpTo(ran, after + 1)
  BY <1>5, ChainFacts DEF UpTo
<1>8. /\ suppressed \in Gate \cup {None}
      /\ suppressed # None =>
            \E n \in 1 .. Last1 : n < after + 1 /\ MayHalt(Stages[n], suppressed)
  <2>1. CASE c.kind = "gate_halt"
    <3>1. Resumable(c) /\ suppressed = c.gate /\ after = c.stage
      BY <1>2, <2>1 DEF Resumable
    <3>2. c.stage \in 1 .. Last1 /\ MayHalt(Stages[c.stage], c.gate)
      BY <2>1, <3>1 DEF Sound
    <3>3. c.stage < c.stage + 1 /\ c.gate \in Gate \cup {None}
      BY <3>2, ChainFacts, CheckpointFields
    <3> QED
      BY <3>1, <3>2, <3>3
  <2>2. CASE c.kind # "gate_halt"
    BY <1>2, <2>2
  <2> QED
    BY <2>1, <2>2
<1>9. ran \in SUBSET (1 .. Last1) /\ blocked \in SUBSET (1 .. Last1)
  OBVIOUS
<1> HIDE DEF ran, blocked
<1>10. u \in Run
  <2>1. after + 1 \in 0 .. Last1 + 1 /\ {} \in SUBSET Gate /\ {none} \in SUBSET Checkpoint
    BY <1>1, <1>5, ChainFacts
  <2> QED
    BY <1>1, <1>3, <1>8, <1>9, <2>1 DEF Run
<1>11. SavedOK(u)
  <2>1. ~Resumable(none) /\ none.kind # "gate_halt"
    BY <1>1 DEF Resumable
  <2> QED
    BY <1>3, <2>1 DEF SavedOK, Sound
<1>12. PlaceOK(u)
  <2>1. u.at # 0 /\ u.at - 1 = after /\ u.at = after + 1
    BY <1>3, <1>5, ChainFacts
  <2>2. u.pc = "load" /\ u.row = "none" /\ Passed(u) = ran \cup blocked /\ u.covered = ran
    BY <1>3 DEF Passed
  <2> QED
    BY <1>6, <1>7, <2>1, <2>2 DEF PlaceOK
<1>13. GatesOK(u)
  BY <1>3, <1>8 DEF GatesOK
<1> QED
  BY <1>10, <1>11, <1>12, <1>13 DEF RunInv, u

LEMMA CallsSound ==
    ASSUME CycleInv, NEW call \in Calls
    PROVE  RunInv(call)
<1>1. CASE Anchor = {}
  <2>1. call = Loaded(ResumePoint(Plain("none", 0)), {}, {})
    BY <1>1 DEF Calls
  <2>2. Plain("none", 0) \in Checkpoint /\ Plain("none", 0).kind = "none"
    BY PlainFields, ChainFacts
  <2>3. Sound({} \cup {}, Plain("none", 0))
    BY <2>2 DEF Sound, Resumable
  <2> QED
    BY <2>1, <2>2, <2>3, LoadedSound
<1>2. CASE Anchor # {}
  <2>1. PICK i \in Anchor : \E c \in Held(runs[i]) :
           call = Loaded(ResumePoint(c), runs[i].covered, runs[i].barred)
    BY <1>2 DEF Calls
  <2>2. PICK c \in Held(runs[i]) :
           call = Loaded(ResumePoint(c), runs[i].covered, runs[i].barred)
    BY <2>1
  <2>3. i \in DOMAIN runs /\ runs[i] \in Run /\ SavedOK(runs[i])
    BY RunsFacts DEF Anchor, RunInv
  <2>4. c \in runs[i].past
    BY <2>3 DEF Held, SavedOK
  <2>5. c \in Checkpoint /\ Sound(runs[i].covered \cup runs[i].barred, c)
    BY <2>3, <2>4, RunFields DEF SavedOK, Passed
  <2>6. runs[i].covered \in SUBSET (1 .. Last1) /\ runs[i].barred \in SUBSET (1 .. Last1)
    BY <2>3, RunFields
  <2> QED
    BY <2>2, <2>5, <2>6, LoadedSound
<1> QED
  BY <1>1, <1>2

\* Appended to what is left of the runs.
LEMMA AppendKeeps ==
    ASSUME NEW left \in Seq(Run), \A n \in DOMAIN left : RunInv(left[n]),
           Len(left) < MaxRuns, NEW u, RunInv(u), runs' = Append(left, u)
    PROVE  CycleInv' /\ Len(runs') = Len(left) + 1 /\ runs'[Len(runs')] = u
<1>1. u \in Run
  BY DEF RunInv
<1>2. runs' \in Seq(Run) /\ Len(runs') = Len(left) + 1 /\ Len(left) \in Nat
  BY <1>1
<1>3. \A n \in DOMAIN runs' : RunInv(runs'[n])
  <2> SUFFICES ASSUME NEW n \in DOMAIN runs' PROVE RunInv(runs'[n])
    OBVIOUS
  <2>1. n \in 1 .. Len(left) + 1
    BY <1>2
  <2>2. CASE n = Len(left) + 1
    BY <1>1, <2>2
  <2>3. CASE n \in 1 .. Len(left)
    <3>1. runs'[n] = left[n] /\ n \in DOMAIN left
      BY <1>1, <2>3
    <3> QED
      BY <3>1
  <2> QED
    BY <1>2, <2>1, <2>2, <2>3
<1>4. Len(runs') <= MaxRuns
  BY <1>2, CycleAssumption
<1>5. runs'[Len(runs')] = u
  BY <1>1, <1>2
<1> QED
  BY <1>2, <1>3, <1>4, <1>5 DEF CycleInv, RunsInv

LEMMA LoadKeeps ==
    ASSUME CycleInv, Load
    PROVE  CycleInv' /\ runs'[Len(runs')] \in Calls
<1>1. PICK K \in SUBSET Relevant(runs), call \in Calls :
         /\ Cardinality(K) < MaxRuns
         /\ \E left \in Left(runs, K) : runs' = Append(left, call)
  BY DEF Load
<1>2. PICK left \in Left(runs, K) : runs' = Append(left, call)
  BY <1>1
<1>3. K \in SUBSET (1 .. Len(runs)) /\ \A i \in K : RunInv(runs[i])
  BY RunsFacts DEF Relevant
<1>4. left \in Seq(Run) /\ Len(left) = Cardinality(K) /\ \A n \in DOMAIN left : RunInv(left[n])
  BY <1>3, RunsFacts, LeftFacts
<1>5. RunInv(call)
  BY CallsSound
<1> QED
  BY <1>1, <1>2, <1>4, <1>5, AppendKeeps

\* The runs without one are one less.
LEMMA WithoutOne ==
    ASSUME CycleInv, NEW i \in DOMAIN runs, NEW left \in Left(runs, DOMAIN runs \ {i})
    PROVE  /\ left \in Seq(Run) /\ \A n \in DOMAIN left : RunInv(left[n])
           /\ Len(left) < MaxRuns
<1> DEFINE K == DOMAIN runs \ {i}
<1>1. K \in SUBSET (1 .. Len(runs)) /\ \A j \in K : RunInv(runs[j])
  BY RunsFacts
<1>n. Len(runs) \in Nat /\ DOMAIN runs = 1 .. Len(runs)
  BY RunsFacts
<1>2. IsFiniteSet(DOMAIN runs) /\ Cardinality(DOMAIN runs) = Len(runs)
  <2>1. /\ IsFiniteSet(1 .. Len(runs))
        /\ Cardinality(1 .. Len(runs)) = IF 1 > Len(runs) THEN 0 ELSE Len(runs) - 1 + 1
    <3>1. 1 \in Int /\ Len(runs) \in Int
      BY <1>n
    <3> QED
      BY <3>1, FS_Interval
  <2> QED
    BY <2>1, <1>n
<1>3. Cardinality(K) = Len(runs) - 1
  <2>1. Cardinality(K) = IF i \in DOMAIN runs THEN Cardinality(DOMAIN runs) - 1
                                              ELSE Cardinality(DOMAIN runs)
    BY <1>2, FS_RemoveElement
  <2> QED
    BY <1>2, <2>1
<1> HIDE DEF K
<1>4. left \in Left(runs, K)
  BY DEF K
<1>5. left \in Seq(Run) /\ Len(left) = Cardinality(K) /\ \A n \in DOMAIN left : RunInv(left[n])
  BY <1>1, <1>4, RunsFacts, LeftFacts
<1>6. Len(left) < MaxRuns
  BY <1>3, <1>5, RunsFacts, CycleAssumption
<1> QED
  BY <1>5, <1>6

LEMMA StartKeeps ==
    ASSUME CycleInv, NEW i \in DOMAIN runs, Start(i)
    PROVE  CycleInv'
<1> DEFINE pc == IF runs[i].at = 1 THEN "stage" ELSE "open"
           u == [runs[i] EXCEPT !.pc = pc]
<1>1. runs[i].pc = "load" /\ RunInv(runs[i])
  BY RunsFacts DEF Start
<1>2. pc \in {"stage", "open"}
  OBVIOUS
<1>3. PICK left \in Left(runs, DOMAIN runs \ {i}) : runs' = Append(left, u)
  BY DEF Start
<1> HIDE DEF pc
<1>4. RunInv(u)
  BY <1>1, <1>2, PlaceKeeps
<1> HIDE DEF u
<1>5. left \in Seq(Run) /\ Len(left) < MaxRuns /\ \A n \in DOMAIN left : RunInv(left[n])
  BY WithoutOne
<1> QED
  BY <1>3, <1>4, <1>5, AppendKeeps

\* A run that catches up with its own change, at the start or with a checkpoint.
LEMMA ShowingKeeps ==
    ASSUME CycleInv, NEW i \in DOMAIN runs, NEW r, RunInv(r), NEW F,
           runs' \in Projected([runs EXCEPT ![i] = r], F)
    PROVE  CycleInv'
<1> DEFINE rs == [runs EXCEPT ![i] = r]
<1>1. DOMAIN rs = DOMAIN runs /\ \A j \in DOMAIN runs : RunInv(rs[j])
  BY RunsFacts
<1> HIDE DEF rs
<1> QED
  BY <1>1, ProjectedKeeps DEF rs

LEMMA CatchingUpKeeps ==
    ASSUME CycleInv, NEW F,
           CatchUp(F) \/ \E i \in DOMAIN runs : Open(i, F) \/ Seal(i, F)
    PROVE  CycleInv'
<1>1. CASE CatchUp(F)
  BY <1>1, RunsFacts, ProjectedKeeps DEF CatchUp
<1>2. ASSUME NEW i \in DOMAIN runs, Open(i, F)
      PROVE  CycleInv'
  <2>1. RunInv([runs[i] EXCEPT !.pc = "stage"])
    BY <1>2, RunsFacts, PlaceKeeps DEF Open
  <2> QED
    BY <1>2, <2>1, ShowingKeeps DEF Open
<1>3. ASSUME NEW i \in DOMAIN runs, Seal(i, F)
      PROVE  CycleInv'
  <2>1. RunInv(Sealed(runs[i]))
    BY <1>3, RunsFacts, PlaceKeeps DEF Seal, Sealed
  <2> QED
    BY <1>3, <2>1, ShowingKeeps DEF Seal
<1> QED
  BY <1>1, <1>2, <1>3

LEMMA StepKeeps ==
    ASSUME CycleInv, NEW i \in DOMAIN runs,
           Step(i) \/ Unavailable(i) \/ Deny(i) \/ Crash(i) \/ WriteBack(i)
    PROVE  CycleInv'
<1> DEFINE r == runs[i]
<1>0. RunInv(r) /\ r \in Run
  BY RunsFacts
<1>1. CASE Start(i)
  BY <1>1, StartKeeps
<1>2. CASE WriteBack(i)
  <2>1. r.pc # "load"
    BY <1>0, <1>2 DEF WriteBack, RunInv, PlaceOK
  <2>2. RunInv([r EXCEPT !.row = "behind"])
    BY <1>0, <2>1, RowKeeps
  <2> HIDE DEF r
  <2> QED
    BY <1>2, <2>2, BecomesKeeps DEF WriteBack, r
<1>3. CASE RunStage(i)
  BY <1>0, <1>3, RunStageKeeps, BecomesKeeps DEF RunStage
<1>4. CASE LookAtGates(i)
  <2>1. PICK findings \in Findings(r), configured \in Configs :
          LET halting == (findings \cap HaltSet(configured)) \ {r.suppressed}
              floored == configured \cup {"codebook_promotion"}
          IN
          \/ /\ halting # {}
             /\ Becomes(i, Stopping(r, [kind |-> "gate_halt", stage |-> r.at,
                                        gate |-> First(r, halting)]))
          \/ /\ halting = {}
             /\ Becomes(i, [r EXCEPT !.pc = "mode", !.blocked = FALSE,
                                     !.unheeded = r.unheeded \cup (findings \cap floored)])
    BY <1>4 DEF LookAtGates
  <2> DEFINE halting == (findings \cap HaltSet(configured)) \ {r.suppressed}
             passed == findings \cap (configured \cup {"codebook_promotion"})
  <2>2. r.pc = "gates" /\ halting \in SUBSET findings /\ passed \in SUBSET findings
    BY <1>4 DEF LookAtGates
  <2>3. halting = {} => passed \subseteq {r.suppressed}
    BY DEF HaltSet
  <2>4. halting # {} => RunInv(Stopping(r, [kind |-> "gate_halt", stage |-> r.at,
                                            gate |-> First(r, halting)]))
    <3> HIDE DEF halting
    <3> QED
      BY <1>0, <2>2, HaltKeeps
  <2>5. halting = {} => RunInv([r EXCEPT !.pc = "mode", !.blocked = FALSE,
                                         !.unheeded = r.unheeded \cup passed])
    <3> HIDE DEF halting, passed
    <3> QED
      BY <1>0, <2>2, <2>3, PassKeeps
  <2> QED
    BY <2>1, <2>4, <2>5, BecomesKeeps
<1>5. CASE StopAfterOne(i)
  BY <1>0, <1>5, EndKeeps, EndsKeeps, BecomesKeeps DEF StopAfterOne
<1>6. CASE AskApproval(i) \/ Unattended(i)
  BY <1>0, <1>6, EndsKeeps, GoOnKeeps, BecomesKeeps DEF AskApproval, Unattended, GoOn
<1>7. CASE Deny(i)
  BY <1>0, <1>7, EndKeeps, BecomesKeeps DEF Deny
<1>8. CASE Complete(i)
  <2>1. /\ r.pc = "stage"
        /\ Becomes(i, Stopping(r, Plain("cycle_complete", 0)))
    BY <1>8 DEF Complete
  <2>2. 0 \in 0 .. Last1
    BY ChainFacts
  <2>3. RunInv(Stopping(r, Plain("cycle_complete", 0)))
    BY <1>0, <2>1, <2>2, AbortKeeps
  <2> HIDE DEF r
  <2> QED
    BY <2>1, <2>3, BecomesKeeps
<1>9. CASE Unavailable(i)
  <2>1. /\ r.pc = "stage" /\ r.at <= Last1
        /\ Becomes(i, Stopping(r, Plain("stage_unavailable", r.at)))
    BY <1>9 DEF Unavailable
  <2>2. r.at \in 0 .. Last1
    BY <1>0, <2>1, RunFields, ChainFacts
  <2>3. RunInv(Stopping(r, Plain("stage_unavailable", r.at)))
    BY <1>0, <2>1, <2>2, AbortKeeps
  <2> HIDE DEF r
  <2> QED
    BY <2>1, <2>3, BecomesKeeps
<1>10. CASE Crash(i)
  <2>1. CASE runs' \in Left(runs, DOMAIN runs \ {i})
    BY <2>1, RunsFacts, LeftKeeps
  <2> QED
    BY <1>10, <2>1, EndsKeeps DEF Crash
<1> QED
  BY <1>1, <1>2, <1>3, <1>4, <1>5, <1>6, <1>7, <1>8, <1>9, <1>10 DEF Step

LEMMA CycleInductive == CycleInv /\ [Next]_vars => CycleInv'
<1> SUFFICES ASSUME CycleInv, [Next]_vars PROVE CycleInv'
  OBVIOUS
<1>1. CASE UNCHANGED vars
  BY <1>1 DEF vars, CycleInv, RunsInv
<1>2. CASE Load
  BY <1>2, LoadKeeps
<1>3. ASSUME NEW F, CatchUp(F) \/ \E i \in DOMAIN runs : Open(i, F) \/ Seal(i, F)
      PROVE  CycleInv'
  BY <1>3, CatchingUpKeeps
<1> QED
  BY <1>1, <1>2, <1>3, StepKeeps DEF Next

LEMMA CycleInit == Init => CycleInv
<1> SUFFICES ASSUME Init PROVE CycleInv
  OBVIOUS
<1>1. runs = <<>> /\ runs \in Seq(Run) /\ Len(runs) = 0 /\ DOMAIN runs = {}
  BY DEF Init
<1> QED
  BY <1>1, CycleAssumption DEF CycleInv, RunsInv

LEMMA CycleInvHolds == Spec => []CycleInv
BY CycleInit, CycleInductive, PTL DEF Spec

----------------------------------------------------------------------------
(* What follows.                                                             *)

\* Runs and checkpoints keep their shape: no checkpoint names a stage beyond the
\* chain, whatever calls overlap, and no more runs are remembered than the bound.
THEOREM CycleTypeCorrect == Spec => []TypeOK
<1>1. CycleInv => TypeOK
  BY DEF CycleInv, RunsInv, TypeOK
<1> QED
  BY <1>1, CycleInvHolds, PTL

\* Wherever resume_point makes a call go on, each stage before has run or was
\* blocked, for any chain, any number of calls that overlap, crash or are denied,
\* and any checkpoint of a run on its row, the last one or an older one.
THEOREM NoStageIsSkipped == Spec => []NothingSkipped
<1>1. CycleInv => NothingSkipped
  <2> SUFFICES ASSUME CycleInv, NEW i \in DOMAIN runs, NEW m \in Before(runs[i].at)
               PROVE  m \in runs[i].covered \cup runs[i].barred
    BY DEF NothingSkipped
  <2>1. RunInv(runs[i]) /\ m \in 1 .. Last1 /\ m < runs[i].at
    BY RunsFacts DEF Before
  <2>2. runs[i].at \in 0 .. Last1 + 1
    BY <2>1, RunFields DEF RunInv
  <2>3. runs[i].at # 0 /\ m <= runs[i].at - 1
    BY <2>1, <2>2, ChainFacts
  <2>4. Whole(Passed(runs[i]), runs[i].at - 1)
    BY <2>1, <2>3 DEF RunInv, PlaceOK
  <2> QED
    BY <2>1, <2>3, <2>4 DEF Whole, Passed
<1> QED
  BY <1>1, CycleInvHolds, PTL

\* Of the halt gates that a run looks at it goes past the one it was resumed from
\* and no other, and never past a promotion: effective_halt_on and the suppression
\* of _halted_gate together.
THEOREM OnlyTheResumedGatePasses == Spec => []SuppressionIsLocal
<1>1. CycleInv => SuppressionIsLocal
  BY DEF CycleInv, RunsInv, RunInv, GatesOK, SuppressionIsLocal
<1> QED
  BY <1>1, CycleInvHolds, PTL

\* A call that reads the last checkpoint of the newest run, and finds one to resume
\* at, begins beyond everything that run has run or gone on from.
THEOREM CallsResumeBeyond == Spec => ResumedBeyond
<1>1. ASSUME CycleInv, Load, NEW n \in NewestRun, runs[n].row = "shown",
             Resumable(runs[n].saved), NEW m \in runs[n].covered
      PROVE  m < runs'[Len(runs')].at
  <2> DEFINE c == runs[n].saved
             call == Loaded(ResumePoint(c), runs[n].covered, runs[n].barred)
  <2>1. n \in DOMAIN runs /\ runs[n] \in Run /\ SavedOK(runs[n])
    BY <1>1, RunsFacts DEF NewestRun, RunInv
  <2>2. \A j \in DOMAIN runs : j > n => runs[j].row = "none"
    BY <1>1, RunsFacts DEF NewestRun, RunInv, PlaceOK
  <2>3. Anchor = {n}
    <3>1. \A j \in DOMAIN runs : runs[j].row # "none" => j <= n
      BY <2>1, <2>2, RunsFacts
    <3>2. n \in Anchor
      BY <1>1, <2>1, <3>1 DEF Anchor
    <3>3. \A j \in Anchor : j = n
      BY <1>1, <2>1, <3>1, RunsFacts DEF Anchor
    <3> QED
      BY <3>2, <3>3
  <2>4. Calls = {call}
    <3>1. Held(runs[n]) = {c}
      BY <1>1 DEF Held
    <3> HIDE DEF c
    <3>2. Calls = UNION {{Loaded(ResumePoint(x), runs[i].covered, runs[i].barred) :
                            x \in Held(runs[i])} : i \in {n}}
      BY <2>3 DEF Calls
    <3> QED
      BY <3>1, <3>2
  <2>5. runs'[Len(runs')] \in Calls
    BY <1>1, LoadKeeps
  <2>6. runs'[Len(runs')].at = c.stage + 1
    BY <1>1, <2>4, <2>5 DEF Loaded, FirstOf, ResumePoint
  <2>7. m <= c.stage /\ m \in 1 .. Last1
    BY <1>1, <2>1, RunFields DEF SavedOK, UpTo
  <2>8. c.stage \in 0 .. Last1
    BY <2>1, RunFields, CheckpointFields
  <2> HIDE DEF c
  <2> QED
    BY <2>6, <2>7, <2>8, ChainFacts
<1>2. CycleInv /\ [Next]_vars =>
        [\A n \in NewestRun :
           /\ Load
           /\ runs[n].row = "shown"
           /\ Resumable(runs[n].saved)
           => \A m \in runs[n].covered : m < runs'[Len(runs')].at]_vars
  BY <1>1
<1> QED
  BY <1>2, CycleInvHolds, PTL DEF Spec, ResumedBeyond
=============================================================================
