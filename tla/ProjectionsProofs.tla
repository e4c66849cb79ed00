------------------------- MODULE ProjectionsProofs -------------------------
(***************************************************************************)
(* Machine-checked theorems about Projections, for every set of drainers,  *)
(* every length of the log, and every window, number of passes and batches. *)
(***************************************************************************)
EXTENDS Projections, TLAPS

----------------------------------------------------------------------------
(* Operators.                                                                *)

\* Each drainer belongs to one projection, and each event takes a transaction.
LEMMA ProjectionOfTyped ==
    \A d : ProjectionOf(d) \in Projection
BY DEF ProjectionOf, Projection

LEMMA PartsTyped ==
    \A p \in Projection : Parts(p) \in Nat \ {0}
BY ProjectionAssumption DEF Parts, Projection

----------------------------------------------------------------------------
(* Type correctness.                                                         *)

LEMMA LeaveBatchOK ==
    ASSUME TypeOK, NEW d \in Drainer, NEW s \in {"off", "read", "dead"},
           LeaveBatch(d, s), log' = log
    PROVE  BatchOK'
BY DEF TypeOK, BatchOK, LeaveBatch, DrainerState, OnEvent

LEMMA AdvanceOK ==
    ASSUME TypeOK, NEW d \in Drainer, pc[d] \in OnEvent, Advance(d), log' = log
    PROVE  BatchOK'
<1>1. CASE next[d] = last[d]
  BY <1>1, LeaveBatchOK DEF Advance
<1>2. CASE next[d] # last[d]
  <2>1. /\ next[d] \in Nat /\ last[d] \in Nat /\ Len(log) \in Nat
        /\ 1 <= next[d] /\ next[d] + 1 <= last[d] /\ last[d] <= Len(log)
    BY <1>2 DEF TypeOK, StoreOK, BatchOK
  <2>2. /\ pc' = [pc EXCEPT ![d] = "event"] /\ next' = [next EXCEPT ![d] = next[d] + 1]
        /\ part' = [part EXCEPT ![d] = 1] /\ UNCHANGED <<last, pass>>
    BY <1>2 DEF Advance, TypeOK, BatchOK
  <2>3. /\ pc' \in [Drainer -> DrainerState] /\ next' \in [Drainer -> Nat]
        /\ last' \in [Drainer -> Nat] /\ pass' \in [Drainer -> Nat]
    BY <2>1, <2>2 DEF TypeOK, BatchOK, DrainerState
  <2>4. part' \in [Drainer -> Nat \ {0}]
    BY <2>2 DEF TypeOK, BatchOK
  <2>5. \A b \in Drainer : pc'[b] \in OnEvent =>
            1 <= next'[b] /\ next'[b] <= last'[b] /\ last'[b] <= Len(log')
    BY <2>1, <2>2 DEF TypeOK, BatchOK
  <2> QED
    BY <2>3, <2>4, <2>5 DEF BatchOK
<1> QED
  BY <1>1, <1>2

LEMMA RaisedOK ==
    ASSUME TypeOK, NEW d \in Drainer, Raised(d), log' = log
    PROVE  BatchOK'
BY LeaveBatchOK DEF Raised

\* The batch stays within the log.
LEMMA ReadOK ==
    ASSUME TypeOK, NEW d \in Drainer, Read(d)
    PROVE  BatchOK'
<1> DEFINE p == ProjectionOf(d)
<1>1. p \in Projection /\ checkpoint[p] \in 0 .. Len(log) /\ Len(log) \in Nat
  BY ProjectionOfTyped DEF TypeOK, StoreOK
<1>2. FirstUnread(p) \in Nat /\ 1 <= FirstUnread(p) /\ FirstUnread(p) <= Len(log)
  BY <1>1 DEF Read, FirstUnread
<1>3. WindowEnd(p) \in Nat /\ FirstUnread(p) <= WindowEnd(p) /\ WindowEnd(p) <= Len(log)
  BY <1>1, <1>2, ProjectionAssumption DEF WindowEnd
<1> QED
  BY <1>2, <1>3 DEF Read, TypeOK, BatchOK, DrainerState, OnEvent

LEMMA MoveCheckpointOK ==
    ASSUME TypeOK, NEW d \in Drainer, pc[d] \in OnEvent, MoveCheckpoint(d),
           UNCHANGED <<log, rows, dlq>>
    PROVE  StoreOK'
BY ProjectionOfTyped DEF MoveCheckpoint, TypeOK, StoreOK, BatchOK

LEMMA DrainerTyped ==
    ASSUME TypeOK, NEW d \in Drainer, DrainStep(d) \/ StoreRaises(d) \/ Crash(d)
    PROVE  TypeOK'
<1>1. CASE Begin(d)
  BY <1>1 DEF Begin, TypeOK, StoreOK, BatchOK, store, DrainerState, OnEvent
<1>2. CASE Read(d)
  BY <1>2, ReadOK DEF Read, TypeOK, StoreOK, store
<1>3. CASE Quiet(d)
  BY <1>3, LeaveBatchOK DEF Quiet, TypeOK, StoreOK, store
<1>4. CASE PassesSpent(d)
  BY <1>4, LeaveBatchOK DEF PassesSpent, TypeOK, StoreOK, store
<1>5. CASE Skip(d)
  BY <1>5, AdvanceOK DEF Skip, OnEvent, TypeOK, StoreOK, store
<1>6. CASE Pass(d)
  BY <1>6, AdvanceOK, MoveCheckpointOK DEF Pass, OnEvent, TypeOK
<1>7. CASE Project(d)
  <2> DEFINE p == ProjectionOf(d)
  <2>1. p \in Projection /\ next[d] \in Pos /\ part[d] \in Nat
    BY <1>7, ProjectionOfTyped, ProjectionAssumption
    DEF Project, TypeOK, StoreOK, BatchOK, OnEvent, Pos
  <2>2. rows' \in [Projection -> SUBSET (Pos \X Nat)]
    BY <1>7, <2>1 DEF Project, TypeOK, StoreOK
  <2>3. StoreOK'
    BY <1>7, <2>2 DEF Project, TypeOK, StoreOK
  <2>4. BatchOK'
    <3>1. \/ part' = [part EXCEPT ![d] = part[d] + 1] /\ UNCHANGED pc
          \/ part' = [part EXCEPT ![d] = 1] /\ pc' = [pc EXCEPT ![d] = "mark"]
      BY <1>7 DEF Project
    <3>2. part' \in [Drainer -> Nat \ {0}]
      <4>1. part \in [Drainer -> Nat \ {0}] /\ part[d] + 1 \in Nat \ {0}
        BY <2>1 DEF TypeOK, BatchOK
      <4>2. CASE part' = [part EXCEPT ![d] = part[d] + 1]
        BY <4>1, <4>2
      <4>3. CASE part' = [part EXCEPT ![d] = 1]
        BY <4>1, <4>3
      <4> QED
        BY <3>1, <4>1, <4>2, <4>3
    <3>3. pc[d] = "event" /\ UNCHANGED <<log, next, last, pass>>
      BY <1>7 DEF Project
    <3> QED
      BY <3>1, <3>2, <3>3 DEF TypeOK, BatchOK, DrainerState, OnEvent
  <2> QED
    BY <2>3, <2>4 DEF TypeOK
<1>8. CASE ProjectRaises(d)
  BY <1>8 DEF ProjectRaises, TypeOK, StoreOK, BatchOK, store, DrainerState, OnEvent
<1>9. CASE Mark(d)
  BY <1>9, AdvanceOK, MoveCheckpointOK DEF Mark, OnEvent, TypeOK
<1>10. CASE RecordFailure(d)
  <2>1. next[d] \in Pos
    BY <1>10, ProjectionAssumption DEF RecordFailure, TypeOK, StoreOK, BatchOK, OnEvent, Pos
  <2>2. StoreOK'
    BY <1>10, <2>1, ProjectionOfTyped DEF RecordFailure, TypeOK, StoreOK
  <2>3. CASE ProjectionOf(d) = "research"
    BY <1>10, <2>2, <2>3 DEF RecordFailure, TypeOK, BatchOK, DrainerState, OnEvent
  <2>4. CASE ProjectionOf(d) # "research"
    BY <1>10, <2>2, <2>4, AdvanceOK DEF RecordFailure, TypeOK, OnEvent
  <2> QED
    BY <2>3, <2>4
<1>11. CASE StoreRaises(d)
  <2>1. StoreOK'
    BY <1>11 DEF StoreRaises, TypeOK, StoreOK, store
  <2>2. CASE /\ pc[d] \in {"mark", "event"} /\ pc' = [pc EXCEPT ![d] = "fail"]
             /\ UNCHANGED <<next, last, part, pass>>
    BY <1>11, <2>1, <2>2 DEF StoreRaises, TypeOK, BatchOK, DrainerState, OnEvent
  <2>3. CASE Raised(d)
    BY <1>11, <2>1, <2>3, RaisedOK DEF StoreRaises, TypeOK
  <2> QED
    BY <1>11, <2>2, <2>3 DEF StoreRaises
<1>12. CASE Crash(d)
  BY <1>12, LeaveBatchOK DEF Crash, TypeOK, StoreOK, store
<1> QED
  BY <1>1, <1>2, <1>3, <1>4, <1>5, <1>6, <1>7, <1>8, <1>9, <1>10, <1>11, <1>12
  DEF DrainStep

\* Writing an event leaves what was read of the log in place.
LEMMA WriteKeeps ==
    ASSUME TypeOK, NEW e \in Event, Write(e)
    PROVE  /\ log' \in Seq(Event) /\ Len(log') = Len(log) + 1 /\ Len(log') <= MaxLog
           /\ \A n \in 1 .. Len(log) : log'[n] = log[n]
           /\ UNCHANGED <<store, drainers>>
<1>1. log \in Seq(Event) /\ Len(log) < MaxLog /\ Len(log) \in Nat
  BY DEF Write, TypeOK, StoreOK
<1>2. log' = Append(log, e)
  BY DEF Write
<1> QED
  BY <1>1, <1>2, ProjectionAssumption DEF Write

LEMMA WriteTyped ==
    ASSUME TypeOK, NEW e \in Event, Write(e)
    PROVE  TypeOK'
<1>1. Len(log) \in Nat
  BY DEF TypeOK, StoreOK
<1> QED
  BY <1>1, WriteKeeps DEF TypeOK, StoreOK, BatchOK, store, drainers

\* Every variable keeps its type: a drainer that is on an event is on one of
\* the batch it read, and no checkpoint runs ahead of the log.
THEOREM ProjectionsTypeCorrect == Spec => []TypeOK
<1>1. Init => TypeOK
  BY ProjectionAssumption
  DEF Init, TypeOK, StoreOK, BatchOK, Projection, DrainerState, OnEvent
<1>2. TypeOK /\ [Next]_vars => TypeOK'
  <2>1. TypeOK /\ UNCHANGED vars => TypeOK'
    BY DEF TypeOK, StoreOK, BatchOK, vars, store, drainers
  <2> QED
    BY <2>1, WriteTyped, DrainerTyped DEF Next
<1> QED
  BY <1>1, <1>2, PTL DEF Spec

----------------------------------------------------------------------------
(* What is settled stays settled, and what comes before stays before.        *)

\* The log and the read models only grow.
Growing ==
    /\ Len(log) \in Nat /\ Len(log') \in Nat /\ Len(log) <= Len(log')
    /\ \A n \in 1 .. Len(log) : log'[n] = log[n]
    /\ \A p \in Projection : rows[p] \subseteq rows'[p] /\ dlq[p] \subseteq dlq'[p]

\* DoneBefore after the step, for a position named before it.
DoneAfter(p, n) ==
    \A m \in 1 .. (n - 1) : Handled(p, m)' => m \in Settled(p)'

LEMMA WriteGrows ==
    ASSUME TypeOK, NEW e \in Event, Write(e)
    PROVE  Growing
<1>1. Len(log) \in Nat
  BY DEF TypeOK, StoreOK
<1> QED
  BY <1>1, WriteKeeps DEF Growing, store

\* A drainer's step leaves the log alone and takes no row and no entry away.
LEMMA DrainerGrows ==
    ASSUME TypeOK, NEW d \in Drainer, DrainStep(d) \/ StoreRaises(d) \/ Crash(d)
    PROVE  Growing /\ log' = log
<1>1. log' = log
  BY DEF DrainStep, StoreRaises, Crash, Begin, Read, Quiet, PassesSpent, Skip, Pass,
         Project, ProjectRaises, Mark, RecordFailure
<1>2. /\ rows \in [Projection -> SUBSET (Pos \X Nat)] /\ dlq \in [Projection -> SUBSET Pos]
      /\ Len(log) \in Nat
  BY DEF TypeOK, StoreOK
<1>3. CASE Project(d)
  BY <1>1, <1>2, <1>3 DEF Project, Growing
<1>4. CASE RecordFailure(d)
  BY <1>1, <1>2, <1>4 DEF RecordFailure, Growing
<1>5. CASE ~Project(d) /\ ~RecordFailure(d)
  <2>1. UNCHANGED <<rows, dlq>>
    BY <1>5 DEF DrainStep, StoreRaises, Crash, Begin, Read, Quiet, PassesSpent, Skip,
                Pass, ProjectRaises, Mark, store
  <2> QED
    BY <1>1, <1>2, <2>1 DEF Growing
<1> QED
  BY <1>3, <1>4, <1>5

LEMMA SettledKept ==
    ASSUME Growing, NEW p \in Projection
    PROVE  Settled(p) \subseteq Settled(p)'
BY DEF Growing, Settled, Projected

LEMMA HandledKept ==
    ASSUME Growing, NEW p \in Projection, NEW n \in 1 .. Len(log)
    PROVE  Handled(p, n)' <=> Handled(p, n)
BY DEF Growing, Handled

\* What a projection handles it tries; both are questions about the log alone.
LEMMA HandledTried ==
    ASSUME NEW p \in Projection, NEW n, Handled(p, n)
    PROVE  Tried(p, n)
BY DEF Handled, Tried, Tries, Handles, Projection

LEMMA TriedKept ==
    ASSUME Growing, NEW p \in Projection, NEW n \in 1 .. Len(log)
    PROVE  Tried(p, n)' <=> Tried(p, n)
BY DEF Growing, Tried

LEMMA DoneBeforeKept ==
    ASSUME Growing, NEW p \in Projection, NEW n \in Nat, n <= Len(log) + 1,
           DoneBefore(p, n)
    PROVE  DoneAfter(p, n)
<1> SUFFICES ASSUME NEW m \in 1 .. (n - 1), Handled(p, m)'
             PROVE  m \in Settled(p)'
  BY DEF DoneAfter
<1>1. m \in 1 .. Len(log)
  BY DEF Growing
<1>2. Handled(p, m)
  BY <1>1, HandledKept
<1> QED
  BY <1>2, SettledKept DEF DoneBefore

----------------------------------------------------------------------------
(* Where a step leaves its own drainer, and the others.                      *)

LEMMA LeaveBatchEffect ==
    ASSUME TypeOK, NEW d \in Drainer, NEW s \in {"off", "read", "dead"}, LeaveBatch(d, s)
    PROVE  pc'[d] \notin OnEvent
BY DEF LeaveBatch, TypeOK, BatchOK, OnEvent

LEMMA AdvanceEffect ==
    ASSUME TypeOK, NEW d \in Drainer, pc[d] \in OnEvent, Advance(d)
    PROVE  \/ pc'[d] \notin OnEvent
           \/ pc'[d] = "event" /\ next'[d] = next[d] + 1 /\ part'[d] = 1
<1>1. CASE next[d] = last[d]
  BY <1>1, LeaveBatchEffect DEF Advance
<1>2. CASE next[d] # last[d]
  BY <1>2 DEF Advance, TypeOK, BatchOK
<1> QED
  BY <1>1, <1>2

LEMMA OthersStay ==
    ASSUME TypeOK, NEW d \in Drainer, DrainStep(d) \/ StoreRaises(d) \/ Crash(d),
           NEW b \in Drainer, b # d
    PROVE  pc'[b] = pc[b] /\ next'[b] = next[b] /\ part'[b] = part[b]
<1> USE DEF TypeOK, BatchOK
<1>1. CASE DrainStep(d)
  BY <1>1 DEF DrainStep, Begin, Read, Quiet, PassesSpent, Skip, Pass, Project,
              ProjectRaises, Mark, RecordFailure, Advance, LeaveBatch
<1>2. CASE StoreRaises(d) \/ Crash(d)
  BY <1>2 DEF StoreRaises, Crash, Raised, LeaveBatch
<1> QED
  BY <1>1, <1>2

\* A drainer settles nothing but the event it is on, which it tries.
LEMMA OnlyOwnSettled ==
    ASSUME TypeOK, OnlyHandled, InWork,
           NEW d \in Drainer, DrainStep(d) \/ StoreRaises(d) \/ Crash(d),
           NEW q \in Projection, NEW n \in Settled(q)', n \notin Settled(q)
    PROVE  /\ q = ProjectionOf(d) /\ n = next[d]
           /\ pc[d] \in OnEvent /\ Tried(q, n)
<1>1. CASE Project(d)
  <2>1. dlq' = dlq /\ rows' = [rows EXCEPT ![ProjectionOf(d)] = @ \cup {<<next[d], part[d]>>}]
    BY <1>1 DEF Project
  <2>2. PICK k \in 1 .. Parts(q) : <<n, k>> \in rows'[q] /\ <<n, k>> \notin rows[q]
    BY <2>1 DEF Settled, Projected
  <2>3. q = ProjectionOf(d) /\ n = next[d]
    BY <2>1, <2>2 DEF TypeOK, StoreOK
  <2> QED
    BY <1>1, <2>3, HandledTried DEF Project, OnEvent
<1>2. CASE RecordFailure(d)
  <2>1. rows' = rows /\ dlq' = [dlq EXCEPT ![ProjectionOf(d)] = @ \cup {next[d]}]
    BY <1>2 DEF RecordFailure
  <2>2. n \in dlq'[q] /\ n \notin dlq[q]
    BY <2>1 DEF Settled, Projected
  <2>3. q = ProjectionOf(d) /\ n = next[d]
    BY <2>1, <2>2 DEF TypeOK, StoreOK
  <2> QED
    BY <1>2, <2>3 DEF RecordFailure, OnEvent, InWork
<1>3. CASE ~Project(d) /\ ~RecordFailure(d)
  <2>1. UNCHANGED <<rows, dlq>>
    BY <1>3 DEF DrainStep, StoreRaises, Crash, Begin, Read, Quiet, PassesSpent, Skip,
                Pass, ProjectRaises, Mark, store
  <2> QED
    BY <2>1 DEF Settled, Projected
<1> QED
  BY <1>1, <1>2, <1>3

\* The write of the last part settles the event.
LEMMA LastPartSettles ==
    ASSUME TypeOK, InWork, NEW d \in Drainer, Project(d),
           ~(part[d] < Parts(ProjectionOf(d)))
    PROVE  next[d] \in Settled(ProjectionOf(d))'
<1> DEFINE p == ProjectionOf(d)
<1>1. /\ p \in Projection /\ Parts(p) \in Nat /\ next[d] \in Pos /\ part[d] \in Nat
      /\ part[d] = Parts(p)
      /\ \A k \in 1 .. (part[d] - 1) : <<next[d], k>> \in rows[p]
  BY ProjectionOfTyped, PartsTyped, ProjectionAssumption
  DEF Project, TypeOK, StoreOK, BatchOK, OnEvent, Pos, InWork
<1>2. rows'[p] = rows[p] \cup {<<next[d], part[d]>>}
  BY <1>1 DEF Project, TypeOK, StoreOK
<1>3. \A k \in 1 .. Parts(p) : <<next[d], k>> \in rows'[p]
  <2> SUFFICES ASSUME NEW k \in 1 .. Parts(p) PROVE <<next[d], k>> \in rows'[p]
    OBVIOUS
  <2>1. CASE k = part[d]
    BY <1>2, <2>1
  <2>2. CASE k # part[d]
    BY <1>1, <1>2, <2>2
  <2> QED
    BY <2>1, <2>2
<1> QED
  BY <1>1, <1>3 DEF Settled, Projected

\* A drainer that goes on to the next event of its batch leaves a settled one
\* behind, or one its projection does not handle.
LEMMA AdvanceDone ==
    ASSUME TypeOK, NothingPassedOver, NEW d \in Drainer, pc[d] \in OnEvent, Advance(d),
           Growing, log' = log,
           Handled(ProjectionOf(d), next[d]) => next[d] \in Settled(ProjectionOf(d))',
           pc'[d] \in OnEvent
    PROVE  DoneAfter(ProjectionOf(d), next'[d])
<1> DEFINE p == ProjectionOf(d)
<1>1. /\ p \in Projection /\ next[d] \in Nat /\ next[d] <= Len(log) /\ next[d] >= 1
      /\ Len(log) \in Nat
  BY ProjectionOfTyped DEF TypeOK, StoreOK, BatchOK
<1>2. next'[d] = next[d] + 1
  BY AdvanceEffect
<1>3. DoneAfter(p, next[d])
  BY <1>1, DoneBeforeKept DEF NothingPassedOver
<1>4. Handled(p, next[d]) \in BOOLEAN /\ (log'[next[d]].kind \in Handles[p] <=> Handled(p, next[d]))
  BY DEF Handled
<1>5. \A m \in 1 .. next[d] : Handled(p, m)' => m \in Settled(p)'
  <2> SUFFICES ASSUME NEW m \in 1 .. next[d], Handled(p, m)'
               PROVE  m \in Settled(p)'
    OBVIOUS
  <2>1. CASE m = next[d]
    BY <1>4, <2>1 DEF Handled
  <2>2. CASE m # next[d]
    BY <1>1, <1>3, <2>2 DEF DoneAfter
  <2> QED
    BY <2>1, <2>2
<1> QED
  BY <1>1, <1>2, <1>5 DEF DoneAfter

\* What a step of its own leaves before the event a drainer is on.
LEMMA OwnDone ==
    ASSUME TypeOK, InOrder, NEW d \in Drainer,
           DrainStep(d) \/ StoreRaises(d) \/ Crash(d), pc'[d] \in OnEvent
    PROVE  DoneAfter(ProjectionOf(d), next'[d])
<1> DEFINE p == ProjectionOf(d)
<1> USE DEF InOrder
<1>1. Growing /\ log' = log /\ p \in Projection
  BY DrainerGrows, ProjectionOfTyped
<1>2. Len(log) \in Nat /\ checkpoint[p] \in 0 .. Len(log)
  BY <1>1 DEF TypeOK, StoreOK
<1>3. pc[d] \in OnEvent => next[d] \in Nat /\ next[d] <= Len(log)
  BY <1>2 DEF TypeOK, BatchOK
<1>4. ASSUME pc[d] \in OnEvent, next'[d] = next[d]
      PROVE  DoneAfter(p, next'[d])
  BY <1>1, <1>3, <1>4, DoneBeforeKept DEF NothingPassedOver
<1>5. CASE Begin(d)
  BY <1>5 DEF Begin, TypeOK, BatchOK, OnEvent
<1>6. CASE Read(d)
  <2>1. next'[d] = checkpoint[p] + 1
    BY <1>6 DEF Read, FirstUnread, TypeOK, BatchOK
  <2> QED
    BY <1>1, <1>2, <2>1, DoneBeforeKept DEF NothingPassedOver
<1>7. CASE Quiet(d) \/ PassesSpent(d) \/ Crash(d)
  BY <1>7, LeaveBatchEffect DEF Quiet, PassesSpent, Crash
<1>8. CASE Skip(d)
  BY <1>1, <1>8, AdvanceDone DEF Skip, OnEvent
<1>9. CASE Pass(d)
  BY <1>1, <1>9, AdvanceDone DEF Pass, Passed, OnEvent
<1>10. CASE Project(d)
  BY <1>4, <1>10 DEF Project, OnEvent
<1>11. CASE ProjectRaises(d)
  BY <1>4, <1>11 DEF ProjectRaises, OnEvent
<1>12. CASE Mark(d)
  <2>1. next[d] \in Settled(p)'
    BY <1>1, <1>12, SettledKept DEF Mark, InWork
  <2> QED
    BY <1>1, <1>12, <2>1, AdvanceDone DEF Mark, OnEvent
<1>13. CASE RecordFailure(d)
  <2>1. CASE p = "research"
    BY <1>4, <1>13, <2>1 DEF RecordFailure, OnEvent
  <2>2. CASE p # "research"
    <3>1. next[d] \in dlq'[p] /\ next[d] \in Pos
      BY <1>1, <1>13, ProjectionAssumption
      DEF RecordFailure, TypeOK, StoreOK, BatchOK, OnEvent, Pos
    <3>2. next[d] \in Settled(p)'
      BY <3>1 DEF Settled
    <3> QED
      BY <1>1, <1>13, <2>2, <3>2, AdvanceDone DEF RecordFailure, OnEvent
  <2> QED
    BY <2>1, <2>2
<1>14. CASE StoreRaises(d)
  BY <1>4, <1>14, LeaveBatchEffect DEF StoreRaises, Raised, OnEvent
<1> QED
  BY <1>5, <1>6, <1>7, <1>8, <1>9, <1>10, <1>11, <1>12, <1>13, <1>14 DEF DrainStep

\* The checkpoint never moves past an event its projection still has to settle,
\* whichever drainer moves it and wherever it stood.
LEMMA CheckpointDone ==
    ASSUME TypeOK, InOrder, NEW d \in Drainer,
           DrainStep(d) \/ StoreRaises(d) \/ Crash(d), NEW q \in Projection
    PROVE  DoneAfter(q, checkpoint'[q] + 1)
<1> DEFINE p == ProjectionOf(d)
<1> USE DEF InOrder
<1>1. /\ Growing /\ log' = log /\ p \in Projection /\ Len(log) \in Nat
      /\ checkpoint[q] \in 0 .. Len(log)
  BY DrainerGrows, ProjectionOfTyped DEF TypeOK, StoreOK
<1>2. ASSUME checkpoint'[q] = checkpoint[q]
      PROVE  DoneAfter(q, checkpoint'[q] + 1)
  BY <1>1, <1>2, DoneBeforeKept DEF NothingPassedOver
<1>3. CASE Pass(d) \/ Mark(d)
  <2>1. MoveCheckpoint(d) /\ pc[d] \in OnEvent
    BY <1>3 DEF Pass, Mark, OnEvent
  <2>2. CASE q # p
    BY <1>2, <2>1, <2>2 DEF MoveCheckpoint, TypeOK, StoreOK
  <2>3. CASE q = p
    <3>1. next[d] \in Nat /\ next[d] <= Len(log) /\ next[d] >= 1
      BY <1>1, <2>1 DEF TypeOK, BatchOK
    <3>2. checkpoint'[q] = next[d]
      BY <1>1, <2>1, <2>3 DEF MoveCheckpoint, TypeOK, StoreOK
    <3>3. DoneAfter(p, next[d])
      BY <1>1, <2>1, <3>1, DoneBeforeKept DEF NothingPassedOver
    <3>4. Handled(p, next[d]) => next[d] \in Settled(p)'
      BY <1>1, <1>3, SettledKept DEF Pass, Passed, Mark, InWork
    <3>5. \A m \in 1 .. next[d] : Handled(p, m)' => m \in Settled(p)'
      <4> SUFFICES ASSUME NEW m \in 1 .. next[d], Handled(p, m)'
                   PROVE  m \in Settled(p)'
        OBVIOUS
      <4>1. CASE m = next[d]
        BY <1>1, <3>4, <4>1 DEF Handled
      <4>2. CASE m # next[d]
        BY <3>1, <3>3, <4>2 DEF DoneAfter
      <4> QED
        BY <4>1, <4>2
    <3> QED
      BY <2>3, <3>1, <3>2, <3>5 DEF DoneAfter
  <2> QED
    BY <2>2, <2>3
<1>4. CASE ~Pass(d) /\ ~Mark(d)
  <2>1. UNCHANGED checkpoint
    BY <1>4 DEF DrainStep, StoreRaises, Crash, Begin, Read, Quiet, PassesSpent, Skip,
                Project, ProjectRaises, RecordFailure, store
  <2> QED
    BY <1>2, <2>1
<1> QED
  BY <1>3, <1>4

LEMMA OnlyHandledKept ==
    ASSUME TypeOK, OnlyHandled, InWork, NEW d \in Drainer,
           DrainStep(d) \/ StoreRaises(d) \/ Crash(d)
    PROVE  OnlyHandled'
<1> DEFINE p == ProjectionOf(d)
<1>1. log' = log /\ p \in Projection
  BY DrainerGrows, ProjectionOfTyped
<1>2. pc[d] \in OnEvent => next[d] \in 1 .. Len(log)
  BY DEF TypeOK, StoreOK, BatchOK
<1>3. CASE Project(d)
  <2>1. dlq' = dlq /\ rows' = [rows EXCEPT ![p] = @ \cup {<<next[d], part[d]>>}]
    BY <1>3 DEF Project
  <2>2. next[d] \in 1 .. Len(log) /\ Handled(p, next[d])
    BY <1>2, <1>3 DEF Project, OnEvent
  <2>3. \A q \in Projection : \A x \in rows'[q] :
            x \in rows[q] \/ (q = p /\ x[1] = next[d])
    BY <2>1 DEF TypeOK, StoreOK
  <2> QED
    BY <1>1, <2>1, <2>2, <2>3 DEF OnlyHandled, Handled, Tried
<1>4. CASE RecordFailure(d)
  <2>1. rows' = rows /\ dlq' = [dlq EXCEPT ![p] = @ \cup {next[d]}]
    BY <1>4 DEF RecordFailure
  <2>2. next[d] \in 1 .. Len(log) /\ Tried(p, next[d])
    BY <1>2, <1>4 DEF RecordFailure, OnEvent, InWork
  <2> QED
    BY <1>1, <2>1, <2>2 DEF OnlyHandled, Handled, Tried, TypeOK, StoreOK
<1>5. CASE ~Project(d) /\ ~RecordFailure(d)
  <2>1. UNCHANGED <<rows, dlq>>
    BY <1>5 DEF DrainStep, StoreRaises, Crash, Begin, Read, Quiet, PassesSpent, Skip,
                Pass, ProjectRaises, Mark, store
  <2> QED
    BY <1>1, <2>1 DEF OnlyHandled, Handled, Tried
<1> QED
  BY <1>3, <1>4, <1>5

LEMMA SettledInLog ==
    ASSUME OnlyHandled, NEW p \in Projection, NEW n \in Settled(p)
    PROVE  n \in 1 .. Len(log)
<1>1. CASE n \in dlq[p]
  BY <1>1 DEF OnlyHandled
<1>2. CASE Projected(p, n)
  <2>1. 1 \in 1 .. Parts(p)
    BY PartsTyped
  <2>2. <<n, 1>> \in rows[p]
    BY <1>2, <2>1 DEF Projected
  <2>3. <<n, 1>>[1] \in 1 .. Len(log)
    BY <2>2 DEF OnlyHandled
  <2> QED
    BY <2>3
<1> QED
  BY <1>1, <1>2 DEF Settled

\* Only a drainer on an event settles it, when all before it is settled.
LEMMA OrderKept ==
    ASSUME TypeOK, InOrder, NEW d \in Drainer,
           DrainStep(d) \/ StoreRaises(d) \/ Crash(d)
    PROVE  SettledInOrder'
<1> USE DEF InOrder
<1>1. Growing /\ log' = log /\ Len(log) \in Nat
  BY DrainerGrows DEF TypeOK, StoreOK
<1> SUFFICES ASSUME NEW q \in Projection, NEW n \in Settled(q)'
             PROVE  DoneAfter(q, n)
  BY DEF SettledInOrder, DoneBefore, DoneAfter
<1>2. CASE n \in Settled(q)
  <2>1. n \in 1 .. Len(log)
    BY <1>2, SettledInLog
  <2>2. DoneBefore(q, n)
    BY <1>2 DEF SettledInOrder
  <2> QED
    BY <1>1, <2>1, <2>2, DoneBeforeKept
<1>3. CASE n \notin Settled(q)
  <2>1. q = ProjectionOf(d) /\ n = next[d] /\ pc[d] \in OnEvent
    BY <1>3, OnlyOwnSettled
  <2>2. n \in Nat /\ n <= Len(log)
    BY <1>1, <2>1 DEF TypeOK, BatchOK
  <2>3. DoneBefore(q, n)
    BY <2>1 DEF NothingPassedOver
  <2> QED
    BY <1>1, <2>2, <2>3, DoneBeforeKept
<1> QED
  BY <1>2, <1>3

LEMMA InWorkKept ==
    ASSUME TypeOK, OnlyHandled, InWork, NEW d \in Drainer,
           DrainStep(d) \/ StoreRaises(d) \/ Crash(d)
    PROVE  InWork'
<1>1. /\ Growing /\ log' = log
      /\ \A b \in Drainer : ProjectionOf(b) \in Projection
      /\ \A b \in Drainer : Parts(ProjectionOf(b)) \in Nat \ {0}
  BY DrainerGrows, ProjectionOfTyped, PartsTyped
<1> SUFFICES ASSUME NEW b \in Drainer
             PROVE  LET p == ProjectionOf(b) IN
                    /\ pc'[b] \in {"mark", "fail"} => log'[next'[b]].kind \in Tries[p]
                    /\ pc'[b] = "mark" => next'[b] \in Settled(p)'
                    /\ pc'[b] = "event" =>
                         /\ part'[b] <= Parts(p)
                         /\ \A k \in 1 .. (part'[b] - 1) : <<next'[b], k>> \in rows'[p]
  BY DEF InWork, Tried
<1> DEFINE p == ProjectionOf(b)
<1>2. rows[p] \subseteq rows'[p] /\ Settled(p) \subseteq Settled(p)'
  BY <1>1, SettledKept DEF Growing
<1>3. ASSUME pc'[b] = pc[b], next'[b] = next[b], part'[b] = part[b]
      PROVE  /\ pc'[b] \in {"mark", "fail"} => log'[next'[b]].kind \in Tries[p]
             /\ pc'[b] = "mark" => next'[b] \in Settled(p)'
             /\ pc'[b] = "event" =>
                  /\ part'[b] <= Parts(p)
                  /\ \A k \in 1 .. (part'[b] - 1) : <<next'[b], k>> \in rows'[p]
  BY <1>1, <1>2, <1>3 DEF InWork, Tried
<1>4. ASSUME pc'[b] \notin OnEvent \/ (pc'[b] = "event" /\ part'[b] = 1)
      PROVE  /\ pc'[b] \in {"mark", "fail"} => log'[next'[b]].kind \in Tries[p]
             /\ pc'[b] = "mark" => next'[b] \in Settled(p)'
             /\ pc'[b] = "event" =>
                  /\ part'[b] <= Parts(p)
                  /\ \A k \in 1 .. (part'[b] - 1) : <<next'[b], k>> \in rows'[p]
  BY <1>1, <1>4 DEF OnEvent
<1>5. CASE b # d
  BY <1>3, <1>5, OthersStay
<1>6. CASE b = d
  <2> USE <1>6
  <2>1. CASE Begin(d)
    BY <1>4, <2>1 DEF Begin, TypeOK, BatchOK, OnEvent
  <2>2. CASE Read(d)
    BY <1>4, <2>2 DEF Read, TypeOK, BatchOK
  <2>3. CASE Quiet(d) \/ PassesSpent(d) \/ Crash(d)
    BY <1>4, <2>3, LeaveBatchEffect DEF Quiet, PassesSpent, Crash
  <2>4. CASE Skip(d) \/ Pass(d) \/ Mark(d)
    BY <1>4, <2>4, AdvanceEffect DEF Skip, Pass, Mark, OnEvent
  <2>5. CASE Project(d)
    <3>1. CASE part[d] < Parts(p)
      <4>1. /\ pc'[d] = "event" /\ next'[d] = next[d] /\ part'[d] = part[d] + 1
            /\ part[d] \in Nat
        BY <2>5, <3>1 DEF Project, TypeOK, BatchOK
      <4>2. rows'[p] = rows[p] \cup {<<next[d], part[d]>>}
        BY <1>1, <2>5 DEF Project, TypeOK, StoreOK
      <4>3. \A k \in 1 .. (part[d] - 1) : <<next[d], k>> \in rows[p]
        BY <2>5 DEF Project, InWork
      <4>4. \A k \in 1 .. part[d] : <<next[d], k>> \in rows'[p]
        <5> SUFFICES ASSUME NEW k \in 1 .. part[d] PROVE <<next[d], k>> \in rows'[p]
          OBVIOUS
        <5>1. CASE k = part[d]
          BY <4>2, <5>1
        <5>2. CASE k # part[d]
          BY <4>1, <4>2, <4>3, <5>2
        <5> QED
          BY <5>1, <5>2
      <4> QED
        BY <1>1, <3>1, <4>1, <4>4
    <3>2. CASE ~(part[d] < Parts(p))
      <4>1. pc'[d] = "mark" /\ next'[d] = next[d] /\ Tried(p, next[d])
        BY <1>1, <2>5, <3>2, HandledTried DEF Project, TypeOK, BatchOK
      <4> QED
        BY <1>1, <2>5, <3>2, <4>1, LastPartSettles DEF Tried
    <3> QED
      BY <3>1, <3>2
  <2>6. CASE ProjectRaises(d)
    <3>1. pc'[d] = "fail" /\ next'[d] = next[d] /\ Tried(p, next[d])
      BY <1>1, <2>6, HandledTried DEF ProjectRaises, TypeOK, BatchOK
    <3> QED
      BY <1>1, <3>1 DEF Tried
  <2>7. CASE RecordFailure(d)
    <3>1. CASE p = "research"
      <4>1. pc'[d] = "mark" /\ next'[d] = next[d] /\ Tried(p, next[d])
        BY <2>7, <3>1 DEF RecordFailure, TypeOK, BatchOK, InWork
      <4>2. next[d] \in dlq'[p] /\ next[d] \in Pos
        BY <1>1, <2>7, ProjectionAssumption
        DEF RecordFailure, TypeOK, StoreOK, BatchOK, OnEvent, Pos
      <4> QED
        BY <1>1, <4>1, <4>2 DEF Tried, Settled
    <3>2. CASE p # "research"
      BY <1>4, <2>7, <3>2, AdvanceEffect DEF RecordFailure, OnEvent
    <3> QED
      BY <3>1, <3>2
  <2>8. CASE StoreRaises(d)
    <3>1. CASE /\ pc[d] = "mark" \/ Tried(p, next[d])
               /\ pc' = [pc EXCEPT ![d] = "fail"] /\ UNCHANGED next
      <4>1. pc'[d] = "fail" /\ next'[d] = next[d] /\ Tried(p, next[d])
        BY <3>1 DEF TypeOK, BatchOK, InWork
      <4> QED
        BY <1>1, <4>1 DEF Tried
    <3>2. CASE Raised(d)
      BY <1>4, <3>2, LeaveBatchEffect DEF Raised
    <3> QED
      BY <2>8, <3>1, <3>2 DEF StoreRaises
  <2> QED
    BY <2>1, <2>2, <2>3, <2>4, <2>5, <2>6, <2>7, <2>8 DEF DrainStep
<1> QED
  BY <1>5, <1>6

LEMMA DrainerInOrder ==
    ASSUME TypeOK, InOrder, NEW d \in Drainer,
           DrainStep(d) \/ StoreRaises(d) \/ Crash(d)
    PROVE  InOrder'
<1>1. \A q \in Projection : DoneBefore(q, checkpoint[q] + 1)'
  BY CheckpointDone DEF DoneAfter, DoneBefore
<1>2. ASSUME NEW b \in Drainer, pc'[b] \in OnEvent
      PROVE  DoneAfter(ProjectionOf(b), next'[b])
  <2>1. CASE b = d
    BY <1>2, <2>1, OwnDone
  <2>2. CASE b # d
    <3>1. pc[b] \in OnEvent /\ next'[b] = next[b]
      BY <1>2, <2>2, OthersStay
    <3>2. next[b] \in Nat /\ next[b] <= Len(log) + 1
      BY <3>1 DEF TypeOK, StoreOK, BatchOK
    <3> QED
      BY <3>1, <3>2, DrainerGrows, ProjectionOfTyped, DoneBeforeKept
      DEF InOrder, NothingPassedOver
  <2> QED
    BY <2>1, <2>2
<1>3. NothingPassedOver'
  BY <1>1, <1>2 DEF NothingPassedOver, DoneBefore, DoneAfter
<1> QED
  BY <1>3, OrderKept, OnlyHandledKept, InWorkKept DEF InOrder

LEMMA WriteInOrder ==
    ASSUME TypeOK, InOrder, NEW e \in Event, Write(e)
    PROVE  InOrder'
<1> USE DEF InOrder
<1>1. Growing /\ UNCHANGED <<store, drainers>> /\ Len(log) \in Nat
  BY WriteGrows, WriteKeeps DEF TypeOK, StoreOK
<1>2. /\ \A q \in Projection : Settled(q)' = Settled(q)
      /\ \A q \in Projection, n \in 1 .. Len(log) : Handled(q, n)' <=> Handled(q, n)
  BY <1>1, HandledKept DEF Settled, Projected, store
<1>3. ASSUME NEW q \in Projection PROVE DoneAfter(q, checkpoint[q] + 1)
  <2>1. checkpoint[q] \in 0 .. Len(log)
    BY DEF TypeOK, StoreOK
  <2> QED
    BY <1>1, <2>1, DoneBeforeKept DEF NothingPassedOver
<1>4. ASSUME NEW b \in Drainer, pc[b] \in OnEvent PROVE DoneAfter(ProjectionOf(b), next[b])
  <2>1. next[b] \in Nat /\ next[b] <= Len(log) + 1
    BY <1>4 DEF TypeOK, StoreOK, BatchOK
  <2> QED
    BY <1>1, <1>4, <2>1, DoneBeforeKept, ProjectionOfTyped DEF NothingPassedOver
<1>5. NothingPassedOver'
  BY <1>1, <1>3, <1>4 DEF NothingPassedOver, DoneBefore, DoneAfter, store, drainers
<1>6. ASSUME NEW q \in Projection, NEW n \in Settled(q) PROVE DoneAfter(q, n)
  <2>1. n \in 1 .. Len(log) /\ DoneBefore(q, n)
    BY <1>6, SettledInLog DEF SettledInOrder
  <2> QED
    BY <1>1, <2>1, DoneBeforeKept
<1>7. SettledInOrder'
  BY <1>2, <1>6 DEF SettledInOrder, DoneBefore, DoneAfter
<1>8. OnlyHandled'
  <2>1. rows' = rows /\ dlq' = dlq /\ \A n \in 1 .. Len(log) : n \in 1 .. Len(log')
    BY <1>1 DEF store, Growing
  <2>2. \A q \in Projection, n \in 1 .. Len(log) : Tried(q, n)' <=> Tried(q, n)
    BY <1>1, TriedKept
  <2> QED
    BY <1>2, <2>1, <2>2 DEF OnlyHandled
<1>9. InWork'
  <2>1. \A b \in Drainer : pc[b] \in OnEvent => next[b] \in 1 .. Len(log)
    BY <1>1 DEF TypeOK, BatchOK
  <2>2. UNCHANGED <<rows, pc, next, part>>
    BY <1>1 DEF store, drainers
  <2>3. ASSUME NEW b \in Drainer, pc[b] \in {"mark", "fail"}
        PROVE  log'[next[b]].kind \in Tries[ProjectionOf(b)]
    <3>1. next[b] \in 1 .. Len(log) /\ Tried(ProjectionOf(b), next[b])
      BY <2>1, <2>3 DEF OnEvent, InWork
    <3> QED
      BY <1>1, <3>1 DEF Tried, Growing
  <2> QED
    BY <1>2, <2>2, <2>3, ProjectionOfTyped DEF InWork, Tried
<1> QED
  BY <1>5, <1>7, <1>8, <1>9

LEMMA InOrderInvariant == Spec => []InOrder
<1>1. Init => InOrder
  <2> SUFFICES ASSUME Init PROVE InOrder
    OBVIOUS
  <2>1. /\ \A p \in Projection : rows[p] = {} /\ dlq[p] = {} /\ checkpoint[p] = 0
        /\ \A d \in Drainer : pc[d] = "off"
    BY DEF Init
  <2>2. OnlyHandled
    BY <2>1 DEF OnlyHandled
  <2>3. \A p \in Projection : Settled(p) = {}
    <3> SUFFICES ASSUME NEW p \in Projection, NEW n \in Settled(p) PROVE FALSE
      OBVIOUS
    <3>1. 1 \in 1 .. Parts(p)
      BY PartsTyped
    <3> QED
      BY <2>1, <3>1 DEF Settled, Projected
  <2> QED
    BY <2>1, <2>2, <2>3
    DEF InOrder, NothingPassedOver, SettledInOrder, DoneBefore, InWork, OnEvent
<1>2. TypeOK /\ InOrder /\ [Next]_vars => InOrder'
  <2>1. InOrder /\ UNCHANGED vars => InOrder'
    BY DEF InOrder, NothingPassedOver, SettledInOrder, DoneBefore, OnlyHandled, InWork,
           Handled, Tried, Settled, Projected, vars, store, drainers
  <2> QED
    BY <2>1, WriteInOrder, DrainerInOrder DEF Next
<1> QED
  BY <1>1, <1>2, ProjectionsTypeCorrect, PTL DEF Spec

\* No event a projection handles is passed over, by a checkpoint or by a batch
\* in progress, unless it is projected or on record.
THEOREM NoEventIsPassedOver == Spec => []NothingPassedOver
<1>1. InOrder => NothingPassedOver
  BY DEF InOrder
<1> QED
  BY <1>1, InOrderInvariant, PTL

\* Events are settled in the order of the log.
THEOREM EventsSettleInOrder == Spec => []SettledInOrder
<1>1. InOrder => SettledInOrder
  BY DEF InOrder
<1> QED
  BY <1>1, InOrderInvariant, PTL

\* A catch-up that ends because it reads nothing has left nothing behind.
THEOREM QuietCatchUpsAreDone == Spec => QuietMeansCaughtUp
<1> DEFINE Left(d) ==
        pc[d] = "read" /\ pc'[d] = "off" /\ pass[d] < Passes =>
            DoneBefore(ProjectionOf(d), Len(log) + 1)
<1>1. TypeOK /\ InOrder /\ [Next]_vars => \A d \in Steady : Left(d)
  <2> SUFFICES ASSUME TypeOK, InOrder, [Next]_vars, NEW d \in Steady,
                      pc[d] = "read", pc'[d] = "off", pass[d] < Passes
               PROVE  DoneBefore(ProjectionOf(d), Len(log) + 1)
    OBVIOUS
  <2>1. d \in Drainer /\ pc'[d] # pc[d]
    BY ProjectionAssumption
  <2>2. DrainStep(d)
    <3>1. PICK b \in Drainer : DrainStep(b) \/ StoreRaises(b) \/ Crash(b)
      BY <2>1 DEF Next, vars, drainers, Write
    <3>2. b = d
      BY <2>1, <3>1, OthersStay
    <3> QED
      BY <3>1, <3>2 DEF StoreRaises, Crash
  <2>3. Quiet(d)
    BY <2>1, <2>2, ProjectionAssumption
    DEF DrainStep, Begin, Read, PassesSpent, Skip, Pass, Project, ProjectRaises, Mark,
        RecordFailure, TypeOK, BatchOK
  <2>4. /\ ProjectionOf(d) \in Projection /\ Len(log) \in Nat
        /\ checkpoint[ProjectionOf(d)] \in 0 .. Len(log)
    BY ProjectionOfTyped DEF TypeOK, StoreOK
  <2>5. checkpoint[ProjectionOf(d)] = Len(log)
    BY <2>3, <2>4 DEF Quiet, FirstUnread
  <2> QED
    BY <2>4, <2>5 DEF InOrder, NothingPassedOver
<1> QED
  BY <1>1, ProjectionsTypeCorrect, InOrderInvariant, PTL DEF Spec, QuietMeansCaughtUp

----------------------------------------------------------------------------
(* The abstract specification.                                               *)

\* A step of a drainer takes the event it is on, with all its feed wants before
\* it taken, or takes nothing.
LEMMA DrainerTakes ==
    ASSUME TypeOK, InOrder, NEW d \in Drainer,
           DrainStep(d) \/ StoreRaises(d) \/ Crash(d)
    PROVE  [Feeds!Next]_(Feeds!vars)
<1> DEFINE p == ProjectionOf(d)
<1> USE DEF InOrder
<1>1. Growing /\ log' = log /\ p \in Projection /\ Len(log) \in Nat /\ log \in Seq(Event)
  BY DrainerGrows, ProjectionOfTyped DEF TypeOK, StoreOK
<1>2. \A q \in Projection : Settled(q) \subseteq Settled(q)'
  BY <1>1, SettledKept
<1>3. CASE \A q \in Projection : Settled(q)' = Settled(q)
  BY <1>1, <1>3 DEF Feeds!vars, Taken
<1>4. CASE \E q \in Projection : Settled(q)' # Settled(q)
  <2>1. PICK q \in Projection : \E n \in Settled(q)' : n \notin Settled(q)
    BY <1>2, <1>4
  <2>2. PICK n \in Settled(q)' : n \notin Settled(q)
    BY <2>1
  <2>3. q = p /\ n = next[d] /\ pc[d] \in OnEvent /\ Tried(p, n)
    BY <2>2, OnlyOwnSettled
  <2>4. \A r \in Projection :
            Settled(r)' = IF r = p THEN Settled(r) \cup {n} ELSE Settled(r)
    BY <1>2, <2>2, <2>3, OnlyOwnSettled
  <2>5. Taken' = [Taken EXCEPT ![p] = @ \cup {n}]
    BY <1>1, <2>4 DEF Taken
  <2>6. n \in 1 .. Len(log) /\ DOMAIN log = 1 .. Len(log)
    BY <1>1, <2>3 DEF TypeOK, BatchOK
  <2>7. \A m \in 1 .. Len(log), r \in Projection :
            /\ log[m] \in Wants[r] <=> Handled(r, m)
            /\ log[m] \in Admits[r] <=> Tried(r, m)
    BY <1>1 DEF Wants, Admits, Handled, Tried
  <2>8. \A m \in 1 .. (n - 1) : Handled(p, m) => m \in Settled(p)
    BY <2>3 DEF NothingPassedOver, DoneBefore
  <2>9. Taken[p] = Settled(p)
    BY <1>1 DEF Taken
  <2>10. \A m \in 1 .. (n - 1) : m \in 1 .. Len(log)
    BY <1>1, <2>6
  <2>11. Feeds!Take(p, n)
    BY <1>1, <2>2, <2>3, <2>5, <2>6, <2>7, <2>8, <2>9, <2>10 DEF Feeds!Take
  <2> QED
    BY <1>1, <2>6, <2>11 DEF Feeds!Next
<1> QED
  BY <1>3, <1>4

\* Every behaviour of the projections is one of Subscriptions.
THEOREM ProjectionsImplementSubscriptions == Spec => Implements
<1>1. Init => Feeds!Init
  <2> SUFFICES ASSUME Init PROVE Feeds!Init
    OBVIOUS
  <2>1. \A p \in Projection : Settled(p) = {}
    <3> SUFFICES ASSUME NEW p \in Projection, NEW n \in Settled(p) PROVE FALSE
      OBVIOUS
    <3>1. 1 \in 1 .. Parts(p)
      BY PartsTyped
    <3> QED
      BY <3>1 DEF Init, Settled, Projected
  <2> QED
    BY <2>1 DEF Init, Feeds!Init, Taken
<1>2. TypeOK /\ InOrder /\ [Next]_vars => [Feeds!Next]_(Feeds!vars)
  <2>1. UNCHANGED vars => UNCHANGED Feeds!vars
    BY DEF vars, store, Feeds!vars, Taken, Settled, Projected
  <2>2. ASSUME NEW e \in Event, Write(e) PROVE Feeds!Next
    <3>1. log' = Append(log, e) /\ UNCHANGED store
      BY <2>2 DEF Write
    <3>2. UNCHANGED Taken
      BY <3>1 DEF Taken, Settled, Projected, store
    <3> QED
      BY <3>1, <3>2 DEF Feeds!Next, Feeds!Publish
  <2> QED
    BY <2>1, <2>2, DrainerTakes DEF Next
<1> QED
  BY <1>1, <1>2, ProjectionsTypeCorrect, InOrderInvariant, PTL DEF Spec, Implements, Feeds!Spec
=============================================================================
