------------------------- MODULE IngestLedgerProofs -------------------------
(***************************************************************************)
(* Machine-checked theorems about IngestLedger, for every set of runners,  *)
(* sources, contents and texts, every plan of chunks, and every number of  *)
(* chunks and of ledger rows.                                              *)
(***************************************************************************)
EXTENDS IngestLedger, TLAPS

----------------------------------------------------------------------------
(* Type correctness.                                                         *)

LedgerOK ==
    /\ backend \in Backends
    /\ status \in [RunId -> {"absent", "running", "completed", "failed"}]
    /\ source \in [RunId -> Source \cup {None}]
    /\ hash \in [RunId -> Content \cup {None}]
    /\ doc \in [Source -> Document \cup {None}]

ChunkOK == chunk \in [Source -> [Pos -> Chunk \cup {None}]]

ProcsOK ==
    /\ lock \in [Content -> Runner \cup {None}]
    /\ pc \in [Runner -> {"idle"} \cup Before \cup Opened]
    /\ task \in [Runner -> Task \cup {None}]
    /\ \A p \in Runner : task[p] = None <=> pc[p] = "idle"

OthersOK ==
    /\ repair \subseteq Source \X Pos \X RunId \X Text
    /\ deleting \in [Source -> {"no", "vectors", "chunks"}]
    /\ collided \in SUBSET Source

\* Within the try block a runner has a run and a document, and what it embeds
\* are chunks of its content.
TaskInv ==
    \A p \in Runner :
        /\ pc[p] \in Opened => task[p].run \in RunId /\ task[p].doc \in RunId
        /\ pc[p] \in Opened => \A x \in task[p].todo : x[1] \in Planned(task[p].content)
        /\ pc[p] \in Before => task[p].todo = {}

TypeInv == TypeOK /\ TaskInv

LEMMA TypeParts ==
    TypeOK <=> LedgerOK /\ ChunkOK /\ ProcsOK /\ OthersOK
BY DEF TypeOK, LedgerOK, ChunkOK, ProcsOK, OthersOK


\* The record updates of the actions stay within Task.
LEMMA TaskUpdates ==
    ASSUME NEW t \in Task, NEW T \in SUBSET (Pos \X RunId), NEW Z \in SUBSET Pos,
           NEW e \in BOOLEAN, NEW r \in RunId, NEW d \in RunId
    PROVE  /\ [t EXCEPT !.run = r, !.doc = d, !.errs = e] \in Task
           /\ [t EXCEPT !.todo = T] \in Task
           /\ [t EXCEPT !.errs = e] \in Task
           /\ [t EXCEPT !.todo = T, !.errs = e] \in Task
           /\ [t EXCEPT !.zeros = Z, !.errs = e] \in Task
           /\ [t EXCEPT !.todo = T, !.zeros = Z] \in Task
           /\ [t EXCEPT !.todo = T, !.zeros = Z, !.errs = e] \in Task
BY DEF Task

LEMMA TaskTyped ==
    ASSUME TypeInv, NEW p \in Runner, pc[p] # "idle"
    PROVE  /\ task[p] \in Task
           /\ task[p].source \in Source /\ task[p].content \in Content
           /\ task[p].todo \subseteq Pos \X RunId /\ task[p].zeros \subseteq Pos
           /\ task[p].errs \in BOOLEAN
<1>1. task[p] \in Task
  BY DEF TypeInv, TypeOK
<1> QED
  BY <1>1 DEF Task

LEMMA LeaveTyped ==
    ASSUME TypeInv, NEW p \in Runner, pc[p] # "idle", Leave(p)
    PROVE  ProcsOK' /\ TaskInv'
<1>1. task[p].content \in Content
  BY TaskTyped
<1> QED
  BY <1>1 DEF Leave, TypeInv, TypeOK, ProcsOK, TaskInv, Opened, Before

LEMMA UpsertedTyped ==
    ASSUME TypeOK, NEW s \in Source, NEW c \in Content, NEW r \in RunId
    PROVE  Upserted(s, c, r) \in [Source -> Document \cup {None}]
<1>1. [id |-> r, hash |-> c] \in Document
  BY DEF Document
<1>2. doc \in [Source -> Document \cup {None}]
  BY DEF TypeOK
<1>3. ASSUME doc[s] # None
      PROVE  [doc[s] EXCEPT !.hash = c] \in Document
  <2>1. doc[s] \in Document
    BY <1>2, <1>3
  <2> QED
    BY <2>1 DEF Document
<1> QED
  BY <1>1, <1>2, <1>3 DEF Upserted

LEMMA LedgerTyped ==
    ASSUME TypeInv, Next
    PROVE  LedgerOK'
<1> USE DEF TypeInv, TypeOK, LedgerOK
<1>1. ASSUME NEW p \in Runner, Begin(p)
      PROVE  LedgerOK'
  <2> DEFINE s == task[p].source
             c == task[p].content
  <2>1. s \in Source /\ c \in Content
    BY <1>1, TaskTyped DEF Begin
  <2>2. PICK r \in RunId :
          /\ status' = [status EXCEPT ![r] = "running"]
          /\ source' = [source EXCEPT ![r] = s]
          /\ hash' = [hash EXCEPT ![r] = c]
          /\ doc' = Upserted(s, c, r)
    BY <1>1 DEF Begin
  <2>3. doc' \in [Source -> Document \cup {None}]
    BY <2>1, <2>2, UpsertedTyped
  <2> QED
    BY <1>1, <2>1, <2>2, <2>3 DEF Begin
<1>2. ASSUME NEW p \in Runner, UpdateDocument(p)
      PROVE  LedgerOK'
  <2>1. /\ task[p].source \in Source /\ task[p].content \in Content
        /\ task[p].doc \in RunId
    BY <1>2, TaskTyped DEF UpdateDocument, TaskInv, Opened
  <2>2. Upserted(task[p].source, task[p].content, task[p].doc)
          \in [Source -> Document \cup {None}]
    BY <2>1, UpsertedTyped
  <2> QED
    BY <1>2, <2>2 DEF UpdateDocument
<1>3. ASSUME NEW p \in Runner, Finish(p) \/ Raises(p)
      PROVE  LedgerOK'
  BY <1>3 DEF Finish, Raises, Verdict
<1>4. ASSUME NEW s \in Source, DeleteStep(s)
      PROVE  LedgerOK'
  BY <1>4 DEF DeleteStep, Delete, DeleteVectors, DeleteChunks, DeleteRow
<1>5. ASSUME NEW p \in Runner, Step(p), ~Begin(p), ~UpdateDocument(p), ~Finish(p), ~Raises(p)
      PROVE  LedgerOK'
  BY <1>5 DEF Step, Ingest, Skip, ProbeMisses, PrePass, StoreChunks, StoreFails, Embed,
              StoreVectors, VectorsFail, Close, Crash, store
<1>6. ASSUME RepairScan \/ RepairWrite
      PROVE  LedgerOK'
  BY <1>6 DEF RepairScan, RepairWrite, store
<1> QED
  BY <1>1, <1>2, <1>3, <1>4, <1>5, <1>6 DEF Next

\* What the updates of a row leave of it.
LEMMA ChunkUpdates ==
    ASSUME NEW k \in Chunk
    PROVE  /\ \A v \in Text \cup {Zero, None} : [k EXCEPT !.vec = v] \in Chunk
           /\ \A t \in Text : [k EXCEPT !.text = t, !.dead = FALSE] \in Chunk
           /\ [k EXCEPT !.dead = TRUE] \in Chunk
           /\ k.id \in RunId /\ k.text \in Text
BY DEF Chunk

LEMMA PartsTyped ==
    ASSUME NEW c \in Content, NEW i \in Planned(c)
    PROVE  Parts[c][i] \in Text /\ i \in Pos
BY LedgerAssumption DEF Planned, Pos

LEMMA StoredTyped ==
    ASSUME TypeOK, NEW s \in Source, NEW c \in Content, NEW r \in RunId
    PROVE  /\ Stored(s, c, r) \in [Pos -> Chunk \cup {None}]
           /\ \A i \in Added(s, c) \cup Rewritten(s, c) : Stored(s, c, r)[i] \in Chunk
<1>1. \A i \in Pos : chunk[s][i] \in Chunk \cup {None}
  BY DEF TypeOK
<1>2. \A i \in Planned(c) : Parts[c][i] \in Text /\ i \in Pos
  BY PartsTyped
<1>3. ASSUME NEW i \in Added(s, c)
      PROVE  [id |-> r, text |-> Parts[c][i], dead |-> FALSE, vec |-> None] \in Chunk
  BY <1>2, <1>3 DEF Added, Chunk
<1>4. ASSUME NEW i \in Rewritten(s, c)
      PROVE  [chunk[s][i] EXCEPT !.text = Parts[c][i], !.dead = FALSE] \in Chunk
  BY <1>1, <1>2, <1>4, ChunkUpdates DEF Rewritten, Present
<1>5. ASSUME NEW i \in Beyond(s, c)
      PROVE  [chunk[s][i] EXCEPT !.dead = TRUE] \in Chunk
  BY <1>1, <1>5, ChunkUpdates DEF Beyond, Present
<1>6. Added(s, c) \cup Rewritten(s, c) \subseteq Pos
  BY <1>2 DEF Added, Rewritten
<1> QED
  BY <1>1, <1>3, <1>4, <1>5, <1>6 DEF Stored

LEMMA ChunkTyped ==
    ASSUME TypeInv, Next
    PROVE  ChunkOK'
<1> USE DEF ChunkOK
<1>0. chunk \in [Source -> [Pos -> Chunk \cup {None}]]
  BY DEF TypeInv, TypeOK
<1>1. ASSUME NEW p \in Runner, PrePass(p)
      PROVE  ChunkOK'
  <2> DEFINE s == task[p].source
             c == task[p].content
             gone == IF Owns(p) THEN Rewritten(s, c) \cup Beyond(s, c) ELSE {}
  <2>1. s \in Source
    BY <1>1, TaskTyped DEF PrePass
  <2>2. \A i \in gone : i \in Pos /\ [chunk[s][i] EXCEPT !.vec = None] \in Chunk
    BY <1>0, <2>1, ChunkUpdates DEF Rewritten, Beyond, Present
  <2> QED
    BY <1>0, <1>1, <2>1, <2>2 DEF PrePass
<1>2. ASSUME NEW p \in Runner, StoreChunks(p)
      PROVE  ChunkOK'
  <2>1. /\ task[p].source \in Source /\ task[p].content \in Content
        /\ task[p].run \in RunId
    BY <1>2, TaskTyped DEF StoreChunks, TypeInv, TaskInv, Opened
  <2> QED
    BY <1>0, <1>2, <2>1, StoredTyped DEF StoreChunks, TypeInv
<1>3. ASSUME NEW p \in Runner, StoreVectors(p)
      PROVE  ChunkOK'
  <2> DEFINE s == task[p].source
             c == task[p].content
             mine == {x[1] : x \in task[p].todo}
             vec(i) == IF i \in task[p].zeros THEN Zero ELSE Parts[c][i]
  <2>1. /\ s \in Source /\ c \in Content /\ task[p].todo \subseteq Pos \X RunId
    BY <1>3, TaskTyped DEF StoreVectors
  <2>2. ASSUME NEW i \in mine
        PROVE  i \in Pos /\ chunk[s][i] \in Chunk
    <3>1. PICK x \in task[p].todo : i = x[1]
      OBVIOUS
    <3>2. chunk[s][x[1]] # None
      BY <1>3 DEF StoreVectors, RowsRemain
    <3> QED
      BY <1>0, <2>1, <3>1, <3>2
  <2>3. ASSUME NEW i \in mine
        PROVE  vec(i) \in Text \cup {Zero, None}
    BY <1>3, <2>1, <2>2, PartsTyped DEF StoreVectors, TypeInv, TaskInv, Opened
  <2>4. \A i \in mine : [chunk[s][i] EXCEPT !.vec = vec(i)] \in Chunk
    BY <2>2, <2>3, ChunkUpdates
  <2> QED
    BY <1>0, <1>3, <2>1, <2>2, <2>4 DEF StoreVectors
<1>4. ASSUME RepairWrite
      PROVE  ChunkOK'
  <2>1. PICK done \in SUBSET repair :
          chunk' = [s \in Source |-> [i \in Pos |-> Repaired(s, i, done)]]
    BY <1>4 DEF RepairWrite
  <2> SUFFICES ASSUME NEW s \in Source, NEW i \in Pos
               PROVE  Repaired(s, i, done) \in Chunk \cup {None}
    BY <2>1
  <2> DEFINE hits == {x \in done : x[1] = s /\ x[2] = i /\ x[3] = chunk[s][i].id}
             hit == CHOOSE x \in hits : TRUE
  <2>2. ASSUME hits # {}
        PROVE  hit[4] \in Text
    <3>1. hit \in hits
      BY <2>2
    <3> QED
      BY <3>1 DEF TypeInv, TypeOK
  <2>3. chunk[s][i] \in Chunk \cup {None}
    BY <1>0
  <2> QED
    BY <2>2, <2>3, ChunkUpdates DEF Repaired
<1>5. ASSUME NEW s \in Source, DeleteStep(s)
      PROVE  ChunkOK'
  <2>1. \A i \in Present(s) : i \in Pos /\ [chunk[s][i] EXCEPT !.vec = None] \in Chunk
    BY <1>0, ChunkUpdates DEF Present
  <2> QED
    BY <1>0, <1>5, <2>1 DEF DeleteStep, Delete, DeleteVectors, DeleteChunks, DeleteRow
<1>6. ASSUME NEW p \in Runner, Step(p), ~PrePass(p), ~StoreChunks(p), ~StoreVectors(p)
      PROVE  ChunkOK'
  BY <1>0, <1>6 DEF Step, Ingest, Skip, ProbeMisses, Begin, StoreFails, Embed, VectorsFail,
              UpdateDocument, Finish, Close, Raises, Crash, store
<1>7. CASE RepairScan
  BY <1>0, <1>7 DEF RepairScan, store
<1> QED
  BY <1>1, <1>2, <1>3, <1>4, <1>5, <1>6, <1>7 DEF Next

\* A step that gives runner p the task t and the place at in its pipeline.
LEMMA TaskSet ==
    ASSUME TypeInv, NEW p \in Runner, NEW t \in Task, NEW at \in Before \cup Opened,
           at \in Opened => t.run \in RunId /\ t.doc \in RunId,
           at \in Before => t.todo = {},
           \A x \in t.todo : x[1] \in Planned(t.content),
           task' = [task EXCEPT ![p] = t], pc' = [pc EXCEPT ![p] = at],
           lock' \in [Content -> Runner \cup {None}]
    PROVE  ProcsOK' /\ TaskInv'
<1>1. at # "idle" /\ t # None
  BY NullAssumption DEF Before, Opened
<1> QED
  BY <1>1 DEF TypeInv, TypeOK, ProcsOK, TaskInv

LEMMA PlaceSet ==
    ASSUME TypeInv, NEW p \in Runner, NEW at \in Before \cup Opened, pc[p] # "idle",
           at \in Opened <=> pc[p] \in Opened,
           task' = task, pc' = [pc EXCEPT ![p] = at], lock' = lock
    PROVE  ProcsOK' /\ TaskInv'
<1>1. at # "idle" /\ (at \in Before <=> pc[p] \in Before)
  BY DEF Before, Opened, TypeInv, TypeOK
<1> QED
  BY <1>1 DEF TypeInv, TypeOK, ProcsOK, TaskInv

LEMMA LockTyped ==
    ASSUME TypeInv, lock' = lock
    PROVE  lock' \in [Content -> Runner \cup {None}]
BY DEF TypeInv, TypeOK

\* The task u of a runner that had t: the same job, and no error is taken back.
SameJob(t, u) ==
    /\ u.run = t.run /\ u.doc = t.doc
    /\ u.source = t.source /\ u.content = t.content
    /\ t.errs => u.errs

\* The same job, with no more to embed.
Kept(t, u) == SameJob(t, u) /\ u.todo \subseteq t.todo

LEMMA StageKeeps ==
    ASSUME TypeInv, NEW p \in Runner,
           StoreFails(p) \/ Embed(p) \/ StoreVectors(p) \/ VectorsFail(p)
    PROVE  \E u \in Task : task' = [task EXCEPT ![p] = u] /\ Kept(task[p], u)
<1> DEFINE t == task[p]
<1>0. t \in Task
  BY TaskTyped DEF StoreFails, Embed, StoreVectors, VectorsFail
<1>1. CASE StoreFails(p)
  <2> DEFINE u == [t EXCEPT !.errs = TRUE]
  <2>1. task' = [task EXCEPT ![p] = u]
    BY <1>1 DEF StoreFails
  <2>2. u \in Task /\ Kept(t, u)
    BY <1>0 DEF Task, Kept, SameJob
  <2> HIDE DEF u
  <2> QED
    BY <2>1, <2>2
<1>2. CASE EmbedRaises(p)
  <2> DEFINE u == [t EXCEPT !.todo = {}, !.errs = TRUE]
  <2>1. task' = [task EXCEPT ![p] = u]
    BY <1>2 DEF EmbedRaises
  <2>2. u \in Task /\ Kept(t, u)
    BY <1>0 DEF Task, Kept, SameJob
  <2> HIDE DEF u
  <2> QED
    BY <2>1, <2>2
<1>3. CASE EmbedAnswers(p)
  <2>1. PICK Z \in SUBSET {x[1] : x \in t.todo}, fatal \in BOOLEAN :
          task' = [task EXCEPT ![p] = [t EXCEPT !.zeros = Z, !.errs = t.errs \/ fatal]]
    BY <1>3 DEF EmbedAnswers
  <2> DEFINE e == t.errs \/ fatal
             u == [t EXCEPT !.zeros = Z, !.errs = e]
  <2>2. Z \in SUBSET Pos
    BY <1>0, <2>1 DEF Task
  <2>3. e \in BOOLEAN
    OBVIOUS
  <2>4. t.errs => e
    OBVIOUS
  <2> HIDE DEF e
  <2>5. u \in Task /\ Kept(t, u)
    BY <1>0, <2>2, <2>3, <2>4 DEF Task, Kept, SameJob
  <2> HIDE DEF u
  <2> QED
    BY <2>1, <2>5 DEF u, e
<1>4. CASE StoreVectors(p)
  <2> DEFINE u == [t EXCEPT !.todo = {}, !.zeros = {}]
  <2>1. task' = [task EXCEPT ![p] = u]
    BY <1>4 DEF StoreVectors
  <2>2. u \in Task /\ Kept(t, u)
    BY <1>0 DEF Task, Kept, SameJob
  <2> HIDE DEF u
  <2> QED
    BY <2>1, <2>2
<1>5. CASE VectorsFail(p)
  <2> DEFINE u == [t EXCEPT !.todo = {}, !.zeros = {}, !.errs = TRUE]
  <2>1. task' = [task EXCEPT ![p] = u]
    BY <1>5 DEF VectorsFail
  <2>2. u \in Task /\ Kept(t, u)
    BY <1>0 DEF Task, Kept, SameJob
  <2> HIDE DEF u
  <2> QED
    BY <2>1, <2>2
<1> QED
  BY <1>1, <1>2, <1>3, <1>4, <1>5 DEF Embed

LEMMA ProcsTyped ==
    ASSUME TypeInv, NEW p \in Runner, Step(p)
    PROVE  ProcsOK' /\ TaskInv'
<1> DEFINE t == task[p]
<1>0. ASSUME pc[p] \in Opened
      PROVE  /\ t \in Task /\ t.run \in RunId /\ t.doc \in RunId
             /\ \A x \in t.todo : x[1] \in Planned(t.content)
  BY <1>0, TaskTyped DEF TypeInv, TaskInv, Opened
<1>1. CASE Ingest(p)
  <2>1. PICK s \in Source, c \in Content :
          /\ lock' = [lock EXCEPT ![c] = p]
          /\ task' = [task EXCEPT ![p] =
               [source |-> s, content |-> c, run |-> None, doc |-> None,
                todo |-> {}, zeros |-> {}, errs |-> FALSE]]
    BY <1>1 DEF Ingest
  <2> DEFINE u == [source |-> s, content |-> c, run |-> None, doc |-> None,
                   todo |-> {}, zeros |-> {}, errs |-> FALSE]
  <2>2. u \in Task /\ u.todo = {}
    BY DEF Task
  <2>3. lock' \in [Content -> Runner \cup {None}]
    BY <2>1 DEF TypeInv, TypeOK
  <2>4. pc' = [pc EXCEPT ![p] = "probe"] /\ "probe" \in Before /\ "probe" \notin Opened
    BY <1>1 DEF Ingest, Before, Opened
  <2> HIDE DEF u
  <2> QED
    BY <2>1, <2>2, <2>3, <2>4, TaskSet DEF u
<1>2. CASE Skip(p) \/ Close(p) \/ Raises(p) \/ Crash(p)
  BY <1>2, LeaveTyped DEF Skip, Close, Raises, Crash, Opened
<1>3. CASE ProbeMisses(p)
  BY <1>3, PlaceSet DEF ProbeMisses, Before, Opened
<1>4. CASE Begin(p)
  <2> DEFINE s == t.source
             c == t.content
             own(r) == IF doc[s] = None THEN r ELSE doc[s].id
             u(r) == [t EXCEPT !.run = r, !.doc = own(r), !.errs = EmptyPlan(c)]
  <2>1. PICK r \in RunId : task' = [task EXCEPT ![p] = u(r)]
    BY <1>4 DEF Begin
  <2>2. t \in Task /\ s \in Source /\ c \in Content /\ t.todo = {}
    BY <1>4, TaskTyped DEF Begin, Before, TypeInv, TaskInv
  <2>3. own(r) \in RunId
    BY <2>2 DEF TypeInv, TypeOK, Document
  <2>4. EmptyPlan(c) \in BOOLEAN
    BY DEF EmptyPlan
  <2> HIDE DEF own
  <2>5. u(r) \in Task
    BY <2>2, <2>3, <2>4 DEF Task
  <2>6. u(r).run = r /\ u(r).doc = own(r) /\ u(r).todo = {}
    BY <2>2 DEF Task
  <2>7. PICK at \in Opened : pc' = [pc EXCEPT ![p] = at]
    BY <1>4 DEF Begin, Opened
  <2>8. lock' \in [Content -> Runner \cup {None}]
    BY <1>4, LockTyped DEF Begin
  <2>9. /\ u(r) \in Task /\ u(r).run \in RunId /\ u(r).doc \in RunId
        /\ \A x \in u(r).todo : x[1] \in Planned(u(r).content)
        /\ u(r).todo = {} /\ at \in Before \cup Opened
    BY <2>3, <2>5, <2>6, <2>7
  <2> HIDE DEF u
  <2> QED
    BY <2>1, <2>7, <2>8, <2>9, TaskSet
<1>5. CASE PrePass(p) \/ Finish(p)
  BY <1>5, PlaceSet DEF PrePass, Finish, Opened
<1>6. CASE StoreChunks(p)
  <2> DEFINE s == t.source
             c == t.content
             rows == Stored(s, c, t.run)
             new == Added(s, c) \cup Rewritten(s, c)
             T == {<<i, rows[i].id>> : i \in new}
             u == [t EXCEPT !.todo = T]
  <2>1. /\ task' = [task EXCEPT ![p] = u] /\ pc' = [pc EXCEPT ![p] = "embed"]
        /\ lock' = lock /\ pc[p] \in Opened
    BY <1>6 DEF StoreChunks, Opened
  <2>2. t \in Task /\ t.run \in RunId /\ t.doc \in RunId /\ s \in Source /\ c \in Content
    BY <1>0, <2>1, TaskTyped DEF Opened
  <2>3. \A i \in new : i \in Planned(c) /\ i \in Pos
    BY <2>2, PartsTyped DEF Added, Rewritten
  <2>4. \A i \in new : rows[i].id \in RunId
    BY <2>2, StoredTyped, ChunkUpdates DEF TypeInv
  <2>5. T \in SUBSET (Pos \X RunId) /\ \A x \in T : x[1] \in Planned(c)
    BY <2>3, <2>4
  <2>6. u \in Task
    BY <2>2, <2>5, TaskUpdates
  <2>7. u.run = t.run /\ u.doc = t.doc /\ u.todo = T /\ u.content = c
    BY <2>2 DEF Task
  <2>8. lock' \in [Content -> Runner \cup {None}]
    BY <2>1, LockTyped
  <2>9. /\ u \in Task /\ u.run \in RunId /\ u.doc \in RunId
        /\ \A x \in u.todo : x[1] \in Planned(u.content)
    BY <2>2, <2>5, <2>6, <2>7
  <2>10. "embed" \in Before \cup Opened /\ "embed" \notin Before
    BY DEF Before, Opened
  <2> HIDE DEF u
  <2> QED
    BY <2>1, <2>8, <2>9, <2>10, TaskSet
<1>7. CASE StoreFails(p) \/ Embed(p) \/ StoreVectors(p) \/ VectorsFail(p)
  <2>1. /\ pc[p] \in Opened /\ lock' = lock
        /\ \E at \in Opened : pc' = [pc EXCEPT ![p] = at]
    BY <1>7 DEF StoreFails, Embed, StoreVectors, VectorsFail, Opened
  <2>2. \E u \in Task : task' = [task EXCEPT ![p] = u] /\ Kept(t, u)
    BY <1>7, StageKeeps
  <2>3. Opened \cap Before = {} /\ Opened \subseteq Before \cup Opened
    BY DEF Before, Opened
  <2> QED
    BY <1>0, <2>1, <2>2, <2>3, LockTyped, TaskSet DEF Kept, SameJob
<1>8. CASE UpdateDocument(p)
  <2>1. /\ pc[p] \in Opened /\ lock' = lock
        /\ pc' = [pc EXCEPT ![p] = "finish"] /\ "finish" \in Opened /\ "finish" \notin Before
    BY <1>8 DEF UpdateDocument, Opened, Before
  <2> DEFINE u == [t EXCEPT !.errs = TRUE]
  <2>2. task' = task \/ task' = [task EXCEPT ![p] = u]
    BY <1>8 DEF UpdateDocument
  <2>3. u \in Task /\ u.run = t.run /\ u.doc = t.doc /\ u.content = t.content /\ u.todo = t.todo
    BY <1>0, <2>1 DEF Task
  <2>4. CASE task' = task
    BY <2>1, <2>4, PlaceSet DEF Opened
  <2>5. CASE task' = [task EXCEPT ![p] = u]
    <3> HIDE DEF u
    <3> QED
      BY <1>0, <2>1, <2>3, <2>5, LockTyped, TaskSet
  <2> QED
    BY <2>2, <2>4, <2>5
<1> QED
  BY <1>1, <1>2, <1>3, <1>4, <1>5, <1>6, <1>7, <1>8 DEF Step

\* The steps of repair and delete leave the runners alone.
LEMMA RunnersUntouched ==
    ASSUME TypeInv, RepairScan \/ RepairWrite \/ \E s \in Source : DeleteStep(s)
    PROVE  procs' = procs /\ ProcsOK' /\ TaskInv'
<1>1. procs' = procs
  BY DEF RepairScan, RepairWrite, DeleteStep, Delete, DeleteVectors, DeleteChunks, DeleteRow,
         procs
<1> QED
  BY <1>1 DEF procs, TypeInv, TypeOK, ProcsOK, TaskInv

LEMMA OthersTyped ==
    ASSUME TypeInv, Next
    PROVE  OthersOK'
<1> USE DEF OthersOK
<1>0. OthersOK
  BY DEF TypeInv, TypeOK
<1>1. ASSUME NEW p \in Runner, Begin(p) \/ StoreChunks(p)
      PROVE  OthersOK'
  <2>1. task[p].source \in Source
    BY <1>1, TaskTyped DEF Begin, StoreChunks
  <2> QED
    BY <1>0, <1>1, <2>1 DEF Begin, StoreChunks, Note
<1>2. CASE RepairScan
  <2>1. PICK S \in {Source} \cup {{s} : s \in Source} :
          repair' = {<<x[1], x[2], chunk[x[1]][x[2]].id, chunk[x[1]][x[2]].text>> :
                       x \in {z \in S \X Pos : Degraded(z[1], z[2])}}
    BY <1>2 DEF RepairScan
  <2>2. S \subseteq Source
    OBVIOUS
  <2>3. ASSUME NEW s \in Source, NEW i \in Pos, Degraded(s, i)
        PROVE  chunk[s][i].id \in RunId /\ chunk[s][i].text \in Text
    <3>1. chunk[s][i] \in Chunk
      BY <2>3 DEF Degraded, TypeInv, TypeOK
    <3> QED
      BY <3>1, ChunkUpdates
  <2>4. repair' \subseteq Source \X Pos \X RunId \X Text
    BY <2>1, <2>2, <2>3
  <2> QED
    BY <1>0, <1>2, <2>4 DEF RepairScan
<1>3. CASE RepairWrite
  BY <1>0, <1>3 DEF RepairWrite
<1>4. ASSUME NEW s \in Source, DeleteStep(s)
      PROVE  OthersOK'
  BY <1>0, <1>4 DEF DeleteStep, Delete, DeleteVectors, DeleteChunks, DeleteRow, Note
<1>5. ASSUME NEW p \in Runner, Step(p), ~Begin(p), ~StoreChunks(p)
      PROVE  OthersOK'
  BY <1>0, <1>5 DEF Step, Ingest, Skip, ProbeMisses, PrePass, StoreFails, Embed, StoreVectors,
              VectorsFail, UpdateDocument, Finish, Close, Raises, Crash, others
<1> QED
  BY <1>1, <1>2, <1>3, <1>4, <1>5 DEF Next

LEMMA TypeInit == Init => TypeInv
<1> SUFFICES ASSUME Init PROVE TypeInv
  OBVIOUS
<1>1. LedgerOK /\ ChunkOK
  BY DEF Init, LedgerOK, ChunkOK
<1>2. ProcsOK /\ OthersOK /\ TaskInv
  BY DEF Init, ProcsOK, OthersOK, TaskInv, Before, Opened
<1> QED
  BY <1>1, <1>2, TypeParts DEF TypeInv

LEMMA TypeNext == TypeInv /\ [Next]_vars => TypeInv'
<1> SUFFICES ASSUME TypeInv, [Next]_vars PROVE TypeInv'
  OBVIOUS
<1>1. CASE Next
  <2>1. ProcsOK' /\ TaskInv'
    BY <1>1, ProcsTyped, RunnersUntouched DEF Next
  <2>2. LedgerOK' /\ ChunkOK' /\ OthersOK'
    BY <1>1, LedgerTyped, ChunkTyped, OthersTyped
  <2> QED
    BY <2>1, <2>2 DEF TypeInv, TypeOK, LedgerOK, ChunkOK, ProcsOK, OthersOK
<1>2. CASE UNCHANGED vars
  BY <1>2 DEF vars, store, procs, others, TypeInv, TypeOK, TaskInv, Task, RunId, Pos,
              Before, Opened, Document, Chunk, Planned
<1> QED
  BY <1>1, <1>2

\* Every variable of the ledger and of the pipeline keeps its type: rows carry
\* the ids of real runs, tasks those of real sources and contents.
THEOREM LedgerTypeCorrect == Spec => []TypeOK
<1>1. TypeInv => TypeOK
  BY DEF TypeInv
<1> QED
  BY <1>1, TypeInit, TypeNext, PTL DEF Spec

\* What a stage may rely on within the try block: its run and its document are
\* there, and the rows it is to embed are chunks of its own content.
THEOREM TasksCarryTheirRun == Spec => []TaskInv
<1>1. TypeInv => TaskInv
  BY DEF TypeInv
<1> QED
  BY <1>1, TypeInit, TypeNext, PTL DEF Spec

----------------------------------------------------------------------------
(* One run per content.                                                      *)

\* A runner holds the lock of the content it works on and no other, for as
\* long as it is past the lock.
LockHeld ==
    \A c \in Content, p \in Runner :
        lock[c] = p <=> pc[p] # "idle" /\ task[p].content = c

\* A step that changes neither the locks, nor who is past one, nor the content
\* any runner works on.
LEMMA LockKept ==
    ASSUME LockHeld, lock' = lock,
           \A p \in Runner : pc'[p] # "idle" <=> pc[p] # "idle",
           \A p \in Runner : pc[p] # "idle" => task'[p].content = task[p].content
    PROVE  LockHeld'
BY DEF LockHeld

\* The lock context closes: the one lock that is freed is that of the runner
\* that leaves.
LEMMA LockLeft ==
    ASSUME TypeInv, LockHeld, NEW p \in Runner, pc[p] # "idle", Leave(p)
    PROVE  LockHeld'
<1>1. task[p].content \in Content
  BY TaskTyped
<1>2. lock \in [Content -> Runner \cup {None}] /\ None \notin Runner
  BY LedgerAssumption DEF TypeInv, TypeOK
<1>3. pc \in [Runner -> {"idle"} \cup Before \cup Opened]
  BY DEF TypeInv, TypeOK
<1>4. task \in [Runner -> Task \cup {None}]
  BY DEF TypeInv, TypeOK
<1>5. /\ lock' = [lock EXCEPT ![task[p].content] = None]
      /\ pc' = [pc EXCEPT ![p] = "idle"]
      /\ task' = [task EXCEPT ![p] = None]
  BY DEF Leave
<1> SUFFICES ASSUME NEW c \in Content, NEW q \in Runner
             PROVE  lock'[c] = q <=> pc'[q] # "idle" /\ task'[q].content = c
  BY DEF LockHeld
<1>6. CASE q = p
  BY <1>1, <1>2, <1>3, <1>5, <1>6 DEF LockHeld
<1>7. CASE q # p
  BY <1>1, <1>2, <1>3, <1>4, <1>5, <1>7 DEF LockHeld
<1> QED
  BY <1>6, <1>7

\* A runner within its pipeline that takes the task t, of the same content.
LEMMA LockWithTask ==
    ASSUME TypeInv, LockHeld, NEW p \in Runner, pc[p] # "idle", lock' = lock,
           NEW at, at # "idle", pc' = [pc EXCEPT ![p] = at],
           NEW t, t.content = task[p].content, task' = [task EXCEPT ![p] = t]
    PROVE  LockHeld'
<1>1. pc \in [Runner -> {"idle"} \cup Before \cup Opened] /\ task \in [Runner -> Task \cup {None}]
  BY DEF TypeInv, TypeOK
<1> QED
  BY <1>1, LockKept

LEMMA LockNext ==
    ASSUME TypeInv, LockHeld, NEW p \in Runner, Step(p)
    PROVE  LockHeld'
<1> DEFINE t == task[p]
<1>0. pc[p] # "idle" => t \in Task
  BY TaskTyped
<1>1. CASE Ingest(p)
  <2>1. PICK s \in Source, c \in Content :
          /\ lock[c] = None
          /\ lock' = [lock EXCEPT ![c] = p]
          /\ task' = [task EXCEPT ![p] =
               [source |-> s, content |-> c, run |-> None, doc |-> None,
                todo |-> {}, zeros |-> {}, errs |-> FALSE]]
    BY <1>1 DEF Ingest
  <2>2. /\ lock \in [Content -> Runner \cup {None}] /\ None \notin Runner
        /\ pc \in [Runner -> {"idle"} \cup Before \cup Opened]
        /\ task \in [Runner -> Task \cup {None}]
    BY LedgerAssumption DEF TypeInv, TypeOK
  <2>3. pc[p] = "idle" /\ pc' = [pc EXCEPT ![p] = "probe"]
    BY <1>1 DEF Ingest
  <2> SUFFICES ASSUME NEW d \in Content, NEW q \in Runner
               PROVE  lock'[d] = q <=> pc'[q] # "idle" /\ task'[q].content = d
    BY DEF LockHeld
  <2>4. CASE q = p
    BY <2>1, <2>2, <2>3, <2>4 DEF LockHeld
  <2>5. CASE q # p
    BY <2>1, <2>2, <2>3, <2>5 DEF LockHeld
  <2> QED
    BY <2>4, <2>5
<1>2. CASE Skip(p) \/ Close(p) \/ Raises(p) \/ Crash(p)
  BY <1>2, LockLeft DEF Skip, Close, Raises, Crash, Opened
<1>3. CASE ProbeMisses(p) \/ PrePass(p) \/ Finish(p)
  <2>1. /\ pc[p] # "idle" /\ lock' = lock /\ task' = task
        /\ \E at : at # "idle" /\ pc' = [pc EXCEPT ![p] = at]
    BY <1>3 DEF ProbeMisses, PrePass, Finish
  <2>2. pc \in [Runner -> {"idle"} \cup Before \cup Opened]
    BY DEF TypeInv, TypeOK
  <2> QED
    BY <2>1, <2>2, LockKept
<1>4. CASE Begin(p)
  <2>1. PICK r \in RunId :
          task' = [task EXCEPT ![p] = [t EXCEPT
                     !.run = r,
                     !.doc = IF doc[t.source] = None THEN r ELSE doc[t.source].id,
                     !.errs = EmptyPlan(t.content)]]
    BY <1>4 DEF Begin
  <2>2. PICK at : at # "idle" /\ pc' = [pc EXCEPT ![p] = at]
    BY <1>4 DEF Begin
  <2> DEFINE u == [t EXCEPT !.run = r,
                            !.doc = IF doc[t.source] = None THEN r ELSE doc[t.source].id,
                            !.errs = EmptyPlan(t.content)]
  <2>3. pc[p] # "idle" /\ lock' = lock
    BY <1>4 DEF Begin
  <2>4. u.content = t.content
    BY <1>0, <2>3 DEF Task
  <2>5. task' = [task EXCEPT ![p] = u]
    BY <2>1
  <2> HIDE DEF u
  <2> QED
    BY <2>2, <2>3, <2>4, <2>5, LockWithTask
<1>5. CASE StoreFails(p) \/ Embed(p) \/ StoreVectors(p) \/ VectorsFail(p)
  <2>1. pc[p] # "idle" /\ lock' = lock /\ \E at : at # "idle" /\ pc' = [pc EXCEPT ![p] = at]
    BY <1>5 DEF StoreFails, Embed, StoreVectors, VectorsFail
  <2>2. PICK u \in Task : task' = [task EXCEPT ![p] = u] /\ u.content = t.content
    BY <1>5, StageKeeps DEF Kept, SameJob
  <2> QED
    BY <2>1, <2>2, LockWithTask
<1>6. CASE StoreChunks(p)
  <2> DEFINE T == {<<i, Stored(t.source, t.content, t.run)[i].id>> :
                     i \in Added(t.source, t.content) \cup Rewritten(t.source, t.content)}
             u == [t EXCEPT !.todo = T]
  <2>1. /\ pc[p] # "idle" /\ lock' = lock /\ pc' = [pc EXCEPT ![p] = "embed"]
        /\ task' = [task EXCEPT ![p] = u]
    BY <1>6 DEF StoreChunks
  <2>2. u.content = t.content
    BY <1>0, <2>1 DEF Task
  <2> HIDE DEF u
  <2> QED
    BY <2>1, <2>2, LockWithTask
<1>7. CASE UpdateDocument(p)
  <2> DEFINE u == [t EXCEPT !.errs = TRUE]
  <2>1. /\ pc[p] # "idle" /\ lock' = lock /\ pc' = [pc EXCEPT ![p] = "finish"]
        /\ task' = task \/ task' = [task EXCEPT ![p] = u]
    BY <1>7 DEF UpdateDocument
  <2>2. u.content = t.content
    BY <1>0, <2>1 DEF Task
  <2>3. task = [task EXCEPT ![p] = t]
    BY DEF TypeInv, TypeOK
  <2> HIDE DEF u
  <2> QED
    BY <2>1, <2>2, <2>3, LockWithTask
<1> QED
  BY <1>1, <1>2, <1>3, <1>4, <1>5, <1>6, <1>7 DEF Step

LEMMA LockInductive == TypeInv /\ LockHeld /\ [Next]_vars => LockHeld'
<1> SUFFICES ASSUME TypeInv, LockHeld, [Next]_vars PROVE LockHeld'
  OBVIOUS
<1>1. CASE Next
  <2>1. CASE procs' = procs
    BY <2>1 DEF procs, LockHeld
  <2> QED
    BY <1>1, <2>1, LockNext, RunnersUntouched DEF Next
<1>2. CASE UNCHANGED vars
  BY <1>2 DEF vars, procs, LockHeld
<1> QED
  BY <1>1, <1>2

\* The advisory lock of run_pipeline does what its comment says, for any number
\* of runners: no two are past it with the same content, however runs end.
THEOREM LockExcludes == Spec => []OneRunPerContent
<1>1. Init => LockHeld
  BY LedgerAssumption DEF Init, LockHeld
<1>2. TypeInv /\ LockHeld => OneRunPerContent
  BY TaskTyped DEF LockHeld, OneRunPerContent
<1> QED
  BY <1>1, <1>2, TypeInit, TypeNext, LockInductive, PTL DEF Spec
=============================================================================
