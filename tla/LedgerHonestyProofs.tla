------------------------ MODULE LedgerHonestyProofs ------------------------
(***************************************************************************)
(* The honesty of the ingest ledger, proved for every set of runners,      *)
(* sources, contents and texts, every plan of chunks, and every number of  *)
(* runs: a clean newest run means that its texts are stored, a skip loses  *)
(* nothing, and a chunk without its vector is on record.                   *)
(*                                                                         *)
(* The invariant has three layers.  OwnRuns says whose each ledger row is; *)
(* Alone what it means that the activities on a source have not collided;  *)
(* Texts and Vectors what the run at work has stored so far.               *)
(***************************************************************************)
EXTENDS IngestLedgerProofs

----------------------------------------------------------------------------
(* Layer 1: ledger rows.                                                     *)

\* Rows are opened in the order of their ids, and an open pipeline is the only
\* one with its row, which carries its source and content and is running until
\* the pipeline has finished.
OwnRuns ==
    /\ \A q, r \in RunId : status[q] = "absent" /\ q <= r => status[r] = "absent"
    /\ \A r \in RunId : source[r] # None => status[r] # "absent"
    /\ \A p \in Runner : pc[p] \in Opened =>
          /\ source[task[p].run] = task[p].source
          /\ hash[task[p].run] = task[p].content
          /\ pc[p] # "close" => status[task[p].run] = "running"
    /\ \A p, q \in Runner :
          pc[p] \in Opened /\ pc[q] \in Opened /\ task[p].run = task[q].run => p = q

----------------------------------------------------------------------------
(* Layer 2: a source on which activities have not collided.                  *)

\* One pipeline at most works on it; its run is the newest, its document has
\* its row, and nobody is deleting it.  On Postgres a documents row has a
\* newest run, and carries its hash.
AloneOn(s) ==
    /\ \A p, q \in Working(s) : p = q
    /\ \A p \in Working(s) :
          /\ deleting[s] = "no" /\ Owns(p)
          /\ \A r \in RunsOf(s) : r <= task[p].run
    /\ backend = "postgres" /\ doc[s] # None =>
          \E r \in Newest(RunsOf(s)) : hash[r] = doc[s].hash

Alone == \A s \in Source \ collided : AloneOn(s)

----------------------------------------------------------------------------
(* Layer 3: texts.                                                           *)

Past == {"embed", "vectors", "commit", "finish"}

\* A run that has passed the chunks without an error has stored its texts, and
\* so has a newest run that is completed.
TextsOn(s) ==
    /\ \A p \in Working(s) :
          pc[p] \in Past /\ ~task[p].errs => TextStored(s, task[p].content)
    /\ deleting[s] = "no" /\ doc[s] # None =>
          \A r \in Newest(RunsOf(s)) : Clean(r) => TextStored(s, hash[r])

Texts == \A s \in Source \ collided : TextsOn(s)

----------------------------------------------------------------------------
(* Layer 3: vectors.                                                         *)

\* The rows whose vectors the run of p has still to write.
Due(p) ==
    CASE pc[p] \in {"prepass", "store"} ->
            Rewritten(task[p].source, task[p].content)
              \cup Beyond(task[p].source, task[p].content)
      [] pc[p] \in {"embed", "vectors"} -> {x[1] : x \in task[p].todo}
      [] OTHER -> {}

OthersClean(p) == \A r \in RunsOf(task[p].source) : r = task[p].run \/ Clean(r)

\* A repair in progress holds the text of each row it will write.  If all other
\* runs are clean and this one has had no error, only what it is still to write
\* is missing; if all runs are clean, nothing is.
RepairOn(s) ==
    \A x \in repair : x[1] = s /\ chunk[s][x[2]] # None /\ chunk[s][x[2]].id = x[3] =>
        chunk[s][x[2]].text = x[4]

VectorsOn(s) ==
    /\ RepairOn(s)
    /\ \A p \in Working(s) :
          pc[p] # "close" /\ ~task[p].errs /\ OthersClean(p) =>
              \A i \in Pos : Gap(s, i) => i \in Due(p)
    /\ deleting[s] = "no" /\ (\A r \in RunsOf(s) : Clean(r)) =>
          \A i \in Pos : ~Gap(s, i)

Vectors == \A s \in Source \ collided : VectorsOn(s)

----------------------------------------------------------------------------
(* What a step of a runner does to the runners.                              *)

\* The stages between opening a row and leaving it.
Advance(p) ==
    \/ PrePass(p) \/ StoreChunks(p) \/ StoreFails(p) \/ Embed(p) \/ StoreVectors(p)
    \/ VectorsFail(p) \/ UpdateDocument(p) \/ Finish(p)

Leaves(p) == Skip(p) \/ Close(p) \/ Raises(p) \/ Crash(p)

LEMMA StepKinds ==
    ASSUME NEW p \in Runner, Step(p)
    PROVE  Ingest(p) \/ ProbeMisses(p) \/ Begin(p) \/ Advance(p) \/ Leaves(p)
BY DEF Step, Advance, Leaves

LEMMA ProcsFacts ==
    ASSUME TypeInv
    PROVE  /\ pc \in [Runner -> {"idle"} \cup Before \cup Opened]
           /\ task \in [Runner -> Task \cup {None}]
           /\ \A p \in Runner : pc[p] \in Opened =>
                 /\ task[p] \in Task /\ task[p].run \in RunId /\ task[p].doc \in RunId
                 /\ task[p].source \in Source /\ task[p].content \in Content
<1>1. \A p \in Runner : pc[p] \in Opened => pc[p] # "idle"
  BY DEF Opened
<1> QED
  BY <1>1, TaskTyped DEF TypeInv, TypeOK, TaskInv

\* A stage leaves the runner with the same job at another stage.
LEMMA AdvanceKeeps ==
    ASSUME TypeInv, NEW p \in Runner, Advance(p)
    PROVE  /\ pc[p] \in Opened \ {"close"}
           /\ \E u \in Task, at \in Opened :
                 /\ task' = [task EXCEPT ![p] = u] /\ SameJob(task[p], u)
                 /\ pc' = [pc EXCEPT ![p] = at]
<1> DEFINE t == task[p]
<1>1. pc[p] \in Opened \ {"close"} /\ \E at \in Opened : pc' = [pc EXCEPT ![p] = at]
  BY DEF Advance, PrePass, StoreChunks, StoreFails, Embed, StoreVectors, VectorsFail,
         UpdateDocument, Finish, Opened
<1>2. t \in Task /\ t.run \in RunId
  BY <1>1, ProcsFacts
<1>3. CASE task' = task
  <2>1. task' = [task EXCEPT ![p] = t] /\ SameJob(t, t)
    BY <1>3, ProcsFacts DEF SameJob
  <2> QED
    BY <1>1, <1>2, <2>1
<1>4. CASE StoreChunks(p)
  <2> DEFINE T == {<<i, Stored(t.source, t.content, t.run)[i].id>> :
                     i \in Added(t.source, t.content) \cup Rewritten(t.source, t.content)}
             u == [t EXCEPT !.todo = T]
  <2>1. task' = [task EXCEPT ![p] = u]
    BY <1>4 DEF StoreChunks
  <2>2. SameJob(t, u)
    BY <1>2 DEF Task, SameJob
  <2>3. u \in Task
    <3>1. TypeInv'
      BY <1>4, TypeNext DEF Next, Step
    <3>2. task'[p] \in Task
      BY <1>1, <3>1 DEF TypeInv, TypeOK, Opened
    <3> QED
      BY <2>1, <3>2, ProcsFacts
  <2> HIDE DEF u
  <2> QED
    BY <1>1, <2>1, <2>2, <2>3
<1>5. CASE StoreFails(p) \/ Embed(p) \/ StoreVectors(p) \/ VectorsFail(p)
  BY <1>1, <1>5, StageKeeps DEF Kept
<1>6. CASE UpdateDocument(p) /\ task' # task
  <2> DEFINE u == [t EXCEPT !.errs = TRUE]
  <2>1. task' = [task EXCEPT ![p] = u]
    BY <1>6 DEF UpdateDocument
  <2>2. u \in Task /\ SameJob(t, u)
    BY <1>2 DEF Task, SameJob
  <2> HIDE DEF u
  <2> QED
    BY <1>1, <2>1, <2>2
<1> QED
  BY <1>3, <1>4, <1>5, <1>6 DEF Advance, PrePass, Finish

\* Whoever is in its pipeline after a step was there before, at the same job,
\* unless the step has opened its row.
LEMMA JobsStay ==
    ASSUME TypeInv, NEW p \in Runner, Step(p), NEW q \in Runner, pc'[q] \in Opened,
           ~(q = p /\ Begin(p))
    PROVE  pc[q] \in Opened /\ SameJob(task[q], task'[q])
<1> USE ProcsFacts
<1>1. CASE Ingest(p) \/ ProbeMisses(p)
  BY <1>1 DEF Ingest, ProbeMisses, Opened, SameJob
<1>2. CASE Begin(p)
  BY <1>2 DEF Begin, SameJob
<1>3. CASE Advance(p)
  BY <1>3, AdvanceKeeps DEF SameJob
<1>4. CASE Leaves(p)
  BY <1>4 DEF Leaves, Skip, Close, Raises, Crash, Leave, Opened, SameJob
<1> QED
  BY <1>1, <1>2, <1>3, <1>4, StepKinds

----------------------------------------------------------------------------
(* Layer 1.                                                                  *)

LEMMA LedgerFacts ==
    ASSUME TypeInv
    PROVE  /\ status \in [RunId -> {"absent", "running", "completed", "failed"}]
           /\ source \in [RunId -> Source \cup {None}]
           /\ hash \in [RunId -> Content \cup {None}]
           /\ doc \in [Source -> Document \cup {None}]
BY DEF TypeInv, TypeOK

\* What Begin does, with the row it opens named.
Opens(p, r) ==
    LET s == task[p].source
        c == task[p].content
    IN
    /\ status[r] = "absent"
    /\ \A q \in RunId : status[q] = "absent" => r <= q
    /\ status' = [status EXCEPT ![r] = "running"]
    /\ source' = [source EXCEPT ![r] = s]
    /\ hash' = [hash EXCEPT ![r] = c]
    /\ doc' = Upserted(s, c, r)
    /\ task'[p].run = r /\ task'[p].source = s /\ task'[p].content = c
    /\ task'[p].doc = IF doc[s] = None THEN r ELSE doc[s].id
    /\ task'[p].errs = EmptyPlan(c) /\ task'[p].todo = {}
    /\ pc'[p] = IF Parts[c] = <<>> THEN "embed"
                ELSE IF backend = "duckdb" THEN "prepass" ELSE "store"
    /\ \A q \in Runner \ {p} : pc'[q] = pc[q] /\ task'[q] = task[q]

LEMMA BeginOpens ==
    ASSUME TypeInv, NEW p \in Runner, Begin(p)
    PROVE  /\ task[p].source \in Source /\ task[p].content \in Content
           /\ \E r \in RunId : Opens(p, r)
<1> DEFINE t == task[p]
           s == t.source
           c == t.content
           u(r) == [t EXCEPT !.run = r, !.doc = IF doc[s] = None THEN r ELSE doc[s].id,
                             !.errs = EmptyPlan(c)]
<1>1. pc[p] = "begin" /\ t \in Task /\ s \in Source /\ c \in Content /\ t.todo = {}
  BY TaskTyped DEF Begin, TypeInv, TaskInv, Before
<1>2. PICK r \in RunId :
        /\ status[r] = "absent"
        /\ \A q \in RunId : status[q] = "absent" => r <= q
        /\ status' = [status EXCEPT ![r] = "running"]
        /\ source' = [source EXCEPT ![r] = s]
        /\ hash' = [hash EXCEPT ![r] = c]
        /\ doc' = Upserted(s, c, r)
        /\ task' = [task EXCEPT ![p] = u(r)]
        /\ pc' = [pc EXCEPT ![p] = IF Parts[c] = <<>> THEN "embed"
                                   ELSE IF backend = "duckdb" THEN "prepass"
                                   ELSE "store"]
  BY DEF Begin
<1>3. /\ u(r).run = r /\ u(r).source = s /\ u(r).content = c /\ u(r).todo = {}
      /\ u(r).doc = IF doc[s] = None THEN r ELSE doc[s].id
      /\ u(r).errs = EmptyPlan(c)
  BY <1>1 DEF Task
<1> HIDE DEF u
<1>4. Opens(p, r)
  BY <1>1, <1>2, <1>3, ProcsFacts DEF Opens
<1> QED
  BY <1>1, <1>4

LEMMA OwnRunsKept ==
    ASSUME TypeInv, OwnRuns, UNCHANGED <<status, source, hash>>,
           \A q \in Runner : pc'[q] \in Opened =>
              /\ pc[q] \in Opened /\ SameJob(task[q], task'[q])
              /\ pc[q] = "close" => pc'[q] = "close"
    PROVE  OwnRuns'
BY DEF OwnRuns, SameJob

LEMMA OwnRunsStep ==
    ASSUME TypeInv, OwnRuns, NEW p \in Runner, Step(p)
    PROVE  OwnRuns'
<1> USE ProcsFacts, LedgerFacts
<1>0. \A q \in Runner : pc'[q] \in Opened /\ ~(q = p /\ Begin(p)) =>
         pc[q] \in Opened /\ SameJob(task[q], task'[q])
  BY JobsStay
<1>1. CASE Begin(p)
  <2>1. PICK r \in RunId : Opens(p, r)
    BY <1>1, BeginOpens
  <2>2. task[p].source \in Source /\ task[p].content \in Content
    BY <1>1, BeginOpens
  <2>3. \A q \in Runner \ {p} : pc[q] \in Opened => task[q].run # r
    <3>1. \A q \in Runner : pc[q] \in Opened => source[task[q].run] # None
      BY LedgerAssumption DEF OwnRuns
    <3> QED
      BY <2>1, <3>1 DEF OwnRuns, Opens
  <2>4. /\ \A q, x \in RunId : status'[q] = "absent" /\ q <= x => status'[x] = "absent"
        /\ \A x \in RunId : source'[x] # None => status'[x] # "absent"
    BY <2>1, <2>2 DEF OwnRuns, Opens, RunId
  <2>5. \A q \in Runner : pc'[q] \in Opened =>
           /\ source'[task'[q].run] = task'[q].source
           /\ hash'[task'[q].run] = task'[q].content
           /\ pc'[q] # "close" => status'[task'[q].run] = "running"
    BY <2>1, <2>2, <2>3 DEF OwnRuns, Opens
  <2>6. \A q, x \in Runner :
           pc'[q] \in Opened /\ pc'[x] \in Opened /\ task'[q].run = task'[x].run => q = x
    BY <2>1, <2>3 DEF OwnRuns, Opens
  <2> QED
    BY <2>4, <2>5, <2>6 DEF OwnRuns
<1>2. CASE Finish(p) \/ Raises(p)
  <2> DEFINE r == task[p].run
  <2>1. /\ pc[p] \in Opened /\ r \in RunId
        /\ UNCHANGED <<source, hash>>
        /\ pc'[p] \notin Opened \ {"close"}
        /\ ~Begin(p)
    BY <1>2 DEF Finish, Raises, Leave, Opened, Begin
  <2>2. PICK v \in {"completed", "failed"} : status' = [status EXCEPT ![r] = v]
    BY <1>2 DEF Finish, Raises, Verdict
  <2>3. \A q \in Runner \ {p} : pc[q] \in Opened => task[q].run # r
    BY <2>1 DEF OwnRuns
  <2>4. status[r] # "absent"
    BY <2>1, LedgerAssumption DEF OwnRuns
  <2>5. /\ \A q, x \in RunId : status'[q] = "absent" /\ q <= x => status'[x] = "absent"
        /\ \A x \in RunId : source'[x] # None => status'[x] # "absent"
    BY <2>1, <2>2, <2>4 DEF OwnRuns
  <2>6. \A q \in Runner : pc'[q] \in Opened =>
           pc[q] \in Opened /\ SameJob(task[q], task'[q])
    BY <1>0, <2>1
  <2>7. \A q \in Runner \ {p} : pc'[q] = pc[q]
    BY <1>2 DEF Finish, Raises, Leave
  <2> QED
    BY <2>1, <2>2, <2>3, <2>5, <2>6, <2>7 DEF OwnRuns, SameJob
<1>3. CASE ~Begin(p) /\ ~Finish(p) /\ ~Raises(p)
  <2>1. UNCHANGED <<status, source, hash>>
    BY <1>3 DEF Step, Ingest, Skip, ProbeMisses, PrePass, StoreChunks, StoreFails, Embed,
                StoreVectors, VectorsFail, UpdateDocument, Close, Crash, store
  <2>2. \A q \in Runner : pc'[q] \in Opened /\ pc[q] = "close" => pc'[q] = "close"
    BY <1>3 DEF Step, Ingest, Skip, ProbeMisses, PrePass, StoreChunks, StoreFails, Embed,
                StoreVectors, VectorsFail, UpdateDocument, Close, Crash, Leave, Opened
  <2> QED
    BY <1>0, <1>3, <2>1, <2>2, OwnRunsKept
<1> QED
  BY <1>1, <1>2, <1>3

LEMMA OwnRunsInductive == TypeInv /\ OwnRuns /\ [Next]_vars => OwnRuns'
<1> SUFFICES ASSUME TypeInv, OwnRuns, [Next]_vars PROVE OwnRuns'
  OBVIOUS
<1>1. CASE UNCHANGED <<status, source, hash, pc, task>>
  BY <1>1, OwnRunsKept DEF SameJob
<1>2. CASE RepairScan \/ RepairWrite \/ \E s \in Source : DeleteStep(s)
  BY <1>1, <1>2 DEF RepairScan, RepairWrite, DeleteStep, Delete, DeleteVectors,
                    DeleteChunks, DeleteRow, store, procs
<1> QED
  BY <1>1, <1>2, OwnRunsStep DEF Next, vars, store, procs

----------------------------------------------------------------------------
(* Layer 2.                                                                  *)

\* What a step leaves of the ledger and the documents row of s, as far as
\* AloneOn looks at them.
SameLedger(s) ==
    /\ backend' = backend /\ deleting'[s] = deleting[s]
    /\ \A r \in RunId : source'[r] = s <=> source[r] = s
    /\ \A r \in RunId : source[r] = s => hash'[r] = hash[r]

SameJobs(s) ==
    \A p \in Runner : pc'[p] \in Opened /\ task'[p].source = s =>
        pc[p] \in Opened /\ SameJob(task[p], task'[p])

LEMMA AloneKept ==
    ASSUME TypeInv, NEW s \in Source, AloneOn(s), SameLedger(s), SameJobs(s),
           doc'[s] = doc[s]
    PROVE  AloneOn(s)'
<1>1. \A p \in Working(s)' : p \in Working(s) /\ SameJob(task[p], task'[p])
  BY DEF Working, SameJobs, SameJob
<1>2. \A p, q \in Working(s)' : p = q
  BY <1>1 DEF AloneOn
<1>3. RunsOf(s)' = RunsOf(s)
  BY DEF SameLedger, RunsOf
<1>4. \A p \in Working(s)' :
         deleting'[s] = "no" /\ Owns(p)' /\ \A r \in RunsOf(s)' : r <= task'[p].run
  BY <1>1, <1>3 DEF AloneOn, SameLedger, SameJob, Owns, Working
<1>5. backend' = "postgres" /\ doc'[s] # None =>
         \E r \in Newest(RunsOf(s)') : hash'[r] = doc'[s].hash
  BY <1>3 DEF AloneOn, SameLedger, RunsOf, Newest
<1> QED
  BY <1>2, <1>4, <1>5, <1>3 DEF AloneOn, Newest

\* The step is not the one that opens a run of s.
NotOpening(p, s) == ~(Begin(p) /\ task[p].source = s)

LEMMA StepFrame ==
    ASSUME TypeInv, OwnRuns, NEW p \in Runner, Step(p), NEW s \in Source, NotOpening(p, s)
    PROVE  SameLedger(s) /\ SameJobs(s) /\ collided \subseteq collided'
<1> USE ProcsFacts, LedgerFacts
<1>1. backend' = backend /\ deleting' = deleting /\ collided \subseteq collided'
  BY DEF Step, Ingest, Skip, ProbeMisses, Begin, PrePass, StoreChunks, StoreFails, Embed,
         StoreVectors, VectorsFail, UpdateDocument, Finish, Close, Raises, Crash, store,
         others, Note
<1>2. SameJobs(s)
  <2>1. CASE Begin(p)
    <3>1. PICK r \in RunId : Opens(p, r)
      BY <2>1, BeginOpens
    <3> QED
      BY <2>1, <3>1, JobsStay DEF Opens, NotOpening, SameJobs
  <2> QED
    BY <2>1, JobsStay DEF SameJobs
<1>3. /\ \A r \in RunId : source'[r] = s <=> source[r] = s
      /\ \A r \in RunId : source[r] = s => hash'[r] = hash[r]
  <2>1. CASE Begin(p)
    <3>1. PICK r \in RunId : Opens(p, r)
      BY <2>1, BeginOpens
    <3>2. source[r] = None /\ s # None /\ task[p].source # s
      BY <2>1, <3>1, LedgerAssumption DEF OwnRuns, Opens, NotOpening
    <3> QED
      BY <3>1, <3>2 DEF Opens
  <2>2. CASE ~Begin(p)
    BY <2>2 DEF Step, Ingest, Skip, ProbeMisses, PrePass, StoreChunks, StoreFails, Embed,
           StoreVectors, VectorsFail, UpdateDocument, Finish, Close, Raises, Crash, store
  <2> QED
    BY <2>1, <2>2
<1> QED
  BY <1>1, <1>2, <1>3 DEF SameLedger

LEMMA DocFrame ==
    ASSUME TypeInv, NEW p \in Runner, Step(p), NEW s \in Source,
           ~((Begin(p) \/ UpdateDocument(p)) /\ task[p].source = s)
    PROVE  doc'[s] = doc[s]
<1> USE LedgerFacts
<1>1. CASE Begin(p) \/ UpdateDocument(p)
  BY <1>1 DEF Begin, UpdateDocument, Upserted
<1>2. CASE ~Begin(p) /\ ~UpdateDocument(p)
  BY <1>2 DEF Step, Ingest, Skip, ProbeMisses, PrePass, StoreChunks, StoreFails, Embed,
         StoreVectors, VectorsFail, Finish, Close, Raises, Crash, store
<1> QED
  BY <1>1, <1>2

LEMMA AloneBegin ==
    ASSUME TypeInv, OwnRuns, Alone, NEW p \in Runner, Begin(p), NEW s \in Source \ collided',
           task[p].source = s
    PROVE  /\ s \notin collided /\ Working(s) = {} /\ Working(s)' = {p}
           /\ deleting[s] = "no" /\ AloneOn(s)'
<1> USE ProcsFacts, LedgerFacts
<1>1. PICK r \in RunId : Opens(p, r)
  BY BeginOpens
<1>2. s \notin collided /\ Working(s) = {} /\ deleting[s] = "no"
      /\ backend' = backend /\ deleting' = deleting
  BY DEF Begin, Note
<1>3. Working(s)' = {p}
  <2>1. \A q \in Runner \ {p} : q \notin Working(s)'
    BY <1>1, <1>2 DEF Opens, Working
  <2>2. p \in Working(s)'
    BY <1>1 DEF Opens, Working, Opened
  <2> QED
    BY <2>1, <2>2 DEF Working
<1>4. \A q \in RunsOf(s)' : q <= r
  <2>1. \A q \in RunId : source[q] # None => q <= r
    <3>1. \A q \in RunId : r <= q => status[q] = "absent"
      BY <1>1 DEF OwnRuns, Opens
    <3> QED
      BY <3>1 DEF OwnRuns, RunId
  <2> QED
    BY <1>1, <2>1, LedgerAssumption DEF Opens, RunsOf, RunId
<1>5. doc'[s] # None /\ doc'[s].id = task'[p].doc /\ (backend = "postgres" => doc'[s].hash = task[p].content)
  <2>1. task[p].content \in Content /\ [id |-> r, hash |-> task[p].content] # None
    BY <1>1, BeginOpens, NullAssumption DEF Document
  <2>2. CASE doc[s] = None
    BY <1>1, <2>1, <2>2 DEF Opens, Upserted
  <2>3. CASE doc[s] # None
    <3>1. doc[s] \in Document
      BY <2>3
    <3>2. /\ [doc[s] EXCEPT !.hash = task[p].content] \in Document
          /\ [doc[s] EXCEPT !.hash = task[p].content].id = doc[s].id
          /\ [doc[s] EXCEPT !.hash = task[p].content].hash = task[p].content
      BY <2>1, <3>1 DEF Document
    <3> QED
      BY <1>1, <2>3, <3>2, NullAssumption DEF Opens, Upserted
  <2> QED
    BY <2>2, <2>3
<1>6. r \in RunsOf(s)' /\ hash'[r] = task[p].content
  BY <1>1, BeginOpens DEF Opens, RunsOf
<1>7. r \in Newest(RunsOf(s)')
  BY <1>4, <1>6 DEF Newest, RunsOf, RunId
<1>8. \A q \in Working(s)' :
         deleting'[s] = "no" /\ Owns(q)' /\ \A x \in RunsOf(s)' : x <= task'[q].run
  BY <1>1, <1>2, <1>3, <1>4, <1>5 DEF Opens, Owns
<1>9. AloneOn(s)'
  BY <1>2, <1>3, <1>5, <1>6, <1>7, <1>8 DEF AloneOn, Newest
<1> QED
  BY <1>2, <1>3, <1>9

LEMMA AloneUpdate ==
    ASSUME TypeInv, OwnRuns, NEW p \in Runner, UpdateDocument(p), NEW s \in Source, AloneOn(s),
           task[p].source = s
    PROVE  doc[s] # None /\ doc'[s] # None /\ AloneOn(s)'
<1> USE ProcsFacts, LedgerFacts
<1>0. pc[p] \in Opened /\ Step(p) /\ NotOpening(p, s)
  BY DEF UpdateDocument, Opened, Step, NotOpening, Begin
<1>1. SameLedger(s) /\ SameJobs(s)
  BY <1>0, StepFrame
<1>2. doc[s] # None /\ p \in Working(s) /\ task[p].content \in Content
  BY <1>0 DEF AloneOn, Working, Owns
<1>3. doc[s] \in Document
  BY <1>2
<1>4. \/ doc'[s] = doc[s]
      \/ backend = "postgres" /\ doc'[s] = [doc[s] EXCEPT !.hash = task[p].content]
  BY <1>2 DEF UpdateDocument, Upserted
<1>5. CASE doc'[s] = doc[s]
  BY <1>1, <1>2, <1>5, AloneKept
<1>6. CASE backend = "postgres" /\ doc'[s] = [doc[s] EXCEPT !.hash = task[p].content]
  <2>1. doc'[s] \in Document /\ doc'[s].id = doc[s].id /\ doc'[s].hash = task[p].content
    BY <1>2, <1>3, <1>6 DEF Document
  <2>2. doc'[s] # None
    BY <2>1, NullAssumption
  <2>3. RunsOf(s)' = RunsOf(s) /\ task[p].run \in RunsOf(s) /\ hash[task[p].run] = task[p].content
    BY <1>0, <1>1 DEF SameLedger, RunsOf, OwnRuns
  <2>4. task[p].run \in Newest(RunsOf(s)')
    BY <1>2, <2>3 DEF Newest, AloneOn, RunsOf, RunId
  <2>5. \A q \in Working(s)' : q \in Working(s) /\ SameJob(task[q], task'[q])
    BY <1>1 DEF Working, SameJobs, SameJob
  <2>6. \A q, x \in Working(s)' : q = x
    BY <2>5 DEF AloneOn
  <2>7. \A q \in Working(s)' :
           deleting'[s] = "no" /\ Owns(q)' /\ \A r \in RunsOf(s)' : r <= task'[q].run
    BY <1>1, <2>1, <2>2, <2>3, <2>5 DEF AloneOn, SameLedger, SameJob, Owns, Working
  <2>8. \E r \in Newest(RunsOf(s)') : hash'[r] = doc'[s].hash
    BY <1>1, <2>1, <2>3, <2>4 DEF SameLedger, RunsOf
  <2> QED
    BY <1>2, <2>2, <2>6, <2>7, <2>8 DEF AloneOn, Newest
<1> QED
  BY <1>4, <1>5, <1>6

\* A delete that finds a pipeline at work has collided with it.
LEMMA AloneDelete ==
    ASSUME TypeInv, Alone, NEW d \in Source, DeleteStep(d), NEW s \in Source \ collided'
    PROVE  /\ s \notin collided /\ AloneOn(s)' /\ (s = d => Working(s) = {})
           /\ UNCHANGED <<pc, task, status, source, hash, backend, repair>>
           /\ \A t \in Source \ {d} : doc'[t] = doc[t] /\ chunk'[t] = chunk[t]
                                      /\ deleting'[t] = deleting[t]
<1> USE LedgerFacts
<1>1. /\ UNCHANGED <<pc, task, status, source, hash, backend, repair>>
      /\ collided' = IF Working(d) # {} THEN collided \cup {d} ELSE collided
      /\ \A t \in Source \ {d} : doc'[t] = doc[t]
      /\ doc'[d] \in {doc[d], None}
  BY DEF DeleteStep, Delete, DeleteVectors, DeleteChunks, DeleteRow, Note, procs
<1>2. /\ \A t \in Source \ {d} : chunk'[t] = chunk[t] /\ deleting'[t] = deleting[t]
  BY DEF DeleteStep, Delete, DeleteVectors, DeleteChunks, DeleteRow, TypeInv, TypeOK
<1>3. s \notin collided /\ (s = d => Working(s) = {})
  BY <1>1
<1>4. AloneOn(s)
  BY <1>3 DEF Alone
<1>5. CASE s # d
  BY <1>1, <1>2, <1>4, <1>5, AloneKept DEF SameLedger, SameJobs, SameJob
<1>6. CASE s = d
  <2>1. Working(s)' = {}
    BY <1>1, <1>3, <1>6 DEF Working
  <2>2. RunsOf(s)' = RunsOf(s)
    BY <1>1 DEF RunsOf
  <2> QED
    BY <1>1, <1>2, <1>3, <1>4, <1>6, <2>1, <2>2 DEF AloneOn, Newest
<1> QED
  BY <1>1, <1>2, <1>3, <1>5, <1>6

LEMMA AloneInductive == TypeInv /\ OwnRuns /\ Alone /\ [Next]_vars => Alone'
<1> SUFFICES ASSUME TypeInv, OwnRuns, Alone, [Next]_vars, NEW s \in Source \ collided'
             PROVE  AloneOn(s)'
  BY DEF Alone
<1>1. ASSUME NEW p \in Runner, Step(p)
      PROVE  AloneOn(s)'
  <2>1. CASE Begin(p) /\ task[p].source = s
    BY <2>1, AloneBegin
  <2>2. CASE NotOpening(p, s)
    <3>1. SameLedger(s) /\ SameJobs(s) /\ s \notin collided
      BY <1>1, <2>2, StepFrame
    <3>2. AloneOn(s)
      BY <3>1 DEF Alone
    <3>3. CASE UpdateDocument(p) /\ task[p].source = s
      BY <3>2, <3>3, AloneUpdate
    <3>4. CASE ~(UpdateDocument(p) /\ task[p].source = s)
      BY <1>1, <2>2, <3>1, <3>2, <3>4, DocFrame, AloneKept DEF NotOpening
    <3> QED
      BY <3>3, <3>4
  <2> QED
    BY <2>1, <2>2 DEF NotOpening
<1>2. CASE UNCHANGED <<backend, source, hash, doc, pc, task, deleting, collided>>
  BY <1>2, AloneKept DEF Alone, SameLedger, SameJobs, SameJob
<1>3. CASE RepairScan \/ RepairWrite
  BY <1>2, <1>3 DEF RepairScan, RepairWrite, store, procs
<1>4. ASSUME NEW d \in Source, DeleteStep(d)
      PROVE  AloneOn(s)'
  BY <1>4, AloneDelete
<1> QED
  BY <1>1, <1>2, <1>3, <1>4 DEF Next, vars, store, procs, others

----------------------------------------------------------------------------
(* Layer 3: texts.                                                           *)

\* A step that leaves the rows of s as they are, but for their vectors.
SameRows(s) ==
    \A i \in Pos :
        /\ chunk'[s][i] = None <=> chunk[s][i] = None
        /\ chunk[s][i] # None =>
              /\ chunk'[s][i].id = chunk[s][i].id /\ chunk'[s][i].text = chunk[s][i].text
              /\ chunk'[s][i].dead = chunk[s][i].dead

\* A step that completes no run of s.
NoneCompleted(s) == \A r \in RunsOf(s) : Clean(r)' => Clean(r)

LEMMA RunFacts ==
    ASSUME TypeInv, OwnRuns, NEW s \in Source, AloneOn(s), NEW p \in Working(s)
    PROVE  /\ task[p].run \in RunsOf(s) /\ hash[task[p].run] = task[p].content
           /\ \A r \in Newest(RunsOf(s)) : r = task[p].run
           /\ pc[p] # "close" => status[task[p].run] = "running"
           /\ Working(s) = {p} /\ task[p].source = s /\ pc[p] \in Opened
           /\ p \in Runner /\ deleting[s] = "no" /\ Owns(p)
<1>1. p \in Runner /\ pc[p] \in Opened /\ task[p].source = s
  BY DEF Working
<1>2. task[p].run \in RunsOf(s)
  BY <1>1, ProcsFacts DEF OwnRuns, RunsOf
<1>3. \A r \in Newest(RunsOf(s)) : r = task[p].run
  BY <1>2 DEF Newest, AloneOn, RunsOf, RunId
<1> QED
  BY <1>1, <1>2, <1>3 DEF OwnRuns, AloneOn

LEMMA TextStoredKept ==
    ASSUME NEW s \in Source, SameRows(s), NEW c, TextStored(s, c)
    PROVE  TextStored(s, c)'
BY DEF SameRows, TextStored, Planned, Pos

LEMMA TextsKept ==
    ASSUME TypeInv, NEW s \in Source, TextsOn(s), SameLedger(s), SameRows(s),
           NoneCompleted(s), doc'[s] # None => doc[s] # None,
           \A p \in Working(s)' : pc'[p] \in Past /\ ~task'[p].errs =>
              p \in Working(s) /\ pc[p] \in Past /\ SameJob(task[p], task'[p])
    PROVE  TextsOn(s)'
<1>1. RunsOf(s)' = RunsOf(s)
  BY DEF SameLedger, RunsOf
<1>2. ASSUME NEW p \in Working(s)', pc'[p] \in Past, ~task'[p].errs
      PROVE  TextStored(s, task[p].content)'
  <2>1. p \in Working(s) /\ pc[p] \in Past /\ ~task[p].errs /\ task'[p].content = task[p].content
    BY <1>2 DEF SameJob
  <2>2. TextStored(s, task[p].content)
    BY <2>1 DEF TextsOn
  <2>3. \A c : TextStored(s, c) => TextStored(s, c)'
    BY TextStoredKept
  <2> QED
    BY <2>1, <2>2, <2>3 DEF TextStored, Planned, Pos
<1>3. ASSUME deleting'[s] = "no", doc'[s] # None, NEW r \in Newest(RunsOf(s)'), Clean(r)'
      PROVE  TextStored(s, hash[r])'
  <2>1. r \in Newest(RunsOf(s)) /\ r \in RunsOf(s) /\ Clean(r) /\ hash'[r] = hash[r]
    BY <1>1, <1>3 DEF Newest, NoneCompleted, SameLedger, RunsOf
  <2>2. TextStored(s, hash[r])
    BY <1>3, <2>1 DEF TextsOn, SameLedger
  <2>3. \A c : TextStored(s, c) => TextStored(s, c)'
    BY TextStoredKept
  <2> QED
    BY <2>1, <2>2, <2>3 DEF TextStored, Planned, Pos
<1> QED
  BY <1>2, <1>3 DEF TextsOn, Newest

LEMMA ChunkFacts ==
    ASSUME TypeInv
    PROVE  /\ chunk \in [Source -> [Pos -> Chunk \cup {None}]]
           /\ \A k \in Chunk : k # None
           /\ \A s \in Source, i \in Pos : chunk[s][i] # None => chunk[s][i] \in Chunk
BY NullAssumption DEF TypeInv, TypeOK

LEMMA VectorUpdate ==
    ASSUME NEW k \in Chunk, NEW v
    PROVE  /\ [k EXCEPT !.vec = v].text = k.text /\ [k EXCEPT !.vec = v].dead = k.dead
           /\ [k EXCEPT !.vec = v].id = k.id /\ [k EXCEPT !.vec = v].vec = v
           /\ v \in Text \cup {Zero, None} => [k EXCEPT !.vec = v] \in Chunk
BY DEF Chunk

\* Stages that store vectors, and those of other sources, leave the texts alone.
LEMMA TextsFrame ==
    ASSUME TypeInv, NEW p \in Runner, Step(p), NEW s \in Source,
           ~(StoreChunks(p) /\ task[p].source = s)
    PROVE  SameRows(s)
<1> USE ChunkFacts
<1>1. CASE PrePass(p)
  <2> DEFINE t == task[p].source
             c == task[p].content
             gone == IF Owns(p) THEN Rewritten(t, c) \cup Beyond(t, c) ELSE {}
  <2>1. t \in Source
    BY <1>1, TaskTyped DEF PrePass
  <2>2. chunk' = [chunk EXCEPT ![t] =
           [i \in Pos |-> IF i \in gone THEN [chunk[t][i] EXCEPT !.vec = None] ELSE chunk[t][i]]]
    BY <1>1 DEF PrePass
  <2>3. \A i \in gone : i \in Pos /\ chunk[t][i] \in Chunk
    BY <2>1 DEF Rewritten, Beyond, Present
  <2>4. \A i \in gone : [chunk[t][i] EXCEPT !.vec = None] # None
    BY <2>3, VectorUpdate
  <2> HIDE DEF gone
  <2> QED
    BY <2>1, <2>2, <2>3, <2>4, VectorUpdate DEF SameRows
<1>2. CASE StoreVectors(p)
  <2> DEFINE t == task[p].source
             c == task[p].content
             mine == {x[1] : x \in task[p].todo}
             v(i) == IF i \in task[p].zeros THEN Zero ELSE Parts[c][i]
  <2>1. t \in Source /\ task[p].todo \subseteq Pos \X RunId
    BY <1>2, TaskTyped DEF StoreVectors
  <2>2. chunk' = [chunk EXCEPT ![t] =
           [i \in Pos |-> IF i \in mine THEN [chunk[t][i] EXCEPT !.vec = v(i)] ELSE chunk[t][i]]]
    BY <1>2 DEF StoreVectors
  <2>3. ASSUME NEW i \in mine
        PROVE  i \in Pos /\ chunk[t][i] \in Chunk
    <3>1. PICK x \in task[p].todo : i = x[1]
      OBVIOUS
    <3>2. chunk[t][x[1]] # None
      BY <1>2 DEF StoreVectors, RowsRemain
    <3> QED
      BY <2>1, <3>1, <3>2
  <2>4. \A i \in mine : [chunk[t][i] EXCEPT !.vec = v(i)] # None
    <3>1. ChunkOK'
      BY <1>2, ChunkTyped DEF Next, Step
    <3> SUFFICES ASSUME NEW i \in mine PROVE [chunk[t][i] EXCEPT !.vec = v(i)] # None
      OBVIOUS
    <3>2. c \in Content /\ i \in Planned(c)
      BY <1>2, TaskTyped DEF StoreVectors, TypeInv, TaskInv, Opened
    <3>3. v(i) \in Text \cup {Zero, None}
      BY <3>2, PartsTyped
    <3> HIDE DEF v
    <3> QED
      BY <2>3, <3>3, VectorUpdate
  <2> HIDE DEF mine, v
  <2> QED
    BY <2>1, <2>2, <2>3, <2>4, VectorUpdate DEF SameRows
<1>3. CASE StoreChunks(p)
  BY <1>3 DEF StoreChunks, SameRows
<1>4. CASE ~PrePass(p) /\ ~StoreVectors(p) /\ ~StoreChunks(p)
  <2>1. chunk' = chunk
    BY <1>4 DEF Step, Ingest, Skip, ProbeMisses, Begin, StoreFails, Embed, VectorsFail,
                UpdateDocument, Finish, Close, Raises, Crash, store
  <2> QED
    BY <2>1 DEF SameRows
<1> QED
  BY <1>1, <1>2, <1>3, <1>4

\* Only Finish completes a run, and the run it completes is its own.
LEMMA CompletionFrame ==
    ASSUME TypeInv, OwnRuns, NEW p \in Runner, Step(p), NEW s \in Source,
           ~(Finish(p) /\ task[p].source = s)
    PROVE  NoneCompleted(s)
<1> USE ProcsFacts, LedgerFacts
<1>1. CASE Finish(p)
  <2>1. pc[p] \in Opened /\ source[task[p].run] # s
    BY <1>1 DEF Finish, Opened, OwnRuns
  <2> QED
    BY <1>1, <2>1 DEF Finish, NoneCompleted, RunsOf, Clean
<1>2. CASE Begin(p)
  <2>1. PICK r \in RunId : Opens(p, r)
    BY <1>2, BeginOpens
  <2> QED
    BY <2>1 DEF Opens, NoneCompleted, RunsOf, Clean
<1>3. CASE Raises(p)
  BY <1>3 DEF Raises, Opened, NoneCompleted, RunsOf, Clean
<1>4. CASE ~Finish(p) /\ ~Begin(p) /\ ~Raises(p)
  <2>1. status' = status
    BY <1>4 DEF Step, Ingest, Skip, ProbeMisses, PrePass, StoreChunks, StoreFails, Embed,
                StoreVectors, VectorsFail, UpdateDocument, Close, Crash, store
  <2> QED
    BY <2>1 DEF NoneCompleted, Clean
<1> QED
  BY <1>1, <1>2, <1>3, <1>4

\* A runner gets past the chunks by storing them, or with an error.
LEMMA PastFrame ==
    ASSUME TypeInv, NEW p \in Runner, Step(p), NEW q \in Runner,
           pc'[q] \in Past, ~task'[q].errs, ~(q = p /\ (Begin(p) \/ StoreChunks(p)))
    PROVE  pc[q] \in Past
<1> USE ProcsFacts
<1>1. CASE q # p
  <2>1. pc'[q] = pc[q]
    BY <1>1 DEF Step, Ingest, Skip, ProbeMisses, Begin, PrePass, StoreChunks, StoreFails, Embed,
                StoreVectors, VectorsFail, UpdateDocument, Finish, Close, Raises, Crash, Leave
  <2> QED
    BY <2>1
<1>2. CASE q = p /\ StoreFails(p)
  <2>1. task[p] \in Task
    BY <1>2, TaskTyped DEF StoreFails
  <2>2. [task[p] EXCEPT !.errs = TRUE].errs
    BY <2>1 DEF Task
  <2> QED
    BY <1>2, <2>2 DEF StoreFails
<1>3. CASE q = p /\ ~StoreFails(p)
  BY <1>3 DEF Step, Ingest, Skip, ProbeMisses, PrePass, Embed,
              StoreVectors, VectorsFail, UpdateDocument, Finish, Close, Raises, Crash, Leave, Past
<1> QED
  BY <1>1, <1>2, <1>3

LEMMA TextsStep ==
    ASSUME TypeInv, OwnRuns, NEW p \in Runner, Step(p), NEW s \in Source,
           AloneOn(s), TextsOn(s),
           ~((Begin(p) \/ StoreChunks(p) \/ Finish(p)) /\ task[p].source = s)
    PROVE  TextsOn(s)'
<1>1. SameLedger(s) /\ SameJobs(s)
  BY StepFrame DEF NotOpening
<1>2. SameRows(s) /\ NoneCompleted(s)
  BY TextsFrame, CompletionFrame
<1>3. doc'[s] # None => doc[s] # None
  BY DocFrame, AloneUpdate
<1>4. ASSUME NEW q \in Working(s)', pc'[q] \in Past, ~task'[q].errs
      PROVE  q \in Working(s) /\ pc[q] \in Past /\ SameJob(task[q], task'[q])
  <2>1. q \in Runner /\ pc[q] \in Opened /\ SameJob(task[q], task'[q]) /\ task[q].source = s
    BY <1>1, <1>4 DEF Working, SameJobs, SameJob
  <2> QED
    BY <1>4, <2>1, PastFrame DEF Working
<1> QED
  BY <1>1, <1>2, <1>3, <1>4, TextsKept

LEMMA StoredTexts ==
    ASSUME TypeInv, NEW s \in Source, NEW c \in Content, NEW r \in RunId,
           chunk' = [chunk EXCEPT ![s] = Stored(s, c, r)]
    PROVE  TextStored(s, c)'
<1> USE ChunkFacts
<1>1. chunk'[s] = Stored(s, c, r)
  OBVIOUS
<1> SUFFICES ASSUME NEW i \in Pos
             PROVE  IF i \in Planned(c)
                    THEN Stored(s, c, r)[i] # None /\ Stored(s, c, r)[i].text = Parts[c][i]
                    ELSE Stored(s, c, r)[i] = None \/ Stored(s, c, r)[i].dead
  BY <1>1 DEF TextStored, Planned, Pos
<1>2. CASE i \in Planned(c) /\ i \notin Present(s)
  <2>1. Stored(s, c, r)[i] \in Chunk
    BY <1>2, StoredTyped DEF Added, TypeInv
  <2> QED
    BY <1>2, <2>1 DEF Stored, Added
<1>3. CASE i \in Rewritten(s, c)
  <2>1. chunk[s][i] \in Chunk /\ i \in Planned(c) /\ i \notin Added(s, c)
    BY <1>3 DEF Rewritten, Present, Added
  <2>2. Stored(s, c, r)[i] \in Chunk
    BY <1>3, StoredTyped DEF TypeInv
  <2>3. [chunk[s][i] EXCEPT !.text = Parts[c][i], !.dead = FALSE].text = Parts[c][i]
    BY <2>1 DEF Chunk
  <2> QED
    BY <1>3, <2>1, <2>2, <2>3 DEF Stored
<1>4. CASE i \in Planned(c) /\ i \in Present(s) /\ i \notin Rewritten(s, c)
  BY <1>4 DEF Stored, Added, Rewritten, Beyond, Present
<1>5. CASE i \in Beyond(s, c)
  <2>1. chunk[s][i] \in Chunk /\ i \notin Planned(c) /\ i \notin Added(s, c) /\ i \notin Rewritten(s, c)
    BY <1>5 DEF Beyond, Present, Added, Rewritten
  <2>2. [chunk[s][i] EXCEPT !.dead = TRUE].dead
    BY <2>1 DEF Chunk
  <2> QED
    BY <1>5, <2>1, <2>2 DEF Stored
<1>6. CASE i \notin Planned(c) /\ i \notin Present(s)
  BY <1>6 DEF Stored, Added, Rewritten, Beyond, Present
<1> QED
  BY <1>2, <1>3, <1>4, <1>5, <1>6 DEF Rewritten, Beyond

LEMMA TextsBegin ==
    ASSUME TypeInv, OwnRuns, Alone, NEW p \in Runner, Begin(p), NEW s \in Source \ collided',
           task[p].source = s
    PROVE  TextsOn(s)'
<1> USE ProcsFacts, LedgerFacts
<1>1. PICK r \in RunId : Opens(p, r)
  BY BeginOpens
<1>2. Working(s)' = {p} /\ AloneOn(s)'
  BY AloneBegin
<1>3. r \in RunsOf(s)' /\ status'[r] = "running" /\ task'[p].run = r
  BY <1>1 DEF Opens, RunsOf
<1>4. \A x \in Newest(RunsOf(s)') : x = r
  BY <1>2, <1>3 DEF AloneOn, Newest, RunsOf, RunId
<1>5. pc'[p] \in Past => task'[p].errs
  BY <1>1 DEF Opens, Past, EmptyPlan
<1> QED
  BY <1>2, <1>3, <1>4, <1>5 DEF TextsOn, Newest, Clean

LEMMA TextsStore ==
    ASSUME TypeInv, OwnRuns, NEW p \in Runner, StoreChunks(p), NEW s \in Source, AloneOn(s),
           task[p].source = s
    PROVE  TextsOn(s)'
<1> USE ProcsFacts, LedgerFacts
<1>1. pc[p] = "store" /\ pc[p] \in Opened /\ p \in Working(s) /\ Step(p) /\ NotOpening(p, s)
  BY DEF StoreChunks, Opened, Working, Step, NotOpening, Begin
<1>2. SameLedger(s) /\ SameJobs(s) /\ status' = status
  BY <1>1, StepFrame DEF StoreChunks
<1>3. RunsOf(s)' = RunsOf(s)
  BY <1>2 DEF SameLedger, RunsOf
<1>4. \A r \in Newest(RunsOf(s)) : status[r] = "running"
  BY <1>1, RunFacts
<1>5. \A q \in Working(s)' : q = p /\ SameJob(task[p], task'[p])
  <2>1. \A q \in Working(s)' : q \in Working(s) /\ SameJob(task[q], task'[q])
    BY <1>2 DEF Working, SameJobs, SameJob
  <2> QED
    BY <1>1, <2>1 DEF AloneOn
<1>6. \A c \in Content : c = task[p].content => TextStored(s, c)'
  BY <1>1, StoredTexts DEF StoreChunks
<1>7. \A q \in Working(s)' : TextStored(s, task[q].content)'
  BY <1>1, <1>5, <1>6 DEF SameJob, TextStored, Planned, Pos
<1>8. \A r \in Newest(RunsOf(s)') : ~Clean(r)'
  BY <1>2, <1>3, <1>4 DEF Clean, Newest
<1> QED
  BY <1>7, <1>8 DEF TextsOn, Newest

LEMMA TextsFinish ==
    ASSUME TypeInv, OwnRuns, NEW p \in Runner, Finish(p), NEW s \in Source, AloneOn(s),
           TextsOn(s), task[p].source = s
    PROVE  TextsOn(s)'
<1> USE ProcsFacts, LedgerFacts
<1>1. pc[p] = "finish" /\ pc[p] \in Opened /\ p \in Working(s) /\ pc[p] \in Past
  BY DEF Finish, Opened, Working, Past
<1>2. /\ UNCHANGED <<source, hash, doc, chunk, task, deleting>>
      /\ pc' = [pc EXCEPT ![p] = "close"]
      /\ status' = [status EXCEPT ![task[p].run] = Verdict(p)]
  BY DEF Finish, others
<1>3. \A q \in Working(s)' : q = p
  BY <1>1, <1>2 DEF Working, AloneOn
<1>4. pc'[p] \notin Past
  BY <1>2 DEF Past
<1>5. /\ task[p].run \in RunsOf(s) /\ hash[task[p].run] = task[p].content
      /\ \A r \in Newest(RunsOf(s)) : r = task[p].run
  BY <1>1, RunFacts
<1>6. status'[task[p].run] = "completed" => TextStored(s, task[p].content)
  BY <1>1, <1>2 DEF Verdict, TextsOn
<1>7. RunsOf(s)' = RunsOf(s) /\ \A c : TextStored(s, c)' <=> TextStored(s, c)
  BY <1>2 DEF RunsOf, TextStored, Planned, Pos
<1>8. \A r \in Newest(RunsOf(s)') : Clean(r)' => TextStored(s, hash[r])'
  BY <1>2, <1>5, <1>6, <1>7 DEF Newest, Clean, TextStored, Planned, Pos
<1> QED
  BY <1>3, <1>4, <1>8 DEF TextsOn, Newest

LEMMA RepairTexts ==
    ASSUME TypeInv, RepairWrite, NEW s \in Source
    PROVE  SameRows(s)
<1> USE ChunkFacts
<1>1. PICK done \in SUBSET repair :
        chunk' = [t \in Source |-> [i \in Pos |-> Repaired(t, i, done)]]
  BY DEF RepairWrite
<1> SUFFICES ASSUME NEW i \in Pos
             PROVE  /\ chunk'[s][i] = None <=> chunk[s][i] = None
                    /\ chunk[s][i] # None =>
                          /\ chunk'[s][i].id = chunk[s][i].id
                          /\ chunk'[s][i].text = chunk[s][i].text
                          /\ chunk'[s][i].dead = chunk[s][i].dead
  BY DEF SameRows
<1> DEFINE hits == {x \in done : x[1] = s /\ x[2] = i /\ x[3] = chunk[s][i].id}
           v == (CHOOSE x \in hits : TRUE)[4]
<1>2. chunk'[s][i] = IF chunk[s][i] = None \/ chunk[s][i].vec = None \/ hits = {}
                     THEN chunk[s][i] ELSE [chunk[s][i] EXCEPT !.vec = v]
  BY <1>1 DEF Repaired
<1>3. hits # {} => v \in Text
  <2>1. hits # {} => (CHOOSE x \in hits : TRUE) \in hits
    OBVIOUS
  <2> QED
    BY <2>1 DEF TypeInv, TypeOK
<1> HIDE DEF v, hits
<1> QED
  BY <1>2, <1>3, VectorUpdate

LEMMA TextsInductive == TypeInv /\ OwnRuns /\ Alone /\ Texts /\ [Next]_vars => Texts'
<1> SUFFICES ASSUME TypeInv, OwnRuns, Alone, Texts, [Next]_vars, NEW s \in Source \ collided'
             PROVE  TextsOn(s)'
  BY DEF Texts
<1>1. ASSUME NEW p \in Runner, Step(p)
      PROVE  TextsOn(s)'
  <2>1. CASE Begin(p) /\ task[p].source = s
    BY <2>1, TextsBegin
  <2>2. CASE NotOpening(p, s)
    <3>1. s \notin collided
      BY <1>1, <2>2, StepFrame
    <3>2. AloneOn(s) /\ TextsOn(s)
      BY <3>1 DEF Alone, Texts
    <3> QED
      BY <1>1, <2>2, <3>2, TextsStep, TextsStore, TextsFinish DEF NotOpening
  <2> QED
    BY <2>1, <2>2 DEF NotOpening
<1>2. CASE UNCHANGED <<store, procs, deleting, collided>>
  <2>1. TextsOn(s) /\ SameLedger(s) /\ SameRows(s) /\ NoneCompleted(s)
    BY <1>2 DEF Texts, SameLedger, SameRows, NoneCompleted, Clean, store
  <2>2. doc' = doc /\ pc' = pc /\ task' = task
    BY <1>2 DEF store, procs
  <2> QED
    BY <2>1, <2>2, TextsKept DEF SameJob, Working
<1>3. CASE RepairWrite
  <2>1. /\ UNCHANGED <<backend, status, source, hash, doc, pc, task, deleting, collided>>
        /\ SameRows(s)
    BY <1>3, RepairTexts DEF RepairWrite, procs
  <2>2. TextsOn(s) /\ SameLedger(s) /\ NoneCompleted(s)
    BY <2>1 DEF Texts, SameLedger, NoneCompleted, Clean
  <2> QED
    BY <2>1, <2>2, TextsKept DEF SameJob, Working
<1>4. ASSUME NEW d \in Source, DeleteStep(d)
      PROVE  TextsOn(s)'
  <2>1. /\ s \notin collided /\ (s = d => Working(s) = {})
        /\ UNCHANGED <<pc, task, status, source, hash, backend, repair>>
        /\ s # d => doc'[s] = doc[s] /\ chunk'[s] = chunk[s] /\ deleting'[s] = deleting[s]
    BY <1>4, AloneDelete
  <2>2. CASE s # d
    <3>1. TextsOn(s) /\ SameLedger(s) /\ SameRows(s) /\ NoneCompleted(s)
      BY <2>1, <2>2 DEF Texts, SameLedger, SameRows, NoneCompleted, Clean
    <3> QED
      BY <2>1, <2>2, <3>1, TextsKept DEF SameJob, Working
  <2>3. CASE s = d
    <3>1. Working(s)' = {}
      BY <2>1, <2>3 DEF Working
    <3>2. doc'[s] = None \/ deleting'[s] # "no"
      BY <1>4, <2>3, LedgerFacts DEF DeleteStep, Delete, DeleteVectors, DeleteChunks, DeleteRow,
                                     TypeInv, TypeOK
    <3> QED
      BY <3>1, <3>2 DEF TextsOn
  <2> QED
    BY <2>2, <2>3
<1> QED
  BY <1>1, <1>2, <1>3, <1>4 DEF Next, RepairScan, vars, others

----------------------------------------------------------------------------
(* What follows for the texts.                                               *)

LEMMA HonestInit == Init => OwnRuns /\ Alone /\ Texts
<1> SUFFICES ASSUME Init PROVE OwnRuns /\ Alone /\ Texts
  OBVIOUS
<1>1. \A p \in Runner : pc[p] \notin Opened
  BY DEF Init, Opened
<1>2. \A s \in Source : Working(s) = {} /\ RunsOf(s) = {}
  BY <1>1, LedgerAssumption DEF Init, Working, RunsOf
<1>3. OwnRuns
  BY <1>1 DEF Init, OwnRuns
<1> QED
  BY <1>2, <1>3 DEF Init, Alone, AloneOn, Texts, TextsOn, Newest

\* The three layers are one inductive invariant.
TextsInv == TypeInv /\ OwnRuns /\ Alone /\ Texts

LEMMA TextsInvHolds == Spec => []TextsInv
<1>1. Init => TextsInv
  BY TypeInit, HonestInit DEF TextsInv
<1>2. TextsInv /\ [Next]_vars => TextsInv'
  BY TypeNext, OwnRunsInductive, AloneInductive, TextsInductive DEF TextsInv
<1> QED
  BY <1>1, <1>2, PTL DEF Spec

\* The verdict "completed" that finish_run writes is honest: as long as the
\* activities on a source have not overlapped, the texts of its newest completed
\* run are the texts that are stored, whatever failed, died or was deleted before.
THEOREM CompletedRunsAreStored == Spec => []CompletedIsStored
<1>1. TextsInv => CompletedIsStored
  BY DEF TextsInv, Texts, TextsOn, CompletedIsStored, Undisturbed
<1> QED
  BY <1>1, TextsInvHolds, PTL

\* A runner that unchanged_doc_id sends away leaves the texts it came with
\* stored, on DuckDB always; on Postgres, where the probe can take a clean run
\* that is not the newest, or else the newest run of the source is of that
\* content and is open or failed.
THEOREM SkipsAreServedOrOnRecord == Spec => []SkipServedOrOnRecord
<1>1. TextsInv => SkipServedOrOnRecord
  <2> SUFFICES ASSUME TextsInv, NEW p \in Runner, pc[p] = "probe",
                      Unchanged(task[p].source, task[p].content),
                      Undisturbed(task[p].source),
                      ~TextStored(task[p].source, task[p].content)
               PROVE  /\ backend = "postgres"
                      /\ \E r \in Newest(RunsOf(task[p].source)) :
                            hash[r] = task[p].content /\ ~Clean(r)
    BY DEF SkipServedOrOnRecord
  <2> DEFINE s == task[p].source
  <2>1. s \in Source \ collided /\ deleting[s] = "no" /\ doc[s] # None
    BY TaskTyped DEF TextsInv, Undisturbed, Unchanged, UnchangedPg, UnchangedDuckDb
  <2>2. AloneOn(s) /\ TextsOn(s)
    BY <2>1 DEF TextsInv, Alone, Texts
  <2>3. \A r \in Newest(RunsOf(s)) : hash[r] = task[p].content => ~Clean(r)
    BY <2>1, <2>2 DEF TextsOn
  <2>4. backend = "postgres" /\ doc[s].hash = task[p].content
    BY <2>3 DEF Unchanged, UnchangedPg, UnchangedDuckDb
  <2> QED
    BY <2>1, <2>2, <2>3, <2>4 DEF AloneOn
<1> QED
  BY <1>1, TextsInvHolds, PTL

----------------------------------------------------------------------------
(* Layer 3: vectors.                                                         *)

NoNewGaps(s) == \A i \in Pos : Gap(s, i)' => Gap(s, i)

LEMMA VectorsKept ==
    ASSUME TypeInv, NEW s \in Source, VectorsOn(s), SameLedger(s), NoneCompleted(s),
           NoNewGaps(s), RepairOn(s)',
           \A p \in Working(s)' : pc'[p] # "close" /\ ~task'[p].errs =>
              /\ p \in Working(s) /\ pc[p] # "close" /\ SameJob(task[p], task'[p])
              /\ \A i \in Pos : i \in Due(p) => i \in Due(p)'
    PROVE  VectorsOn(s)'
<1>1. RunsOf(s)' = RunsOf(s)
  BY DEF SameLedger, RunsOf
<1>2. ASSUME NEW p \in Working(s)', pc'[p] # "close", ~task'[p].errs, OthersClean(p)'
      PROVE  \A i \in Pos : Gap(s, i)' => i \in Due(p)'
  <2>1. /\ p \in Working(s) /\ pc[p] # "close" /\ SameJob(task[p], task'[p])
        /\ \A i \in Pos : i \in Due(p) => i \in Due(p)'
    BY <1>2
  <2>2. task[p].source = s /\ task'[p].source = s /\ task'[p].run = task[p].run
    BY <2>1 DEF Working, SameJob
  <2>3. OthersClean(p)
    BY <1>1, <1>2, <2>2 DEF OthersClean, NoneCompleted, RunsOf
  <2>4. ~task[p].errs
    BY <1>2, <2>1 DEF SameJob
  <2>5. \A i \in Pos : Gap(s, i) => i \in Due(p)
    BY <2>1, <2>3, <2>4 DEF VectorsOn
  <2> QED
    BY <2>1, <2>5 DEF NoNewGaps
<1>3. ASSUME deleting'[s] = "no", \A r \in RunsOf(s)' : Clean(r)'
      PROVE  \A i \in Pos : ~Gap(s, i)'
  <2>1. deleting[s] = "no" /\ \A r \in RunsOf(s) : Clean(r)
    BY <1>1, <1>3 DEF SameLedger, NoneCompleted
  <2>2. \A i \in Pos : ~Gap(s, i)
    BY <2>1 DEF VectorsOn
  <2> QED
    BY <2>2 DEF NoNewGaps
<1> QED
  BY <1>2, <1>3 DEF VectorsOn, Pos

LEMMA RepairUnmoved ==
    ASSUME NEW p \in Runner, Step(p)
    PROVE  repair' = repair
BY DEF Step, Ingest, Skip, ProbeMisses, Begin, PrePass, StoreChunks, StoreFails, Embed,
       StoreVectors, VectorsFail, UpdateDocument, Finish, Close, Raises, Crash, others

LEMMA RepairOnKept ==
    ASSUME TypeInv, NEW s \in Source, RepairOn(s), SameRows(s), repair' \subseteq repair
    PROVE  RepairOn(s)'
<1>1. \A x \in repair' : x \in repair /\ x[2] \in Pos
  BY DEF TypeInv, TypeOK
<1> QED
  BY <1>1 DEF RepairOn, SameRows

\* A runner that is not at work on s, and does not start to, leaves it alone.
LEMMA OutsideFrame ==
    ASSUME TypeInv, OwnRuns, NEW p \in Runner, Step(p), NEW s \in Source,
           p \notin Working(s), NotOpening(p, s)
    PROVE  /\ chunk'[s] = chunk[s] /\ NoneCompleted(s) /\ SameLedger(s)
           /\ \A q \in Working(s)' : q \in Working(s) /\ pc'[q] = pc[q] /\ task'[q] = task[q]
<1> USE ProcsFacts
<1>1. SameLedger(s) /\ SameJobs(s)
  BY StepFrame
<1>2. pc[p] \in Opened => task[p].source # s
  BY DEF Working
<1>3. NoneCompleted(s)
  BY <1>2, CompletionFrame DEF Finish, Opened
<1>4. chunk'[s] = chunk[s]
  <2>1. CASE PrePass(p) \/ StoreChunks(p) \/ StoreVectors(p)
    BY <1>2, <2>1, ChunkFacts DEF PrePass, StoreChunks, StoreVectors, Opened
  <2>2. CASE ~PrePass(p) /\ ~StoreChunks(p) /\ ~StoreVectors(p)
    BY <2>2 DEF Step, Ingest, Skip, ProbeMisses, Begin, StoreFails, Embed, VectorsFail,
                UpdateDocument, Finish, Close, Raises, Crash, store
  <2> QED
    BY <2>1, <2>2
<1>5. \A q \in Working(s)' : q \in Working(s) /\ q # p
  BY <1>1 DEF SameJobs, SameJob, Working
<1>6. \A q \in Runner \ {p} : pc'[q] = pc[q] /\ task'[q] = task[q]
  <2>1. CASE Begin(p)
    BY <2>1, BeginOpens DEF Opens
  <2>2. CASE Advance(p)
    BY <2>2, AdvanceKeeps
  <2>3. CASE Ingest(p) \/ ProbeMisses(p) \/ Leaves(p)
    BY <2>3 DEF Ingest, ProbeMisses, Leaves, Skip, Close, Raises, Crash, Leave
  <2> QED
    BY <2>1, <2>2, <2>3, StepKinds
<1> QED
  BY <1>1, <1>3, <1>4, <1>5, <1>6 DEF Working

LEMMA VectorsOutside ==
    ASSUME TypeInv, OwnRuns, NEW p \in Runner, Step(p), NEW s \in Source, VectorsOn(s),
           p \notin Working(s), NotOpening(p, s)
    PROVE  VectorsOn(s)'
<1>1. /\ chunk'[s] = chunk[s] /\ NoneCompleted(s) /\ SameLedger(s) /\ repair' = repair
      /\ \A q \in Working(s)' : q \in Working(s) /\ pc'[q] = pc[q] /\ task'[q] = task[q]
  BY OutsideFrame, RepairUnmoved
<1>2. NoNewGaps(s) /\ SameRows(s)
  BY <1>1 DEF NoNewGaps, Gap, SameRows
<1>3. RepairOn(s)'
  BY <1>1, <1>2, RepairOnKept DEF VectorsOn
<1>4. ASSUME NEW q \in Working(s)', NEW i \in Pos, i \in Due(q)
      PROVE  i \in Due(q)'
  <2>1. task[q].source = s /\ pc'[q] = pc[q] /\ task'[q] = task[q]
    BY <1>1 DEF Working
  <2> QED
    BY <1>1, <1>4, <2>1 DEF Due, Rewritten, Beyond, Present, Planned, Pos
<1> QED
  BY <1>1, <1>2, <1>3, <1>4, VectorsKept DEF SameJob

\* A stage of the one runner at work on s.
LEMMA VectorsAtWork ==
    ASSUME TypeInv, OwnRuns, NEW s \in Source, AloneOn(s), VectorsOn(s),
           NEW p \in Working(s), Step(p), pc'[p] \in Opened \ {"close"},
           RepairOn(s)',
           ~task'[p].errs /\ ~task[p].errs /\ OthersClean(p)
              => \A i \in Pos : Gap(s, i)' => i \in Due(p)'
    PROVE  VectorsOn(s)'
<1> USE ProcsFacts
<1>1. p \in Runner /\ pc[p] \in Opened /\ task[p].source = s
  BY DEF Working
<1>2. ~Begin(p) /\ ~Finish(p)
  BY <1>1 DEF Begin, Finish, Opened
<1>3. SameLedger(s) /\ SameJobs(s) /\ NoneCompleted(s)
  BY <1>1, <1>2, StepFrame, CompletionFrame DEF NotOpening
<1>4. RunsOf(s)' = RunsOf(s) /\ task[p].run \in RunsOf(s)
  BY <1>3, RunFacts DEF SameLedger, RunsOf
<1>5. SameJob(task[p], task'[p])
  BY <1>1, <1>2, JobsStay
<1>6. \A q \in Working(s)' : q = p
  <2>1. \A q \in Working(s)' : q \in Working(s)
    BY <1>3 DEF Working, SameJobs, SameJob
  <2> QED
    BY <2>1 DEF AloneOn
<1>7. \E r \in RunsOf(s)' : ~Clean(r)'
  <2>1. OwnRuns'
    BY <1>1, OwnRunsStep
  <2>2. status'[task[p].run] = "running"
    BY <1>1, <1>5, <2>1 DEF OwnRuns, SameJob
  <2> QED
    BY <1>4, <2>2 DEF Clean
<1>8. OthersClean(p)' => OthersClean(p)
  BY <1>1, <1>3, <1>4, <1>5 DEF OthersClean, NoneCompleted, SameJob, RunsOf
<1>9. ~task'[p].errs => ~task[p].errs
  BY <1>5 DEF SameJob
<1>10. ASSUME NEW q \in Working(s)', pc'[q] # "close", ~task'[q].errs, OthersClean(q)'
       PROVE  \A i \in Pos : Gap(s, i)' => i \in Due(q)'
  <2>1. q = p
    BY <1>6
  <2>2. OthersClean(p)'
    BY <1>10, <2>1 DEF OthersClean
  <2>3. \A i \in Pos : Gap(s, i)' => i \in Due(p)'
    BY <1>8, <1>9, <1>10, <2>1, <2>2
  <2> QED
    BY <2>1, <2>3 DEF Due
<1> QED
  BY <1>7, <1>10 DEF VectorsOn

LEMMA TaskAfter ==
    ASSUME TypeInv, NEW p \in Runner, StoreFails(p) \/ Embed(p) \/ VectorsFail(p)
    PROVE  task'[p].errs \/ (Embed(p) /\ task'[p].todo = task[p].todo)
<1> USE ProcsFacts
<1>0. task[p] \in Task /\ p \in Runner
  BY TaskTyped DEF StoreFails, Embed, VectorsFail
<1>1. CASE StoreFails(p)
  <2>1. [task[p] EXCEPT !.errs = TRUE].errs
    BY <1>0 DEF Task
  <2> QED
    BY <1>1, <2>1 DEF StoreFails
<1>2. CASE VectorsFail(p)
  <2>1. [task[p] EXCEPT !.todo = {}, !.zeros = {}, !.errs = TRUE].errs
    BY <1>0 DEF Task
  <2> QED
    BY <1>2, <2>1 DEF VectorsFail
<1>3. CASE EmbedRaises(p) /\ Embed(p)
  <2>1. [task[p] EXCEPT !.todo = {}, !.errs = TRUE].errs
    BY <1>0 DEF Task
  <2> QED
    BY <1>3, <2>1 DEF EmbedRaises
<1>4. CASE EmbedAnswers(p) /\ Embed(p)
  <2>1. PICK Z \in SUBSET {x[1] : x \in task[p].todo}, fatal \in BOOLEAN :
          task' = [task EXCEPT ![p] =
                     [task[p] EXCEPT !.zeros = Z, !.errs = task[p].errs \/ fatal]]
    BY <1>4 DEF EmbedAnswers
  <2>2. [task[p] EXCEPT !.zeros = Z, !.errs = task[p].errs \/ fatal].todo = task[p].todo
    BY <1>0 DEF Task
  <2> QED
    BY <1>4, <2>1, <2>2
<1> QED
  BY <1>1, <1>2, <1>3, <1>4 DEF Embed

\* The stages that write no row: what was missing is still to be written, or an
\* error is on the list, or the runner has left.
LEMMA VectorsQuiet ==
    ASSUME TypeInv, OwnRuns, NEW s \in Source, AloneOn(s), VectorsOn(s),
           NEW p \in Working(s), Step(p),
           ~PrePass(p), ~StoreChunks(p), ~StoreVectors(p), ~Finish(p)
    PROVE  VectorsOn(s)'
<1> USE ProcsFacts
<1>1. p \in Runner /\ pc[p] \in Opened /\ task[p].source = s
  BY DEF Working
<1>2. ~Begin(p) /\ ~Ingest(p) /\ ~Skip(p) /\ ~ProbeMisses(p)
  BY <1>1 DEF Begin, Ingest, Skip, ProbeMisses, Opened
<1>3. SameLedger(s) /\ SameJobs(s) /\ NoneCompleted(s) /\ repair' = repair
  BY <1>1, <1>2, StepFrame, CompletionFrame, RepairUnmoved DEF NotOpening
<1>4. chunk' = chunk
  BY <1>2 DEF Step, StoreFails, Embed, VectorsFail, UpdateDocument, Close, Raises, Crash, store
<1>5. NoNewGaps(s) /\ SameRows(s)
  BY <1>4 DEF NoNewGaps, Gap, SameRows
<1>6. RepairOn(s)'
  BY <1>3, <1>5, RepairOnKept DEF VectorsOn
<1>7. \A q \in Working(s)' : q \in Working(s) /\ SameJob(task[q], task'[q])
  BY <1>3 DEF Working, SameJobs, SameJob
<1>8. \A q \in Working(s)' : q = p
  BY <1>7 DEF AloneOn
<1>9. ASSUME NEW q \in Working(s)', pc'[q] # "close", ~task'[q].errs
      PROVE  /\ pc[q] # "close"
             /\ \A i \in Pos : i \in Due(q) => i \in Due(q)'
  <2>1. q = p /\ pc'[p] \in Opened /\ ~task'[p].errs
    BY <1>8, <1>9 DEF Working
  <2>2. Embed(p) \/ UpdateDocument(p)
    <3>1. ~Close(p) /\ ~Raises(p) /\ ~Crash(p)
      BY <1>1, <2>1 DEF Close, Raises, Crash, Leave, Opened
    <3> QED
      BY <1>1, <1>2, <2>1, <3>1, TaskAfter DEF Step
  <2>3. CASE Embed(p)
    <3>1. task'[p].todo = task[p].todo
      BY <1>1, <2>1, <2>3, TaskAfter
    <3>2. pc[p] = "embed" /\ pc'[p] = "vectors"
      BY <1>1, <2>3 DEF Embed
    <3> QED
      BY <2>1, <3>1, <3>2 DEF Due
  <2>4. CASE UpdateDocument(p)
    <3>1. pc[p] = "commit"
      BY <2>4 DEF UpdateDocument
    <3> QED
      BY <2>1, <3>1 DEF Due
  <2> QED
    BY <2>2, <2>3, <2>4
<1> QED
  BY <1>3, <1>5, <1>6, <1>7, <1>9, VectorsKept

LEMMA VectorsPrePass ==
    ASSUME TypeInv, OwnRuns, NEW s \in Source, AloneOn(s), VectorsOn(s),
           NEW p \in Working(s), PrePass(p)
    PROVE  VectorsOn(s)'
<1> USE ProcsFacts, ChunkFacts
<1> DEFINE c == task[p].content
           gone == Rewritten(s, c) \cup Beyond(s, c)
<1>1. p \in Runner /\ Step(p) /\ task[p].source = s /\ Owns(p) /\ pc[p] = "prepass"
  BY RunFacts DEF PrePass, Step
<1>2. pc' = [pc EXCEPT ![p] = "store"] /\ task' = task /\ repair' = repair
  BY DEF PrePass, others
<1>3. \A i \in Pos : i \notin gone => chunk'[s][i] = chunk[s][i]
  BY <1>1 DEF PrePass
<1>4. SameRows(s)
  BY <1>1, TextsFrame DEF PrePass, StoreChunks
<1>5. \A i \in Pos : i \in gone => i \in Due(p)'
  BY <1>1, <1>2, <1>4 DEF Due, Rewritten, Beyond, Present, Planned, Pos, SameRows
<1>6. \A i \in Pos : Gap(s, i) /\ ~task[p].errs /\ OthersClean(p) => i \in gone
  BY <1>1 DEF VectorsOn, Due
<1>7. \A i \in Pos : i \notin gone /\ Gap(s, i)' => Gap(s, i)
  BY <1>3 DEF Gap
<1>8. RepairOn(s)'
  BY <1>2, <1>4, RepairOnKept DEF VectorsOn
<1>9. pc'[p] \in Opened \ {"close"}
  BY <1>1, <1>2 DEF Opened
<1> HIDE DEF gone
<1> QED
  BY <1>1, <1>5, <1>6, <1>7, <1>8, <1>9, VectorsAtWork

LEMMA VectorsStoreChunks ==
    ASSUME TypeInv, OwnRuns, NEW s \in Source \ collided', AloneOn(s), VectorsOn(s),
           NEW p \in Working(s), StoreChunks(p)
    PROVE  VectorsOn(s)'
<1> USE ProcsFacts, ChunkFacts
<1> DEFINE c == task[p].content
           rows == Stored(s, c, task[p].run)
           new == Added(s, c) \cup Rewritten(s, c)
           T == {<<i, rows[i].id>> : i \in new}
<1>1. p \in Runner /\ Step(p) /\ task[p].source = s /\ pc[p] = "store" /\ c \in Content
      /\ task[p] \in Task
  BY TaskTyped DEF StoreChunks, Step, Working, Opened
<1>2. pc' = [pc EXCEPT ![p] = "embed"] /\ repair' = repair /\ chunk'[s] = rows
  BY <1>1 DEF StoreChunks
<1>3. \A x \in repair : x[1] # s
  BY <1>1 DEF StoreChunks, Note
<1>4. task'[p].todo = T
  <2>1. [task[p] EXCEPT !.todo = T].todo = T
    BY <1>1 DEF Task
  <2> QED
    BY <1>1, <2>1 DEF StoreChunks
<1>5. \A i \in new : i \in Due(p)'
  <2>1. \A i \in new : \E x \in task'[p].todo : x[1] = i
    <3>1. \A i \in new : <<i, rows[i].id>> \in task'[p].todo /\ <<i, rows[i].id>>[1] = i
      BY <1>4
    <3> HIDE DEF new, rows
    <3> QED
      BY <3>1
  <2>2. pc'[p] = "embed"
    BY <1>1, <1>2
  <2> HIDE DEF new, rows
  <2> QED
    BY <2>1, <2>2 DEF Due
<1>6. ASSUME NEW i \in Pos, i \notin new, Gap(s, i)'
      PROVE  Gap(s, i) /\ i \notin Rewritten(s, c) /\ i \notin Beyond(s, c)
  <2>1. CASE i \in Beyond(s, c)
    <3>1. chunk[s][i] \in Chunk /\ i \notin Added(s, c) /\ i \notin Rewritten(s, c)
      BY <2>1 DEF Beyond, Present, Added, Rewritten
    <3>2. rows[i] = [chunk[s][i] EXCEPT !.dead = TRUE]
      BY <2>1, <3>1 DEF Stored
    <3>3. [chunk[s][i] EXCEPT !.dead = TRUE].dead
      BY <3>1 DEF Chunk
    <3> QED
      BY <1>2, <1>6, <3>2, <3>3 DEF Gap
  <2>2. CASE i \notin Beyond(s, c)
    <3>1. rows[i] = chunk[s][i]
      BY <1>6, <2>2 DEF Stored
    <3> QED
      BY <1>2, <1>6, <2>2, <3>1 DEF Gap
  <2> QED
    BY <2>1, <2>2
<1>7. \A i \in Pos : Gap(s, i) /\ ~task[p].errs /\ OthersClean(p) =>
         i \in Rewritten(s, c) \cup Beyond(s, c)
  BY <1>1 DEF VectorsOn, Due
<1>8. RepairOn(s)'
  BY <1>2, <1>3 DEF RepairOn
<1>9. pc'[p] \in Opened \ {"close"}
  BY <1>1, <1>2 DEF Opened
<1> HIDE DEF new
<1> QED
  BY <1>1, <1>5, <1>6, <1>7, <1>8, <1>9, VectorsAtWork

LEMMA VectorsStored ==
    ASSUME TypeInv, OwnRuns, NEW s \in Source, AloneOn(s), TextsOn(s), VectorsOn(s),
           NEW p \in Working(s), StoreVectors(p)
    PROVE  VectorsOn(s)'
<1> USE ProcsFacts, ChunkFacts
<1> DEFINE c == task[p].content
           mine == {x[1] : x \in task[p].todo}
           v(i) == IF i \in task[p].zeros THEN Zero ELSE Parts[c][i]
<1>1. p \in Runner /\ Step(p) /\ task[p].source = s /\ pc[p] = "vectors" /\ c \in Content
      /\ task[p] \in Task /\ pc[p] \in Past
  BY TaskTyped DEF StoreVectors, Step, Working, Opened, Past
<1>2. /\ pc' = [pc EXCEPT ![p] = "commit"] /\ repair' = repair
      /\ chunk'[s] = [i \in Pos |-> IF i \in mine THEN [chunk[s][i] EXCEPT !.vec = v(i)]
                                    ELSE chunk[s][i]]
  BY <1>1 DEF StoreVectors, others
<1>3. SameRows(s)
  BY <1>1, TextsFrame DEF StoreVectors, StoreChunks
<1>4. \A i \in mine : i \in Planned(c)
  BY <1>1 DEF TypeInv, TaskInv, Opened
<1>5. ASSUME ~task[p].errs, NEW i \in Pos, i \in mine
      PROVE  ~Gap(s, i)'
  <2>1. chunk[s][i] # None /\ chunk[s][i].text = Parts[c][i]
    BY <1>1, <1>4, <1>5 DEF TextsOn, TextStored
  <2>2. chunk'[s][i].text = Parts[c][i]
    BY <1>3, <2>1 DEF SameRows
  <2>3. chunk'[s][i].vec = v(i)
    <3>1. chunk'[s][i] = [chunk[s][i] EXCEPT !.vec = v(i)] /\ chunk[s][i] \in Chunk
      BY <1>2, <1>5, <2>1
    <3> HIDE DEF v
    <3> QED
      BY <3>1, VectorUpdate
  <2> QED
    BY <2>2, <2>3 DEF Gap
<1>6. \A i \in Pos : i \notin mine /\ Gap(s, i)' => Gap(s, i)
  <2>1. \A i \in Pos : i \notin mine => chunk'[s][i] = chunk[s][i]
    BY <1>2
  <2> QED
    BY <2>1 DEF Gap
<1>7. \A i \in Pos : Gap(s, i) /\ ~task[p].errs /\ OthersClean(p) => i \in mine
  BY <1>1 DEF VectorsOn, Due
<1>8. RepairOn(s)'
  BY <1>2, <1>3, RepairOnKept DEF VectorsOn
<1>9. pc'[p] \in Opened \ {"close"}
  BY <1>1, <1>2 DEF Opened
<1> HIDE DEF mine
<1> QED
  BY <1>1, <1>5, <1>6, <1>7, <1>8, <1>9, VectorsAtWork

LEMMA VectorsFinish ==
    ASSUME TypeInv, OwnRuns, NEW s \in Source, AloneOn(s), VectorsOn(s),
           NEW p \in Working(s), Finish(p)
    PROVE  VectorsOn(s)'
<1> USE ProcsFacts, LedgerFacts
<1>1. /\ p \in Runner /\ pc[p] = "finish" /\ task[p].source = s /\ task[p].run \in RunsOf(s)
  BY RunFacts DEF Finish
<1>2. /\ UNCHANGED <<source, hash, doc, chunk, task, deleting, repair>>
      /\ pc' = [pc EXCEPT ![p] = "close"]
      /\ status' = [status EXCEPT ![task[p].run] = Verdict(p)]
  BY DEF Finish, others
<1>3. RunsOf(s)' = RunsOf(s) /\ \A q \in Working(s)' : q = p
  <2>1. \A q \in Working(s)' : q \in Working(s)
    BY <1>1, <1>2 DEF Working, Opened
  <2> QED
    BY <1>2, <2>1 DEF RunsOf, AloneOn
<1>4. ASSUME \A r \in RunsOf(s) : Clean(r)'
      PROVE  \A i \in Pos : ~Gap(s, i)
  <2>1. ~task[p].errs
    BY <1>1, <1>2, <1>4 DEF Clean, Verdict, RunsOf
  <2>2. OthersClean(p)
    BY <1>1, <1>2, <1>4 DEF Clean, OthersClean, RunsOf
  <2> QED
    BY <1>1, <2>1, <2>2 DEF VectorsOn, Due
<1>5. RepairOn(s)' /\ \A i \in Pos : Gap(s, i)' <=> Gap(s, i)
  BY <1>2 DEF VectorsOn, RepairOn, Gap
<1>6. pc'[p] = "close"
  BY <1>1, <1>2
<1> QED
  BY <1>3, <1>4, <1>5, <1>6 DEF VectorsOn

LEMMA VectorsBegin ==
    ASSUME TypeInv, OwnRuns, Alone, Vectors, NEW p \in Runner, Begin(p),
           NEW s \in Source \ collided', task[p].source = s
    PROVE  VectorsOn(s)'
<1> USE ProcsFacts, LedgerFacts
<1>1. PICK r \in RunId : Opens(p, r)
  BY BeginOpens
<1>2. s \notin collided /\ Working(s)' = {p} /\ deleting[s] = "no"
  BY AloneBegin
<1>3. VectorsOn(s)
  BY <1>2 DEF Vectors
<1>4. chunk' = chunk /\ repair' = repair
  BY DEF Begin
<1>5. /\ r \in RunsOf(s)' /\ ~Clean(r)'
      /\ \A x \in RunsOf(s) : x # r /\ x \in RunsOf(s)' /\ (Clean(x)' <=> Clean(x))
  BY <1>1, LedgerAssumption DEF Opens, RunsOf, Clean, OwnRuns
<1>6. OthersClean(p)' => \A x \in RunsOf(s) : Clean(x)
  BY <1>1, <1>5 DEF Opens, OthersClean
<1>7. RepairOn(s)' /\ \A i \in Pos : Gap(s, i)' <=> Gap(s, i)
  BY <1>3, <1>4 DEF VectorsOn, RepairOn, Gap
<1>8. OthersClean(p)' => \A i \in Pos : ~Gap(s, i)'
  BY <1>2, <1>3, <1>6, <1>7 DEF VectorsOn
<1>9. \A q \in Working(s)' : OthersClean(q)' => \A i \in Pos : ~Gap(s, i)'
  BY <1>2, <1>8 DEF OthersClean
<1> QED
  BY <1>5, <1>7, <1>9 DEF VectorsOn

LEMMA VectorsRepaired ==
    ASSUME TypeInv, NEW s \in Source, VectorsOn(s), RepairScan \/ RepairWrite
    PROVE  VectorsOn(s)'
<1> USE ChunkFacts
<1>1. /\ UNCHANGED <<backend, status, source, hash, pc, task, deleting>>
  BY DEF RepairScan, RepairWrite, store, procs
<1>2. SameLedger(s) /\ NoneCompleted(s)
  BY <1>1 DEF SameLedger, NoneCompleted, Clean
<1>3. SameRows(s)
  <2>1. CASE RepairScan
    BY <2>1 DEF RepairScan, store, SameRows
  <2> QED
    BY <2>1, RepairTexts
<1>4. RepairOn(s)'
  <2>1. CASE RepairScan
    <3>1. chunk' = chunk /\ \A x \in repair' : chunk[x[1]][x[2]].text = x[4]
      BY <2>1 DEF RepairScan, store
    <3> QED
      BY <3>1 DEF RepairOn
  <2>2. CASE RepairWrite
    BY <2>2 DEF RepairWrite, RepairOn
  <2> QED
    BY <2>1, <2>2
<1>5. NoNewGaps(s)
  <2>1. CASE RepairScan
    BY <2>1 DEF RepairScan, store, NoNewGaps, Gap
  <2>2. CASE RepairWrite
    <3>1. PICK done \in SUBSET repair :
            chunk' = [t \in Source |-> [i \in Pos |-> Repaired(t, i, done)]]
      BY <2>2 DEF RepairWrite
    <3> SUFFICES ASSUME NEW i \in Pos, Gap(s, i)' PROVE Gap(s, i)
      BY DEF NoNewGaps
    <3> DEFINE hits == {x \in done : x[1] = s /\ x[2] = i /\ x[3] = chunk[s][i].id}
               v == (CHOOSE x \in hits : TRUE)[4]
    <3>2. chunk'[s][i] = IF chunk[s][i] = None \/ chunk[s][i].vec = None \/ hits = {}
                         THEN chunk[s][i] ELSE [chunk[s][i] EXCEPT !.vec = v]
      BY <3>1 DEF Repaired
    <3>3. CASE chunk'[s][i] = chunk[s][i]
      BY <3>3 DEF Gap
    <3>4. CASE chunk[s][i] # None /\ hits # {} /\ chunk'[s][i] = [chunk[s][i] EXCEPT !.vec = v]
      <4>1. (CHOOSE x \in hits : TRUE) \in hits
        BY <3>4
      <4>2. v = chunk[s][i].text
        BY <3>4, <4>1 DEF VectorsOn, RepairOn
      <4> HIDE DEF v
      <4>3. chunk'[s][i].vec = v /\ chunk'[s][i].text = chunk[s][i].text
        BY <3>4, VectorUpdate
      <4> QED
        BY <4>2, <4>3, <3>4 DEF Gap
    <3> QED
      BY <3>2, <3>3, <3>4
  <2> QED
    BY <2>1, <2>2
<1>6. ASSUME NEW q \in Working(s)', NEW i \in Pos, i \in Due(q)
      PROVE  i \in Due(q)'
  BY <1>1, <1>3, <1>6 DEF Due, Rewritten, Beyond, Present, Planned, Pos, SameRows, Working
<1> QED
  BY <1>1, <1>2, <1>4, <1>5, <1>6, VectorsKept DEF Working, SameJob

LEMMA VectorsDeleted ==
    ASSUME TypeInv, Alone, Vectors, NEW d \in Source, DeleteStep(d), NEW s \in Source \ collided'
    PROVE  VectorsOn(s)'
<1> USE ChunkFacts
<1>1. /\ s \notin collided /\ (s = d => Working(s) = {})
      /\ UNCHANGED <<pc, task, status, source, hash, backend, repair>>
      /\ s # d => chunk'[s] = chunk[s] /\ deleting'[s] = deleting[s]
  BY AloneDelete
<1>2. VectorsOn(s)
  BY <1>1 DEF Vectors
<1>3. CASE s # d
  <2>1. SameLedger(s) /\ NoneCompleted(s) /\ NoNewGaps(s) /\ SameRows(s)
    BY <1>1, <1>3 DEF SameLedger, NoneCompleted, Clean, NoNewGaps, Gap, SameRows
  <2>2. RepairOn(s)'
    BY <1>1, <1>2, <2>1, RepairOnKept DEF VectorsOn
  <2>3. ASSUME NEW q \in Working(s)', NEW i \in Pos, i \in Due(q)
        PROVE  i \in Due(q)'
    BY <1>1, <2>1, <2>3 DEF Due, Rewritten, Beyond, Present, Planned, Pos, SameRows, Working
  <2> QED
    BY <1>1, <1>2, <2>1, <2>2, <2>3, VectorsKept DEF Working, SameJob
<1>4. CASE s = d
  <2>1. Working(s)' = {}
    BY <1>1, <1>4 DEF Working
  <2>2. \A i \in Pos : chunk'[s][i] # None =>
           /\ chunk[s][i] # None
           /\ chunk'[s][i].id = chunk[s][i].id /\ chunk'[s][i].text = chunk[s][i].text
    <3>1. CASE Delete(s) \/ DeleteChunks(s) \/ DeleteRow(s)
      BY <3>1 DEF Delete, DeleteChunks, DeleteRow
    <3>2. CASE DeleteVectors(s)
      <4>1. \A i \in Pos : chunk'[s][i] =
               IF i \in Present(s) THEN [chunk[s][i] EXCEPT !.vec = None] ELSE None
        BY <3>2 DEF DeleteVectors
      <4>2. ASSUME NEW i \in Pos, chunk'[s][i] # None
            PROVE  /\ chunk[s][i] # None
                   /\ chunk'[s][i].id = chunk[s][i].id /\ chunk'[s][i].text = chunk[s][i].text
        <5>1. i \in Present(s)
          BY <4>1, <4>2
        <5>2. chunk[s][i] \in Chunk /\ chunk[s][i] # None
          BY <5>1 DEF Present
        <5>3. chunk'[s][i] = [chunk[s][i] EXCEPT !.vec = None]
          BY <4>1, <5>1
        <5> QED
          BY <5>2, <5>3, VectorUpdate
      <4> QED
        BY <4>2
    <3> QED
      BY <1>4, <3>1, <3>2 DEF DeleteStep
  <2>3. RepairOn(s)'
    <3>1. \A x \in repair : x[2] \in Pos
      BY DEF TypeInv, TypeOK
    <3> QED
      BY <1>1, <1>2, <2>2, <3>1 DEF VectorsOn, RepairOn
  <2>4. deleting'[s] # "no" \/ \A i \in Pos : chunk'[s][i] = None
    BY <1>4 DEF DeleteStep, Delete, DeleteVectors, DeleteChunks, DeleteRow, Present,
                TypeInv, TypeOK
  <2>5. deleting'[s] # "no" \/ \A i \in Pos : ~Gap(s, i)'
    BY <2>4 DEF Gap
  <2> QED
    BY <2>1, <2>3, <2>5 DEF VectorsOn
<1> QED
  BY <1>3, <1>4

LEMMA VectorsInductive ==
    TypeInv /\ OwnRuns /\ Alone /\ Texts /\ Vectors /\ [Next]_vars => Vectors'
<1> SUFFICES ASSUME TypeInv, OwnRuns, Alone, Texts, Vectors, [Next]_vars,
                    NEW s \in Source \ collided'
             PROVE  VectorsOn(s)'
  BY DEF Vectors
<1>1. ASSUME NEW p \in Runner, Step(p)
      PROVE  VectorsOn(s)'
  <2>1. CASE Begin(p) /\ task[p].source = s
    BY <2>1, VectorsBegin
  <2>2. CASE NotOpening(p, s)
    <3>1. s \notin collided
      BY <1>1, <2>2, StepFrame
    <3>2. AloneOn(s) /\ TextsOn(s) /\ VectorsOn(s)
      BY <3>1 DEF Alone, Texts, Vectors
    <3>3. CASE p \notin Working(s)
      BY <1>1, <2>2, <3>2, <3>3, VectorsOutside
    <3>4. CASE p \in Working(s)
      BY <1>1, <3>2, <3>4, VectorsQuiet, VectorsPrePass, VectorsStoreChunks, VectorsStored,
         VectorsFinish
    <3> QED
      BY <3>3, <3>4
  <2> QED
    BY <2>1, <2>2 DEF NotOpening
<1>2. CASE RepairScan \/ RepairWrite
  <2>1. s \notin collided
    BY <1>2 DEF RepairScan, RepairWrite
  <2> QED
    BY <1>2, <2>1, VectorsRepaired DEF Vectors
<1>3. CASE UNCHANGED vars
  <2>1. VectorsOn(s) /\ UNCHANGED <<backend, status, source, hash, doc, chunk, pc, task, repair,
                                    deleting, collided>>
    BY <1>3 DEF Vectors, vars, store, procs, others
  <2> QED
    BY <2>1 DEF VectorsOn, RepairOn, Gap, Due, OthersClean, Working, RunsOf, Clean, Rewritten,
                Beyond, Present, Planned, Pos
<1>4. ASSUME NEW d \in Source, DeleteStep(d)
      PROVE  VectorsOn(s)'
  BY <1>4, VectorsDeleted
<1> QED
  BY <1>1, <1>2, <1>3, <1>4 DEF Next

LEMMA VectorsInit == Init => Vectors
<1> SUFFICES ASSUME Init PROVE Vectors
  OBVIOUS
<1>1. \A s \in Source : Working(s) = {}
  BY DEF Init, Working, Opened
<1> QED
  BY <1>1 DEF Init, Vectors, VectorsOn, RepairOn, Gap

\* A chunk whose vector is missing, stale or of an unflagged failure is on record
\* in the ledger, as long as the activities on its source have not overlapped:
\* an embedder or a store that failed has left an open or a failed run behind.
THEOREM GapsAreRecorded == Spec => []GapsAreOnRecord
<1>1. Vectors => GapsAreOnRecord
  BY DEF Vectors, VectorsOn, GapsAreOnRecord, Undisturbed
<1>2. TextsInv /\ Vectors /\ [Next]_vars => Vectors'
  BY VectorsInductive DEF TextsInv
<1> QED
  BY <1>1, <1>2, VectorsInit, TextsInvHolds, PTL DEF Spec
=============================================================================
