---------------------------- MODULE IngestLedger ----------------------------
(***************************************************************************)
(* The ingest pipeline of corpus_kb and its integrity ledger               *)
(* (tools/pipeline/plan.py, stages.py, produce.py; tools/ingest_common.py,  *)
(* ingest_store.py, ingest_batch.py, ingest_sql_text.py, ingest_reembed.py; *)
(* storage/duckdb_cascade.py).                                             *)
(*                                                                         *)
(* A runner ingests one content (the text of a document) under one source  *)
(* (its path).  It takes the lock of the content hash, asks the ledger     *)
(* whether the content is unchanged, opens a ledger row, stores the chunks *)
(* of the content, embeds the ones it wrote, stores their vectors, and     *)
(* closes the row.  Every store transaction is one step; a runner can fail *)
(* or die between any two.  reembed_degraded and delete_document work on   *)
(* the same rows with no lock at all.                                      *)
(***************************************************************************)
EXTENDS Integers, Sequences, FiniteSets

CONSTANTS Runner,     \* concurrent ingests (tasks of any process)
          Source,     \* document sources
          Content,    \* document texts, told apart by their hash
          Text,       \* chunk texts, told apart by their hash
          Parts,      \* content -> the chunk texts its strategy plans, in order
          Backends,   \* the values of database.backend to start with
          MaxParts,   \* bound: chunks of one content
          MaxRuns,    \* bound: ledger rows ever opened
          None,       \* the null value
          Zero        \* the all-zero vector, the embedder-failure marker

ASSUME LedgerAssumption ==
    /\ MaxParts \in Nat
    /\ MaxRuns \in Nat
    /\ Parts \in [Content -> Seq(Text)]
    /\ \A c \in Content : Len(Parts[c]) <= MaxParts
    /\ Backends \subseteq {"postgres", "duckdb"}
    /\ None \notin Runner
    /\ None \notin Source
    /\ None \notin Text
    /\ Zero \notin Text
    /\ Zero # None

RunId == 1 .. MaxRuns    \* ids follow the order of started_at
Pos == 1 .. MaxParts     \* chunk_index + 1

VARIABLES
    backend,   \* database.backend, fixed at start
    status,    \* run -> status of its ledger row; "absent" is a row not yet opened
    source,    \* run -> the source it ingests (a column on DuckDB only)
    hash,      \* run -> start_hash
    doc,       \* source -> its documents row: [id, hash], or None
    chunk      \* source -> position -> its chunks row with its vector, or None
store == <<backend, status, source, hash, doc, chunk>>

VARIABLES
    lock,      \* content -> the runner that holds its advisory lock, or None
    pc,        \* runner -> where its pipeline stands
    task       \* runner -> what it works on, or None
procs == <<lock, pc, task>>

VARIABLES
    repair,    \* the rows reembed_degraded has read and not yet written
    deleting,  \* source -> how far delete_document has come (DuckDB)
    collided   \* history: the sources two activities have worked on at once
others == <<repair, deleting, collided>>

vars == <<store, procs, others>>

\* A row is created by one run at one position: the run stands for its id.
Document == [id : RunId, hash : Content]
\* text: what is stored; dead: tombstoned_at is set; vec: the text its vector
\* was made from, Zero for a zero vector (flagged degraded), None for no vector.
Chunk == [id : RunId, text : Text, dead : BOOLEAN, vec : Text \cup {Zero, None}]
\* todo: the rows store_chunks returned; zeros: the ones embedded as zero;
\* errs: the stage error list is not empty.
Task == [source : Source, content : Content, run : RunId \cup {None},
         doc : RunId \cup {None}, todo : SUBSET (Pos \X RunId),
         zeros : SUBSET Pos, errs : BOOLEAN]

ASSUME NullAssumption ==
    None \notin Document /\ None \notin Chunk /\ None \notin Task

Before == {"probe", "begin"}
\* The try block of _run_document_stages: the ledger row is open.
Opened == {"prepass", "store", "embed", "vectors", "commit", "finish", "close"}

TypeOK ==
    /\ backend \in Backends
    /\ status \in [RunId -> {"absent", "running", "completed", "failed"}]
    /\ source \in [RunId -> Source \cup {None}]
    /\ hash \in [RunId -> Content \cup {None}]
    /\ doc \in [Source -> Document \cup {None}]
    /\ chunk \in [Source -> [Pos -> Chunk \cup {None}]]
    /\ lock \in [Content -> Runner \cup {None}]
    /\ pc \in [Runner -> {"idle"} \cup Before \cup Opened]
    /\ task \in [Runner -> Task \cup {None}]
    /\ \A p \in Runner : task[p] = None <=> pc[p] = "idle"
    /\ repair \subseteq Source \X Pos \X RunId \X Text
    /\ deleting \in [Source -> {"no", "vectors", "chunks"}]
    /\ collided \in SUBSET Source

Init ==
    /\ backend \in Backends
    /\ status = [r \in RunId |-> "absent"]
    /\ source = [r \in RunId |-> None]
    /\ hash = [r \in RunId |-> None]
    /\ doc = [s \in Source |-> None]
    /\ chunk = [s \in Source |-> [i \in Pos |-> None]]
    /\ lock = [c \in Content |-> None]
    /\ pc = [p \in Runner |-> "idle"]
    /\ task = [p \in Runner |-> None]
    /\ repair = {}
    /\ deleting = [s \in Source |-> "no"]
    /\ collided = {}

----------------------------------------------------------------------------
(* What the statements and the stages say.                                  *)

(* A definition named Fault_... is a seeded fault: the definition it stands   *)
(* before, changed as a plausible bug would change it.                       *)

Newest(R) == {r \in R : \A q \in R : q <= r}
RunsOf(s) == {r \in RunId : source[r] = s}
Clean(r) == status[r] = "completed"

\* unchanged_doc_id: Postgres asks for this file_hash on the documents row and
\* for any clean run of the content, DuckDB for the newest run of the source.
UnchangedPg(s, c) ==
    /\ doc[s] # None
    /\ doc[s].hash = c
    /\ \E r \in RunId : hash[r] = c /\ Clean(r)
Fault_UnchangedAnyRun(s, c) ==
    /\ doc[s] # None
    /\ \E r \in RunsOf(s) : hash[r] = c /\ Clean(r)
UnchangedDuckDb(s, c) ==
    /\ doc[s] # None
    /\ \E r \in Newest(RunsOf(s)) : hash[r] = c /\ Clean(r)
Unchanged(s, c) ==
    \/ backend = "postgres" /\ UnchangedPg(s, c)
    \/ backend = "duckdb" /\ UnchangedDuckDb(s, c)

Planned(c) == 1 .. Len(Parts[c])
Present(s) == {i \in Pos : chunk[s][i] # None}
Rewritten(s, c) == {i \in Present(s) \cap Planned(c) : chunk[s][i].text # Parts[c][i]}
Added(s, c) == Planned(c) \ Present(s)
\* The rows whose chunk_index >= len(chunks).
Beyond(s, c) == Present(s) \ Planned(c)

Working(s) == {p \in Runner : pc[p] \in Opened /\ task[p].source = s}
\* The document p opened still has its row: foreign keys on doc_id hold.
Owns(p) == doc[task[p].source] # None /\ doc[task[p].source].id = task[p].doc

Note(s, busy) == collided' = IF busy THEN collided \cup {s} ELSE collided

----------------------------------------------------------------------------
(* One ingest.                                                              *)

Fault_IngestUnlocked(p) ==
    /\ pc[p] = "idle"
    /\ \E s \in Source, c \in Content :
         /\ lock' = [lock EXCEPT ![c] = p]
         /\ task' = [task EXCEPT ![p] =
              [source |-> s, content |-> c, run |-> None, doc |-> None,
               todo |-> {}, zeros |-> {}, errs |-> FALSE]]
    /\ pc' = [pc EXCEPT ![p] = "probe"]
    /\ UNCHANGED <<store, others>>

\* run_pipeline up to the lock.  A lock that is taken answers "concurrent-run"
\* and changes nothing.
Ingest(p) ==
    /\ pc[p] = "idle"
    /\ \E s \in Source, c \in Content :
         /\ lock[c] = None
         /\ lock' = [lock EXCEPT ![c] = p]
         /\ task' = [task EXCEPT ![p] =
              [source |-> s, content |-> c, run |-> None, doc |-> None,
               todo |-> {}, zeros |-> {}, errs |-> FALSE]]
    /\ pc' = [pc EXCEPT ![p] = "probe"]
    /\ UNCHANGED <<store, others>>

\* The lock context closes, on every way out.
Leave(p) ==
    /\ lock' = [lock EXCEPT ![task[p].content] = None]
    /\ pc' = [pc EXCEPT ![p] = "idle"]
    /\ task' = [task EXCEPT ![p] = None]

Skip(p) ==
    /\ pc[p] = "probe"
    /\ Unchanged(task[p].source, task[p].content)
    /\ Leave(p)
    /\ UNCHANGED <<store, others>>

ProbeMisses(p) ==
    /\ pc[p] = "probe"
    /\ ~Unchanged(task[p].source, task[p].content)
    /\ pc' = [pc EXCEPT ![p] = "begin"]
    /\ UNCHANGED <<store, lock, task, others>>

\* The documents row after an upsert by a run that would create it as id.
Upserted(s, c, id) ==
    IF doc[s] = None THEN [doc EXCEPT ![s] = [id |-> id, hash |-> c]]
    ELSE IF backend = "postgres" THEN [doc EXCEPT ![s].hash = c]
    ELSE doc

\* A plan without chunks seeds the error list.
EmptyPlan(c) == Parts[c] = <<>>

\* begin_run: the documents row and the ledger row, in one transaction.
Begin(p) ==
    /\ pc[p] = "begin"
    /\ \E r \in RunId :
         LET s == task[p].source
             c == task[p].content
         IN
         /\ status[r] = "absent"
         /\ \A q \in RunId : status[q] = "absent" => r <= q
         /\ status' = [status EXCEPT ![r] = "running"]
         /\ source' = [source EXCEPT ![r] = s]
         /\ hash' = [hash EXCEPT ![r] = c]
         /\ doc' = Upserted(s, c, r)
         /\ task' = [task EXCEPT ![p] = [@ EXCEPT
              !.run = r,
              !.doc = IF doc[s] = None THEN r ELSE doc[s].id,
              !.errs = EmptyPlan(c)]]
         /\ pc' = [pc EXCEPT ![p] = IF Parts[c] = <<>> THEN "embed"
                                    ELSE IF backend = "duckdb" THEN "prepass"
                                    ELSE "store"]
         /\ Note(s, Working(s) # {} \/ deleting[s] # "no")
    /\ UNCHANGED <<backend, chunk, lock, repair, deleting>>

\* DuckDB: the vectors of rows about to be rewritten go first, in a
\* transaction of their own.
PrePass(p) ==
    /\ pc[p] = "prepass"
    /\ LET s == task[p].source
           c == task[p].content
           gone == IF Owns(p) THEN Rewritten(s, c) \cup Beyond(s, c) ELSE {}
       IN chunk' = [chunk EXCEPT ![s] =
            [i \in Pos |-> IF i \in gone THEN [chunk[s][i] EXCEPT !.vec = None] ELSE chunk[s][i]]]
    /\ pc' = [pc EXCEPT ![p] = "store"]
    /\ UNCHANGED <<backend, status, source, hash, doc, lock, task, others>>

\* The rows of s once run r has stored the chunks of c.
Stored(s, c, r) ==
    [i \in Pos |->
        IF i \in Added(s, c)
        THEN [id |-> r, text |-> Parts[c][i], dead |-> FALSE, vec |-> None]
        ELSE IF i \in Rewritten(s, c)
        THEN [chunk[s][i] EXCEPT !.text = Parts[c][i], !.dead = FALSE]
        ELSE IF i \in Beyond(s, c)
        THEN [chunk[s][i] EXCEPT !.dead = TRUE]
        ELSE chunk[s][i]]

\* store_chunks: a row whose hash is unchanged stays as it is, tombstone and all.
StoreChunks(p) ==
    /\ pc[p] = "store"
    /\ Owns(p)
    /\ LET s == task[p].source
           c == task[p].content
           rows == Stored(s, c, task[p].run)
       IN
       /\ chunk' = [chunk EXCEPT ![s] = rows]
       /\ task' = [task EXCEPT ![p] = [@ EXCEPT !.todo =
            {<<i, rows[i].id>> : i \in Added(s, c) \cup Rewritten(s, c)}]]
       /\ Note(s, \E x \in repair : x[1] = s)
    /\ pc' = [pc EXCEPT ![p] = "embed"]
    /\ UNCHANGED <<backend, status, source, hash, doc, lock, repair, deleting>>

Fault_StoreFailsUnrecorded(p) ==
    /\ pc[p] \in {"prepass", "store"}
    /\ pc' = [pc EXCEPT ![p] = "embed"]
    /\ UNCHANGED <<store, lock, task, others>>

\* A store error, or a foreign key that no longer holds: no rows to embed.
StoreFails(p) ==
    /\ pc[p] \in {"prepass", "store"}
    /\ task' = [task EXCEPT ![p] = [@ EXCEPT !.errs = TRUE]]
    /\ pc' = [pc EXCEPT ![p] = "embed"]
    /\ UNCHANGED <<store, lock, others>>

Fault_EmbedRaises(p) ==
    /\ task[p].todo # {}
    /\ task' = [task EXCEPT ![p] = [@ EXCEPT !.todo = {}]]
\* The embedder raised: the chunks keep no embedding, and no vector is written.
EmbedRaises(p) ==
    /\ task[p].todo # {}
    /\ task' = [task EXCEPT ![p] = [@ EXCEPT !.todo = {}, !.errs = TRUE]]

\* The embedder answered.  Zero vectors are an error when all are zero, or when
\* some are and the primary provider failed.
EmbedAnswers(p) ==
    \E Z \in SUBSET {x[1] : x \in task[p].todo}, fatal \in BOOLEAN :
        /\ Z = {} => ~fatal
        /\ task[p].todo # {} /\ Z = {x[1] : x \in task[p].todo} => fatal
        /\ task' = [task EXCEPT ![p] =
             [@ EXCEPT !.zeros = Z, !.errs = task[p].errs \/ fatal]]

Embed(p) ==
    /\ pc[p] = "embed"
    /\ EmbedRaises(p) \/ EmbedAnswers(p)
    /\ pc' = [pc EXCEPT ![p] = "vectors"]
    /\ UNCHANGED <<store, lock, others>>

\* Every vector still has its chunks row.
RowsRemain(p) ==
    \A x \in task[p].todo :
        LET row == chunk[task[p].source][x[1]] IN row # None /\ row.id = x[2]

\* store_vectors, in a transaction of its own.  Nothing reads the embeddings
\* after it.
StoreVectors(p) ==
    /\ pc[p] = "vectors"
    /\ RowsRemain(p)
    /\ LET s == task[p].source
           c == task[p].content
           mine == {x[1] : x \in task[p].todo}
       IN chunk' = [chunk EXCEPT ![s] =
            [i \in Pos |->
                IF i \in mine
                THEN [chunk[s][i] EXCEPT
                        !.vec = IF i \in task[p].zeros THEN Zero ELSE Parts[c][i]]
                ELSE chunk[s][i]]]
    /\ task' = [task EXCEPT ![p] = [@ EXCEPT !.todo = {}, !.zeros = {}]]
    /\ pc' = [pc EXCEPT ![p] = "commit"]
    /\ UNCHANGED <<backend, status, source, hash, doc, lock, others>>

VectorsFail(p) ==
    /\ pc[p] = "vectors"
    /\ task[p].todo # {}
    /\ task' = [task EXCEPT ![p] =
         [@ EXCEPT !.todo = {}, !.zeros = {}, !.errs = TRUE]]
    /\ pc' = [pc EXCEPT ![p] = "commit"]
    /\ UNCHANGED <<store, lock, others>>

\* Shadow tree, extraction, statements and mirror touch no row of this model,
\* but each may record an error.  update_document is the same upsert again, and
\* a no-op on DuckDB.
UpdateDocument(p) ==
    /\ pc[p] = "commit"
    /\ LET fresh == IF backend = "postgres"
                    THEN Upserted(task[p].source, task[p].content, task[p].doc)
                    ELSE doc
       IN \/ /\ doc' = fresh
             /\ UNCHANGED task
          \/ /\ doc' \in {doc, fresh}
             /\ task' = [task EXCEPT ![p] = [@ EXCEPT !.errs = TRUE]]
    /\ pc' = [pc EXCEPT ![p] = "finish"]
    /\ UNCHANGED <<backend, status, source, hash, chunk, lock, others>>

Fault_VerdictOfEnvelope(p) == IF task[p].errs THEN "partial" ELSE "success"
Verdict(p) == IF task[p].errs THEN "failed" ELSE "completed"

Finish(p) ==
    /\ pc[p] = "finish"
    /\ status' = [status EXCEPT ![task[p].run] = Verdict(p)]
    /\ pc' = [pc EXCEPT ![p] = "close"]
    /\ UNCHANGED <<backend, source, hash, doc, chunk, lock, task, others>>

Close(p) ==
    /\ pc[p] = "close"
    /\ Leave(p)
    /\ UNCHANGED <<store, others>>

\* An exception or a cancellation inside the try block: fail_run closes the
\* row, also one that finish_run has closed already.
Raises(p) ==
    /\ pc[p] \in Opened
    /\ status' = [status EXCEPT ![task[p].run] = "failed"]
    /\ Leave(p)
    /\ UNCHANGED <<backend, source, hash, doc, chunk, others>>

\* The process dies, or it raises where no ledger row is open or fail_run
\* fails as well: the lock is freed, and an open row stays "running".
Crash(p) ==
    /\ pc[p] # "idle"
    /\ Leave(p)
    /\ UNCHANGED <<store, others>>

----------------------------------------------------------------------------
(* Repair and delete.                                                       *)

Degraded(s, i) == chunk[s][i] # None /\ chunk[s][i].vec = Zero

\* reembed_degraded reads the zero vectors of one document or of all.
RepairScan ==
    /\ repair = {}
    /\ \E S \in {Source} \cup {{s} : s \in Source} :
         repair' = {<<x[1], x[2], chunk[x[1]][x[2]].id, chunk[x[1]][x[2]].text>> :
                      x \in {z \in S \X Pos : Degraded(z[1], z[2])}}
    /\ UNCHANGED <<store, procs, deleting, collided>>

\* The row at i once the vectors of done are written: an UPDATE by chunk_id.
Repaired(s, i, done) ==
    LET row == chunk[s][i]
        hits == {x \in done : x[1] = s /\ x[2] = i /\ x[3] = row.id}
    IN IF row = None \/ row.vec = None \/ hits = {} THEN row
       ELSE [row EXCEPT !.vec = (CHOOSE x \in hits : TRUE)[4]]

\* _write_repairs: the rows whose new vector is not zero, in one transaction.
RepairWrite ==
    /\ repair # {}
    /\ \E done \in SUBSET repair :
         chunk' = [s \in Source |-> [i \in Pos |-> Repaired(s, i, done)]]
    /\ repair' = {}
    /\ UNCHANGED <<backend, status, source, hash, doc, procs, deleting, collided>>

\* delete_document on Postgres: one statement, with ON DELETE CASCADE.
Delete(s) ==
    /\ backend = "postgres"
    /\ doc[s] # None
    /\ doc' = [doc EXCEPT ![s] = None]
    /\ chunk' = [chunk EXCEPT ![s] = [i \in Pos |-> None]]
    /\ Note(s, Working(s) # {})
    /\ UNCHANGED <<backend, status, source, hash, procs, repair, deleting>>

\* delete_document_cascade on DuckDB: one committed stage per table, children
\* first.  A delete that dies stays where it is, and a new one starts over.
DeleteVectors(s) ==
    /\ backend = "duckdb"
    /\ doc[s] # None
    /\ chunk' = [chunk EXCEPT ![s] =
         [i \in Pos |-> IF i \in Present(s) THEN [chunk[s][i] EXCEPT !.vec = None] ELSE None]]
    /\ deleting' = [deleting EXCEPT ![s] = "vectors"]
    /\ Note(s, Working(s) # {})
    /\ UNCHANGED <<backend, status, source, hash, doc, procs, repair>>

DeleteChunks(s) ==
    /\ deleting[s] = "vectors"
    /\ \A i \in Present(s) : chunk[s][i].vec = None
    /\ chunk' = [chunk EXCEPT ![s] = [i \in Pos |-> None]]
    /\ deleting' = [deleting EXCEPT ![s] = "chunks"]
    /\ Note(s, Working(s) # {})
    /\ UNCHANGED <<backend, status, source, hash, doc, procs, repair>>

DeleteRow(s) ==
    /\ deleting[s] = "chunks"
    /\ Present(s) = {}
    /\ doc' = [doc EXCEPT ![s] = None]
    /\ deleting' = [deleting EXCEPT ![s] = "no"]
    /\ Note(s, Working(s) # {})
    /\ UNCHANGED <<backend, status, source, hash, chunk, procs, repair>>

----------------------------------------------------------------------------
Step(p) ==
    \/ Ingest(p)
    \/ Skip(p)
    \/ ProbeMisses(p)
    \/ Begin(p)
    \/ PrePass(p)
    \/ StoreChunks(p)
    \/ StoreFails(p)
    \/ Embed(p)
    \/ StoreVectors(p)
    \/ VectorsFail(p)
    \/ UpdateDocument(p)
    \/ Finish(p)
    \/ Close(p)
    \/ Raises(p)
    \/ Crash(p)

DeleteStep(s) ==
    \/ Delete(s)
    \/ DeleteVectors(s)
    \/ DeleteChunks(s)
    \/ DeleteRow(s)

Next ==
    \/ \E p \in Runner : Step(p)
    \/ RepairScan
    \/ RepairWrite
    \/ \E s \in Source : DeleteStep(s)

Spec == Init /\ [][Next]_vars

----------------------------------------------------------------------------
(* Safety.                                                                  *)

\* The advisory lock does what run_pipeline promises: no two ingests of one
\* content are ever past it, under whatever sources, however runs end.
OneRunPerContent ==
    \A p, q \in Runner :
        p # q /\ pc[p] # "idle" /\ pc[q] # "idle" => task[p].content # task[q].content

\* The rows of s that search can see hold the chunks of c and nothing else.
\* (A row of c may still be hidden by an old tombstone: Stored keeps it.)
TextStored(s, c) ==
    \A i \in Pos :
        IF i \in Planned(c)
        THEN chunk[s][i] # None /\ chunk[s][i].text = Parts[c][i]
        ELSE chunk[s][i] = None \/ chunk[s][i].dead

\* A source that one activity at a time has worked on, whole or not at all.
Undisturbed(s) == s \notin collided /\ deleting[s] = "no"

\* The ledger is honest about texts: when the newest run of a source is
\* completed, its content is what is stored, whichever runs failed, died or
\* were deleted before it.
CompletedIsStored ==
    \A s \in Source : \A r \in Newest(RunsOf(s)) :
        Undisturbed(s) /\ doc[s] # None /\ Clean(r) => TextStored(s, hash[r])

\* A skip as unchanged loses no text on DuckDB.  On Postgres it can, against
\* ingest_store.py:157-165 ("re-ingest heals it instead of silently skipping"):
\* its probe takes any clean run of the content, of whatever age and source.
\* What holds there is that the loss is on record: the newest run of the source
\* is one of that very content, and it is open or failed.
SkipServedOrOnRecord ==
    \A p \in Runner : pc[p] = "probe" =>
        LET s == task[p].source
            c == task[p].content
        IN Unchanged(s, c) /\ Undisturbed(s) =>
              \/ TextStored(s, c)
              \/ /\ backend = "postgres"
                 /\ \E r \in Newest(RunsOf(s)) : hash[r] = c /\ ~Clean(r)

\* The vector of a row is neither that of its text nor a flagged zero vector.
Gap(s, i) ==
    chunk[s][i] # None /\ ~chunk[s][i].dead /\ chunk[s][i].vec \notin {chunk[s][i].text, Zero}

\* A chunk without its vector is never silent: as long as activities on its
\* source did not overlap, some run of the source is open or failed in the
\* ledger.  It covers stale vectors, and repairs that come late.
GapsAreOnRecord ==
    \A s \in Source, i \in Pos :
        Gap(s, i) /\ Undisturbed(s) => \E r \in RunsOf(s) : ~Clean(r)

----------------------------------------------------------------------------
(* What the docs say, and the code does not do.                             *)

\* ingest_store.py:161-165: unchanged content is content "the last ingest of
\* [which] stored everything"; after a failed or unfinished run, "re-ingest
\* heals it instead of silently skipping".
SkippedIsWhole ==
    \A p \in Runner :
        pc[p] = "probe" /\ Unchanged(task[p].source, task[p].content) =>
            \A i \in Pos : ~Gap(task[p].source, i)
=============================================================================
