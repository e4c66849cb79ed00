---------------------------- MODULE IngestQueue ----------------------------
(***************************************************************************)
(* The durable ingest queue of corpus_kb and the workers that drain it     *)
(* (queue/store.py, queue/sql.py, queue/worker.py, queue/worker_support.py, *)
(* queue/autorun.py, tools/queue_tools.py).                                *)
(*                                                                         *)
(* One table row is one file to ingest.  Clients enqueue and cancel rows.   *)
(* Workers claim a row under a lease (claimed_by + heartbeat_at), run the  *)
(* book through the ingest pipeline, and settle the row.  Every SQL        *)
(* statement is one transaction, hence one atomic step; everything a worker *)
(* or a client does between two statements can interleave with the others. *)
(***************************************************************************)
EXTENDS Integers, FiniteSets

CONSTANTS Worker,      \* worker identities: one per process start (host:pid:token)
          Persistent,  \* the workers that are never stopped and never crash
          Client,      \* callers of queue-enqueue
          Hash,        \* content hashes
          MaxRows,     \* bound: rows ever inserted
          Caps,        \* the max_attempts values callers enqueue with
          None         \* the null value

ASSUME QueueAssumption ==
    /\ Persistent \subseteq Worker
    /\ MaxRows \in Nat
    /\ Caps \subseteq Nat \ {0}
    /\ None \notin Worker
    /\ None \notin Hash
    /\ None \notin Nat

RowId == 1 .. MaxRows    \* ids follow the order of queued_at

Active   == {"pending", "running"}
Terminal == {"done", "failed", "cancelled"}
Status   == {"absent"} \cup Active \cup Terminal

VARIABLES
    status,    \* row -> its status; "absent" is a row not yet inserted
    attempts,  \* row -> attempts
    cap,       \* row -> max_attempts
    hash,      \* row -> content_hash
    holder,    \* row -> claimed_by
    lease,     \* row -> heartbeat_at: "none", "fresh" or "stale"
    started    \* the rows whose started_at is set
table == <<status, attempts, cap, hash, holder, lease, started>>

VARIABLES
    pc,        \* worker -> where its drain loop stands
    book,      \* worker -> the row it claimed last, while it works on it
    recent,    \* worker -> the rows first claimed since its pass watermark
    stop,      \* worker -> its StopFlag
    beat,      \* worker -> its heartbeat task: "off", "on", or "raised"
    lost,      \* worker -> the heartbeat found the claim gone
    report     \* worker -> the rows its drain report lists as done or as failed
procs == <<pc, book, recent, stop, beat, lost, report>>

VARIABLES
    cpc,       \* client -> where its enqueue stands
    want,      \* client -> the content hash it enqueues
    over       \* history: client -> the rows of that hash that had ended at the call
clients == <<cpc, want, over>>

VARIABLE
    runs       \* history: row -> claims taken and not given back

vars == <<table, procs, clients, runs>>

WorkerState == {"off", "idle", "reclaim", "loop", "claimed", "run", "except",
                "settle_done", "settle_fail", "gone"}
OnBook == {"claimed", "run", "except", "settle_done", "settle_fail"}
ClientState == {"idle", "probe", "insert", "reread", "conflict"}

TableOK ==
    /\ status \in [RowId -> Status]
    /\ attempts \in [RowId -> Nat]
    /\ cap \in [RowId -> Nat]
    /\ hash \in [RowId -> Hash \cup {None}]
    /\ holder \in [RowId -> Worker \cup {None}]
    /\ lease \in [RowId -> {"none", "fresh", "stale"}]
    /\ started \in SUBSET RowId
    /\ runs \in [RowId -> Int]

\* A worker has a book exactly where its loop is at work on one.
LoopOK ==
    /\ pc \in [Worker -> WorkerState]
    /\ book \in [Worker -> RowId \cup {None}]
    /\ \A w \in Worker : book[w] \in RowId <=> pc[w] \in OnBook
    /\ stop \in [Worker -> BOOLEAN]
    /\ beat \in [Worker -> {"off", "on", "raised"}]
    /\ lost \in [Worker -> BOOLEAN]

PassOK ==
    /\ recent \in [Worker -> SUBSET RowId]
    /\ report \in [Worker -> SUBSET (RowId \X {"done", "failed"})]

ClientOK ==
    /\ cpc \in [Client -> ClientState]
    /\ want \in [Client -> Hash \cup {None}]
    /\ \A c \in Client : want[c] \in Hash <=> cpc[c] # "idle"
    /\ over \in [Client -> SUBSET RowId]

TypeOK == TableOK /\ LoopOK /\ PassOK /\ ClientOK

Init ==
    /\ status = [r \in RowId |-> "absent"]
    /\ attempts = [r \in RowId |-> 0]
    /\ cap = [r \in RowId |-> 0]
    /\ hash = [r \in RowId |-> None]
    /\ holder = [r \in RowId |-> None]
    /\ lease = [r \in RowId |-> "none"]
    /\ started = {}
    /\ pc = [w \in Worker |-> "off"]
    /\ book = [w \in Worker |-> None]
    /\ recent = [w \in Worker |-> {}]
    /\ stop = [w \in Worker |-> FALSE]
    /\ beat = [w \in Worker |-> "off"]
    /\ lost = [w \in Worker |-> FALSE]
    /\ report = [w \in Worker |-> {}]
    /\ cpc = [c \in Client |-> "idle"]
    /\ want = [c \in Client |-> None]
    /\ over = [c \in Client |-> {}]
    /\ runs = [r \in RowId |-> 0]

----------------------------------------------------------------------------
(* What the SQL statements' WHERE clauses and CASE expressions say.         *)

(* A definition named Fault_... is a seeded fault: the definition it stands    *)
(* before, changed as a plausible bug would change it.  A property that no     *)
(* fault breaks would say nothing about the code.                              *)

Fault_PendingTwins(h) == {r \in RowId : hash[r] = h /\ status[r] = "pending"}
ActiveTwins(h) == {r \in RowId : hash[r] = h /\ status[r] \in Active}

\* The rows of h that have ended.
Ended(h) == {r \in RowId : hash[r] = h /\ status[r] \in Terminal}

Oldest(S) == {r \in S : \A q \in S : r <= q}

InPass(w) == pc[w] \notin {"off", "idle", "gone"}

Claimable(w) ==
    {r \in RowId : status[r] = "pending" /\ (r \in started => r \notin recent[w])}

Fault_HoldsAnyStatus(w, r) == holder[r] = w
\* status = 'running' AND claimed_by = $me
Holds(w, r) == status[r] = "running" /\ holder[r] = w

StaleRows == {r \in RowId : status[r] = "running" /\ lease[r] = "stale"}

Fault_AfterOneMore(r) == IF attempts[r] + 1 <= cap[r] THEN "pending" ELSE "failed"
Fault_AfterError(r) == "error"
\* The status a counted attempt leaves the row in.
AfterAttempt(r) == IF attempts[r] + 1 < cap[r] THEN "pending" ELSE "failed"

----------------------------------------------------------------------------
(* Clients: the three transactions of IngestQueueStore.enqueue, and cancel. *)

\* The bound MaxRows: no call starts once all rows are inserted.
Enqueue(c) ==
    /\ cpc[c] \in {"idle", "conflict"}
    /\ \E r \in RowId : status[r] = "absent"
    /\ \E h \in Hash :
         /\ want' = [want EXCEPT ![c] = h]
         /\ over' = [over EXCEPT ![c] = Ended(h)]
    /\ cpc' = [cpc EXCEPT ![c] = "probe"]
    /\ UNCHANGED <<table, procs, runs>>

Answered(c) ==
    /\ cpc' = [cpc EXCEPT ![c] = "idle"]
    /\ want' = [want EXCEPT ![c] = None]
    /\ over' = [over EXCEPT ![c] = {}]

\* FIND_ACTIVE, before the insert ("probe") and after a lost race ("reread"):
\* the caller is answered the active row.
AnswerTwin(c) ==
    /\ cpc[c] \in {"probe", "reread"}
    /\ ActiveTwins(want[c]) # {}
    /\ Answered(c)
    /\ UNCHANGED <<table, procs, runs>>

ProbeMisses(c) ==
    /\ cpc[c] = "probe"
    /\ ActiveTwins(want[c]) = {}
    /\ cpc' = [cpc EXCEPT ![c] = "insert"]
    /\ UNCHANGED <<table, procs, want, over, runs>>

\* The bound MaxRows again: an insert past it waits for ever.
Insert(c) ==
    /\ cpc[c] = "insert"
    /\ ActiveTwins(want[c]) = {}
    /\ \E r \in Oldest({q \in RowId : status[q] = "absent"}), m \in Caps :
         /\ status' = [status EXCEPT ![r] = "pending"]
         /\ cap' = [cap EXCEPT ![r] = m]
         /\ hash' = [hash EXCEPT ![r] = want[c]]
    /\ Answered(c)
    /\ UNCHANGED <<attempts, holder, lease, started, procs, runs>>

Fault_InsertConflictsAnyRow(c) ==
    /\ cpc[c] = "insert"
    /\ \E r \in RowId : hash[r] = want[c]
    /\ cpc' = [cpc EXCEPT ![c] = "reread"]
    /\ UNCHANGED <<table, procs, want, over, runs>>

\* ON CONFLICT DO NOTHING against the partial unique index.
InsertConflicts(c) ==
    /\ cpc[c] = "insert"
    /\ ActiveTwins(want[c]) # {}
    /\ cpc' = [cpc EXCEPT ![c] = "reread"]
    /\ UNCHANGED <<table, procs, want, over, runs>>

\* ConflictError: the caller may call again.
RereadMisses(c) ==
    /\ cpc[c] = "reread"
    /\ ActiveTwins(want[c]) = {}
    /\ cpc' = [cpc EXCEPT ![c] = "conflict"]
    /\ over' = [over EXCEPT ![c] = {}]
    /\ UNCHANGED <<table, procs, want, runs>>

\* queue-cancel: claimed_by and heartbeat_at stay as they are.
Cancel(r) ==
    /\ status[r] \in Active
    /\ status' = [status EXCEPT ![r] = "cancelled"]
    /\ UNCHANGED <<attempts, cap, hash, holder, lease, started,
                   procs, clients, runs>>

----------------------------------------------------------------------------
(* Workers: the drain loop.                                                 *)

Start(w) ==
    /\ pc[w] = "off"
    /\ pc' = [pc EXCEPT ![w] = "idle"]
    /\ UNCHANGED <<table, book, recent, stop, beat, lost, report, clients, runs>>

RequestStop(w) ==
    /\ w \notin Persistent
    /\ pc[w] \notin {"off", "gone"}
    /\ ~stop[w]
    /\ stop' = [stop EXCEPT ![w] = TRUE]
    /\ UNCHANGED <<table, pc, book, recent, beat, lost, report, clients, runs>>

Fault_StartPassOldWatermark(w) ==
    /\ pc[w] = "idle"
    /\ ~stop[w]
    /\ pc' = [pc EXCEPT ![w] = "reclaim"]
    /\ UNCHANGED <<table, book, recent, stop, beat, lost, report, clients, runs>>

\* drain_once reads the clock: no row has started at or after this instant.
StartPass(w) ==
    /\ pc[w] = "idle"
    /\ ~stop[w]
    /\ pc' = [pc EXCEPT ![w] = "reclaim"]
    /\ recent' = [recent EXCEPT ![w] = {}]
    /\ UNCHANGED <<table, book, stop, beat, lost, report, clients, runs>>

Fault_ReclaimUncounted(w) ==
    /\ pc[w] = "reclaim"
    /\ status' = [r \in RowId |-> IF r \in StaleRows THEN "pending" ELSE status[r]]
    /\ holder' = [r \in RowId |-> IF r \in StaleRows THEN None ELSE holder[r]]
    /\ lease' = [r \in RowId |-> IF r \in StaleRows THEN "none" ELSE lease[r]]
    /\ pc' = [pc EXCEPT ![w] = "loop"]
    /\ UNCHANGED <<attempts, cap, hash, started, book, recent, stop, beat, lost, report,
                   clients, runs>>

\* RECLAIM_STALE: one statement sends every stale row back, one attempt each
\* ("a dead worker is a spent try", sql.py:102).  The docstring of reclaim_stale
\* says otherwise ("attempts stays", store.py:153); the statement is what runs.
ReclaimStale(w) ==
    /\ pc[w] = "reclaim"
    /\ status' = [r \in RowId |-> IF r \in StaleRows THEN AfterAttempt(r) ELSE status[r]]
    /\ attempts' = [r \in RowId |-> IF r \in StaleRows THEN attempts[r] + 1 ELSE attempts[r]]
    /\ holder' = [r \in RowId |-> IF r \in StaleRows THEN None ELSE holder[r]]
    /\ lease' = [r \in RowId |-> IF r \in StaleRows THEN "none" ELSE lease[r]]
    /\ report' = [report EXCEPT ![w] = @ \cup
         {<<r, "failed">> : r \in {q \in StaleRows : AfterAttempt(q) = "failed"}}]
    /\ pc' = [pc EXCEPT ![w] = "loop"]
    /\ UNCHANGED <<cap, hash, started, book, recent, stop, beat, lost,
                   clients, runs>>

\* CLAIM: started_at is set by the first claim only, for every watermark so far.
Claim(w) ==
    /\ pc[w] = "loop"
    /\ ~stop[w]
    /\ \E r \in Oldest(Claimable(w)) :
         /\ status' = [status EXCEPT ![r] = "running"]
         /\ holder' = [holder EXCEPT ![r] = w]
         /\ lease' = [lease EXCEPT ![r] = "fresh"]
         /\ started' = started \cup {r}
         /\ recent' = IF r \in started THEN recent
                      ELSE [v \in Worker |-> IF InPass(v) THEN recent[v] \cup {r}
                                             ELSE recent[v]]
         /\ book' = [book EXCEPT ![w] = r]
         /\ runs' = [runs EXCEPT ![r] = @ + 1]
    /\ pc' = [pc EXCEPT ![w] = "claimed"]
    /\ UNCHANGED <<attempts, cap, hash, stop, beat, lost, report, clients>>

\* The pass ends on the stop flag or when the claim finds no row.
EndPass(w) ==
    /\ pc[w] = "loop"
    /\ stop[w] \/ Claimable(w) = {}
    /\ pc' = [pc EXCEPT ![w] = "idle"]
    /\ UNCHANGED <<table, book, recent, stop, beat, lost, report, clients, runs>>

\* The stop landed between the claim and the run.
Release(w) ==
    /\ pc[w] = "claimed"
    /\ stop[w]
    /\ LET r == book[w] IN
         IF Holds(w, r)
         THEN /\ status' = [status EXCEPT ![r] = "pending"]
              /\ holder' = [holder EXCEPT ![r] = None]
              /\ lease' = [lease EXCEPT ![r] = "none"]
              /\ runs' = [runs EXCEPT ![r] = @ - 1]
         ELSE UNCHANGED <<status, holder, lease, runs>>
    /\ book' = [book EXCEPT ![w] = None]
    /\ pc' = [pc EXCEPT ![w] = "idle"]
    /\ UNCHANGED <<attempts, cap, hash, started, recent, stop, beat, lost,
                   report, clients>>

\* fill_pages_total writes metadata only; then _run_book opens the heartbeat
\* scope.
BeginRun(w) ==
    /\ pc[w] = "claimed"
    /\ ~stop[w]
    /\ pc' = [pc EXCEPT ![w] = "run"]
    /\ beat' = [beat EXCEPT ![w] = "on"]
    /\ UNCHANGED <<table, book, recent, stop, lost, report, clients, runs>>

Fault_BeatGivesUpStale(w) ==
    /\ pc[w] \in {"run", "except"}
    /\ beat[w] = "on"
    /\ IF Holds(w, book[w]) /\ lease[book[w]] = "fresh"
       THEN UNCHANGED <<beat, lost>>
       ELSE /\ beat' = [beat EXCEPT ![w] = "off"]
            /\ lost' = [lost EXCEPT ![w] = TRUE]
    /\ UNCHANGED <<table, pc, book, recent, stop, report, clients, runs>>

\* One beat: touch the live claim, or note that it is gone and beat no more.
Beat(w) ==
    /\ pc[w] \in {"run", "except"}
    /\ beat[w] = "on"
    /\ IF Holds(w, book[w])
       THEN /\ lease' = [lease EXCEPT ![book[w]] = "fresh"]
            /\ UNCHANGED <<beat, lost>>
       ELSE /\ beat' = [beat EXCEPT ![w] = "off"]
            /\ lost' = [lost EXCEPT ![w] = TRUE]
            /\ UNCHANGED lease
    /\ UNCHANGED <<status, attempts, cap, hash, holder, started,
                   pc, book, recent, stop, report, clients, runs>>

\* A store error ends the beat task; the book goes on without a heartbeat.
BeatRaises(w) ==
    /\ w \notin Persistent
    /\ pc[w] \in {"run", "except"}
    /\ beat[w] = "on"
    /\ beat' = [beat EXCEPT ![w] = "raised"]
    /\ UNCHANGED <<table, pc, book, recent, stop, lost, report, clients, runs>>

\* The loop of w ends, and with it what the process remembers.
LoopEnds(w) ==
    /\ pc' = [pc EXCEPT ![w] = "gone"]
    /\ book' = [book EXCEPT ![w] = None]
    /\ recent' = [recent EXCEPT ![w] = {}]
    /\ stop' = [stop EXCEPT ![w] = FALSE]
    /\ beat' = [beat EXCEPT ![w] = "off"]
    /\ lost' = [lost EXCEPT ![w] = FALSE]

\* An error that ends the loop takes the report with it.
ReportLost(w) == report' = [report EXCEPT ![w] = {}]

\* The book is over for w, and the loop goes on.
NextBook(w) ==
    /\ pc' = [pc EXCEPT ![w] = "loop"]
    /\ book' = [book EXCEPT ![w] = None]
    /\ beat' = [beat EXCEPT ![w] = "off"]
    /\ lost' = [lost EXCEPT ![w] = FALSE]
    /\ UNCHANGED <<recent, stop>>

Fault_IngestRaisesUnrecorded(w) ==
    /\ pc[w] = "run"
    /\ NextBook(w)
    /\ UNCHANGED <<table, report, clients, runs>>

\* The pipeline raised: the failure is recorded inside the heartbeat scope.
IngestRaises(w) ==
    /\ pc[w] = "run"
    /\ pc' = [pc EXCEPT ![w] = "except"]
    /\ UNCHANGED <<table, book, recent, stop, beat, lost, report, clients, runs>>

\* The pipeline answered: the heartbeat scope closes.  A beat task that died
\* re-raises there and ends the loop; a lost claim drops the result.
IngestAnswers(w) ==
    /\ pc[w] = "run"
    /\ \/ /\ beat[w] = "raised"
          /\ LoopEnds(w)
          /\ ReportLost(w)
       \/ /\ beat[w] # "raised" /\ lost[w]
          /\ NextBook(w)
          /\ UNCHANGED report
       \/ /\ beat[w] # "raised" /\ ~lost[w]
          /\ \E next \in {"settle_done", "settle_fail"} : pc' = [pc EXCEPT ![w] = next]
          /\ beat' = [beat EXCEPT ![w] = "off"]
          /\ UNCHANGED <<book, recent, stop, lost, report>>
    /\ UNCHANGED <<table, clients, runs>>

\* FINISH: a row no longer ours stays as it is and is not reported done.
SettleDone(w) ==
    /\ pc[w] = "settle_done"
    /\ LET r == book[w] IN
         IF Holds(w, r)
         THEN /\ status' = [status EXCEPT ![r] = "done"]
              /\ holder' = [holder EXCEPT ![r] = None]
              /\ lease' = [lease EXCEPT ![r] = "none"]
              /\ report' = [report EXCEPT ![w] = @ \cup {<<r, "done">>}]
         ELSE UNCHANGED <<status, holder, lease, report>>
    /\ NextBook(w)
    /\ UNCHANGED <<attempts, cap, hash, started, clients, runs>>

Fault_CountFailureUnfenced(w, r) ==
    IF status[r] = "running"
    THEN /\ status' = [status EXCEPT ![r] = AfterAttempt(r)]
         /\ attempts' = [attempts EXCEPT ![r] = @ + 1]
         /\ holder' = [holder EXCEPT ![r] = None]
         /\ lease' = [lease EXCEPT ![r] = "none"]
    ELSE UNCHANGED <<status, attempts, holder, lease>>
\* FAIL, on a row that may no longer be ours.
CountFailure(w, r) ==
    IF Holds(w, r)
    THEN /\ status' = [status EXCEPT ![r] = AfterAttempt(r)]
         /\ attempts' = [attempts EXCEPT ![r] = @ + 1]
         /\ holder' = [holder EXCEPT ![r] = None]
         /\ lease' = [lease EXCEPT ![r] = "none"]
    ELSE UNCHANGED <<status, attempts, holder, lease>>

Fault_FailureOutcomeUnheld(w, r) ==
    IF AfterAttempt(r) = "failed" THEN {<<r, "failed">>} ELSE {}
\* The outcome _record_failure reports, when it is not "pending".
FailureOutcome(w, r) ==
    IF Holds(w, r) /\ AfterAttempt(r) = "failed" THEN {<<r, "failed">>} ELSE {}

SettleFail(w) ==
    /\ pc[w] = "settle_fail"
    /\ CountFailure(w, book[w])
    /\ report' = [report EXCEPT ![w] = @ \cup FailureOutcome(w, book[w])]
    /\ NextBook(w)
    /\ UNCHANGED <<cap, hash, started, clients, runs>>

\* FAIL, then the heartbeat scope closes: a beat task that died re-raises
\* there, and the outcome is lost with the loop.
SettleExcept(w) ==
    /\ pc[w] = "except"
    /\ CountFailure(w, book[w])
    /\ \/ /\ beat[w] = "raised"
          /\ LoopEnds(w)
          /\ ReportLost(w)
       \/ /\ beat[w] # "raised"
          /\ NextBook(w)
          /\ report' = [report EXCEPT ![w] = @ \cup FailureOutcome(w, book[w])]
    /\ UNCHANGED <<cap, hash, started, clients, runs>>

\* watch() ends between passes on the stop flag; a single drain ends after one.
Leave(w) ==
    /\ w \notin Persistent
    /\ pc[w] = "idle"
    /\ LoopEnds(w)
    /\ UNCHANGED <<table, report, clients, runs>>

\* The process dies, the task is cancelled after the grace period, or a store
\* error ends the loop: a claimed row stays running, and no report is printed.
Crash(w) ==
    /\ w \notin Persistent
    /\ pc[w] \notin {"off", "idle", "gone"}
    /\ LoopEnds(w)
    /\ ReportLost(w)
    /\ UNCHANGED <<table, clients, runs>>

\* stale_lease_seconds pass without a heartbeat.
LeaseAges(r) ==
    /\ status[r] = "running"
    /\ lease[r] = "fresh"
    /\ lease' = [lease EXCEPT ![r] = "stale"]
    /\ UNCHANGED <<status, attempts, cap, hash, holder, started,
                   procs, clients, runs>>

----------------------------------------------------------------------------
ClientStep(c) ==
    \/ Enqueue(c)
    \/ AnswerTwin(c)
    \/ ProbeMisses(c)
    \/ Insert(c)
    \/ InsertConflicts(c)
    \/ RereadMisses(c)

\* What the loop does by itself, as opposed to what is done to it.
LoopStep(w) ==
    \/ Start(w)
    \/ StartPass(w)
    \/ ReclaimStale(w)
    \/ Claim(w)
    \/ EndPass(w)
    \/ Release(w)
    \/ BeginRun(w)
    \/ IngestRaises(w)
    \/ IngestAnswers(w)
    \/ SettleDone(w)
    \/ SettleFail(w)
    \/ SettleExcept(w)

WorkerStep(w) ==
    \/ LoopStep(w)
    \/ RequestStop(w)
    \/ Beat(w)
    \/ BeatRaises(w)
    \/ Leave(w)
    \/ Crash(w)

RowStep(r) ==
    \/ Cancel(r)
    \/ LeaseAges(r)

Next ==
    \/ \E c \in Client : ClientStep(c)
    \/ \E w \in Worker : WorkerStep(w)
    \/ \E r \in RowId : RowStep(r)

Spec == Init /\ [][Next]_vars

(* The event loop runs every ready task, the pipeline answers or raises in the
   end, a persistent worker goes on from pass to pass, and time passes: the
   lease of a row that no live task beats for grows stale.                   *)
BeatenFor(r) == \E w \in Worker : book[w] = r /\ Holds(w, r) /\ beat[w] = "on"

Fairness ==
    /\ \A w \in Worker : WF_vars(LoopStep(w))
    /\ \A w \in Worker : WF_vars(Beat(w))
    /\ \A r \in RowId : WF_vars(LeaseAges(r) /\ ~BeatenFor(r))

FairSpec == Spec /\ Fairness

----------------------------------------------------------------------------
(* Safety.                                                                   *)

\* However enqueues, settles, releases and reclaims interleave, a tenant never
\* has two active rows for one content hash (the promise of queue-enqueue).
OneActivePerHash ==
    \A r, q \in RowId :
        r # q /\ status[r] \in Active /\ status[q] \in Active => hash[r] # hash[q]

\* The retry cap is exact: attempts never pass max_attempts, a row is failed
\* exactly when they are spent, and no row still to be run has spent them,
\* whichever mix of failures (FAIL) and lost leases (RECLAIM_STALE) spent them.
RetriesBounded ==
    \A r \in RowId : status[r] # "absent" =>
        attempts[r] <= cap[r] /\ (status[r] = "failed" <=> attempts[r] = cap[r])

\* No run is counted twice or lost: every claim of a row that was not given
\* back has cost one attempt, or is the live one, the one that finished it, or
\* the one a cancel cut short.  A lease that ran out has cost its attempt as a
\* failure has: so the statement and its comment (sql.py:102) and
\* docs/ADMIN.md:253, and against the docstring of reclaim_stale
\* (store.py:153): "attempts stays: a stale lease is a crash, not a counted
\* failure".
ClaimsAccounted ==
    \A r \in RowId :
        runs[r] = attempts[r]
                  + (IF status[r] \in {"running", "done"}
                        \/ (status[r] = "cancelled" /\ holder[r] # None)
                     THEN 1 ELSE 0)

\* A running row held by a worker whose loop is alive is the book that worker
\* is on, so no worker ever holds two rows or forgets one it holds: only a
\* dead loop leaves a lease behind.
NoForgottenLease ==
    \A w \in Worker, r \in RowId :
        Holds(w, r) /\ pc[w] # "gone" => book[w] = r /\ InPass(w)

\* Dropping the result of a lost claim is safe: once a worker has noted the
\* loss, the row stays out of its hands until it is done with the book.
LostIsFinal ==
    \A w \in Worker :
        lost[w] => ~Holds(w, book[w])

\* The drain reports tell the truth: a row reported done is done, a row
\* reported failed is failed, and no two workers both report one row settled.
ReportHonest ==
    \A w \in Worker, r \in RowId, s \in {"done", "failed"} :
        <<r, s>> \in report[w] =>
            /\ status[r] = s
            /\ \A v \in Worker \ {w} : <<r, s>> \notin report[v]

\* No step of any client or worker, however late, changes a row that is done,
\* failed or cancelled.
TerminalFinal ==
    [][\A r \in RowId : status[r] \in Terminal =>
        /\ status'[r] = status[r] /\ attempts'[r] = attempts[r]
        /\ holder'[r] = holder[r] /\ lease'[r] = lease[r] /\ hash'[r] = hash[r]]_vars

\* Fencing: a worker that goes on with a book after its lease was reclaimed
\* changes nothing when it is done with it, not even when the row has been
\* claimed again meanwhile.
OnlyHolderSettles ==
    [][\A w \in Worker, r \in RowId :
        book[w] = r /\ book'[w] # r /\ ~Holds(w, r) =>
            /\ status'[r] = status[r] /\ attempts'[r] = attempts[r]
            /\ holder'[r] = holder[r] /\ lease'[r] = lease[r]]_vars

\* An enqueue is refused with a ConflictError only when a row with its hash has
\* ended while the call was under way: one that has ended now and had not when
\* the call began.  No row that ended before ever makes a call fail.  (The text
\* of the error, store.py:118, says it "was cancelled"; done and failed end it, too.)
ConflictMeansTwinEnded ==
    [][\A c \in Client : cpc[c] # "conflict" /\ cpc'[c] = "conflict" =>
        \E r \in Ended(want[c]) : r \notin over[c]]_vars

----------------------------------------------------------------------------
(* What the queue promises its callers, with workers and leases hidden.      *)

Orders == INSTANCE WorkOrder WITH
    Order <- RowId, Key <- Hash, Allowance <- Caps, NoKey <- None,
    phase <- status, spent <- attempts, allowed <- cap, key <- hash

Implements == Orders!Spec

\* Every row accepted into the queue ends: it is done, failed or cancelled.
EveryRowEnds == Orders!EveryOrderEnds
=============================================================================
