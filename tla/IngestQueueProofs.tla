-------------------------- MODULE IngestQueueProofs --------------------------
(***************************************************************************)
(* Machine-checked theorems about IngestQueue, for every set of workers,   *)
(* clients and hashes, every number of rows and every choice of retry caps. *)
(***************************************************************************)
EXTENDS IngestQueue, TLAPS

----------------------------------------------------------------------------
(* Type correctness, one lemma per part of the state.                        *)

\* A counted attempt leaves the row pending or failed.
LEMMA AfterAttemptStatus ==
    \A r \in RowId : AfterAttempt(r) \in {"pending", "failed"}
BY DEF AfterAttempt

\* FAIL keeps the types of the columns it writes, whether or not it matches.
LEMMA CountFailureTyped ==
    ASSUME TableOK, NEW w \in Worker, NEW r \in RowId, CountFailure(w, r)
    PROVE  /\ status' \in [RowId -> Status]
           /\ attempts' \in [RowId -> Nat]
           /\ holder' \in [RowId -> Worker \cup {None}]
           /\ lease' \in [RowId -> {"none", "fresh", "stale"}]
<1>1. CASE Holds(w, r)
  BY <1>1, AfterAttemptStatus DEF CountFailure, TableOK, Status, Active, Terminal
<1>2. CASE ~Holds(w, r)
  BY <1>2 DEF CountFailure, TableOK
<1> QED
  BY <1>1, <1>2

\* Going on to the next book, and ending, leave the loop variables well typed.
LEMMA NextBookOK ==
    ASSUME LoopOK, NEW w \in Worker, NextBook(w) PROVE LoopOK'
BY QueueAssumption DEF LoopOK, NextBook, WorkerState, OnBook, RowId

LEMMA LoopEndsOK ==
    ASSUME LoopOK, NEW w \in Worker, LoopEnds(w) PROVE LoopOK'
BY QueueAssumption DEF LoopOK, LoopEnds, WorkerState, OnBook, RowId

\* The table keeps its type under every worker step.
LEMMA TableTyped ==
    ASSUME TypeOK, NEW w \in Worker, WorkerStep(w) PROVE TableOK'
<1> USE AfterAttemptStatus
    DEF Status, Active, Terminal, TypeOK, TableOK, table
<1>0. pc[w] \in OnBook => book[w] \in RowId
  BY DEF LoopOK
<1>1. CASE Start(w) BY <1>1 DEF Start
<1>2. CASE RequestStop(w) BY <1>2 DEF RequestStop
<1>3. CASE StartPass(w) BY <1>3 DEF StartPass
<1>4. CASE ReclaimStale(w) BY <1>4 DEF ReclaimStale, StaleRows
<1>5. CASE Claim(w) BY <1>5 DEF Claim, Oldest, Claimable
<1>6. CASE EndPass(w) BY <1>6 DEF EndPass
<1>7. CASE Release(w)
  <2>1. book[w] \in RowId
    BY <1>0, <1>7 DEF Release, OnBook
  <2>2. CASE Holds(w, book[w])
    BY <1>7, <2>1, <2>2 DEF Release
  <2>3. CASE ~Holds(w, book[w])
    BY <1>7, <2>3 DEF Release
  <2> QED BY <2>2, <2>3
<1>8. CASE BeginRun(w) BY <1>8 DEF BeginRun
<1>9. CASE Beat(w)
  <2>1. book[w] \in RowId
    BY <1>0, <1>9 DEF Beat, OnBook
  <2> QED BY <1>9, <2>1 DEF Beat
<1>10. CASE BeatRaises(w) BY <1>10 DEF BeatRaises
<1>11. CASE IngestRaises(w) BY <1>11 DEF IngestRaises
<1>12. CASE IngestAnswers(w) BY <1>12 DEF IngestAnswers
<1>13. CASE SettleDone(w)
  <2>1. book[w] \in RowId
    BY <1>0, <1>13 DEF SettleDone, OnBook
  <2>2. CASE Holds(w, book[w])
    BY <1>13, <2>1, <2>2 DEF SettleDone
  <2>3. CASE ~Holds(w, book[w])
    BY <1>13, <2>3 DEF SettleDone
  <2> QED BY <2>2, <2>3
<1>14. CASE SettleFail(w)
  <2>1. book[w] \in RowId
    BY <1>0, <1>14 DEF SettleFail, OnBook
  <2>2. CountFailure(w, book[w]) /\ UNCHANGED <<cap, hash, started, runs>>
    BY <1>14 DEF SettleFail
  <2> QED BY <2>1, <2>2, CountFailureTyped
<1>15. CASE SettleExcept(w)
  <2>1. book[w] \in RowId
    BY <1>0, <1>15 DEF SettleExcept, OnBook
  <2>2. CountFailure(w, book[w]) /\ UNCHANGED <<cap, hash, started, runs>>
    BY <1>15 DEF SettleExcept
  <2> QED BY <2>1, <2>2, CountFailureTyped
<1>16. CASE Leave(w) BY <1>16 DEF Leave
<1>17. CASE Crash(w) BY <1>17 DEF Crash
<1> QED
  BY <1>1, <1>2, <1>3, <1>4, <1>5, <1>6, <1>7, <1>8, <1>9, <1>10, <1>11, <1>12,
     <1>13, <1>14, <1>15, <1>16, <1>17 DEF WorkerStep, LoopStep

\* The loop variables keep their types, and a worker has a book exactly where
\* its loop is at work on one.
LEMMA LoopTyped ==
    ASSUME TypeOK, NEW w \in Worker, WorkerStep(w) PROVE LoopOK'
<1> USE QueueAssumption DEF RowId, WorkerState, OnBook, TypeOK, LoopOK
<1>1. CASE Start(w) BY <1>1 DEF Start
<1>2. CASE RequestStop(w) BY <1>2 DEF RequestStop
<1>3. CASE StartPass(w) BY <1>3 DEF StartPass
<1>4. CASE ReclaimStale(w) BY <1>4 DEF ReclaimStale
<1>5. CASE Claim(w) BY <1>5 DEF Claim, Oldest, Claimable
<1>6. CASE EndPass(w) BY <1>6 DEF EndPass
<1>7. CASE Release(w) BY <1>7 DEF Release
<1>8. CASE BeginRun(w) BY <1>8 DEF BeginRun
<1>9. CASE Beat(w) BY <1>9 DEF Beat
<1>10. CASE BeatRaises(w) BY <1>10 DEF BeatRaises
<1>11. CASE IngestRaises(w) BY <1>11 DEF IngestRaises
<1>12. CASE IngestAnswers(w)
  <2>1. CASE LoopEnds(w) BY <2>1, LoopEndsOK
  <2>2. CASE NextBook(w) BY <2>2, NextBookOK
  <2>3. CASE \E next \in {"settle_done", "settle_fail"} :
               /\ pc' = [pc EXCEPT ![w] = next]
               /\ beat' = [beat EXCEPT ![w] = "off"]
               /\ UNCHANGED <<book, recent, stop, lost, report>>
    BY <1>12, <2>3 DEF IngestAnswers
  <2> QED BY <1>12, <2>1, <2>2, <2>3 DEF IngestAnswers
<1>13. CASE SettleDone(w) BY <1>13, NextBookOK DEF SettleDone
<1>14. CASE SettleFail(w) BY <1>14, NextBookOK DEF SettleFail
<1>15. CASE SettleExcept(w) BY <1>15, NextBookOK, LoopEndsOK DEF SettleExcept
<1>16. CASE Leave(w) BY <1>16, LoopEndsOK DEF Leave
<1>17. CASE Crash(w) BY <1>17, LoopEndsOK DEF Crash
<1> QED
  BY <1>1, <1>2, <1>3, <1>4, <1>5, <1>6, <1>7, <1>8, <1>9, <1>10, <1>11, <1>12,
     <1>13, <1>14, <1>15, <1>16, <1>17 DEF WorkerStep, LoopStep

\* The watermark sets and the reports keep their types.
LEMMA PassTyped ==
    ASSUME TypeOK, NEW w \in Worker, WorkerStep(w) PROVE PassOK'
<1> USE DEF TypeOK, PassOK, LoopOK, OnBook
<1>1. CASE Start(w) BY <1>1 DEF Start
<1>2. CASE RequestStop(w) BY <1>2 DEF RequestStop
<1>3. CASE StartPass(w) BY <1>3 DEF StartPass
<1>4. CASE ReclaimStale(w) BY <1>4 DEF ReclaimStale, StaleRows
<1>5. CASE Claim(w) BY <1>5 DEF Claim, Oldest, Claimable
<1>6. CASE EndPass(w) BY <1>6 DEF EndPass
<1>7. CASE Release(w) BY <1>7 DEF Release
<1>8. CASE BeginRun(w) BY <1>8 DEF BeginRun
<1>9. CASE Beat(w) BY <1>9 DEF Beat
<1>10. CASE BeatRaises(w) BY <1>10 DEF BeatRaises
<1>11. CASE IngestRaises(w) BY <1>11 DEF IngestRaises
<1>12. CASE IngestAnswers(w)
  BY <1>12 DEF IngestAnswers, LoopEnds, NextBook, ReportLost
<1>13. CASE SettleDone(w) BY <1>13 DEF SettleDone, NextBook
<1>14. CASE SettleFail(w) BY <1>14 DEF SettleFail, FailureOutcome, NextBook
<1>15. CASE SettleExcept(w)
  BY <1>15 DEF SettleExcept, FailureOutcome, NextBook, LoopEnds, ReportLost
<1>16. CASE Leave(w) BY <1>16 DEF Leave, LoopEnds
<1>17. CASE Crash(w) BY <1>17 DEF Crash, LoopEnds, ReportLost
<1> QED
  BY <1>1, <1>2, <1>3, <1>4, <1>5, <1>6, <1>7, <1>8, <1>9, <1>10, <1>11, <1>12,
     <1>13, <1>14, <1>15, <1>16, <1>17 DEF WorkerStep, LoopStep

\* No worker step touches the clients.
LEMMA WorkersLeaveClients ==
    ASSUME NEW w \in Worker, WorkerStep(w) PROVE UNCHANGED clients
BY DEF WorkerStep, LoopStep, Start, RequestStop, StartPass, ReclaimStale, Claim, EndPass,
       Release, BeginRun, Beat, BeatRaises, IngestRaises, IngestAnswers, SettleDone,
       SettleFail, SettleExcept, Leave, Crash

\* A client step keeps every type.
LEMMA ClientTyped ==
    ASSUME TypeOK, NEW c \in Client, ClientStep(c) PROVE TypeOK'
<1> USE QueueAssumption
    DEF TypeOK, TableOK, LoopOK, PassOK, ClientOK, Status, Active, ClientState, table, procs
<1>1. CASE Enqueue(c) BY <1>1 DEF Enqueue, Ended
<1>2. CASE AnswerTwin(c) BY <1>2 DEF AnswerTwin, Answered
<1>3. CASE ProbeMisses(c) BY <1>3 DEF ProbeMisses
<1>4. CASE Insert(c)
  <2>1. want[c] \in Hash
    BY <1>4 DEF Insert
  <2>2. PICK r \in RowId, m \in Caps :
          /\ status' = [status EXCEPT ![r] = "pending"]
          /\ cap' = [cap EXCEPT ![r] = m]
          /\ hash' = [hash EXCEPT ![r] = want[c]]
    BY <1>4 DEF Insert, Oldest
  <2>3. TableOK'
    BY <1>4, <2>1, <2>2 DEF Insert
  <2>4. LoopOK' /\ PassOK'
    BY <1>4 DEF Insert
  <2>5. ClientOK'
    BY <1>4 DEF Insert, Answered
  <2> QED BY <2>3, <2>4, <2>5
<1>5. CASE InsertConflicts(c) BY <1>5 DEF InsertConflicts
<1>6. CASE RereadMisses(c) BY <1>6 DEF RereadMisses
<1> QED
  BY <1>1, <1>2, <1>3, <1>4, <1>5, <1>6 DEF ClientStep

\* Every variable keeps its type: no statement writes an unknown status, holder
\* or lease, and no drain loop leaves the states of drain_once and _run_book.
THEOREM TypeCorrect == Spec => []TypeOK
<1>1. Init => TypeOK
  BY QueueAssumption
  DEF Init, TypeOK, TableOK, LoopOK, PassOK, ClientOK, Status, WorkerState, ClientState,
      OnBook, RowId
<1>2. TypeOK /\ [Next]_vars => TypeOK'
  <2> SUFFICES ASSUME TypeOK, [Next]_vars PROVE TypeOK'
    OBVIOUS
  <2>1. ASSUME NEW c \in Client, ClientStep(c) PROVE TypeOK'
    BY <2>1, ClientTyped
  <2>2. ASSUME NEW w \in Worker, WorkerStep(w) PROVE TypeOK'
    <3>1. ClientOK'
      BY <2>2, WorkersLeaveClients DEF TypeOK, ClientOK, clients
    <3> QED
      BY <2>2, <3>1, TableTyped, LoopTyped, PassTyped DEF TypeOK
  <2>3. ASSUME NEW r \in RowId, RowStep(r) PROVE TypeOK'
    BY <2>3
    DEF RowStep, Cancel, LeaseAges, TypeOK, TableOK, LoopOK, PassOK, ClientOK,
        Status, Active, Terminal, table, procs, clients
  <2>4. CASE UNCHANGED vars
    BY <2>4
    DEF vars, TypeOK, TableOK, LoopOK, PassOK, ClientOK, table, procs, clients
  <2> QED
    BY <2>1, <2>2, <2>3, <2>4 DEF Next
<1> QED
  BY <1>1, <1>2, PTL DEF Spec

----------------------------------------------------------------------------
(* What one worker step does to the rows, with the loop's own state left out. *)

SameRows == UNCHANGED <<status, attempts, cap, hash, holder, runs>>

Taken(w, r) ==
    /\ status[r] = "pending"
    /\ status' = [status EXCEPT ![r] = "running"]
    /\ holder' = [holder EXCEPT ![r] = w]
    /\ runs' = [runs EXCEPT ![r] = @ + 1]
    /\ UNCHANGED <<attempts, cap, hash>>

GivenBack(w, r) ==
    /\ Holds(w, r)
    /\ status' = [status EXCEPT ![r] = "pending"]
    /\ holder' = [holder EXCEPT ![r] = None]
    /\ runs' = [runs EXCEPT ![r] = @ - 1]
    /\ UNCHANGED <<attempts, cap, hash>>

Completed(w, r) ==
    /\ Holds(w, r)
    /\ status' = [status EXCEPT ![r] = "done"]
    /\ holder' = [holder EXCEPT ![r] = None]
    /\ UNCHANGED <<attempts, cap, hash, runs>>

Failed(w, r) ==
    /\ Holds(w, r)
    /\ status' = [status EXCEPT ![r] = AfterAttempt(r)]
    /\ attempts' = [attempts EXCEPT ![r] = @ + 1]
    /\ holder' = [holder EXCEPT ![r] = None]
    /\ UNCHANGED <<cap, hash, runs>>

Reclaimed ==
    /\ status' = [r \in RowId |-> IF r \in StaleRows THEN AfterAttempt(r) ELSE status[r]]
    /\ attempts' = [r \in RowId |-> IF r \in StaleRows THEN attempts[r] + 1 ELSE attempts[r]]
    /\ holder' = [r \in RowId |-> IF r \in StaleRows THEN None ELSE holder[r]]
    /\ UNCHANGED <<cap, hash, runs>>

OneRow(w, r) == Taken(w, r) \/ GivenBack(w, r) \/ Completed(w, r) \/ Failed(w, r)

\* A worker step leaves the rows alone, moves one row, or reclaims.
LEMMA WorkerEffect ==
    ASSUME TypeOK, NEW w \in Worker, WorkerStep(w)
    PROVE  SameRows \/ Reclaimed \/ \E r \in RowId : OneRow(w, r)
<1> USE DEF SameRows, table
<1>0. pc[w] \in OnBook => book[w] \in RowId
  BY DEF TypeOK, LoopOK
<1>1. CASE Start(w) BY <1>1 DEF Start
<1>2. CASE RequestStop(w) BY <1>2 DEF RequestStop
<1>3. CASE StartPass(w) BY <1>3 DEF StartPass
<1>4. CASE ReclaimStale(w) BY <1>4 DEF ReclaimStale, Reclaimed
<1>5. CASE Claim(w) BY <1>5 DEF Claim, Oldest, Claimable, OneRow, Taken
<1>6. CASE EndPass(w) BY <1>6 DEF EndPass
<1>7. CASE Release(w) BY <1>0, <1>7 DEF Release, OneRow, GivenBack, OnBook
<1>8. CASE BeginRun(w) BY <1>8 DEF BeginRun
<1>9. CASE Beat(w) BY <1>9 DEF Beat
<1>10. CASE BeatRaises(w) BY <1>10 DEF BeatRaises
<1>11. CASE IngestRaises(w) BY <1>11 DEF IngestRaises
<1>12. CASE IngestAnswers(w) BY <1>12 DEF IngestAnswers
<1>13. CASE SettleDone(w) BY <1>0, <1>13 DEF SettleDone, OneRow, Completed, OnBook
<1>14. CASE SettleFail(w)
  BY <1>0, <1>14 DEF SettleFail, CountFailure, OneRow, Failed, OnBook
<1>15. CASE SettleExcept(w)
  BY <1>0, <1>15 DEF SettleExcept, CountFailure, OneRow, Failed, OnBook
<1>16. CASE Leave(w) BY <1>16 DEF Leave
<1>17. CASE Crash(w) BY <1>17 DEF Crash
<1> QED
  BY <1>1, <1>2, <1>3, <1>4, <1>5, <1>6, <1>7, <1>8, <1>9, <1>10, <1>11, <1>12,
     <1>13, <1>14, <1>15, <1>16, <1>17 DEF WorkerStep, LoopStep

----------------------------------------------------------------------------
(* The invariant of the rows.  RetriesBounded and ClaimsAccounted are not     *)
(* inductive alone: a row not yet inserted must have no attempts, a row that  *)
(* may still be run must have an attempt left, and only a running or a        *)
(* cancelled row may have a holder.                                           *)

RowInv(r) ==
    /\ status[r] = "absent" => attempts[r] = 0
    /\ status[r] \in {"pending", "running", "done", "cancelled"} => attempts[r] < cap[r]
    /\ status[r] = "failed" => attempts[r] = cap[r]
    /\ status[r] = "running" => holder[r] # None
    /\ status[r] \in {"absent", "pending", "done", "failed"} => holder[r] = None
    /\ runs[r] = attempts[r]
                 + (IF status[r] \in {"running", "done"}
                       \/ (status[r] = "cancelled" /\ holder[r] # None)
                    THEN 1 ELSE 0)

RowsInv == \A r \in RowId : RowInv(r)

LEMMA OneRowInv ==
    ASSUME TypeOK, RowsInv, NEW w \in Worker, NEW r \in RowId, OneRow(w, r)
    PROVE  RowsInv'
<1> USE QueueAssumption DEF TypeOK, TableOK, Status, Active, Terminal
<1> SUFFICES ASSUME NEW q \in RowId PROVE RowInv(q)'
  BY DEF RowsInv
<1>1. RowInv(q)
  BY DEF RowsInv
<1>2. CASE Taken(w, r) BY <1>1, <1>2 DEF Taken, RowInv
<1>3. CASE GivenBack(w, r) BY <1>1, <1>3 DEF GivenBack, Holds, RowInv
<1>4. CASE Completed(w, r) BY <1>1, <1>4 DEF Completed, Holds, RowInv
<1>5. CASE Failed(w, r) BY <1>1, <1>5 DEF Failed, Holds, AfterAttempt, RowInv
<1> QED BY <1>2, <1>3, <1>4, <1>5 DEF OneRow

LEMMA ReclaimedInv ==
    ASSUME TypeOK, RowsInv, Reclaimed PROVE RowsInv'
<1> USE DEF TypeOK, TableOK, Status, Active, Terminal
<1> SUFFICES ASSUME NEW q \in RowId PROVE RowInv(q)'
  BY DEF RowsInv
<1>1. RowInv(q)
  BY DEF RowsInv
<1>2. CASE q \in StaleRows
  BY <1>1, <1>2 DEF Reclaimed, StaleRows, AfterAttempt, RowInv
<1>3. CASE q \notin StaleRows
  BY <1>1, <1>3 DEF Reclaimed, RowInv
<1> QED BY <1>2, <1>3

LEMMA ClientRowsInv ==
    ASSUME TypeOK, RowsInv, NEW c \in Client, ClientStep(c) PROVE RowsInv'
<1>1. CASE Insert(c)
  <2>1. PICK r \in RowId, m \in Caps :
          /\ status[r] = "absent"
          /\ status' = [status EXCEPT ![r] = "pending"]
          /\ cap' = [cap EXCEPT ![r] = m]
    BY <1>1 DEF Insert, Oldest
  <2>2. UNCHANGED <<attempts, holder, runs>>
    BY <1>1 DEF Insert
  <2>3. m \in Nat /\ m > 0
    BY QueueAssumption
  <2> SUFFICES ASSUME NEW q \in RowId PROVE RowInv(q)'
    BY DEF RowsInv
  <2> QED BY <2>1, <2>2, <2>3 DEF RowsInv, RowInv, TypeOK, TableOK
<1>2. CASE ~Insert(c)
  <2>1. SameRows
    BY <1>2 DEF ClientStep, Enqueue, AnswerTwin, ProbeMisses, InsertConflicts, RereadMisses,
       SameRows, table
  <2> QED BY <2>1 DEF RowsInv, RowInv, SameRows
<1> QED BY <1>1, <1>2

\* The row invariant holds in every reachable state.
LEMMA RowsInvariant == Spec => [](TypeOK /\ RowsInv)
<1>1. Init => RowsInv
  BY DEF Init, RowsInv, RowInv
<1>2. TypeOK /\ RowsInv /\ [Next]_vars => RowsInv'
  <2> SUFFICES ASSUME TypeOK, RowsInv, [Next]_vars PROVE RowsInv'
    OBVIOUS
  <2>1. ASSUME NEW c \in Client, ClientStep(c) PROVE RowsInv'
    BY <2>1, ClientRowsInv
  <2>2. ASSUME NEW w \in Worker, WorkerStep(w) PROVE RowsInv'
    <3>1. CASE SameRows BY <3>1 DEF SameRows, RowsInv, RowInv
    <3> QED BY <2>2, <3>1, WorkerEffect, ReclaimedInv, OneRowInv
  <2>3. ASSUME NEW r \in RowId, RowStep(r) PROVE RowsInv'
    <3>1. CASE Cancel(r)
      BY <3>1 DEF Cancel, RowsInv, RowInv, Active, TypeOK, TableOK
    <3>2. CASE LeaseAges(r)
      BY <3>2 DEF LeaseAges, RowsInv, RowInv
    <3> QED BY <2>3, <3>1, <3>2 DEF RowStep
  <2>4. CASE UNCHANGED vars
    BY <2>4 DEF vars, table, RowsInv, RowInv
  <2> QED BY <2>1, <2>2, <2>3, <2>4 DEF Next
<1> QED
  BY <1>1, <1>2, TypeCorrect, PTL DEF Spec

\* The retry cap is exact, whichever mix of failures and lost leases spends it.
THEOREM RetriesAreBounded == Spec => []RetriesBounded
<1>1. TypeOK /\ RowsInv => RetriesBounded
  BY DEF TypeOK, TableOK, RowsInv, RowInv, RetriesBounded, Status, Active, Terminal
<1> QED
  BY <1>1, RowsInvariant, PTL

\* Every claim is accounted for, once.
THEOREM ClaimsAreAccounted == Spec => []ClaimsAccounted
<1>1. RowsInv => ClaimsAccounted
  BY DEF RowsInv, RowInv, ClaimsAccounted
<1> QED
  BY <1>1, RowsInvariant, PTL

----------------------------------------------------------------------------
(* One active row per content hash.                                          *)

\* However enqueues race and rows go back and forth, a hash has one active row.
THEOREM OneActiveRowPerHash == Spec => []OneActivePerHash
<1>1. Init => OneActivePerHash
  BY DEF Init, OneActivePerHash, Active
<1>2. TypeOK /\ RowsInv /\ OneActivePerHash /\ [Next]_vars => OneActivePerHash'
  <2> SUFFICES ASSUME TypeOK, RowsInv, OneActivePerHash, [Next]_vars
               PROVE  OneActivePerHash'
    OBVIOUS
  <2> USE DEF OneActivePerHash, TypeOK, TableOK, Active
  <2>1. CASE /\ hash' = hash
             /\ \A r \in RowId : status'[r] \in Active => status[r] \in Active
    BY <2>1
  <2>2. ASSUME NEW c \in Client, Insert(c) PROVE OneActivePerHash'
    <3>1. ActiveTwins(want[c]) = {}
      BY <2>2 DEF Insert
    <3>2. PICK r \in RowId :
            /\ status' = [status EXCEPT ![r] = "pending"]
            /\ hash' = [hash EXCEPT ![r] = want[c]]
      BY <2>2 DEF Insert, Oldest
    <3> QED BY <3>1, <3>2 DEF ActiveTwins
  <2>3. ASSUME NEW c \in Client, ClientStep(c), ~Insert(c) PROVE OneActivePerHash'
    BY <2>1, <2>3 DEF ClientStep, Enqueue, AnswerTwin, ProbeMisses, InsertConflicts,
       RereadMisses, table
  <2>4. ASSUME NEW w \in Worker, WorkerStep(w) PROVE OneActivePerHash'
    <3>1. CASE SameRows BY <2>1, <3>1 DEF SameRows
    <3>2. CASE Reclaimed BY <2>1, <3>2 DEF Reclaimed, StaleRows
    <3>3. CASE \E r \in RowId : OneRow(w, r)
      BY <2>1, <3>3 DEF OneRow, Taken, GivenBack, Completed, Failed, Holds
    <3> QED BY <2>4, <3>1, <3>2, <3>3, WorkerEffect
  <2>5. ASSUME NEW r \in RowId, RowStep(r) PROVE OneActivePerHash'
    BY <2>1, <2>5 DEF RowStep, Cancel, LeaseAges
  <2>6. CASE UNCHANGED vars
    BY <2>1, <2>6 DEF vars, table
  <2> QED BY <2>2, <2>3, <2>4, <2>5, <2>6 DEF Next
<1> QED
  BY <1>1, <1>2, RowsInvariant, PTL DEF Spec

----------------------------------------------------------------------------
(* Leases.  NoForgottenLease needs LostIsFinal (the loop drops a lost book)   *)
(* and that a loss is noted only while the book runs.                        *)

LossNoted == \A w \in Worker : lost[w] => pc[w] \in {"run", "except"}

LeaseInv == NoForgottenLease /\ LostIsFinal /\ LossNoted

\* No row comes into a worker's hands.
NoNewHolds == \A v \in Worker, r \in RowId : Holds(v, r)' => Holds(v, r)

\* Steps that change neither a loop's place nor its book, and hand over no row.
LEMMA LeaseKept ==
    ASSUME TypeOK, LeaseInv, NoNewHolds, UNCHANGED <<pc, book, lost>>
    PROVE  LeaseInv'
<1>1. NoForgottenLease'
  BY DEF LeaseInv, NoForgottenLease, NoNewHolds, InPass
<1>2. ASSUME NEW w \in Worker, lost'[w] PROVE ~Holds(w, book[w])'
  <2>1. pc[w] \in OnBook
    BY <1>2 DEF LeaseInv, LossNoted, OnBook
  <2>2. book[w] \in RowId
    BY <2>1 DEF TypeOK, LoopOK
  <2> QED BY <1>2, <2>2 DEF LeaseInv, LostIsFinal, NoNewHolds, Holds
<1>3. LossNoted'
  BY DEF LeaseInv, LossNoted
<1> QED BY <1>2, <1>1, <1>3 DEF LeaseInv, LostIsFinal

\* A worker that is done with its book, no longer in its hands, forgets nothing.
LEMMA BookDropped ==
    ASSUME TypeOK, LeaseInv, NEW w \in Worker, NoNewHolds, NEW next \in WorkerState,
           pc' = [pc EXCEPT ![w] = next],
           book' = [book EXCEPT ![w] = None],
           lost' = [lost EXCEPT ![w] = FALSE],
           pc[w] # "gone", \A r \in RowId : book[w] = r => ~Holds(w, r)'
    PROVE  LeaseInv'
<1>1. /\ pc' = [pc EXCEPT ![w] = next]
      /\ book' = [book EXCEPT ![w] = None]
      /\ lost' = [lost EXCEPT ![w] = FALSE]
  OBVIOUS
<1>2. NoForgottenLease'
  <2> SUFFICES ASSUME NEW v \in Worker, NEW r \in RowId, Holds(v, r)', pc'[v] # "gone"
               PROVE  book'[v] = r /\ InPass(v)'
    BY DEF NoForgottenLease
  <2>1. CASE v = w
    <3>1. Holds(w, r) /\ pc[w] # "gone"
      BY <2>1 DEF NoNewHolds
    <3>2. book[w] = r
      BY <3>1 DEF LeaseInv, NoForgottenLease
    <3> QED BY <2>1, <3>2
  <2>2. CASE v # w
    BY <1>1, <2>2 DEF TypeOK, LoopOK, LeaseInv, NoForgottenLease, NoNewHolds, InPass
  <2> QED BY <2>1, <2>2
<1>3. LossNoted'
  BY <1>1 DEF LeaseInv, LossNoted, TypeOK, LoopOK
<1>4. ASSUME NEW v \in Worker, lost'[v] PROVE ~Holds(v, book[v])'
  <2>1. v # w /\ lost[v] /\ pc[v] \in OnBook
    BY <1>1, <1>4 DEF TypeOK, LoopOK, LeaseInv, LossNoted, OnBook
  <2>2. book[v] \in RowId /\ book'[v] = book[v]
    BY <1>1, <2>1 DEF TypeOK, LoopOK
  <2> QED BY <2>1, <2>2 DEF LeaseInv, LostIsFinal, NoNewHolds, Holds
<1> QED BY <1>2, <1>3, <1>4 DEF LeaseInv, LostIsFinal

\* A loop that ends leaves its rows behind, which the invariant allows.
LEMMA LoopEnded ==
    ASSUME TypeOK, LeaseInv, NEW w \in Worker, LoopEnds(w), NoNewHolds
    PROVE  LeaseInv'
<1>1. /\ pc' = [pc EXCEPT ![w] = "gone"]
      /\ book' = [book EXCEPT ![w] = None]
      /\ lost' = [lost EXCEPT ![w] = FALSE]
  BY DEF LoopEnds
<1>2. NoForgottenLease'
  BY <1>1 DEF NoForgottenLease, TypeOK, LoopOK, LeaseInv, NoNewHolds, InPass
<1>3. LossNoted'
  BY <1>1 DEF LeaseInv, LossNoted, TypeOK, LoopOK
<1>4. ASSUME NEW v \in Worker, lost'[v] PROVE ~Holds(v, book[v])'
  <2>1. v # w /\ lost[v] /\ pc[v] \in OnBook
    BY <1>1, <1>4 DEF TypeOK, LoopOK, LeaseInv, LossNoted, OnBook
  <2>2. book[v] \in RowId /\ book'[v] = book[v]
    BY <1>1, <2>1 DEF TypeOK, LoopOK
  <2> QED BY <2>1, <2>2 DEF LeaseInv, LostIsFinal, NoNewHolds, Holds
<1> QED BY <1>2, <1>3, <1>4 DEF LeaseInv, LostIsFinal

\* A loop that moves on without a book and without noting a loss.
LEMMA LoopMoved ==
    ASSUME TypeOK, LeaseInv, NEW w \in Worker, NoNewHolds,
           UNCHANGED <<book, lost>>, ~lost[w] \/ pc'[w] \in {"run", "except"},
           \A v \in Worker \ {w} : pc'[v] = pc[v],
           pc[w] # "gone",
           book[w] \in RowId => pc'[w] \notin {"off", "idle", "gone"}
    PROVE  LeaseInv'
<1>1. NoForgottenLease'
  <2> SUFFICES ASSUME NEW v \in Worker, NEW r \in RowId, Holds(v, r)', pc'[v] # "gone"
               PROVE  book'[v] = r /\ InPass(v)'
    BY DEF NoForgottenLease
  <2>1. Holds(v, r) /\ pc[v] # "gone"
    BY DEF NoNewHolds
  <2>2. book[v] = r /\ InPass(v)
    BY <2>1 DEF LeaseInv, NoForgottenLease
  <2> QED BY <2>2 DEF InPass
<1>2. LossNoted'
  BY DEF LeaseInv, LossNoted
<1>3. ASSUME NEW v \in Worker, lost'[v] PROVE ~Holds(v, book[v])'
  <2>1. pc[v] \in OnBook
    BY <1>3 DEF LeaseInv, LossNoted, OnBook
  <2>2. book[v] \in RowId
    BY <2>1 DEF TypeOK, LoopOK
  <2> QED BY <1>3, <2>2 DEF LeaseInv, LostIsFinal, NoNewHolds, Holds
<1> QED BY <1>1, <1>2, <1>3 DEF LeaseInv, LostIsFinal

\* Only Claim puts a row into a worker's hands.
LEMMA OnlyClaimHandsOver ==
    ASSUME TypeOK, NEW w \in Worker, WorkerStep(w), ~Claim(w)
    PROVE  NoNewHolds
<1> USE QueueAssumption DEF NoNewHolds, Holds, TypeOK, TableOK, LoopOK
<1>1. CASE ReclaimStale(w)
  BY <1>1, AfterAttemptStatus DEF ReclaimStale, StaleRows
<1>2. CASE Release(w) BY <1>2 DEF Release, OnBook
<1>3. CASE SettleDone(w) BY <1>3 DEF SettleDone, OnBook
<1>4. CASE SettleFail(w)
  BY <1>4, AfterAttemptStatus DEF SettleFail, CountFailure, OnBook
<1>5. CASE SettleExcept(w)
  BY <1>5, AfterAttemptStatus DEF SettleExcept, CountFailure, OnBook
<1>6. CASE UNCHANGED <<status, holder>>
  BY <1>6
<1> QED
  BY <1>1, <1>2, <1>3, <1>4, <1>5, <1>6
  DEF WorkerStep, LoopStep, Start, RequestStop, StartPass, EndPass, BeginRun, Beat,
      BeatRaises, IngestRaises, IngestAnswers, Leave, Crash, table

\* Every worker step keeps the lease invariant.
LEMMA WorkerLeases ==
    ASSUME TypeOK, LeaseInv, NEW w \in Worker, WorkerStep(w) PROVE LeaseInv'
<1>0. /\ pc[w] \in OnBook <=> book[w] \in RowId
      /\ lost[w] => pc[w] \in {"run", "except"}
      /\ pc \in [Worker -> WorkerState] /\ book \in [Worker -> RowId \cup {None}]
      /\ lost \in [Worker -> BOOLEAN]
  BY DEF TypeOK, LoopOK, LeaseInv, LossNoted
<1>h. ~Claim(w) => NoNewHolds
  BY OnlyClaimHandsOver
<1>1. CASE Claim(w)
  <2>1. PICK r \in RowId :
          /\ status[r] = "pending"
          /\ status' = [status EXCEPT ![r] = "running"]
          /\ holder' = [holder EXCEPT ![r] = w]
          /\ book' = [book EXCEPT ![w] = r]
    BY <1>1 DEF Claim, Oldest, Claimable
  <2>2. /\ pc[w] = "loop"
        /\ pc' = [pc EXCEPT ![w] = "claimed"]
        /\ lost' = lost
    BY <1>1 DEF Claim
  <2>3. book[w] \notin RowId
    BY <1>0, <2>2 DEF OnBook
  <2>4. NoForgottenLease'
    <3> SUFFICES ASSUME NEW v \in Worker, NEW q \in RowId, Holds(v, q)', pc'[v] # "gone"
                 PROVE  book'[v] = q /\ InPass(v)'
      BY DEF NoForgottenLease
    <3>1. CASE q = r
      BY <1>0, <2>1, <2>2, <3>1 DEF Holds, InPass, TypeOK, TableOK
    <3>2. CASE q # r
      <4>1. Holds(v, q)
        BY <2>1, <3>2 DEF Holds, TypeOK, TableOK
      <4>2. book[v] = q /\ InPass(v)
        BY <2>2, <4>1, <1>0 DEF LeaseInv, NoForgottenLease
      <4> QED BY <1>0, <2>1, <2>2, <2>3, <4>2 DEF InPass
    <3> QED BY <3>1, <3>2
  <2>5. LossNoted'
    BY <1>0, <2>2 DEF LeaseInv, LossNoted
  <2>6. ASSUME NEW v \in Worker, lost'[v] PROVE ~Holds(v, book[v])'
    <3>1. v # w /\ lost[v] /\ pc[v] \in OnBook
      BY <1>0, <2>2, <2>6 DEF LeaseInv, LossNoted, OnBook
    <3>2. book[v] \in RowId /\ book'[v] = book[v]
      BY <3>1, <2>1, <1>0 DEF TypeOK, LoopOK
    <3> QED BY <3>1, <3>2, <2>1 DEF LeaseInv, LostIsFinal, Holds, TypeOK, TableOK
  <2> QED BY <2>4, <2>5, <2>6 DEF LeaseInv, LostIsFinal
<1>2. CASE Start(w)
  <2>1. NoNewHolds /\ UNCHANGED <<status, holder, book, lost>>
    BY <1>2 DEF Start, table, NoNewHolds, Holds
  <2>2. pc[w] = "off" /\ pc' = [pc EXCEPT ![w] = "idle"]
    BY <1>2 DEF Start
  <2> QED BY <1>0, <2>1, <2>2, LoopMoved DEF OnBook
<1>3. CASE StartPass(w) \/ ReclaimStale(w) \/ EndPass(w) \/ BeginRun(w) \/ IngestRaises(w)
  <2>1. NoNewHolds
    <3>1. pc'[w] # "claimed"
      BY <1>0, <1>3 DEF StartPass, ReclaimStale, EndPass, BeginRun, IngestRaises
    <3> QED BY <1>0, <1>h, <3>1 DEF Claim
  <2>2. /\ UNCHANGED <<book, lost>>
        /\ pc[w] \in {"idle", "reclaim", "loop", "claimed", "run"}
        /\ \E next \in {"reclaim", "loop", "idle", "run", "except"} :
             /\ pc' = [pc EXCEPT ![w] = next]
             /\ next = "idle" => pc[w] = "loop"
             /\ pc[w] = "run" => next = "except"
    BY <1>3 DEF StartPass, ReclaimStale, EndPass, BeginRun, IngestRaises
  <2> QED BY <1>0, <2>1, <2>2, LoopMoved DEF OnBook
<1>4. CASE RequestStop(w) \/ BeatRaises(w)
  BY <1>4, LeaseKept DEF RequestStop, BeatRaises, NoNewHolds, Holds, table
<1>5. CASE Beat(w)
  <2>1. NoNewHolds /\ UNCHANGED <<status, holder, pc, book>>
    BY <1>5 DEF Beat, NoNewHolds, Holds
  <2>2. CASE Holds(w, book[w])
    BY <1>5, <2>1, <2>2, LeaseKept DEF Beat
  <2>3. CASE ~Holds(w, book[w])
    <3>1. lost' = [lost EXCEPT ![w] = TRUE] /\ pc[w] \in {"run", "except"}
      BY <1>5, <2>3 DEF Beat
    <3> QED
      BY <1>0, <2>1, <2>3, <3>1
      DEF LeaseInv, NoForgottenLease, LostIsFinal, LossNoted, Holds, InPass
  <2> QED BY <2>2, <2>3
<1>6. CASE Release(w)
  <2>1. /\ pc[w] = "claimed" /\ pc' = [pc EXCEPT ![w] = "idle"]
        /\ book' = [book EXCEPT ![w] = None]
        /\ lost' = lost
    BY <1>6 DEF Release
  <2>2. lost' = [lost EXCEPT ![w] = FALSE]
    BY <1>0, <2>1
  <2>3. \A r \in RowId : book[w] = r => ~Holds(w, r)'
    BY <1>6, QueueAssumption DEF Release, Holds, TypeOK, TableOK
  <2>4. NoNewHolds
    BY <1>6, <1>h, <2>1 DEF Claim
  <2> QED BY <2>1, <2>2, <2>3, <2>4, BookDropped DEF WorkerState
<1>7. CASE IngestAnswers(w)
  <2>0. NoNewHolds /\ pc[w] = "run" /\ UNCHANGED <<status, holder>>
    BY <1>7 DEF IngestAnswers, NoNewHolds, Holds, table
  <2>1. CASE LoopEnds(w)
    BY <2>0, <2>1, LoopEnded
  <2>2. CASE lost[w] /\ NextBook(w)
    <3>1. \A r \in RowId : book[w] = r => ~Holds(w, r)'
      BY <2>0, <2>2 DEF LeaseInv, LostIsFinal, Holds
    <3> QED BY <2>0, <2>2, <3>1, BookDropped DEF NextBook, WorkerState
  <2>3. CASE ~lost[w] /\ \E next \in {"settle_done", "settle_fail"} :
               /\ pc' = [pc EXCEPT ![w] = next]
               /\ UNCHANGED <<book, lost>>
    BY <1>0, <2>0, <2>3, LoopMoved
  <2> QED BY <1>7, <2>1, <2>2, <2>3 DEF IngestAnswers
<1>8. CASE SettleDone(w) \/ SettleFail(w) \/ (SettleExcept(w) /\ NextBook(w))
  <2>1. NextBook(w) /\ NoNewHolds /\ pc[w] # "gone"
    BY <1>8, <1>h DEF SettleDone, SettleFail, SettleExcept, Claim
  <2>2. \A r \in RowId : book[w] = r => ~Holds(w, r)'
    BY <1>8, QueueAssumption
    DEF SettleDone, SettleFail, SettleExcept, CountFailure, Holds, TypeOK, TableOK
  <2> QED BY <2>1, <2>2, BookDropped DEF NextBook, WorkerState
<1>9. CASE Leave(w) \/ Crash(w) \/ (SettleExcept(w) /\ LoopEnds(w))
  <2>1. LoopEnds(w) /\ pc'[w] = "gone"
    BY <1>0, <1>9 DEF Leave, Crash, SettleExcept, LoopEnds
  <2>2. NoNewHolds
    BY <1>0, <1>h, <2>1 DEF Claim
  <2> QED BY <2>1, <2>2, LoopEnded
<1> QED
  BY <1>1, <1>2, <1>3, <1>4, <1>5, <1>6, <1>7, <1>8, <1>9
  DEF WorkerStep, LoopStep, SettleExcept

LEMMA LeaseInvariant == Spec => []LeaseInv
<1>1. Init => LeaseInv
  BY DEF Init, LeaseInv, NoForgottenLease, LostIsFinal, LossNoted, Holds
<1>2. TypeOK /\ LeaseInv /\ [Next]_vars => LeaseInv'
  <2> SUFFICES ASSUME TypeOK, LeaseInv, [Next]_vars PROVE LeaseInv'
    OBVIOUS
  <2>1. ASSUME NEW w \in Worker, WorkerStep(w) PROVE LeaseInv'
    BY <2>1, WorkerLeases
  <2>2. CASE UNCHANGED <<pc, book, lost>> /\ NoNewHolds
    BY <2>2, LeaseKept
  <2>3. ASSUME NEW c \in Client, ClientStep(c) PROVE LeaseInv'
    <3>1. UNCHANGED <<pc, book, lost, holder>>
      BY <2>3 DEF ClientStep, Enqueue, AnswerTwin, ProbeMisses, Insert, InsertConflicts,
         RereadMisses, table, procs
    <3>2. \A r \in RowId : status'[r] = "running" => status[r] = "running"
      BY <2>3 DEF ClientStep, Enqueue, AnswerTwin, ProbeMisses, Insert, Oldest,
         InsertConflicts, RereadMisses, table, TypeOK, TableOK
    <3> QED BY <2>2, <3>1, <3>2 DEF NoNewHolds, Holds
  <2>4. ASSUME NEW r \in RowId, RowStep(r) PROVE LeaseInv'
    BY <2>2, <2>4
    DEF RowStep, Cancel, LeaseAges, procs, NoNewHolds, Holds, TypeOK, TableOK
  <2>5. CASE UNCHANGED vars
    BY <2>2, <2>5 DEF vars, table, procs, NoNewHolds, Holds
  <2> QED BY <2>1, <2>3, <2>4, <2>5 DEF Next
<1> QED
  BY <1>1, <1>2, TypeCorrect, PTL DEF Spec

\* Only a loop that has ended leaves a lease behind: a worker whose loop lives
\* is at work on every row it holds.
THEOREM LeasesAreKept == Spec => []NoForgottenLease
<1>1. LeaseInv => NoForgottenLease
  BY DEF LeaseInv
<1> QED
  BY <1>1, LeaseInvariant, PTL

\* A loss once noted is final: a worker may drop the result of a lost book, for
\* the row does not come back to it meanwhile.
THEOREM LostClaimsStayLost == Spec => []LostIsFinal
<1>1. LeaseInv => LostIsFinal
  BY DEF LeaseInv
<1> QED
  BY <1>1, LeaseInvariant, PTL

----------------------------------------------------------------------------
(* Terminal rows.                                                             *)

\* A worker step leaves the lease of a row that is not running as it is, unless
\* it claims the row.
LEMMA LeaseOfOthers ==
    ASSUME TypeOK, NEW w \in Worker, WorkerStep(w), NEW r \in RowId, status[r] \in Terminal
    PROVE  lease'[r] = lease[r]
<1> USE DEF TypeOK, TableOK, LoopOK, Holds, Terminal, OnBook
<1>1. CASE ReclaimStale(w) BY <1>1 DEF ReclaimStale, StaleRows
<1>2. CASE Claim(w) BY <1>2 DEF Claim, Oldest, Claimable
<1>3. CASE Release(w) BY <1>3 DEF Release
<1>4. CASE Beat(w) BY <1>4 DEF Beat
<1>5. CASE SettleDone(w) BY <1>5 DEF SettleDone
<1>6. CASE SettleFail(w) BY <1>6 DEF SettleFail, CountFailure
<1>7. CASE SettleExcept(w) BY <1>7 DEF SettleExcept, CountFailure
<1>8. CASE UNCHANGED lease BY <1>8
<1> QED
  BY <1>1, <1>2, <1>3, <1>4, <1>5, <1>6, <1>7, <1>8
  DEF WorkerStep, LoopStep, Start, RequestStop, StartPass, EndPass, BeginRun,
      BeatRaises, IngestRaises, IngestAnswers, Leave, Crash, table

RowKept(r) ==
    /\ status'[r] = status[r] /\ attempts'[r] = attempts[r]
    /\ holder'[r] = holder[r] /\ lease'[r] = lease[r] /\ hash'[r] = hash[r]

LEMMA TerminalKept ==
    ASSUME TypeOK, [Next]_vars, NEW r \in RowId, status[r] \in Terminal
    PROVE  RowKept(r)
<1> USE DEF RowKept
<1>1. ASSUME NEW c \in Client, ClientStep(c) PROVE RowKept(r)
  BY <1>1
  DEF ClientStep, Enqueue, AnswerTwin, ProbeMisses, Insert, Oldest, InsertConflicts,
      RereadMisses, table, TypeOK, TableOK, Terminal
<1>2. ASSUME NEW w \in Worker, WorkerStep(w) PROVE RowKept(r)
  <2>1. lease'[r] = lease[r]
    BY <1>2, LeaseOfOthers
  <2>2. CASE SameRows BY <2>1, <2>2 DEF SameRows
  <2>3. CASE Reclaimed
    BY <2>1, <2>3 DEF Reclaimed, StaleRows, Terminal
  <2>4. CASE \E q \in RowId : OneRow(w, q)
    BY <2>1, <2>4
    DEF OneRow, Taken, GivenBack, Completed, Failed, Holds, Terminal, TypeOK, TableOK
  <2> QED BY <1>2, <2>2, <2>3, <2>4, WorkerEffect
<1>3. ASSUME NEW q \in RowId, RowStep(q) PROVE RowKept(r)
  BY <1>3 DEF RowStep, Cancel, LeaseAges, TypeOK, TableOK, Active, Terminal
<1>4. CASE UNCHANGED vars
  BY <1>4 DEF vars, table
<1> QED BY <1>1, <1>2, <1>3, <1>4 DEF Next

\* A done, failed or cancelled row is never changed again.
THEOREM TerminalRowsAreFinal == Spec => TerminalFinal
<1>1. TypeOK /\ [Next]_vars
        => [\A r \in RowId : status[r] \in Terminal =>
              /\ status'[r] = status[r] /\ attempts'[r] = attempts[r]
              /\ holder'[r] = holder[r] /\ lease'[r] = lease[r] /\ hash'[r] = hash[r]]_vars
  BY TerminalKept DEF RowKept
<1> QED
  BY <1>1, TypeCorrect, PTL DEF Spec, TerminalFinal

----------------------------------------------------------------------------
(* Reports, fencing and refused enqueues.                                     *)

\* A report gains a row only in the step that settles it, out of "running".
LEMMA ReportEffect ==
    ASSUME TypeOK, NEW w \in Worker, WorkerStep(w)
    PROVE  /\ \A v \in Worker \ {w} : report'[v] = report[v]
           /\ \A r \in RowId, s \in {"done", "failed"} : <<r, s>> \in report'[w] =>
                \/ <<r, s>> \in report[w]
                \/ status[r] = "running" /\ status'[r] = s
<1> USE DEF TypeOK, TableOK, PassOK
<1>0. pc[w] \in OnBook => book[w] \in RowId
  BY DEF LoopOK
<1>1. CASE report' = report BY <1>1
<1>2. CASE ReclaimStale(w) BY <1>2 DEF ReclaimStale, StaleRows
<1>3. CASE SettleDone(w)
  <2>1. book[w] \in RowId
    BY <1>0, <1>3 DEF SettleDone, OnBook
  <2>2. CASE Holds(w, book[w])
    BY <1>3, <2>1, <2>2 DEF SettleDone, Holds
  <2>3. CASE ~Holds(w, book[w])
    BY <1>3, <2>3, <1>1 DEF SettleDone
  <2> QED BY <2>2, <2>3
<1>4. CASE (SettleFail(w) \/ SettleExcept(w))
           /\ report' = [report EXCEPT ![w] = @ \cup FailureOutcome(w, book[w])]
  <2>1. book[w] \in RowId /\ CountFailure(w, book[w])
    BY <1>0, <1>4 DEF SettleFail, SettleExcept, OnBook
  <2>2. CASE Holds(w, book[w]) /\ AfterAttempt(book[w]) = "failed"
    BY <1>4, <2>1, <2>2 DEF CountFailure, FailureOutcome, Holds
  <2>3. CASE FailureOutcome(w, book[w]) = {}
    BY <1>4, <2>3
  <2> QED BY <2>2, <2>3 DEF FailureOutcome
<1>5. CASE ReportLost(w) BY <1>5 DEF ReportLost
<1> QED
  BY <1>1, <1>2, <1>3, <1>4, <1>5
  DEF WorkerStep, LoopStep, Start, RequestStop, StartPass, Claim, EndPass, Release,
      BeginRun, Beat, BeatRaises, IngestRaises, IngestAnswers, SettleFail, SettleExcept,
      Leave, Crash

\* The drain reports tell the truth, and no two workers report one row: a
\* reported row is terminal, so no later step settles it again.
THEOREM ReportsAreHonest == Spec => []ReportHonest
<1>1. Init => ReportHonest
  BY DEF Init, ReportHonest
<1>2. TypeOK /\ ReportHonest /\ [Next]_vars => ReportHonest'
  <2> SUFFICES ASSUME TypeOK, ReportHonest, [Next]_vars PROVE ReportHonest'
    OBVIOUS
  <2>0. \A r \in RowId : status[r] \in {"done", "failed"} => status'[r] = status[r]
    BY TerminalKept DEF RowKept, Terminal
  <2>1. CASE report' = report
    BY <2>0, <2>1 DEF ReportHonest
  <2>2. ASSUME NEW u \in Worker, WorkerStep(u) PROVE ReportHonest'
    <3> SUFFICES ASSUME NEW w \in Worker, NEW r \in RowId, NEW s \in {"done", "failed"},
                        <<r, s>> \in report'[w]
                 PROVE  /\ status'[r] = s
                        /\ \A v \in Worker \ {w} : <<r, s>> \notin report'[v]
      BY DEF ReportHonest
    <3>1. \A v \in Worker : <<r, s>> \in report[v] => status[r] = s
      BY DEF ReportHonest
    <3>2. \A v \in Worker : <<r, s>> \in report'[v] =>
            \/ <<r, s>> \in report[v]
            \/ v = u /\ status[r] = "running" /\ status'[r] = s
      BY <2>2, ReportEffect
    <3>3. CASE <<r, s>> \in report[w]
      BY <2>0, <3>1, <3>2, <3>3 DEF ReportHonest
    <3>4. CASE w = u /\ status[r] = "running" /\ status'[r] = s
      BY <3>1, <3>2, <3>4
    <3> QED BY <3>2, <3>3, <3>4
  <2>3. ASSUME NEW c \in Client, ClientStep(c) PROVE ReportHonest'
    BY <2>1, <2>3 DEF ClientStep, Enqueue, AnswerTwin, ProbeMisses, Insert,
       InsertConflicts, RereadMisses, procs
  <2>4. ASSUME NEW r \in RowId, RowStep(r) PROVE ReportHonest'
    BY <2>1, <2>4 DEF RowStep, Cancel, LeaseAges, procs
  <2>5. CASE UNCHANGED vars
    BY <2>1, <2>5 DEF vars, procs
  <2> QED BY <2>2, <2>3, <2>4, <2>5 DEF Next
<1> QED
  BY <1>1, <1>2, TypeCorrect, PTL DEF Spec

\* Only the holder of a row settles it: a worker that is done with a book whose
\* lease it has lost leaves the row as it is.
THEOREM OnlyTheHolderSettles == Spec => OnlyHolderSettles
<1> DEFINE Kept(r) == /\ status'[r] = status[r] /\ attempts'[r] = attempts[r]
                      /\ holder'[r] = holder[r] /\ lease'[r] = lease[r]
<1>1. ASSUME TypeOK, [Next]_vars, NEW w \in Worker, NEW r \in RowId,
             book[w] = r, book'[w] # r, ~Holds(w, r)
      PROVE  Kept(r)
  <2> USE DEF TypeOK, LoopOK
  <2>1. ASSUME NEW u \in Worker, WorkerStep(u) PROVE Kept(r)
    <3>1. CASE u # w
      <4>1. CASE book' = book BY <1>1, <4>1
      <4>2. CASE \E r1 \in RowId \cup {None} : book' = [book EXCEPT ![u] = r1]
        BY <1>1, <3>1, <4>2
      <4>3. CASE Claim(u) BY <4>2, <4>3 DEF Claim, Oldest, Claimable
      <4>4. CASE LoopEnds(u) \/ NextBook(u) BY <4>2, <4>4 DEF LoopEnds, NextBook
      <4>5. CASE Release(u) BY <4>2, <4>5 DEF Release
      <4> QED
        BY <2>1, <4>1, <4>3, <4>4, <4>5
        DEF WorkerStep, LoopStep, Start, RequestStop, StartPass, ReclaimStale, EndPass,
            BeginRun, Beat, BeatRaises, IngestRaises, IngestAnswers, SettleDone,
            SettleFail, SettleExcept, Leave, Crash
    <3>2. CASE u = w
      <4>1. CASE Claim(w) BY <1>1, <4>1 DEF Claim, OnBook
      <4>2. CASE Release(w) BY <1>1, <4>2 DEF Release
      <4>3. CASE SettleDone(w) BY <1>1, <4>3 DEF SettleDone
      <4>4. CASE SettleFail(w) \/ SettleExcept(w)
        BY <1>1, <4>4 DEF SettleFail, SettleExcept, CountFailure
      <4>5. CASE IngestAnswers(w) \/ Leave(w) \/ Crash(w)
        BY <4>5 DEF IngestAnswers, Leave, Crash, table
      <4>6. CASE book' = book BY <1>1, <4>6
      <4> QED
        BY <2>1, <3>2, <4>1, <4>2, <4>3, <4>4, <4>5, <4>6
        DEF WorkerStep, LoopStep, Start, RequestStop, StartPass, ReclaimStale, EndPass,
            BeginRun, Beat, BeatRaises, IngestRaises
    <3> QED BY <3>1, <3>2
  <2>2. ASSUME NEW c \in Client, ClientStep(c) PROVE Kept(r)
    BY <1>1, <2>2 DEF ClientStep, Enqueue, AnswerTwin, ProbeMisses, Insert,
       InsertConflicts, RereadMisses, procs
  <2>3. ASSUME NEW q \in RowId, RowStep(q) PROVE Kept(r)
    BY <1>1, <2>3 DEF RowStep, Cancel, LeaseAges, procs
  <2>4. CASE UNCHANGED vars
    BY <2>4 DEF vars, table
  <2> QED BY <1>1, <2>1, <2>2, <2>3, <2>4 DEF Next
<1>2. TypeOK /\ [Next]_vars
        => [\A w \in Worker, r \in RowId :
              book[w] = r /\ book'[w] # r /\ ~Holds(w, r) =>
                /\ status'[r] = status[r] /\ attempts'[r] = attempts[r]
                /\ holder'[r] = holder[r] /\ lease'[r] = lease[r]]_vars
  BY <1>1
<1> QED
  BY <1>2, TypeCorrect, PTL DEF Spec, OnlyHolderSettles

\* The rows a call remembers as ended have ended, and a caller that reads again
\* has met one with its hash that it does not remember.
OverInv == \A c \in Client : \A r \in over[c] : status[r] \in Terminal

RereadInv ==
    \A c \in Client : cpc[c] = "reread" =>
        \E r \in RowId : hash[r] = want[c] /\ status[r] # "absent" /\ r \notin over[c]

\* A row that is in the table stays, under its hash.
LEMMA RowsStay ==
    ASSUME TypeOK, [Next]_vars, NEW r \in RowId, status[r] # "absent"
    PROVE  hash'[r] = hash[r] /\ status'[r] # "absent"
<1>1. ASSUME NEW c \in Client, ClientStep(c) PROVE hash'[r] = hash[r] /\ status'[r] # "absent"
  BY <1>1
  DEF ClientStep, Enqueue, AnswerTwin, ProbeMisses, Insert, Oldest, InsertConflicts,
      RereadMisses, table, TypeOK, TableOK
<1>2. ASSUME NEW w \in Worker, WorkerStep(w) PROVE hash'[r] = hash[r] /\ status'[r] # "absent"
  <2>1. CASE SameRows BY <2>1 DEF SameRows
  <2>2. CASE Reclaimed BY <2>2, AfterAttemptStatus DEF Reclaimed, StaleRows
  <2>3. CASE \E q \in RowId : OneRow(w, q)
    BY <2>3, AfterAttemptStatus
    DEF OneRow, Taken, GivenBack, Completed, Failed, TypeOK, TableOK
  <2> QED BY <1>2, <2>1, <2>2, <2>3, WorkerEffect
<1>3. ASSUME NEW q \in RowId, RowStep(q) PROVE hash'[r] = hash[r] /\ status'[r] # "absent"
  BY <1>3 DEF RowStep, Cancel, LeaseAges, TypeOK, TableOK
<1>4. CASE UNCHANGED vars
  BY <1>4 DEF vars, table
<1> QED BY <1>1, <1>2, <1>3, <1>4 DEF Next

\* What a call remembers has ended when the call begins, and stays ended.
LEMMA OverInvariant == Spec => []OverInv
<1>1. Init => OverInv
  BY DEF Init, OverInv
<1>2. TypeOK /\ OverInv /\ [Next]_vars => OverInv'
  <2> SUFFICES ASSUME TypeOK, OverInv, [Next]_vars, NEW c \in Client, NEW r \in over'[c]
               PROVE  status'[r] \in Terminal
    BY DEF OverInv
  <2>1. CASE r \in over[c]
    <3>1. r \in RowId /\ status[r] \in Terminal
      BY <2>1 DEF OverInv, TypeOK, ClientOK
    <3> QED BY <3>1, TerminalKept DEF RowKept
  <2>2. CASE r \notin over[c]
    <3>1. ASSUME NEW w \in Worker, WorkerStep(w) PROVE FALSE
      BY <2>2, <3>1, WorkersLeaveClients DEF clients
    <3>2. ASSUME NEW q \in RowId, RowStep(q) PROVE FALSE
      BY <2>2, <3>2 DEF RowStep, Cancel, LeaseAges, clients
    <3>3. ~UNCHANGED vars
      BY <2>2 DEF vars, clients
    <3>4. PICK d \in Client : ClientStep(d)
      BY <3>1, <3>2, <3>3 DEF Next
    <3>5. Enqueue(d) /\ d = c
      BY <2>2, <3>4
      DEF ClientStep, Enqueue, AnswerTwin, ProbeMisses, Insert, InsertConflicts,
          RereadMisses, Answered, TypeOK, ClientOK
    <3>6. PICK h \in Hash : over' = [over EXCEPT ![c] = Ended(h)]
      BY <3>5 DEF Enqueue
    <3>7. r \in Ended(h) /\ UNCHANGED status
      BY <3>5, <3>6 DEF Enqueue, table, TypeOK, ClientOK
    <3> QED BY <3>7 DEF Ended
  <2> QED BY <2>1, <2>2
<1> QED
  BY <1>1, <1>2, TypeCorrect, PTL DEF Spec

LEMMA RereadInvariant == Spec => []RereadInv
<1>1. Init => RereadInv
  BY DEF Init, RereadInv
<1>2. TypeOK /\ OverInv /\ RereadInv /\ [Next]_vars => RereadInv'
  <2> SUFFICES ASSUME TypeOK, OverInv, RereadInv, [Next]_vars,
                      NEW c \in Client, cpc'[c] = "reread"
               PROVE  \E r \in RowId : /\ hash'[r] = want'[c] /\ status'[r] # "absent"
                                       /\ r \notin over'[c]
    BY DEF RereadInv
  <2>1. CASE cpc[c] = "reread" /\ want'[c] = want[c] /\ over'[c] = over[c]
    <3>1. PICK r \in RowId : hash[r] = want[c] /\ status[r] # "absent" /\ r \notin over[c]
      BY <2>1 DEF RereadInv
    <3> QED BY <2>1, <3>1, RowsStay
  <2>2. ASSUME NEW d \in Client, ClientStep(d)
        PROVE  \E r \in RowId : /\ hash'[r] = want'[c] /\ status'[r] # "absent"
                                /\ r \notin over'[c]
    <3>1. CASE InsertConflicts(d) /\ d = c
      <4>1. PICK r \in RowId : hash[r] = want[c] /\ status[r] \in Active
        BY <3>1 DEF InsertConflicts, ActiveTwins
      <4>2. r \notin over[c]
        BY <4>1 DEF OverInv, Active, Terminal
      <4> QED BY <3>1, <4>1, <4>2 DEF InsertConflicts, table, Active
    <3>2. CASE ~(InsertConflicts(d) /\ d = c)
      <4>1. cpc[c] = "reread" /\ want'[c] = want[c] /\ over'[c] = over[c]
        BY <2>2, <3>2
        DEF ClientStep, Enqueue, AnswerTwin, ProbeMisses, Insert, InsertConflicts,
            RereadMisses, Answered, TypeOK, ClientOK
      <4> QED BY <2>1, <4>1
    <3> QED BY <3>1, <3>2
  <2>3. ASSUME NEW w \in Worker, WorkerStep(w) PROVE UNCHANGED clients
    BY <2>3, WorkersLeaveClients
  <2>4. ASSUME NEW r \in RowId, RowStep(r) PROVE UNCHANGED clients
    BY <2>4 DEF RowStep, Cancel, LeaseAges
  <2>5. CASE UNCHANGED clients
    BY <2>1, <2>5 DEF clients
  <2> QED BY <2>2, <2>3, <2>4, <2>5 DEF Next, vars
<1> QED
  BY <1>1, <1>2, TypeCorrect, OverInvariant, PTL DEF Spec

\* An enqueue is refused only when a row with its hash has ended during the call:
\* it had not when the call began.
THEOREM ConflictsMeanTwinsEnded == Spec => ConflictMeansTwinEnded
<1>1. ASSUME TypeOK, RereadInv, [Next]_vars, NEW c \in Client,
             cpc[c] # "conflict", cpc'[c] = "conflict"
      PROVE  \E r \in Ended(want[c]) : r \notin over[c]
  <2>1. RereadMisses(c)
    <3>1. ASSUME NEW d \in Client, ClientStep(d) PROVE RereadMisses(c)
      BY <1>1, <3>1
      DEF ClientStep, Enqueue, AnswerTwin, ProbeMisses, Insert, InsertConflicts,
          RereadMisses, Answered, TypeOK, ClientOK
    <3>2. ASSUME NEW w \in Worker, WorkerStep(w) PROVE FALSE
      BY <1>1, <3>2, WorkersLeaveClients DEF clients
    <3>3. ASSUME NEW r \in RowId, RowStep(r) PROVE FALSE
      BY <1>1, <3>3 DEF RowStep, Cancel, LeaseAges, clients
    <3>4. CASE UNCHANGED vars
      BY <1>1, <3>4 DEF vars, clients
    <3> QED BY <1>1, <3>1, <3>2, <3>3, <3>4 DEF Next
  <2>2. ActiveTwins(want[c]) = {} /\ cpc[c] = "reread"
    BY <2>1 DEF RereadMisses
  <2>3. PICK r \in RowId : hash[r] = want[c] /\ status[r] # "absent" /\ r \notin over[c]
    BY <1>1, <2>2 DEF RereadInv
  <2>4. status[r] \in Terminal
    BY <1>1, <2>2, <2>3 DEF ActiveTwins, TypeOK, TableOK, Status
  <2> QED BY <2>3, <2>4 DEF Ended
<1>2. TypeOK /\ RereadInv /\ [Next]_vars
        => [\A c \in Client : cpc[c] # "conflict" /\ cpc'[c] = "conflict" =>
              \E r \in Ended(want[c]) : r \notin over[c]]_vars
  BY <1>1
<1> QED
  BY <1>2, TypeCorrect, RereadInvariant, PTL DEF Spec, ConflictMeansTwinEnded

----------------------------------------------------------------------------
(* The refinement of WorkOrder.                                               *)

\* Every step of the queue is a step of WorkOrder, or none at all.
THEOREM QueueImplementsWorkOrder == Spec => Implements
<1>1. Init => Orders!Init
  BY DEF Init, Orders!Init
<1>2. TypeOK /\ RowsInv /\ [Next]_vars => [Orders!Next]_(Orders!vars)
  <2> SUFFICES ASSUME TypeOK, RowsInv, [Next]_vars
               PROVE  Orders!Next \/ UNCHANGED Orders!vars
    OBVIOUS
  <2> USE DEF Orders!vars, TypeOK, TableOK
  <2>1. ASSUME NEW c \in Client, Insert(c) PROVE Orders!Next
    <3>1. PICK r \in RowId, m \in Caps :
            /\ status[r] = "absent"
            /\ status' = [status EXCEPT ![r] = "pending"]
            /\ cap' = [cap EXCEPT ![r] = m]
            /\ hash' = [hash EXCEPT ![r] = want[c]]
      BY <2>1 DEF Insert, Oldest
    <3>2. want[c] \in Hash /\ ActiveTwins(want[c]) = {} /\ UNCHANGED attempts
      BY <2>1 DEF Insert, ClientOK
    <3>3. Orders!Accept(r, want[c], m)
      BY <3>1, <3>2 DEF Orders!Accept, Orders!Open, ActiveTwins, Active
    <3> QED BY <3>2, <3>3 DEF Orders!Next
  <2>2. ASSUME NEW c \in Client, ClientStep(c), ~Insert(c) PROVE UNCHANGED Orders!vars
    BY <2>2 DEF ClientStep, Enqueue, AnswerTwin, ProbeMisses, InsertConflicts,
       RereadMisses, table
  <2>3. ASSUME NEW w \in Worker, NEW r \in RowId, OneRow(w, r) PROVE Orders!Next
    <3>1. CASE Taken(w, r)
      BY <3>1 DEF Taken, Orders!Next, Orders!Begin
    <3>2. CASE GivenBack(w, r)
      BY <3>2 DEF GivenBack, Holds, Orders!Next, Orders!GiveBack
    <3>3. CASE Completed(w, r)
      BY <3>3 DEF Completed, Holds, Orders!Next, Orders!Complete
    <3>4. CASE Failed(w, r)
      <4>1. status[r] = "running" /\ attempts[r] < cap[r]
        BY <3>4 DEF Failed, Holds, RowsInv, RowInv
      <4>2. attempts' = [o \in RowId |-> IF o \in {r} THEN attempts[o] + 1 ELSE attempts[o]]
        BY <3>4 DEF Failed
      <4>3. status' = [o \in RowId |->
                         IF o \notin {r} THEN status[o]
                         ELSE IF attempts'[o] = cap[o] THEN "failed" ELSE "pending"]
        <5>1. attempts'[r] = attempts[r] + 1
          BY <4>2
        <5>2. AfterAttempt(r) = IF attempts'[r] = cap[r] THEN "failed" ELSE "pending"
          BY <4>1, <5>1 DEF AfterAttempt
        <5> QED BY <3>4, <5>2 DEF Failed
      <4>4. Orders!Spend({r})
        BY <3>4, <4>1, <4>2, <4>3 DEF Failed, Orders!Spend
      <4> QED BY <4>4 DEF Orders!Next
    <3> QED BY <2>3, <3>1, <3>2, <3>3, <3>4 DEF OneRow
  <2>4. ASSUME Reclaimed PROVE Orders!Next \/ UNCHANGED Orders!vars
    <3>1. CASE StaleRows = {}
      BY <2>4, <3>1 DEF Reclaimed
    <3>2. CASE StaleRows # {}
      <4>1. \A r \in StaleRows :
              r \in RowId /\ status[r] = "running" /\ attempts[r] < cap[r]
        BY DEF StaleRows, RowsInv, RowInv
      <4>2. Orders!Spend(StaleRows)
        BY <2>4, <3>2, <4>1 DEF Reclaimed, AfterAttempt, Orders!Spend
      <4> QED BY <4>1, <4>2 DEF Orders!Next
    <3> QED BY <3>1, <3>2
  <2>5. ASSUME NEW w \in Worker, WorkerStep(w) PROVE Orders!Next \/ UNCHANGED Orders!vars
    <3>1. CASE SameRows BY <3>1 DEF SameRows
    <3> QED BY <2>3, <2>4, <2>5, <3>1, WorkerEffect
  <2>6. ASSUME NEW r \in RowId, RowStep(r) PROVE Orders!Next \/ UNCHANGED Orders!vars
    BY <2>6 DEF RowStep, Cancel, LeaseAges, Active, Orders!Next, Orders!CancelOrder, Orders!Open
  <2>7. CASE UNCHANGED vars
    BY <2>7 DEF vars, table
  <2> QED BY <2>1, <2>2, <2>5, <2>6, <2>7 DEF Next
<1> QED
  BY <1>1, <1>2, RowsInvariant, PTL DEF Spec, Implements, Orders!Spec
=============================================================================
