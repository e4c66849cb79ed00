---------------------------- MODULE Projections ----------------------------
(***************************************************************************)
(* The read-model projections of one tenant (projections/_drain.py,        *)
(* documents_projection.py, embed_projection.py, research_projection.py,   *)
(* checkpoint.py, dlq.py, catchup.py).                                     *)
(*                                                                         *)
(* Three projections follow one event log.  Each has a checkpoint and a    *)
(* dead-letter queue, and any number of drainers that share them: the      *)
(* background task of the server and the catch-ups of tools and CLI calls. *)
(* A drainer reads a window of events past the checkpoint and delivers     *)
(* them one by one.  Every write is a transaction of its own: projecting   *)
(* an event, then moving the checkpoint, with a crash possible between.    *)
(***************************************************************************)
EXTENDS Integers, Sequences, FiniteSets

CONSTANTS DocsDrainer,      \* the drainers of each projection
          EmbedDrainer,
          ResearchDrainer,
          Background,       \* the drainers that are run() loops, not catch-ups
          Steady,           \* those that never crash and whose store answers
          Doc,              \* documents
          None,             \* no document
          MaxLog,           \* bound: events ever written
          Window,           \* projection -> events per read (200, 100, 500 in the code)
          Passes,           \* reads per catch-up (20 in the code)
          Batches,          \* embedding batches per chunk event
          Flaky             \* projection -> positions where it may raise by itself

Drainer    == DocsDrainer \cup EmbedDrainer \cup ResearchDrainer
Projection == {"documents", "embeds", "research"}
Pos        == 1 .. MaxLog

ASSUME ProjectionAssumption ==
    /\ DocsDrainer \cap EmbedDrainer = {}
    /\ DocsDrainer \cap ResearchDrainer = {}
    /\ EmbedDrainer \cap ResearchDrainer = {}
    /\ Background \subseteq Drainer
    /\ Steady \subseteq Drainer
    /\ None \notin Doc
    /\ MaxLog \in Nat
    /\ Window \in [Projection -> Nat \ {0}]
    /\ Passes \in Nat
    /\ Batches \in Nat \ {0}
    /\ Flaky \in [Projection -> SUBSET Nat]

Event ==
    [kind : {"document", "text", "blank"}, doc : Doc]
        \cup [kind : {"foreign"}, doc : {None}]

VARIABLES
    log,          \* the event store, in notification order
    rows,         \* projection -> <<position, part>> of every committed write
    checkpoint,   \* projection -> last_sequence
    dlq           \* projection -> the positions with a dead-letter entry
store == <<rows, checkpoint, dlq>>

VARIABLES
    pc,           \* drainer -> where it stands
    next,         \* drainer -> the event it is on
    last,         \* drainer -> the last event of its batch
    part,         \* drainer -> the write of that event it does next
    pass          \* drainer -> the reads its catch-up has made
drainers == <<pc, next, last, part, pass>>

vars == <<log, store, drainers>>

DrainerState == {"off", "read", "event", "mark", "fail", "dead"}
OnEvent == {"event", "mark", "fail"}

----------------------------------------------------------------------------
(* Which projection does what with which event.                              *)

ProjectionOf(d) ==
    IF d \in DocsDrainer THEN "documents"
    ELSE IF d \in EmbedDrainer THEN "embeds" ELSE "research"

\* The kinds each projection writes rows for.  A "document" event is an
\* Ingested of this tenant, "foreign" one of another tenant (research writes
\* both); "text" is a ChunksAdded that carries texts, "blank" one without.
Handles ==
    [p \in Projection |->
        CASE p = "documents" -> {"document", "text"}
          [] p = "embeds"    -> {"text"}
          [] p = "research"  -> {"document", "foreign"}]

Handled(p, n) == log[n].kind \in Handles[p]

\* The kinds whose checkpoint write is inside the try of process_event: those
\* handled, and for documents every event of the tenant, rows or no rows.
Tries ==
    [p \in Projection |->
        IF p = "documents" THEN {"document", "text", "blank"} ELSE Handles[p]]

Tried(p, n) == log[n].kind \in Tries[p]

\* The events that only move the checkpoint: documents and research move past
\* all they do not handle, embeds past foreign events alone.
Passed(p, n) == ~Handled(p, n) /\ (p = "embeds" => log[n].kind = "foreign")

\* The transactions an event takes: one, one per batch of ten chunks, or the
\* project row and then the document row.
Parts(p) ==
    CASE p = "documents" -> 1
      [] p = "embeds"    -> Batches
      [] p = "research"  -> 2

DocumentRow(c) ==
    \E m \in DOMAIN log :
        /\ log[m] = [kind |-> "document", doc |-> c]
        /\ <<m, 1>> \in rows["documents"] \/ <<m, 2>> \in rows["research"]

\* The foreign keys: chunks of their document, vectors of their chunks.
HasParent(p, n) ==
    log[n].kind = "text" =>
        \/ p = "documents" /\ DocumentRow(log[n].doc)
        \/ p = "embeds" /\ <<n, 1>> \in rows["documents"]

\* What a projection is done with: written in full, or on record as failed.
Projected(p, n) == \A k \in 1 .. Parts(p) : <<n, k>> \in rows[p]
Settled(p) == {n \in Pos : Projected(p, n) \/ n \in dlq[p]}

----------------------------------------------------------------------------
StoreOK ==
    /\ log \in Seq(Event) /\ Len(log) <= MaxLog
    /\ rows \in [Projection -> SUBSET (Pos \X Nat)]
    /\ checkpoint \in [Projection -> 0 .. Len(log)]
    /\ dlq \in [Projection -> SUBSET Pos]

\* The event a drainer is on is one of the batch it has read.
BatchOK ==
    /\ pc \in [Drainer -> DrainerState]
    /\ next \in [Drainer -> Nat]
    /\ last \in [Drainer -> Nat]
    /\ \A d \in Drainer : pc[d] \in OnEvent =>
        1 <= next[d] /\ next[d] <= last[d] /\ last[d] <= Len(log)
    /\ part \in [Drainer -> Nat \ {0}]
    /\ pass \in [Drainer -> Nat]

TypeOK == StoreOK /\ BatchOK

Init ==
    /\ log = <<>>
    /\ rows = [p \in Projection |-> {}]
    /\ checkpoint = [p \in Projection |-> 0]
    /\ dlq = [p \in Projection |-> {}]
    /\ pc = [d \in Drainer |-> "off"]
    /\ next = [d \in Drainer |-> 0]
    /\ last = [d \in Drainer |-> 0]
    /\ part = [d \in Drainer |-> 1]
    /\ pass = [d \in Drainer |-> 0]

Written(k, c) == \E m \in DOMAIN log : log[m].kind = k /\ log[m].doc = c

\* The aggregates save events: a document is ingested once, then gets one
\* ChunksAdded.
Write(e) ==
    /\ Len(log) < MaxLog
    /\ e.kind = "document" => ~Written("document", e.doc)
    /\ e.kind \in {"text", "blank"} =>
         /\ Written("document", e.doc)
         /\ ~Written("text", e.doc) /\ ~Written("blank", e.doc)
    /\ log' = Append(log, e)
    /\ UNCHANGED <<store, drainers>>

----------------------------------------------------------------------------
(* Drainers.                                                                 *)

Begin(d) ==
    /\ pc[d] = "off"
    /\ pc' = [pc EXCEPT ![d] = "read"]
    /\ UNCHANGED <<log, store, next, last, part, pass>>

Fault_FirstUnread(p) == checkpoint[p] + 2
\* read_since is strict: the first event past the checkpoint.
FirstUnread(p) == checkpoint[p] + 1

Fault_WindowOver(p) == FirstUnread(p) + Window[p] - 1
WindowEnd(p) ==
    IF FirstUnread(p) + Window[p] - 1 < Len(log) THEN FirstUnread(p) + Window[p] - 1
    ELSE Len(log)

\* get_checkpoint, then read_since.
Read(d) ==
    LET p == ProjectionOf(d) IN
    /\ pc[d] = "read"
    /\ d \notin Background => pass[d] < Passes
    /\ FirstUnread(p) <= Len(log)
    /\ pc' = [pc EXCEPT ![d] = "event"]
    /\ next' = [next EXCEPT ![d] = FirstUnread(p)]
    /\ last' = [last EXCEPT ![d] = WindowEnd(p)]
    /\ part' = [part EXCEPT ![d] = 1]
    /\ pass' = IF d \in Background THEN pass ELSE [pass EXCEPT ![d] = @ + 1]
    /\ UNCHANGED <<log, store>>

\* The locals of the batch are gone with it.
LeaveBatch(d, state) ==
    /\ pc' = [pc EXCEPT ![d] = state]
    /\ next' = [next EXCEPT ![d] = 0]
    /\ last' = [last EXCEPT ![d] = 0]
    /\ part' = [part EXCEPT ![d] = 1]
    /\ pass' = IF state = "off" THEN [pass EXCEPT ![d] = 0] ELSE pass

\* A catch-up that reads nothing is over; a run() loop sleeps and reads again.
Quiet(d) ==
    /\ pc[d] = "read"
    /\ d \notin Background
    /\ pass[d] < Passes
    /\ FirstUnread(ProjectionOf(d)) > Len(log)
    /\ LeaveBatch(d, "off")
    /\ UNCHANGED <<log, store>>

PassesSpent(d) ==
    /\ pc[d] = "read"
    /\ d \notin Background
    /\ pass[d] >= Passes
    /\ LeaveBatch(d, "off")
    /\ UNCHANGED <<log, store>>

\* On to the next event of the batch, or to the next read.
Advance(d) ==
    IF next[d] = last[d]
    THEN LeaveBatch(d, "read")
    ELSE /\ pc' = [pc EXCEPT ![d] = "event"]
         /\ next' = [next EXCEPT ![d] = @ + 1]
         /\ part' = [part EXCEPT ![d] = 1]
         /\ UNCHANGED <<last, pass>>

Fault_MarkBatch(d) ==
    checkpoint' = [checkpoint EXCEPT ![ProjectionOf(d)] = last[d]]
\* update_checkpoint: an upsert that compares nothing.
MoveCheckpoint(d) ==
    checkpoint' = [checkpoint EXCEPT ![ProjectionOf(d)] = next[d]]

\* process_event of the embeds returns before its checkpoint write.
Skip(d) ==
    /\ pc[d] = "event"
    /\ ~Handled(ProjectionOf(d), next[d])
    /\ ~Passed(ProjectionOf(d), next[d])
    /\ Advance(d)
    /\ UNCHANGED <<log, store>>

Pass(d) ==
    /\ pc[d] = "event"
    /\ Passed(ProjectionOf(d), next[d])
    /\ MoveCheckpoint(d)
    /\ Advance(d)
    /\ UNCHANGED <<log, rows, dlq>>

\* One write of the event's rows; writing them again changes nothing.
Project(d) ==
    LET p == ProjectionOf(d) IN
    /\ pc[d] = "event"
    /\ Handled(p, next[d])
    /\ HasParent(p, next[d])
    /\ rows' = [rows EXCEPT ![p] = @ \cup {<<next[d], part[d]>>}]
    /\ IF part[d] < Parts(p)
       THEN /\ part' = [part EXCEPT ![d] = @ + 1]
            /\ UNCHANGED pc
       ELSE /\ pc' = [pc EXCEPT ![d] = "mark"]
            /\ part' = [part EXCEPT ![d] = 1]
    /\ UNCHANGED <<log, checkpoint, dlq, next, last, pass>>

\* A foreign key refuses the write, or embedding it or its statement raises.
ProjectRaises(d) ==
    LET p == ProjectionOf(d) IN
    /\ pc[d] = "event"
    /\ Handled(p, next[d])
    /\ ~HasParent(p, next[d]) \/ next[d] \in Flaky[p]
    /\ pc' = [pc EXCEPT ![d] = "fail"]
    /\ part' = [part EXCEPT ![d] = 1]
    /\ UNCHANGED <<log, store, next, last, pass>>

Mark(d) ==
    /\ pc[d] = "mark"
    /\ MoveCheckpoint(d)
    /\ Advance(d)
    /\ UNCHANGED <<log, rows, dlq>>

Fault_FailureUnrecorded(d) ==
    /\ pc[d] = "fail"
    /\ Advance(d)
    /\ UNCHANGED <<log, store>>

Fault_FailureStays(d) ==
    /\ pc[d] = "fail"
    /\ dlq' = [dlq EXCEPT ![ProjectionOf(d)] = @ \cup {next[d]}]
    /\ Advance(d)
    /\ UNCHANGED <<log, rows, checkpoint>>

\* The dead letter.  Research moves its checkpoint past the event all the
\* same; documents and embeds leave it where it is and go on.
RecordFailure(d) ==
    LET p == ProjectionOf(d) IN
    /\ pc[d] = "fail"
    /\ dlq' = [dlq EXCEPT ![p] = @ \cup {next[d]}]
    /\ IF p = "research"
       THEN /\ pc' = [pc EXCEPT ![d] = "mark"]
            /\ UNCHANGED <<next, last, part, pass>>
       ELSE Advance(d)
    /\ UNCHANGED <<log, rows, checkpoint>>

\* An exception leaves the drain: it ends a catch-up, and the run() loop of
\* the documents for good; the other two loops sleep and read again.
Raised(d) ==
    IF d \notin Background THEN LeaveBatch(d, "off")
    ELSE IF d \in DocsDrainer THEN LeaveBatch(d, "dead")
    ELSE LeaveBatch(d, "read")

\* A read, a checkpoint write or a dead-letter write raises.  The except
\* clause of process_event takes the checkpoint write of an event it tries, so
\* documents may put on record even an event they write no rows for.
StoreRaises(d) ==
    LET p == ProjectionOf(d) IN
    /\ d \notin Steady
    /\ \/ /\ \/ pc[d] = "mark" /\ p # "research"
             \/ pc[d] = "event" /\ Passed(p, next[d]) /\ Tried(p, next[d])
          /\ pc' = [pc EXCEPT ![d] = "fail"]
          /\ UNCHANGED <<next, last, part, pass>>
       \/ /\ \/ pc[d] \in {"read", "fail"}
             \/ pc[d] = "mark" /\ p = "research"
             \/ pc[d] = "event" /\ Passed(p, next[d]) /\ ~Tried(p, next[d])
          /\ Raised(d)
    /\ UNCHANGED <<log, store>>

\* The process of d dies; a new one may begin again.
Crash(d) ==
    /\ d \notin Steady
    /\ pc[d] # "off"
    /\ LeaveBatch(d, "off")
    /\ UNCHANGED <<log, store>>

----------------------------------------------------------------------------
DrainStep(d) ==
    \/ Begin(d)
    \/ Read(d)
    \/ Quiet(d)
    \/ PassesSpent(d)
    \/ Skip(d)
    \/ Pass(d)
    \/ Project(d)
    \/ ProjectRaises(d)
    \/ Mark(d)
    \/ RecordFailure(d)

Next ==
    \/ \E e \in Event : Write(e)
    \/ \E d \in Drainer : DrainStep(d) \/ StoreRaises(d) \/ Crash(d)

Spec == Init /\ [][Next]_vars

(* The event loop runs every ready task of a process that stays up. *)
FairSpec == Spec /\ \A d \in Steady : WF_vars(DrainStep(d))

----------------------------------------------------------------------------
(* Properties.                                                               *)

DoneBefore(p, n) ==
    \A m \in 1 .. (n - 1) : Handled(p, m) => m \in Settled(p)

\* Whatever crashes, raises or overlaps: every event a projection handles and
\* has passed over, on its checkpoint or within a batch in progress, has been
\* written in full or is in the dead-letter queue.
NothingPassedOver ==
    /\ \A p \in Projection : DoneBefore(p, checkpoint[p] + 1)
    /\ \A d \in Drainer :
        pc[d] \in OnEvent => DoneBefore(ProjectionOf(d), next[d])

\* An event is projected or put on record only after all the events before it
\* that the projection handles, also by drainers that overlap or start over.
SettledInOrder ==
    \A p \in Projection : \A n \in Settled(p) : DoneBefore(p, n)

\* A catch-up that ends because it reads nothing has left nothing: its
\* projection has settled every event of the log it handles.
QuietMeansCaughtUp ==
    [][\A d \in Steady :
        pc[d] = "read" /\ pc'[d] = "off" /\ pass[d] < Passes =>
            DoneBefore(ProjectionOf(d), Len(log) + 1)]_vars

\* With NothingPassedOver and SettledInOrder, an inductive invariant: only
\* events of the log that a projection handles have rows, and only those it
\* tries have dead letters, ...
OnlyHandled ==
    \A p \in Projection :
        /\ \A n \in dlq[p] : n \in 1 .. Len(log) /\ Tried(p, n)
        /\ \A x \in rows[p] : x[1] \in 1 .. Len(log) /\ Handled(p, x[1])

\* ... and a drainer has written the parts before the one it is at.
InWork ==
    \A d \in Drainer :
        LET p == ProjectionOf(d) IN
        /\ pc[d] \in {"mark", "fail"} => Tried(p, next[d])
        /\ pc[d] = "mark" => next[d] \in Settled(p)
        /\ pc[d] = "event" =>
             /\ part[d] <= Parts(p)
             /\ \A k \in 1 .. (part[d] - 1) : <<next[d], k>> \in rows[p]

InOrder == NothingPassedOver /\ SettledInOrder /\ OnlyHandled /\ InWork

----------------------------------------------------------------------------
(* The abstract specification.                                               *)

Wants == [p \in Projection |-> {e \in Event : e.kind \in Handles[p]}]
Admits == [p \in Projection |-> {e \in Event : e.kind \in Tries[p]}]
Taken == [p \in Projection |-> Settled(p)]

Feeds == INSTANCE Subscriptions WITH Feed <- Projection, taken <- Taken

Implements == Feeds!Spec

\* While the documents loop stays up it settles every event it handles, also
\* when catch-ups that overlap with it move its checkpoint back.  This needs
\* fewer failing events in a row than a window holds.
DocumentsServed == \A n \in Pos : Feeds!Served("documents", n)

\* While catch-ups of research keep being called, a failing event cannot wedge
\* the subscription (research_projection.py:91): every event it handles is
\* projected or on record, however many of them fail.
ResearchServed == \A n \in Pos : Feeds!Served("research", n)
=============================================================================
