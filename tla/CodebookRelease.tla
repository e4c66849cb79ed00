-------------------------- MODULE CodebookRelease --------------------------
(***************************************************************************)
(* The releases of one codebook version (domain/codebook.py,               *)
(* research/release/service.py, handlers/release_handlers.py).             *)
(*                                                                         *)
(* The version is an event-sourced aggregate that several processes load,  *)
(* change and save.  A handler works on a copy; each change is one event,  *)
(* saved at once, and the event store takes it only if the handler has     *)
(* seen every event before it.  Executing a release is a long call: it     *)
(* loads the copy, waits for the gate evidence, saves one event per gate   *)
(* and per waiver, and then the release, and it may raise, lose the race   *)
(* or crash after any of them.                                             *)
(***************************************************************************)
EXTENDS Integers

CONSTANTS Release,       \* release ids
          Gate,          \* the gates that are evaluated
          Required,      \* those the profile requires
          Approver,      \* who signs
          Blank,         \* an approver that is only white space
          Handler,       \* calls in progress, each in a process of its own
          None,
          MaxEvents      \* bound: events of the version

ASSUME ReleaseAssumption ==
    /\ Required \subseteq Gate
    /\ Blank \notin Approver
    /\ None \notin Approver \cup Release
    /\ MaxEvents \in Nat

VARIABLES
    version,      \* the number of events stored
    aggregate,    \* release -> its record, as a load returns it
    loadable      \* whether replaying the stored events raises nothing
store == <<version, aggregate, loadable>>

VARIABLES
    pc,           \* handler -> where its call stands
    task,         \* handler -> what it was called for
    copy,         \* handler -> its copy of the aggregate
    seen          \* handler -> the events in that copy
calls == <<pc, task, copy, seen>>

VARIABLE answered \* history: release -> what the call that released it answered

vars == <<store, calls, answered>>

Gone == {"superseded", "retired"}
Final == {"released"} \cup Gone
State == {"none", "draft"} \cup Final

\* fail stands for every status but pass.
Verdict == {"none", "pass", "fail"}

Record ==
    [state : State, gates : [Gate -> Verdict], waived : SUBSET Gate,
     approver : Approver \cup {None}]

Fresh(state) ==
    [state |-> state, gates |-> [g \in Gate |-> "none"], waived |-> {},
     approver |-> None]

Operation == {"request", "execute", "supersede", "retire", "propose"}

\* release: the release the call is about; next: the successor it opens.
\* evidence: the verdicts the call has recorded; todo: the gates it has yet to.
Task ==
    [op : Operation, release : Release \cup {None}, next : Release \cup {None},
     evidence : [Gate -> Verdict], todo : SUBSET Gate]

\* A "released" answer: the enforcement it met, the unmet gates it warns of.
Answer == [enforce : BOOLEAN, unmet : SUBSET Gate]

----------------------------------------------------------------------------
(* The aggregate: what each event asks of it, and does to it.                *)

Event ==
    [kind : {"requested", "graded", "waived", "released", "superseded",
             "retired", "proposed"},
     release : Release, gate : Gate \cup {None}, verdict : Verdict,
     approver : Approver \cup {Blank, None}, next : Release \cup {None}]

Plain(kind, r) ==
    [kind |-> kind, release |-> r, gate |-> None, verdict |-> "none",
     approver |-> None, next |-> None]

Needs(kind) ==
    CASE kind = "requested" -> {"none"}
      [] kind \in {"graded", "waived", "released"} -> {"draft"}
      [] kind \in {"superseded", "retired", "proposed"} -> {"released"}

\* A bug: gate results and waivers are taken in any state.
Fault_Legal(records, e) ==
    /\ e.kind \notin {"graded", "waived"} => records[e.release].state \in Needs(e.kind)
    /\ e.kind \in {"waived", "released"} => e.approver # Blank

\* The guards of the aggregate's methods, which a replay runs again.  Opening
\* the successor of a proposal is not guarded.
Legal(records, e) ==
    /\ records[e.release].state \in Needs(e.kind)
    /\ e.kind \in {"waived", "released"} => e.approver # Blank

\* A bug: a release that has a successor takes the name of the proposal.
Fault_After(records, e) ==
    CASE e.kind = "requested" ->
            [records EXCEPT ![e.release] = Fresh("draft")]
      [] e.kind \in {"released", "superseded", "retired", "proposed"} ->
            [records EXCEPT ![e.release].state = e.kind]
      [] OTHER -> records

After(records, e) ==
    CASE e.kind = "requested" ->
            [records EXCEPT ![e.release] = Fresh("draft")]
      [] e.kind = "graded" ->
            [records EXCEPT ![e.release].gates[e.gate] = e.verdict]
      [] e.kind = "waived" ->
            [records EXCEPT ![e.release].waived = @ \cup {e.gate}]
      [] e.kind = "released" ->
            [records EXCEPT ![e.release].state = "released",
                            ![e.release].approver = e.approver]
      [] e.kind \in Gone ->
            [records EXCEPT ![e.release].state = e.kind]
      [] e.kind = "proposed" ->
            [records EXCEPT ![e.next] = Fresh("draft")]

\* A bug: a gate that was not evaluated is unmet, one that failed is not.
Fault_Unmet(record) == {g \in Required \ record.waived : record.gates[g] = "none"}

Unmet(record) == {g \in Required \ record.waived : record.gates[g] # "pass"}

----------------------------------------------------------------------------
TypeOK ==
    /\ version \in 0 .. MaxEvents
    /\ aggregate \in [Release -> Record]
    /\ loadable \in BOOLEAN
    /\ pc \in [Handler -> {"idle", "save", "record"}]
    /\ task \in [Handler -> Task]
    /\ copy \in [Handler -> [Release -> Record]]
    /\ seen \in [Handler -> 0 .. MaxEvents]
    /\ answered \in [Release -> Answer \cup {None}]

NoTask ==
    [op |-> "request", release |-> None, next |-> None,
     evidence |-> [g \in Gate |-> "none"], todo |-> {}]

Init ==
    /\ version = 0
    /\ aggregate = [r \in Release |-> Fresh("none")]
    /\ loadable = TRUE
    /\ pc = [h \in Handler |-> "idle"]
    /\ task = [h \in Handler |-> NoTask]
    /\ copy = [h \in Handler |-> aggregate]
    /\ seen = [h \in Handler |-> 0]
    /\ answered = [r \in Release |-> None]

----------------------------------------------------------------------------
(* Ending a call, and saving an event.                                       *)

End(h) ==
    /\ pc' = [pc EXCEPT ![h] = "idle"]
    /\ task' = [task EXCEPT ![h] = NoTask]
    /\ copy' = [copy EXCEPT ![h] = [r \in Release |-> Fresh("none")]]
    /\ seen' = [seen EXCEPT ![h] = 0]

\* A bug: the events of others since the load are not looked for.
Fault_UpToDate(h) == seen[h] <= version

\* The optimistic check of the event store.
UpToDate(h) == seen[h] = version

Answers(r, enforce, unmet) ==
    answered' = [answered EXCEPT ![r] = [enforce |-> enforce, unmet |-> unmet]]

\* A bug: an error of the store is taken for success.
Fault_Refuse(h, e) ==
    /\ ~(Legal(copy[h], e) /\ UpToDate(h))
    /\ End(h)
    /\ IF e.kind = "released"
       THEN Answers(e.release, FALSE, Unmet(copy[h][e.release]))
       ELSE UNCHANGED answered
    /\ UNCHANGED store

\* A guard of the aggregate raises, or the store does; what was saved stays.
Refuse(h, e) ==
    /\ ~(Legal(copy[h], e) /\ UpToDate(h))
    /\ End(h)
    /\ UNCHANGED <<store, answered>>

Store(h, e) ==
    /\ Legal(copy[h], e)
    /\ UpToDate(h)
    /\ version < MaxEvents
    /\ version' = version + 1
    /\ loadable' = (loadable /\ Legal(aggregate, e))
    /\ aggregate' = After(aggregate, e)

\* A save after which the call goes on, with a copy that has the event.
StoreAndGoOn(h, e, t) ==
    /\ Store(h, e)
    /\ copy' = [copy EXCEPT ![h] = After(@, e)]
    /\ seen' = [seen EXCEPT ![h] = @ + 1]
    /\ task' = [task EXCEPT ![h] = t]
    /\ UNCHANGED <<pc, answered>>

----------------------------------------------------------------------------
(* The calls that save one event.                                            *)

Load(h, t) ==
    /\ pc[h] = "idle" /\ loadable
    /\ task' = [task EXCEPT ![h] = t]
    /\ copy' = [copy EXCEPT ![h] = aggregate]
    /\ seen' = [seen EXCEPT ![h] = version]
    /\ UNCHANGED <<store, answered>>

\* A successor is a new id (uuid4); a requested id is the caller's.
Call(h) ==
    \E op \in Operation \ {"execute"}, r \in Release :
    \E next \in IF op = "propose" THEN Release \ {r} ELSE {None} :
        /\ op = "propose" => aggregate[next].state = "none"
        /\ Load(h, [NoTask EXCEPT !.op = op, !.release = r, !.next = next])
        /\ pc' = [pc EXCEPT ![h] = "save"]

EventOf(t) ==
    CASE t.op = "request" -> Plain("requested", t.release)
      [] t.op = "supersede" -> Plain("superseded", t.release)
      [] t.op = "retire" -> Plain("retired", t.release)
      [] t.op = "propose" -> [Plain("proposed", t.release) EXCEPT !.next = t.next]

Save(h) ==
    LET e == EventOf(task[h]) IN
    /\ pc[h] = "save"
    /\ \/ Refuse(h, e)
       \/ /\ Store(h, e)
          /\ End(h)
          /\ UNCHANGED answered

----------------------------------------------------------------------------
(* Executing a release.                                                      *)

\* A bug: a gate that has a result is not recorded again.
Fault_ToGrade(record) == {g \in Gate : record.gates[g] = "none"}

\* Every gate of the bundle is recorded, whatever the draft has on record.
ToGrade(record) == Gate

\* Between this and the first gate the call awaits the gate inputs.  What they
\* say of a gate, and whom the caller signs for, is looked at where it is used.
Execute(h) ==
    \E r \in Release :
        /\ aggregate[r].state # "none"
        /\ Load(h, [NoTask EXCEPT !.op = "execute", !.release = r,
                                  !.todo = ToGrade(aggregate[r])])
        /\ pc' = [pc EXCEPT ![h] = "record"]

Grade(h) ==
    /\ pc[h] = "record"
    /\ \E g \in task[h].todo, v \in {"pass", "fail"} :
        LET e == [Plain("graded", task[h].release) EXCEPT !.gate = g, !.verdict = v]
        IN  \/ Refuse(h, e)
            \/ StoreAndGoOn(h, e, [task[h] EXCEPT !.todo = @ \ {g}, !.evidence[g] = v])

Graded(h) == pc[h] = "record" /\ task[h].todo = {}

\* A gate the caller waives.  An unknown one raises; the results and earlier
\* waivers are on the draft by then, and stay there.
Waive(h) ==
    /\ Graded(h)
    /\ \/ End(h) /\ UNCHANGED <<store, answered>>
       \/ \E g \in Gate, a \in Approver \cup {Blank} :
            LET e == [Plain("waived", task[h].release) EXCEPT !.gate = g, !.approver = a]
            IN  Refuse(h, e) \/ StoreAndGoOn(h, e, task[h])

\* research.release.enforcement is read here; off and warn differ in wording.
Publish(h) ==
    LET r == task[h].release
        unmet == Unmet(copy[h][r])
    IN
    /\ Graded(h)
    /\ \E enforce \in BOOLEAN, a \in Approver \cup {Blank} :
        LET e == [Plain("released", r) EXCEPT !.approver = a] IN
        \/ /\ enforce /\ unmet # {}
           /\ End(h)
           /\ UNCHANGED <<store, answered>>
        \/ /\ ~(enforce /\ unmet # {})
           /\ Refuse(h, e)
        \/ /\ ~(enforce /\ unmet # {})
           /\ Store(h, e)
           /\ End(h)
           /\ Answers(r, enforce, unmet)

Crash(h) ==
    /\ pc[h] # "idle"
    /\ End(h)
    /\ UNCHANGED <<store, answered>>

Next ==
    \E h \in Handler :
        \/ Call(h) \/ Save(h)
        \/ Execute(h) \/ Grade(h) \/ Waive(h) \/ Publish(h)
        \/ Crash(h)

Spec == Init /\ [][Next]_vars

----------------------------------------------------------------------------
(* What the lifecycle promises.                                              *)

\* However calls overlap, the stored events can be replayed: each was legal
\* where it stands.  One that is not would make every load raise, for good.
Loadable == loadable

\* A call that answers "released" has released.  The unmet gates it warns of
\* are those the record shows from then on, and under enforcement = enforce
\* there are none: every required gate is passed or waived, for good.
AnswersHonest ==
    \A r \in Release : answered[r] # None =>
        /\ aggregate[r].state \in Final
        /\ answered[r].unmet = {g \in Required :
             g \notin aggregate[r].waived /\ aggregate[r].gates[g] # "pass"}
        /\ answered[r].enforce => answered[r].unmet = {}

\* The results on a released record are those of the evidence its own call
\* gathered, although other calls may have recorded theirs on the same draft
\* before, and have done so while this one was waiting.
EvidenceIsItsOwn ==
    [][\A h \in Handler :
        LET r == task[h].release IN
        pc[h] = "record" /\ pc'[h] = "idle" /\ answered'[r] # answered[r] =>
            aggregate'[r].gates = task[h].evidence]_vars

\* A handler whose copy is up to date has the aggregate.  With it, and with
\* the facts on what calls in progress hold, an inductive invariant.
CopyIsCurrent ==
    \A h \in Handler : pc[h] # "idle" =>
        seen[h] <= version /\ (seen[h] = version => copy[h] = aggregate)

\* Each release lives the life its abstract specification describes.
Life == INSTANCE ReleaseLifecycle WITH
    Record <- [gates : [Gate -> Verdict], waived : SUBSET Gate,
               approver : Approver \cup {None}],
    life <- [r \in Release |-> aggregate[r].state],
    record <- [r \in Release |->
        [gates |-> aggregate[r].gates, waived |-> aggregate[r].waived,
         approver |-> aggregate[r].approver]]

Implements == Life!Spec
=============================================================================
