----------------------- MODULE CodebookReleaseProofs -----------------------
(***************************************************************************)
(* Theorems about CodebookRelease, for any number of releases, gates and   *)
(* calls.                                                                  *)
(*                                                                         *)
(* The argument turns on CopyIsCurrent: the store takes an event only from *)
(* a handler that has seen every event before it, and such a handler's     *)
(* copy is the aggregate, so what was legal on the copy is legal where it  *)
(* is stored.  The rest of the invariant says what calls in progress hold. *)
(***************************************************************************)
EXTENDS CodebookRelease, TLAPS

Good(e) ==
    /\ e \in Event
    /\ e.kind \in {"graded", "waived"} => e.gate \in Gate
    /\ e.kind = "proposed" => e.next \in Release

\* The release an event changes, and what it makes of its record.
Target(e) == IF e.kind = "proposed" THEN e.next ELSE e.release

Changed(x, e) ==
    CASE e.kind \in {"requested", "proposed"} -> Fresh("draft")
      [] e.kind = "graded" -> [x EXCEPT !.gates[e.gate] = e.verdict]
      [] e.kind = "waived" -> [x EXCEPT !.waived = @ \cup {e.gate}]
      [] e.kind = "released" -> [x EXCEPT !.state = "released", !.approver = e.approver]
      [] e.kind \in Gone -> [x EXCEPT !.state = e.kind]

\* What a call in progress is about.
Busy ==
    \A h \in Handler :
        /\ pc[h] # "idle" => task[h].release \in Release
        /\ pc[h] = "save" =>
            /\ task[h].op \in Operation \ {"execute"}
            /\ task[h].op = "propose" =>
                /\ task[h].next \in Release
                /\ copy[h][task[h].next].state = "none"

\* The results a copy shows are those its call has recorded.
Evident ==
    \A h \in Handler : pc[h] = "record" =>
        \A g \in Gate \ task[h].todo :
            copy[h][task[h].release].gates[g] = task[h].evidence[g]

\* A release that is not there has nothing on record.
Untouched ==
    \A r \in Release : aggregate[r].state = "none" => aggregate[r] = Fresh("none")

IInv ==
    TypeOK /\ Busy /\ CopyIsCurrent /\ Evident /\ Untouched /\ Loadable /\ AnswersHonest

----------------------------------------------------------------------------
(* Records and events.                                                       *)

LEMMA FreshType ==
    \A s \in State : Fresh(s) \in Record /\ Fresh(s).state = s
BY DEF Fresh, Record, Verdict

\* What each kind of event makes of a record.
LEMMA ChangedIs ==
    ASSUME NEW x \in Record, NEW e, Good(e), e.kind = "released" => e.approver # Blank
    PROVE  /\ Changed(x, e) \in Record
           /\ e.kind \in {"requested", "proposed"} => Changed(x, e) = Fresh("draft")
           /\ e.kind \in {"graded", "waived"} =>
                 Changed(x, e).state = x.state /\ Changed(x, e).approver = x.approver
           /\ e.kind = "graded" => Changed(x, e).gates = [x.gates EXCEPT ![e.gate] = e.verdict]
           /\ e.kind = "waived" => Changed(x, e).gates = x.gates
           /\ e.kind \in Final =>
                 /\ Changed(x, e).state = e.kind
                 /\ Changed(x, e).gates = x.gates /\ Changed(x, e).waived = x.waived
           /\ e.kind \in Gone => Changed(x, e).approver = x.approver
<1>1. CASE e.kind \in {"requested", "proposed"}
  BY <1>1, FreshType DEF Changed, Gone, Final, State
<1>2. CASE e.kind = "graded"
  BY <1>2 DEF Changed, Gone, Final, Good, Event, Record
<1>3. CASE e.kind = "waived"
  BY <1>3 DEF Changed, Gone, Final, Good, Record
<1>4. CASE e.kind = "released"
  BY <1>4 DEF Changed, Gone, Final, Good, Event, Record, State
<1>5. CASE e.kind \in Gone
  BY <1>5 DEF Changed, Gone, Final, Good, Record, State
<1> QED
  BY <1>1, <1>2, <1>3, <1>4, <1>5 DEF Good, Event, Gone, Final

\* An event changes the record of one release.
LEMMA AfterIs ==
    ASSUME NEW records \in [Release -> Record], NEW e, Good(e)
    PROVE  /\ Target(e) \in Release
           /\ After(records, e)
                = [records EXCEPT ![Target(e)] = Changed(records[Target(e)], e)]
<1>1. Target(e) \in Release
  BY DEF Good, Target, Event
<1>2. CASE e.kind \in {"requested", "proposed"}
  BY <1>1, <1>2 DEF After, Target, Changed, Gone
<1>3. CASE e.kind = "graded"
  BY <1>1, <1>3 DEF After, Target, Changed, Gone
<1>4. CASE e.kind = "waived"
  BY <1>1, <1>4 DEF After, Target, Changed, Gone
<1>5. CASE e.kind = "released"
  BY <1>1, <1>5 DEF After, Target, Changed, Gone
<1>6. CASE e.kind \in Gone
  BY <1>1, <1>6 DEF After, Target, Changed, Gone
<1> QED
  BY <1>1, <1>2, <1>3, <1>4, <1>5, <1>6 DEF Good, Event, Gone

LEMMA AfterType ==
    ASSUME NEW records \in [Release -> Record], NEW e, Good(e), Legal(records, e)
    PROVE  After(records, e) \in [Release -> Record]
<1>1. Changed(records[Target(e)], e) \in Record
  BY ChangedIs, AfterIs DEF Legal
<1> QED
  BY <1>1, AfterIs

LEMMA PlainGood ==
    \A r \in Release : \A kind \in {"requested", "released", "superseded", "retired"} :
        Good(Plain(kind, r)) /\ Plain(kind, r).kind = kind /\ Plain(kind, r).release = r
BY DEF Good, Plain, Event, Verdict

LEMMA EventGood ==
    ASSUME NEW t \in Task, t.release \in Release, t.op \in Operation \ {"execute"},
           t.op = "propose" => t.next \in Release
    PROVE  /\ Good(EventOf(t))
           /\ EventOf(t).kind \in {"requested", "superseded", "retired", "proposed"}
           /\ EventOf(t).kind = "proposed" =>
                 t.op = "propose" /\ EventOf(t).next = t.next
<1>1. CASE t.op = "propose"
  BY <1>1 DEF Good, EventOf, Plain, Event, Verdict
<1>2. CASE t.op # "propose"
  BY <1>2, PlainGood DEF EventOf, Operation
<1> QED
  BY <1>1, <1>2

----------------------------------------------------------------------------
(* Ending and starting a call.                                               *)

LEMMA NoTaskType == NoTask \in Task
BY DEF NoTask, Task, Operation, Verdict

LEMMA EmptyCopy == [r \in Release |-> Fresh("none")] \in [Release -> Record]
BY FreshType DEF State

\* A call that ends without a trace in the store.
LEMMA EndKeeps ==
    ASSUME IInv, NEW h \in Handler, End(h), UNCHANGED <<store, answered>>
    PROVE  IInv'
<1>1. TypeOK'
  <2>1. pc' \in [Handler -> {"idle", "save", "record"}] /\ task' \in [Handler -> Task]
    BY NoTaskType DEF IInv, TypeOK, End
  <2>2. copy' \in [Handler -> [Release -> Record]]
    BY EmptyCopy DEF IInv, TypeOK, End
  <2>3. seen' \in [Handler -> 0 .. MaxEvents]
    BY ReleaseAssumption DEF IInv, TypeOK, End
  <2> QED
    BY <2>1, <2>2, <2>3 DEF IInv, TypeOK, store
<1>2. Busy' /\ CopyIsCurrent' /\ Evident'
  BY DEF IInv, TypeOK, Busy, CopyIsCurrent, Evident, End, store
<1>3. Untouched' /\ Loadable' /\ AnswersHonest'
  BY DEF IInv, Untouched, Loadable, AnswersHonest, store
<1> QED
  BY <1>1, <1>2, <1>3 DEF IInv

LEMMA LoadKeeps ==
    ASSUME IInv, NEW h \in Handler, NEW t \in Task, NEW next \in {"save", "record"},
           Load(h, t), pc' = [pc EXCEPT ![h] = next],
           t.release \in Release,
           next = "save" =>
                /\ t.op \in Operation \ {"execute"}
                /\ t.op = "propose" =>
                     t.next \in Release /\ aggregate[t.next].state = "none",
           next = "record" => t.todo = Gate
    PROVE  IInv'
<1>1. TypeOK'
  BY DEF IInv, TypeOK, Load, store
<1>2. Busy' /\ CopyIsCurrent' /\ Evident'
  <2> SUFFICES ASSUME NEW k \in Handler
               PROVE  /\ pc'[k] # "idle" => task'[k].release \in Release
                      /\ pc'[k] = "save" =>
                           /\ task'[k].op \in Operation \ {"execute"}
                           /\ task'[k].op = "propose" =>
                                /\ task'[k].next \in Release
                                /\ copy'[k][task'[k].next].state = "none"
                      /\ pc'[k] # "idle" =>
                           /\ seen'[k] <= version'
                           /\ seen'[k] = version' => copy'[k] = aggregate'
                      /\ pc'[k] = "record" =>
                           \A g \in Gate \ task'[k].todo :
                             copy'[k][task'[k].release].gates[g] = task'[k].evidence[g]
    BY DEF Busy, CopyIsCurrent, Evident
  <2>1. CASE k = h
    BY <2>1 DEF IInv, TypeOK, Load, store
  <2>2. CASE k # h
    BY <2>2 DEF IInv, TypeOK, Busy, CopyIsCurrent, Evident, Load, store
  <2> QED
    BY <2>1, <2>2
<1>3. Untouched' /\ Loadable' /\ AnswersHonest'
  BY DEF IInv, Untouched, Loadable, AnswersHonest, Load, store
<1> QED
  BY <1>1, <1>2, <1>3 DEF IInv

----------------------------------------------------------------------------
(* Saving an event.                                                          *)

\* What is stored was legal, and leaves released records alone.
LEMMA StoreFacts ==
    ASSUME IInv, NEW h \in Handler, pc[h] # "idle", NEW e, Good(e), Store(h, e),
           e.kind = "proposed" => copy[h][e.next].state = "none"
    PROVE  /\ copy[h] = aggregate /\ seen[h] = version /\ version' = version + 1
           /\ Legal(aggregate, e)
           /\ version' \in 0 .. MaxEvents /\ loadable' = TRUE
           /\ aggregate' \in [Release -> Record]
           /\ \A r \in Release : r # Target(e) => aggregate'[r] = aggregate[r]
           /\ aggregate'[Target(e)] = Changed(aggregate[Target(e)], e)
           /\ aggregate[Target(e)].state \in
                 IF e.kind = "proposed" THEN {"none"} ELSE Needs(e.kind)
           /\ Untouched'
           /\ \A r \in Release : aggregate[r].state \in Final =>
                 /\ aggregate'[r].state \in Final
                 /\ aggregate'[r].gates = aggregate[r].gates
                 /\ aggregate'[r].waived = aggregate[r].waived
<1>1. copy[h] = aggregate /\ seen[h] = version /\ version' = version + 1
  BY DEF IInv, CopyIsCurrent, Store, UpToDate
<1>2. Legal(aggregate, e)
  BY <1>1 DEF Store
<1>3. version' \in 0 .. MaxEvents
  BY ReleaseAssumption DEF IInv, TypeOK, Store
<1>4. loadable' = TRUE
  BY <1>2 DEF IInv, Loadable, Store
<1>5. aggregate \in [Release -> Record]
  BY DEF IInv, TypeOK
<1>6. aggregate' = After(aggregate, e)
  BY DEF Store
<1>7. aggregate' \in [Release -> Record]
  BY <1>2, <1>5, <1>6, AfterType
<1>8. Target(e) \in Release
  BY <1>5, AfterIs
<1>9. /\ \A r \in Release : r # Target(e) => aggregate'[r] = aggregate[r]
      /\ aggregate'[Target(e)] = Changed(aggregate[Target(e)], e)
  BY <1>5, <1>6, <1>8, AfterIs
<1>10. aggregate[Target(e)].state \in
         IF e.kind = "proposed" THEN {"none"} ELSE Needs(e.kind)
  BY <1>1, <1>2 DEF Legal, Target
<1> DEFINE x == aggregate[Target(e)]
<1>11. x \in Record
  BY <1>5, <1>8
<1>12. e.kind = "released" => e.approver # Blank
  BY <1>2 DEF Legal
<1>13. Changed(x, e).state # "none"
  <2>1. CASE e.kind \in {"requested", "proposed"}
    <3>1. Changed(x, e) = Fresh("draft")
      BY <2>1, <1>11, <1>12, ChangedIs
    <3> QED
      BY <3>1 DEF Fresh
  <2>2. CASE e.kind \in {"graded", "waived"}
    BY <2>2, <1>10, <1>11, <1>12, ChangedIs DEF Needs
  <2>3. CASE e.kind \in Final
    BY <2>3, <1>11, <1>12, ChangedIs DEF Final, Gone
  <2> QED
    BY <2>1, <2>2, <2>3 DEF Good, Event, Final, Gone
<1>14. Untouched'
  BY <1>8, <1>9, <1>13 DEF IInv, Untouched
<1>15. x.state \in Final => e.kind \in Gone
  BY <1>10 DEF Good, Event, Needs, Final, Gone
<1>16. \A r \in Release : aggregate[r].state \in Final =>
         /\ aggregate'[r].state \in Final
         /\ aggregate'[r].gates = aggregate[r].gates
         /\ aggregate'[r].waived = aggregate[r].waived
  <2> TAKE r \in Release
  <2> HAVE aggregate[r].state \in Final
  <2>1. CASE r # Target(e)
    BY <2>1, <1>9
  <2>2. CASE r = Target(e)
    <3>1. e.kind \in Gone /\ e.kind \in Final
      BY <2>2, <1>15 DEF Final
    <3>2. /\ Changed(x, e).state = e.kind
          /\ Changed(x, e).gates = x.gates /\ Changed(x, e).waived = x.waived
      BY <3>1, <1>11, <1>12, ChangedIs
    <3> QED
      BY <2>2, <3>1, <3>2, <1>9
  <2> QED
    BY <2>1, <2>2
<1> QED
  BY <1>1, <1>2, <1>3, <1>4, <1>7, <1>9, <1>10, <1>14, <1>16

\* A save that ends the call, whether or not it answers.
LEMMA StoreAndEndKeeps ==
    ASSUME IInv, NEW h \in Handler, pc[h] # "idle", NEW e, Good(e), Store(h, e),
           e.kind = "proposed" => copy[h][e.next].state = "none", End(h),
           answered' \in [Release -> Answer \cup {None}], AnswersHonest'
    PROVE  IInv'
<1>1. /\ version' = version + 1 /\ version' \in 0 .. MaxEvents /\ loadable' = TRUE
      /\ aggregate' \in [Release -> Record] /\ Untouched'
  BY StoreFacts
<1>2. TypeOK'
  <2>1. pc' \in [Handler -> {"idle", "save", "record"}] /\ task' \in [Handler -> Task]
    BY NoTaskType DEF IInv, TypeOK, End
  <2>2. copy' \in [Handler -> [Release -> Record]]
    BY EmptyCopy DEF IInv, TypeOK, End
  <2>3. seen' \in [Handler -> 0 .. MaxEvents]
    BY ReleaseAssumption DEF IInv, TypeOK, End
  <2>4. loadable' \in BOOLEAN
    BY <1>1
  <2> QED
    BY <1>1, <2>1, <2>2, <2>3, <2>4 DEF TypeOK
<1>3. Busy' /\ Evident'
  BY DEF IInv, TypeOK, Busy, Evident, End
<1>4. CopyIsCurrent'
  BY <1>1 DEF IInv, TypeOK, CopyIsCurrent, End
<1>5. Loadable'
  BY <1>1 DEF Loadable
<1> QED
  BY <1>1, <1>2, <1>3, <1>4, <1>5 DEF IInv

\* A save that answers nothing leaves the answers honest.
LEMMA AnswersKept ==
    ASSUME IInv, NEW h \in Handler, pc[h] # "idle", NEW e, Good(e), Store(h, e),
           e.kind = "proposed" => copy[h][e.next].state = "none", UNCHANGED answered
    PROVE  AnswersHonest'
<1>1. \A r \in Release : aggregate[r].state \in Final =>
         /\ aggregate'[r].state \in Final
         /\ aggregate'[r].gates = aggregate[r].gates
         /\ aggregate'[r].waived = aggregate[r].waived
  BY StoreFacts
<1> QED
  BY <1>1 DEF IInv, AnswersHonest

\* A save after which the call goes on.
LEMMA StoreAndGoOnKeeps ==
    ASSUME IInv, NEW h \in Handler, pc[h] = "record", NEW e, Good(e),
           NEW t \in Task, StoreAndGoOn(h, e, t),
           e.kind \in {"graded", "waived"}, t.release = task[h].release,
           \A g \in Gate \ t.todo :
               Changed(aggregate[e.release], e).gates[g] = t.evidence[g],
           e.release = task[h].release
    PROVE  IInv'
<1>1. /\ copy[h] = aggregate /\ seen[h] = version
      /\ version' = version + 1 /\ version' \in 0 .. MaxEvents /\ loadable' = TRUE
      /\ aggregate' \in [Release -> Record] /\ Untouched'
      /\ aggregate'[Target(e)] = Changed(aggregate[Target(e)], e)
  BY StoreFacts DEF StoreAndGoOn
<1>2. copy' = [copy EXCEPT ![h] = aggregate']
  BY <1>1 DEF StoreAndGoOn, Store
<1>3. /\ seen' = [seen EXCEPT ![h] = version'] /\ task' = [task EXCEPT ![h] = t]
      /\ pc' = pc /\ answered' = answered
  BY <1>1 DEF StoreAndGoOn
<1>4. TypeOK'
  <2>1. copy' \in [Handler -> [Release -> Record]]
    BY <1>1, <1>2 DEF IInv, TypeOK
  <2>2. seen' \in [Handler -> 0 .. MaxEvents] /\ task' \in [Handler -> Task]
    BY <1>1, <1>3 DEF IInv, TypeOK
  <2>3. loadable' \in BOOLEAN
    BY <1>1
  <2> QED
    BY <1>1, <1>3, <2>1, <2>2, <2>3 DEF IInv, TypeOK
<1>5. Busy'
  BY <1>2, <1>3 DEF IInv, TypeOK, Busy
<1>6. CopyIsCurrent'
  BY <1>1, <1>2, <1>3 DEF IInv, TypeOK, CopyIsCurrent
<1>7. Evident'
  <2>1. aggregate'[task[h].release] = Changed(aggregate[e.release], e)
    BY <1>1 DEF Target
  <2> QED
    BY <1>2, <1>3, <2>1 DEF IInv, TypeOK, Evident
<1>8. Loadable' /\ AnswersHonest'
  BY <1>1, AnswersKept DEF Loadable, StoreAndGoOn
<1> QED
  BY <1>1, <1>4, <1>5, <1>6, <1>7, <1>8 DEF IInv

----------------------------------------------------------------------------
(* The actions.                                                              *)

LEMMA CallKeeps ==
    ASSUME IInv, NEW h \in Handler, Call(h)
    PROVE  IInv'
<1>1. PICK op \in Operation \ {"execute"}, r \in Release, next \in Release \cup {None} :
        /\ op = "propose" => next \in Release /\ aggregate[next].state = "none"
        /\ Load(h, [NoTask EXCEPT !.op = op, !.release = r, !.next = next])
        /\ pc' = [pc EXCEPT ![h] = "save"]
  <2>1. PICK op \in Operation \ {"execute"}, r \in Release :
          \E next \in IF op = "propose" THEN Release \ {r} ELSE {None} :
            /\ op = "propose" => aggregate[next].state = "none"
            /\ Load(h, [NoTask EXCEPT !.op = op, !.release = r, !.next = next])
            /\ pc' = [pc EXCEPT ![h] = "save"]
    BY DEF Call
  <2> QED
    BY <2>1
<1> DEFINE t == [NoTask EXCEPT !.op = op, !.release = r, !.next = next]
<1>2. t \in Task /\ t.op = op /\ t.release = r /\ t.next = next
  BY DEF NoTask, Task, Operation, Verdict
<1> HIDE DEF t
<1>3. Load(h, t)
  BY <1>1 DEF t
<1> QED
  BY <1>1, <1>2, <1>3, LoadKeeps

LEMMA ExecuteKeeps ==
    ASSUME IInv, NEW h \in Handler, Execute(h)
    PROVE  IInv'
<1>1. PICK r \in Release :
        /\ Load(h, [NoTask EXCEPT !.op = "execute", !.release = r,
                                  !.todo = ToGrade(aggregate[r])])
        /\ pc' = [pc EXCEPT ![h] = "record"]
  BY DEF Execute
<1> DEFINE t == [NoTask EXCEPT !.op = "execute", !.release = r,
                               !.todo = ToGrade(aggregate[r])]
<1>2. t \in Task /\ t.release = r /\ t.todo = Gate
  BY DEF NoTask, Task, Operation, Verdict, ToGrade
<1> HIDE DEF t
<1>3. Load(h, t)
  BY <1>1 DEF t
<1> QED
  BY <1>1, <1>2, <1>3, LoadKeeps

LEMMA SaveKeeps ==
    ASSUME IInv, NEW h \in Handler, Save(h)
    PROVE  IInv'
<1> DEFINE e == EventOf(task[h])
<1>1. /\ Good(e)
      /\ e.kind = "proposed" => copy[h][e.next].state = "none"
  BY EventGood DEF IInv, TypeOK, Busy, Save
<1> HIDE DEF e
<1>2. CASE Refuse(h, e)
  BY <1>2, EndKeeps DEF Refuse
<1>3. CASE Store(h, e) /\ End(h) /\ UNCHANGED answered
  <2>1. pc[h] # "idle"
    BY DEF Save
  <2>2. AnswersHonest'
    BY <1>1, <1>3, <2>1, AnswersKept
  <2>3. answered' \in [Release -> Answer \cup {None}]
    BY <1>3 DEF IInv, TypeOK
  <2> QED
    BY <1>1, <1>3, <2>1, <2>2, <2>3, StoreAndEndKeeps
<1> QED
  BY <1>2, <1>3 DEF Save, e

LEMMA GradeKeeps ==
    ASSUME IInv, NEW h \in Handler, Grade(h)
    PROVE  IInv'
<1>1. PICK g \in task[h].todo, v \in {"pass", "fail"} :
        LET e == [Plain("graded", task[h].release) EXCEPT !.gate = g, !.verdict = v]
        IN  \/ Refuse(h, e)
            \/ StoreAndGoOn(h, e, [task[h] EXCEPT !.todo = @ \ {g}, !.evidence[g] = v])
  BY DEF Grade
<1> DEFINE r == task[h].release
           e == [Plain("graded", r) EXCEPT !.gate = g, !.verdict = v]
           u == [task[h] EXCEPT !.todo = @ \ {g}, !.evidence[g] = v]
<1>2. task[h] \in Task /\ r \in Release /\ g \in Gate /\ pc[h] = "record"
  BY DEF IInv, TypeOK, Busy, Grade, Task
<1>3. /\ Good(e) /\ e.kind = "graded" /\ e.release = r
      /\ e.gate = g /\ e.verdict = v
  BY <1>2 DEF Good, Plain, Event, Verdict
<1>4. /\ u \in Task /\ u.release = r /\ u.todo = task[h].todo \ {g}
      /\ u.evidence = [task[h].evidence EXCEPT ![g] = v]
  BY <1>2 DEF Task, Verdict
<1>5. Refuse(h, e) \/ StoreAndGoOn(h, e, u)
  BY <1>1
<1> HIDE DEF e, u
<1>6. CASE Refuse(h, e)
  BY <1>6, EndKeeps DEF Refuse
<1>7. CASE StoreAndGoOn(h, e, u)
  <2>1. aggregate[r] \in Record /\ copy[h] = aggregate
    BY <1>2, <1>7 DEF IInv, TypeOK, CopyIsCurrent, StoreAndGoOn, Store, UpToDate
  <2>2. Changed(aggregate[r], e).gates = [aggregate[r].gates EXCEPT ![g] = v]
    BY <1>3, <2>1, ChangedIs
  <2>3. aggregate[r].gates \in [Gate -> Verdict] /\ task[h].evidence \in [Gate -> Verdict]
    BY <1>2, <2>1 DEF Record, Task
  <2>4. \A f \in Gate \ task[h].todo : aggregate[r].gates[f] = task[h].evidence[f]
    BY <1>2, <2>1 DEF IInv, Evident
  <2>5. \A f \in Gate \ u.todo : Changed(aggregate[r], e).gates[f] = u.evidence[f]
    BY <1>2, <1>4, <2>2, <2>3, <2>4
  <2> QED
    BY <1>2, <1>3, <1>4, <1>7, <2>5, StoreAndGoOnKeeps
<1> QED
  BY <1>5, <1>6, <1>7

LEMMA WaiveKeeps ==
    ASSUME IInv, NEW h \in Handler, Waive(h)
    PROVE  IInv'
<1>1. CASE End(h) /\ UNCHANGED <<store, answered>>
  BY <1>1, EndKeeps
<1>2. ASSUME NEW g \in Gate, NEW a \in Approver \cup {Blank}, NEW e,
             e = [Plain("waived", task[h].release) EXCEPT !.gate = g, !.approver = a],
             Refuse(h, e) \/ StoreAndGoOn(h, e, task[h])
      PROVE  IInv'
  <2>1. task[h] \in Task /\ task[h].release \in Release /\ pc[h] = "record"
    BY DEF IInv, TypeOK, Busy, Waive, Graded
  <2>2. Good(e) /\ e.kind = "waived" /\ e.release = task[h].release
    BY <1>2, <2>1 DEF Good, Plain, Event, Verdict
  <2>3. CASE Refuse(h, e)
    BY <2>3, EndKeeps DEF Refuse
  <2>4. CASE StoreAndGoOn(h, e, task[h])
    <3>1. aggregate[task[h].release] \in Record /\ copy[h] = aggregate
      BY <2>1, <2>4 DEF IInv, TypeOK, CopyIsCurrent, StoreAndGoOn, Store, UpToDate
    <3>2. Changed(aggregate[task[h].release], e).gates = aggregate[task[h].release].gates
      BY <2>2, <3>1, ChangedIs
    <3>3. \A f \in Gate \ task[h].todo :
            Changed(aggregate[task[h].release], e).gates[f] = task[h].evidence[f]
      BY <2>1, <3>1, <3>2 DEF IInv, Evident
    <3> QED
      BY <2>1, <2>2, <2>4, <3>3, StoreAndGoOnKeeps
  <2> QED
    BY <1>2, <2>3, <2>4
<1> QED
  BY <1>1, <1>2 DEF Waive

\* What publishing stores and answers.
LEMMA PublishKeeps ==
    ASSUME IInv, NEW h \in Handler, Publish(h)
    PROVE  IInv'
<1> DEFINE r == task[h].release
           unmet == Unmet(copy[h][r])
<1>1. CASE End(h) /\ UNCHANGED <<store, answered>>
  BY <1>1, EndKeeps
<1>2. ASSUME NEW enforce \in BOOLEAN, NEW a \in Approver \cup {Blank}, NEW e,
             e = [Plain("released", r) EXCEPT !.approver = a],
             ~(enforce /\ unmet # {}), Store(h, e), End(h), Answers(r, enforce, unmet)
      PROVE  IInv'
  <2>1. r \in Release /\ pc[h] = "record" /\ task[h].todo = {}
    BY DEF IInv, TypeOK, Busy, Publish, Graded
  <2>2. Good(e) /\ e.kind = "released" /\ e.release = r
    BY <1>2, <2>1 DEF Good, Plain, Event, Verdict
  <2>3. /\ copy[h] = aggregate /\ Legal(aggregate, e)
        /\ aggregate'[r] = Changed(aggregate[r], e)
        /\ \A s \in Release : aggregate[s].state \in Final =>
             /\ aggregate'[s].state \in Final
             /\ aggregate'[s].gates = aggregate[s].gates
             /\ aggregate'[s].waived = aggregate[s].waived
    BY <1>2, <2>1, <2>2, StoreFacts DEF Target
  <2>4. /\ aggregate'[r].state = "released"
        /\ aggregate'[r].gates = aggregate[r].gates
        /\ aggregate'[r].waived = aggregate[r].waived
    <3>1. aggregate[r] \in Record
      BY <2>1 DEF IInv, TypeOK
    <3>2. e.approver # Blank /\ e.kind \in Final
      BY <2>2, <2>3 DEF Legal, Final
    <3>3. /\ Changed(aggregate[r], e).state = e.kind
          /\ Changed(aggregate[r], e).gates = aggregate[r].gates
          /\ Changed(aggregate[r], e).waived = aggregate[r].waived
      BY <2>2, <3>1, <3>2, ChangedIs
    <3> QED
      BY <2>2, <2>3, <3>3
  <2>5. unmet \in SUBSET Gate
    BY ReleaseAssumption DEF Unmet
  <2>6. answered' = [answered EXCEPT ![r] = [enforce |-> enforce, unmet |-> unmet]]
    BY <1>2 DEF Answers
  <2>7. answered' \in [Release -> Answer \cup {None}]
    BY <2>5, <2>6 DEF IInv, TypeOK, Answer
  <2>8. AnswersHonest'
    <3> SUFFICES ASSUME NEW s \in Release, answered'[s] # None
                 PROVE  /\ aggregate'[s].state \in Final
                        /\ answered'[s].unmet = {g \in Required :
                             g \notin aggregate'[s].waived /\ aggregate'[s].gates[g] # "pass"}
                        /\ answered'[s].enforce => answered'[s].unmet = {}
      BY DEF AnswersHonest
    <3>1. CASE s = r
      BY <1>2, <2>1, <2>3, <2>4, <2>6, <3>1 DEF IInv, TypeOK, Final, Unmet
    <3>2. CASE s # r
      <4>1. answered'[s] = answered[s]
        BY <2>6, <3>2 DEF IInv, TypeOK
      <4> QED
        BY <2>3, <4>1 DEF IInv, AnswersHonest
    <3> QED
      BY <3>1, <3>2
  <2> QED
    BY <1>2, <2>1, <2>2, <2>7, <2>8, StoreAndEndKeeps
<1> QED
  BY <1>1, <1>2 DEF Publish, Refuse

----------------------------------------------------------------------------
(* The invariant.                                                            *)

LEMMA InitInv == Init => IInv
<1> SUFFICES ASSUME Init PROVE IInv
  OBVIOUS
<1>1. TypeOK
  <2>1. aggregate \in [Release -> Record]
    BY EmptyCopy DEF Init
  <2> QED
    BY <2>1, NoTaskType, ReleaseAssumption DEF Init, TypeOK
<1>2. Busy /\ CopyIsCurrent /\ Evident
  BY DEF Init, Busy, CopyIsCurrent, Evident
<1>3. Untouched /\ Loadable /\ AnswersHonest
  BY DEF Init, Untouched, Loadable, AnswersHonest
<1> QED
  BY <1>1, <1>2, <1>3 DEF IInv

LEMMA StutterInv == IInv /\ UNCHANGED vars => IInv'
<1> SUFFICES ASSUME IInv, UNCHANGED vars PROVE IInv'
  OBVIOUS
<1>1. TypeOK' /\ Busy' /\ CopyIsCurrent' /\ Evident'
  BY DEF IInv, TypeOK, Busy, CopyIsCurrent, Evident, vars, store, calls
<1>2. Untouched' /\ Loadable' /\ AnswersHonest'
  BY DEF IInv, Untouched, Loadable, AnswersHonest, vars, store, calls
<1> QED
  BY <1>1, <1>2 DEF IInv

LEMMA NextInv == IInv /\ [Next]_vars => IInv'
<1> SUFFICES ASSUME IInv, Next PROVE IInv'
  BY StutterInv
<1>1. PICK h \in Handler :
        \/ Call(h) \/ Save(h)
        \/ Execute(h) \/ Grade(h) \/ Waive(h) \/ Publish(h)
        \/ Crash(h)
  BY DEF Next
<1>2. Crash(h) => IInv'
  BY EndKeeps DEF Crash
<1> QED
  BY <1>1, <1>2, CallKeeps, SaveKeeps, ExecuteKeeps, GradeKeeps, WaiveKeeps, PublishKeeps

LEMMA AlwaysInv == Spec => []IInv
BY InitInv, NextInv, PTL DEF Spec

----------------------------------------------------------------------------
\* Every variable keeps its type: what is on record of a release is made of
\* verdicts on gates, waivers and a signer, never a blank one.
THEOREM ReleaseTypeCorrect == Spec => []TypeOK
<1>1. IInv => TypeOK
  BY DEF IInv
<1> QED
  BY <1>1, AlwaysInv, PTL

\* The stored events can always be replayed (domain/codebook.py: the guards of
\* the methods run again when an aggregate is loaded), however calls overlap.
THEOREM EventsStayLoadable == Spec => []Loadable
<1>1. IInv => Loadable
  BY DEF IInv
<1> QED
  BY <1>1, AlwaysInv, PTL

\* A call that answers "released" has released, and the unmet gates it names are
\* those of the record from then on (ReleaseService.release, execute_release).
THEOREM AnswersAreHonest == Spec => []AnswersHonest
<1>1. IInv => AnswersHonest
  BY DEF IInv
<1> QED
  BY <1>1, AlwaysInv, PTL

\* A release is published on the results of the evidence its own call gathered
\* (execute_release), whatever other calls have put on the draft.
THEOREM EvidenceIsOwn == Spec => EvidenceIsItsOwn
<1> DEFINE Own ==
       \A h \in Handler :
         pc[h] = "record" /\ pc'[h] = "idle"
           /\ answered'[task[h].release] # answered[task[h].release] =>
             aggregate'[task[h].release].gates = task[h].evidence
<1>1. IInv /\ [Next]_vars => [Own]_vars
  <2> SUFFICES ASSUME IInv, Next, NEW h \in Handler,
                      pc[h] = "record", pc'[h] = "idle",
                      answered'[task[h].release] # answered[task[h].release]
               PROVE  aggregate'[task[h].release].gates = task[h].evidence
    OBVIOUS
  <2> DEFINE r == task[h].release
             unmet == Unmet(copy[h][r])
  <2>1. PICK k \in Handler :
          \/ Call(k) \/ Save(k)
          \/ Execute(k) \/ Grade(k) \/ Waive(k) \/ Publish(k)
          \/ Crash(k)
    BY DEF Next
  <2>2. Publish(k)
    <3>1. answered' # answered
      OBVIOUS
    <3> QED
      BY <2>1, <3>1 DEF Call, Save, Execute, Grade, Waive, Crash, Load, Refuse, StoreAndGoOn
  <2>3. k = h
    BY <2>2 DEF IInv, TypeOK, Publish, Refuse, End
  <2>4. PICK a \in Approver \cup {Blank} :
          Store(h, [Plain("released", r) EXCEPT !.approver = a])
    BY <2>2, <2>3 DEF Publish, Refuse
  <2> DEFINE e == [Plain("released", r) EXCEPT !.approver = a]
  <2>5. r \in Release /\ task[h] \in Task /\ task[h].todo = {}
    BY <2>2, <2>3 DEF IInv, TypeOK, Busy, Publish, Graded
  <2>6. Good(e) /\ e.kind = "released" /\ e.release = r
    BY <2>5 DEF Good, Plain, Event, Verdict
  <2>7. Store(h, e)
    BY <2>4
  <2> HIDE DEF e
  <2>8. /\ copy[h] = aggregate /\ Legal(aggregate, e)
        /\ aggregate' \in [Release -> Record]
        /\ aggregate'[r] = Changed(aggregate[r], e)
    BY <2>5, <2>6, <2>7, StoreFacts DEF Target
  <2>9. aggregate[r] \in Record
    BY <2>5 DEF IInv, TypeOK
  <2>10. Changed(aggregate[r], e).gates = aggregate[r].gates
    <3>1. e.approver # Blank /\ e.kind \in Final
      BY <2>6, <2>8 DEF Legal, Final
    <3> QED
      BY <2>6, <2>9, <3>1, ChangedIs
  <2>11. \A g \in Gate : aggregate[r].gates[g] = task[h].evidence[g]
    BY <2>5, <2>8 DEF IInv, Evident
  <2>12. aggregate[r].gates \in [Gate -> Verdict] /\ task[h].evidence \in [Gate -> Verdict]
    BY <2>5, <2>9 DEF Record, Task
  <2> QED
    BY <2>8, <2>10, <2>11, <2>12
<1> QED
  BY <1>1, AlwaysInv, PTL DEF Spec, EvidenceIsItsOwn

----------------------------------------------------------------------------
(* The refinement.                                                           *)

Life_state == [r \in Release |-> aggregate[r].state]

Life_record ==
    [r \in Release |->
        [gates |-> aggregate[r].gates, waived |-> aggregate[r].waived,
         approver |-> aggregate[r].approver]]

Life_Record ==
    [gates : [Gate -> Verdict], waived : SUBSET Gate, approver : Approver \cup {None}]

\* What a step of one release is, over the two functions.
LEMMA LifeNext ==
    ASSUME NEW r \in Release,
           \/ /\ \/ Life_state[r] = "none" /\ Life_state' = [Life_state EXCEPT ![r] = "draft"]
                 \/ /\ Life_state[r] = "released"
                    /\ \E to \in {"superseded", "retired"} :
                         Life_state' = [Life_state EXCEPT ![r] = to]
              /\ Life_record' = Life_record
           \/ /\ Life_state[r] = "draft" /\ Life_state' = Life_state
              /\ \E x \in Life_Record : Life_record' = [Life_record EXCEPT ![r] = x]
           \/ /\ Life_state[r] = "draft" /\ Life_state' = [Life_state EXCEPT ![r] = "released"]
              /\ \E x \in Life_Record :
                   /\ [x EXCEPT !.approver = Life_record[r].approver] = Life_record[r]
                   /\ Life_record' = [Life_record EXCEPT ![r] = x]
    PROVE  Life!Next
BY DEF Life!Next, Life!Open, Life!Weigh, Life!Publish, Life!Withdraw, Life!Become,
       Life_state, Life_record, Life_Record

LEMMA StoreRefines ==
    ASSUME IInv, NEW h \in Handler, pc[h] # "idle", NEW e, Good(e), Store(h, e),
           e.kind = "proposed" => copy[h][e.next].state = "none"
    PROVE  Life!Next
<1> DEFINE q == Target(e)
           x == Changed(aggregate[q], e)
           y == [gates |-> x.gates, waived |-> x.waived, approver |-> x.approver]
<1>1. /\ Legal(aggregate, e)
      /\ aggregate' \in [Release -> Record]
      /\ \A s \in Release : s # q => aggregate'[s] = aggregate[s]
      /\ aggregate'[q] = x
      /\ aggregate[q].state \in
            IF e.kind = "proposed" THEN {"none"} ELSE Needs(e.kind)
  <2>1. Legal(aggregate, e) /\ aggregate' \in [Release -> Record]
    BY StoreFacts
  <2>2. \A s \in Release : s # q => aggregate'[s] = aggregate[s]
    <3>1. aggregate \in [Release -> Record] /\ aggregate' = After(aggregate, e)
      BY DEF IInv, TypeOK, Store
    <3> QED
      BY <3>1, AfterIs
  <2>3. aggregate'[q] = x
    BY StoreFacts
  <2>4. aggregate[q].state \in
          IF e.kind = "proposed" THEN {"none"} ELSE Needs(e.kind)
    BY StoreFacts
  <2> QED
    BY <2>1, <2>2, <2>3, <2>4
<1>2. aggregate \in [Release -> Record] /\ q \in Release
  BY AfterIs DEF IInv, TypeOK
<1>3. e.kind = "released" => e.approver # Blank
  BY <1>1 DEF Legal
<1>4. x \in Record
  BY <1>2, <1>3, ChangedIs
<1>5. y \in Life_Record
  BY <1>4 DEF Record, Life_Record
<1> HIDE DEF x
<1>6. Life_state' = [Life_state EXCEPT ![q] = x.state]
  BY <1>1, <1>2 DEF Life_state
<1>7. Life_record' = [Life_record EXCEPT ![q] = y]
  BY <1>1, <1>2 DEF Life_record
<1>8. /\ Life_state[q] = aggregate[q].state
      /\ Life_record[q] = [gates |-> aggregate[q].gates, waived |-> aggregate[q].waived,
                           approver |-> aggregate[q].approver]
  BY <1>2 DEF Life_state, Life_record
<1>9. CASE e.kind \in {"requested", "proposed"}
  <2>1. x = Fresh("draft")
    <3>1. aggregate[q] \in Record
      BY <1>2
    <3> QED
      BY <1>3, <1>9, <3>1, ChangedIs DEF x
  <2>2. aggregate[q].state = "none" /\ aggregate[q] = Fresh("none")
    BY <1>1, <1>2, <1>9 DEF IInv, Untouched, Needs
  <2>3. x.state = "draft" /\ y = Life_record[q]
    BY <1>8, <2>1, <2>2 DEF Fresh
  <2>4. Life_record' = Life_record
    BY <1>2, <1>7, <2>3 DEF Life_record
  <2> QED
    BY <1>2, <1>6, <1>8, <2>2, <2>3, <2>4, LifeNext
<1>10. CASE e.kind \in {"graded", "waived"}
  <2>1. x.state = aggregate[q].state /\ aggregate[q].state = "draft"
    BY <1>1, <1>2, <1>3, <1>10, ChangedIs DEF Needs, x
  <2>2. Life_state' = Life_state
    BY <1>2, <1>6, <2>1 DEF Life_state
  <2> QED
    BY <1>2, <1>5, <1>7, <1>8, <2>1, <2>2, LifeNext
<1>11. CASE e.kind = "released"
  <2>1. /\ x.state = "released" /\ aggregate[q].state = "draft"
        /\ x.gates = aggregate[q].gates /\ x.waived = aggregate[q].waived
    <3>1. aggregate[q] \in Record /\ e.kind \in Final
      BY <1>2, <1>11 DEF Final
    <3>2. aggregate[q].state = "draft"
      BY <1>1, <1>11 DEF Needs
    <3> QED
      BY <1>3, <1>11, <3>1, <3>2, ChangedIs DEF x
  <2>2. [y EXCEPT !.approver = Life_record[q].approver] = Life_record[q]
    BY <1>8, <2>1
  <2> QED
    BY <1>2, <1>5, <1>6, <1>7, <1>8, <2>1, <2>2, LifeNext
<1>12. CASE e.kind \in Gone
  <2>1. aggregate[q].state = "released" /\ aggregate[q] \in Record
    BY <1>1, <1>2, <1>12 DEF Needs, Gone
  <2>2. /\ x.state = e.kind /\ x.approver = aggregate[q].approver
        /\ x.gates = aggregate[q].gates /\ x.waived = aggregate[q].waived
    BY <1>3, <1>12, <2>1, ChangedIs DEF Final, Gone, x
  <2>3. Life_record' = Life_record
    BY <1>2, <1>7, <1>8, <2>2 DEF Life_record
  <2>4. \E to \in {"superseded", "retired"} : Life_state' = [Life_state EXCEPT ![q] = to]
    BY <1>6, <1>12, <2>2 DEF Gone
  <2> QED
    BY <1>2, <1>8, <2>1, <2>3, <2>4, LifeNext
<1> QED
  BY <1>9, <1>10, <1>11, <1>12 DEF Good, Event, Gone

LEMMA StepRefines ==
    ASSUME IInv, [Next]_vars
    PROVE  [Life!Next]_<<Life_state, Life_record>>
<1>1. CASE UNCHANGED vars
  BY <1>1 DEF vars, store, calls, Life_state, Life_record
<1>2. CASE Next
  <2>1. PICK h \in Handler :
          \/ Call(h) \/ Save(h)
          \/ Execute(h) \/ Grade(h) \/ Waive(h) \/ Publish(h)
          \/ Crash(h)
    BY <1>2 DEF Next
  <2>2. CASE UNCHANGED store
    BY <2>2 DEF store, Life_state, Life_record
  <2>3. CASE ~UNCHANGED store
    <3>1. Save(h) \/ Grade(h) \/ Waive(h) \/ Publish(h)
      BY <2>1, <2>3 DEF Call, Execute, Crash, Load
    <3>2. task[h] \in Task /\ task[h].todo \in SUBSET Gate
      BY DEF IInv, TypeOK, Task
    <3>3. \E e : /\ Good(e) /\ Store(h, e)
                 /\ e.kind = "proposed" => copy[h][e.next].state = "none"
      <4>1. CASE Save(h)
        <5>1. Store(h, EventOf(task[h]))
          BY <2>3, <4>1 DEF Save, Refuse
        <5>2. /\ Good(EventOf(task[h]))
              /\ EventOf(task[h]).kind = "proposed"
                   => copy[h][EventOf(task[h]).next].state = "none"
          BY <3>2, <4>1, EventGood DEF IInv, Busy, Save
        <5> QED
          BY <5>1, <5>2
      <4>2. CASE Grade(h)
        <5>1. task[h].release \in Release
          BY <4>2 DEF IInv, Busy, Grade
        <5>2. PICK g \in task[h].todo, v \in {"pass", "fail"} :
                Store(h, [Plain("graded", task[h].release) EXCEPT !.gate = g, !.verdict = v])
          BY <2>3, <4>2 DEF Grade, Refuse, StoreAndGoOn
        <5> DEFINE e == [Plain("graded", task[h].release) EXCEPT !.gate = g, !.verdict = v]
        <5>3. Good(e) /\ e.kind = "graded"
          BY <3>2, <5>1 DEF Good, Plain, Event, Verdict
        <5> QED
          BY <5>2, <5>3
      <4>3. CASE Waive(h)
        <5>1. task[h].release \in Release
          BY <4>3 DEF IInv, Busy, Waive, Graded
        <5>2. PICK g \in Gate, a \in Approver \cup {Blank} :
                Store(h, [Plain("waived", task[h].release) EXCEPT !.gate = g, !.approver = a])
          BY <2>3, <4>3 DEF Waive, Refuse, StoreAndGoOn
        <5> DEFINE e == [Plain("waived", task[h].release) EXCEPT !.gate = g, !.approver = a]
        <5>3. Good(e) /\ e.kind = "waived"
          BY <5>1 DEF Good, Plain, Event, Verdict
        <5> QED
          BY <5>2, <5>3
      <4>4. CASE Publish(h)
        <5>1. task[h].release \in Release
          BY <4>4 DEF IInv, Busy, Publish, Graded
        <5>2. PICK a \in Approver \cup {Blank} :
                Store(h, [Plain("released", task[h].release) EXCEPT !.approver = a])
          BY <2>3, <4>4 DEF Publish, Refuse
        <5> DEFINE e == [Plain("released", task[h].release) EXCEPT !.approver = a]
        <5>3. Good(e) /\ e.kind = "released"
          BY <5>1 DEF Good, Plain, Event, Verdict
        <5> QED
          BY <5>2, <5>3
      <4> QED
        BY <3>1, <4>1, <4>2, <4>3, <4>4
    <3>4. pc[h] # "idle"
      BY <3>1 DEF Save, Grade, Waive, Publish, Graded
    <3> QED
      BY <3>3, <3>4, StoreRefines
  <2> QED
    BY <2>2, <2>3
<1> QED
  BY <1>1, <1>2

\* Every behaviour of the handlers is a behaviour of the abstract lifecycle: each
\* release is a draft, then released, then withdrawn, and what is on record
\* changes on drafts only.
THEOREM ReleaseImplementsLifecycle == Spec => Implements
<1>1. Init => Life!Init
  <2> SUFFICES ASSUME Init PROVE Life!Init
    OBVIOUS
  <2>1. Life_state = [r \in Release |-> "none"]
    BY DEF Init, Fresh, Life_state
  <2>2. Life_record \in [Release -> Life_Record]
    BY EmptyCopy DEF Init, Life_record, Life_Record, Record
  <2> QED
    BY <2>1, <2>2 DEF Life!Init, Life_state, Life_record, Life_Record
<1>2. IInv /\ [Next]_vars => [Life!Next]_<<Life_state, Life_record>>
  BY StepRefines
<1> QED
  BY <1>1, <1>2, AlwaysInv, PTL DEF Spec, Implements, Life!Spec, Life_state, Life_record
=============================================================================
