------------------------ MODULE CodePromotionProofs ------------------------
(* Proofs about CodePromotion, for any proposals, callers and likeness.      *)
EXTENDS CodePromotion, SequenceTheorems, TLAPS

\* A call that has loaded has a proposal, and one about to mark has minted a
\* version of it.
CallInv ==
    \A c \in Caller :
        /\ call[c].pc # "idle" => call[c].proposal \in Proposal
        /\ call[c].pc = "mark" =>
              /\ call[c].version \in Id
              /\ versions[call[c].version].of = call[c].proposal

\* Only a proposal that has been decided names a version.
DecidedInv ==
    \A p \in Proposal : status[p] \in {"absent", "proposed"} => named[p] = 0

\* What a call has been shown are versions, and so is what had been answered.
ShownInv ==
    /\ \A c \in Caller : call[c].shown \subseteq Id /\ call[c].before \subseteq Id
    /\ \A v \in Id : versions[v].before \subseteq Id

\* A version whose call has caught up and returned is projected, so a later call is shown it
\* unless the projection has failed.
AnsweredInv ==
    /\ answered \subseteq 1 .. head
    /\ \A c \in Caller :
          call[c].pc = "gate" => call[c].before \subseteq call[c].shown \cup lost

PromotionInv ==
    /\ TypeOK
    /\ CallInv
    /\ DecidedInv
    /\ ShownInv
    /\ AnsweredInv
    /\ VersionsAccounted
    /\ DuplicatesOverlap

LEMMA InitHolds == Init => PromotionInv
<1>1. SUFFICES ASSUME Init PROVE PromotionInv
  OBVIOUS
<1>2. TypeOK
  BY <1>1, PromotionAssumption
  DEF Init, TypeOK, Id, Status, Call, Idle, Version
<1>3. CallInv /\ DecidedInv /\ ShownInv /\ AnsweredInv
  BY <1>1 DEF Init, CallInv, DecidedInv, ShownInv, AnsweredInv, Idle, Id
<1>4. VersionsAccounted /\ DuplicatesOverlap
  BY <1>1 DEF Init, VersionsAccounted, DuplicatesOverlap, Id
<1>5. QED
  BY <1>2, <1>3, <1>4 DEF PromotionInv

----------------------------------------------------------------------------
(* One lemma per group of actions.                                           *)

LEMMA StutterHolds == PromotionInv /\ UNCHANGED vars => PromotionInv'
<1>1. SUFFICES ASSUME PromotionInv, UNCHANGED vars PROVE PromotionInv'
  OBVIOUS
<1>2. TypeOK'
  BY <1>1 DEF PromotionInv, vars, table, events, history, TypeOK, Id
<1>3. (CallInv /\ DecidedInv /\ ShownInv /\ AnsweredInv)'
  BY <1>1 DEF PromotionInv, vars, table, events, history, CallInv, DecidedInv,
              ShownInv, AnsweredInv, Id
<1>4. (VersionsAccounted /\ DuplicatesOverlap)'
  BY <1>1 DEF PromotionInv, vars, table, events, history, VersionsAccounted,
              DuplicatesOverlap, Id
<1>5. QED
  BY <1>2, <1>3, <1>4 DEF PromotionInv

LEMMA DraftHolds == PromotionInv /\ Draft => PromotionInv'
<1>1. SUFFICES ASSUME PromotionInv, Draft PROVE PromotionInv'
  OBVIOUS
<1>2. UNCHANGED <<named, versions, head, lost, call, answered, refused, crashed>>
  BY <1>1 DEF Draft, events, history
<1>3. PICK P \in SUBSET {p \in Proposal : status[p] = "absent"} :
        status' = [p \in Proposal |-> IF p \in P THEN "proposed" ELSE status[p]]
  BY <1>1 DEF Draft
<1>4. TypeOK'
  BY <1>1, <1>2, <1>3 DEF PromotionInv, TypeOK, Id, Status
<1>5. DecidedInv'
  BY <1>1, <1>2, <1>3 DEF PromotionInv, TypeOK, DecidedInv
<1>6. (CallInv /\ ShownInv /\ AnsweredInv)'
  BY <1>1, <1>2 DEF PromotionInv, CallInv, ShownInv, AnsweredInv, Id
<1>7. (VersionsAccounted /\ DuplicatesOverlap)'
  BY <1>1, <1>2 DEF PromotionInv, VersionsAccounted, DuplicatesOverlap, Id
<1>8. QED
  BY <1>4, <1>5, <1>6, <1>7 DEF PromotionInv

LEMMA ProjectHolds == PromotionInv /\ Project => PromotionInv'
<1>1. SUFFICES ASSUME PromotionInv, Project PROVE PromotionInv'
  OBVIOUS
<1>2. UNCHANGED <<status, named, versions, call, answered, refused, crashed>>
  BY <1>1 DEF Project, table, history
<1>3. /\ head \in Nat /\ head' = head + 1 /\ head' \in Id
      /\ lost \subseteq lost' /\ lost' \subseteq lost \cup {head + 1}
  BY <1>1 DEF Project, Behind, PromotionInv, TypeOK, Id
<1>4. TypeOK'
  BY <1>1, <1>2, <1>3 DEF PromotionInv, TypeOK, Id
<1>5. (CallInv /\ DecidedInv /\ ShownInv)'
  BY <1>1, <1>2 DEF PromotionInv, CallInv, DecidedInv, ShownInv, Id
<1>6. AnsweredInv'
  BY <1>1, <1>2, <1>3 DEF PromotionInv, AnsweredInv
<1>7. (VersionsAccounted /\ DuplicatesOverlap)'
  BY <1>1, <1>2, <1>3 DEF PromotionInv, VersionsAccounted, DuplicatesOverlap, Id
<1>8. QED
  BY <1>4, <1>5, <1>6, <1>7 DEF PromotionInv

\* Steps of a call that write neither the table nor the log and note nothing:
\* load, read the registry, miss the members.
LEMMA ReadHolds ==
    ASSUME PromotionInv, NEW c \in Caller, Load(c) \/ ReadRegistry(c) \/ NoMembers(c)
    PROVE  PromotionInv'
<1>1. UNCHANGED <<status, named, versions, head, lost, answered, refused, crashed>>
  BY DEF Load, ReadRegistry, NoMembers, table, events, history
<1>2. /\ call' \in [Caller -> Call]
      /\ call[c].pc # "mark" /\ call'[c].pc # "mark"
      /\ call'[c].version = call[c].version
      /\ call'[c].proposal \in Proposal
      /\ \A d \in Caller \ {c} : call'[d] = call[d]
  <2>1. CASE Load(c)
    <3>1. PICK p \in Proposal :
            call' = [call EXCEPT ![c].pc = "loaded", ![c].proposal = p]
      BY <2>1 DEF Load
    <3>2. call \in [Caller -> Call] /\ call[c] \in Call /\ call[c].pc = "idle"
      BY <2>1 DEF PromotionInv, TypeOK, Load
    <3>3. call' \in [Caller -> Call]
      BY <3>1, <3>2 DEF Call
    <3>4. QED
      BY <3>1, <3>2, <3>3 DEF Call
  <2>2. CASE ReadRegistry(c)
    <3>1. call' = [call EXCEPT ![c].pc = "gate", ![c].shown = Registry,
                               ![c].before = answered]
      BY <2>2 DEF ReadRegistry
    <3>2. call \in [Caller -> Call] /\ call[c] \in Call /\ call[c].pc = "loaded"
      BY <2>2 DEF PromotionInv, TypeOK, ReadRegistry
    <3>3. Registry \subseteq Nat /\ answered \subseteq Nat
      BY DEF PromotionInv, TypeOK, Registry, Id
    <3>4. call' \in [Caller -> Call]
      BY <3>1, <3>2, <3>3 DEF Call
    <3>5. QED
      BY <3>1, <3>2, <3>4 DEF PromotionInv, CallInv, Call
  <2>3. CASE NoMembers(c)
    BY <2>3 DEF PromotionInv, TypeOK, CallInv, Call, NoMembers
  <2>4. QED
    BY <2>1, <2>2, <2>3
<1>3. /\ call'[c].shown \subseteq Id /\ call'[c].before \subseteq Id
      /\ call'[c].pc = "gate" => call'[c].before \subseteq call'[c].shown \cup lost
  <2> call \in [Caller -> Call] /\ call[c] \in Call
    BY DEF PromotionInv, TypeOK
  <2>1. CASE Load(c) \/ NoMembers(c)
    <3>1. /\ call'[c].shown = call[c].shown /\ call'[c].before = call[c].before
          /\ call'[c].pc # "gate"
      <4>1. CASE Load(c)
        <5>1. PICK p \in Proposal :
                call' = [call EXCEPT ![c].pc = "loaded", ![c].proposal = p]
          BY <4>1 DEF Load
        <5>2. QED
          BY <5>1 DEF Call
      <4>2. CASE NoMembers(c)
        BY <4>2 DEF NoMembers, Call
      <4>3. QED
        BY <2>1, <4>1, <4>2
    <3>2. QED
      BY <3>1 DEF PromotionInv, ShownInv
  <2>2. CASE ReadRegistry(c)
    <3>1. call'[c].shown = Registry /\ call'[c].before = answered
      BY <2>2 DEF ReadRegistry, Call
    <3>2. /\ Registry \subseteq Id /\ answered \subseteq Id
          /\ answered \subseteq Registry \cup lost
      <4>1. answered \subseteq Id /\ answered \subseteq 1 .. head
        BY DEF PromotionInv, TypeOK, AnsweredInv
      <4>2. 1 .. head \subseteq Id
        BY DEF PromotionInv, TypeOK, Id
      <4>3. QED
        BY <4>1, <4>2 DEF Registry
    <3>3. QED
      BY <3>1, <3>2
  <2>3. QED
    BY <2>1, <2>2
<1>4. TypeOK'
  BY <1>1, <1>2 DEF PromotionInv, TypeOK, Id
<1>5. CallInv' /\ DecidedInv'
  BY <1>1, <1>2 DEF PromotionInv, CallInv, DecidedInv, Id
<1>6. ShownInv' /\ AnsweredInv'
  BY <1>1, <1>2, <1>3 DEF PromotionInv, ShownInv, AnsweredInv, Id
<1>7. (VersionsAccounted /\ DuplicatesOverlap)'
  BY <1>1, <1>2 DEF PromotionInv, VersionsAccounted, DuplicatesOverlap, Id
<1>8. QED
  BY <1>4, <1>5, <1>6, <1>7 DEF PromotionInv

LEMMA BlockHolds ==
    ASSUME PromotionInv, NEW c \in Caller, Block(c)
    PROVE  PromotionInv'
<1>1. /\ UNCHANGED <<named, versions, head, lost, answered, refused, crashed>>
      /\ call[c].pc = "gate" /\ call[c].proposal \in Proposal
      /\ status' = [status EXCEPT ![call[c].proposal] = "duplicate_blocked"]
      /\ call' = [call EXCEPT ![c].pc = "return"]
  BY DEF Block, events, history, PromotionInv, CallInv
<1>2. TypeOK'
  BY <1>1 DEF PromotionInv, TypeOK, Id, Status, Call
<1>3. CallInv' /\ ShownInv' /\ AnsweredInv'
  BY <1>1 DEF PromotionInv, TypeOK, CallInv, ShownInv, AnsweredInv, Id, Call
<1>4. DecidedInv'
  BY <1>1 DEF PromotionInv, TypeOK, DecidedInv
<1>5. VersionsAccounted'
  BY <1>1 DEF PromotionInv, TypeOK, VersionsAccounted, Id, Call
<1>6. DuplicatesOverlap'
  BY <1>1 DEF PromotionInv, DuplicatesOverlap, Id
<1>7. QED
  BY <1>2, <1>3, <1>4, <1>5, <1>6 DEF PromotionInv

LEMMA MintHolds ==
    ASSUME PromotionInv, NEW c \in Caller, Mint(c)
    PROVE  PromotionInv'
<1> DEFINE new == [of |-> call[c].proposal, before |-> call[c].before]
           n == Len(versions) + 1
<1>1. /\ UNCHANGED <<status, named, head, lost, answered, refused, crashed>>
      /\ call[c].pc = "gate" /\ call[c] \in Call /\ call[c].proposal \in Proposal
      /\ ~Duplicate(call[c].proposal, call[c].shown)
      /\ versions' = Append(versions, new)
      /\ call' = [call EXCEPT ![c].pc = "mark", ![c].version = n]
  BY DEF Mint, table, history, PromotionInv, TypeOK, CallInv
<1>2. versions \in Seq(Version) /\ new \in Version
  BY <1>1 DEF PromotionInv, TypeOK, Version, Call
<1>3. /\ versions' \in Seq(Version) /\ n \in Nat /\ n \notin Id
      /\ Id' = Id \cup {n} /\ versions'[n] = new
      /\ \A v \in Id : versions'[v] = versions[v]
  BY <1>1, <1>2 DEF Id
<1>4. TypeOK'
  <2>1. call' \in [Caller -> Call]
    BY <1>1, <1>3 DEF PromotionInv, TypeOK, Call
  <2>2. \A d \in Caller : call'[d].version \in {0} \cup Id'
    BY <1>1, <1>3 DEF PromotionInv, TypeOK, Call
  <2>3. QED
    BY <1>1, <1>3, <2>1, <2>2 DEF PromotionInv, TypeOK
<1>5. CallInv'
  <2>1. call'[c].pc = "mark" /\ call'[c].version = n /\ call'[c].proposal = new.of
    BY <1>1 DEF PromotionInv, TypeOK, Call
  <2>2. n \in Id' /\ versions'[n].of = new.of /\ new.of \in Proposal
    BY <1>1, <1>3
  <2>3. ASSUME NEW d \in Caller, d # c PROVE call'[d] = call[d]
    BY <1>1, <2>3 DEF PromotionInv, TypeOK
  <2>4. QED
    BY <1>3, <2>1, <2>2, <2>3 DEF PromotionInv, CallInv
<1>6. DecidedInv'
  BY <1>1 DEF PromotionInv, DecidedInv
<1>7. ShownInv'
  BY <1>1, <1>3 DEF PromotionInv, TypeOK, ShownInv, Call
<1>8. AnsweredInv'
  BY <1>1 DEF PromotionInv, TypeOK, AnsweredInv, Call
<1>9. VersionsAccounted'
  <2>1. ASSUME NEW v \in Id
        PROVE  \/ named'[versions'[v].of] = v
               \/ \E d \in Caller : call'[d].pc = "mark" /\ call'[d].version = v
               \/ v \in refused' \cup crashed'
    <3>1. CASE named[versions[v].of] = v \/ v \in refused \cup crashed
      BY <1>1, <1>3, <3>1
    <3>2. CASE \E d \in Caller : call[d].pc = "mark" /\ call[d].version = v
      <4>1. PICK d \in Caller : call[d].pc = "mark" /\ call[d].version = v
        BY <3>2
      <4>2. d # c
        BY <1>1, <4>1
      <4>3. call'[d] = call[d]
        BY <1>1, <4>2 DEF PromotionInv, TypeOK
      <4>4. QED
        BY <4>1, <4>3
    <3>3. QED
      BY <2>1, <3>1, <3>2 DEF PromotionInv, VersionsAccounted
  <2>2. call'[c].pc = "mark" /\ call'[c].version = n
    BY <1>1 DEF PromotionInv, TypeOK, Call
  <2>3. QED
    BY <1>3, <2>1, <2>2 DEF VersionsAccounted
<1>10. DuplicatesOverlap'
  <2>1. ASSUME NEW u \in new.before, <<new.of, versions[u].of>> \in Alike
        PROVE  u \in lost
    <3>1. u \in Id /\ u \in call[c].shown \cup lost
      BY <1>1, <2>1 DEF PromotionInv, ShownInv, AnsweredInv
    <3>2. u \notin call[c].shown
      BY <1>1, <2>1 DEF Duplicate
    <3>3. QED
      BY <3>1, <3>2
  <2>2. \A u \in new.before : u \in Id
    BY DEF PromotionInv, ShownInv
  <2>3. \A v \in Id : versions[v].before \subseteq Id
    BY DEF PromotionInv, ShownInv
  <2>4. QED
    BY <1>1, <1>3, <2>1, <2>2, <2>3 DEF PromotionInv, DuplicatesOverlap
<1>11. QED
  BY <1>4, <1>5, <1>6, <1>7, <1>8, <1>9, <1>10 DEF PromotionInv

LEMMA MarkHolds ==
    ASSUME PromotionInv, NEW c \in Caller, Mark(c)
    PROVE  PromotionInv'
<1> DEFINE p == call[c].proposal
           n == call[c].version
<1>1. /\ UNCHANGED <<versions, head, lost, answered, refused, crashed>>
      /\ call[c].pc = "mark" /\ p \in Proposal /\ status[p] = "proposed"
      /\ status' = [status EXCEPT ![p] = "promoted"]
      /\ named' = [named EXCEPT ![p] = n]
      /\ call' = [call EXCEPT ![c].pc = "return"]
      /\ n \in Id /\ versions[n].of = p /\ named[p] = 0
  BY DEF Mark, Promotable, events, history, PromotionInv, CallInv, DecidedInv
<1>2. TypeOK'
  <2>1. status' \in [Proposal -> Status]
    BY <1>1 DEF PromotionInv, TypeOK, Status
  <2>2. named' \in [Proposal -> {0} \cup Id]
    BY <1>1 DEF PromotionInv, TypeOK
  <2>3. call' \in [Caller -> Call] /\ \A d \in Caller : call'[d].version = call[d].version
    BY <1>1 DEF PromotionInv, TypeOK, Call
  <2>4. QED
    BY <1>1, <2>1, <2>2, <2>3 DEF PromotionInv, TypeOK, Id
<1>3. CallInv' /\ ShownInv' /\ AnsweredInv'
  BY <1>1 DEF PromotionInv, TypeOK, CallInv, ShownInv, AnsweredInv, Id, Call
<1>4. DecidedInv'
  BY <1>1 DEF PromotionInv, TypeOK, DecidedInv
<1>5. VersionsAccounted'
  <2>1. \A v \in Id : v # 0
    BY DEF PromotionInv, TypeOK, Id
  <2>2. ASSUME NEW v \in Id, v # n
        PROVE  \/ named'[versions[v].of] = v
               \/ \E d \in Caller : call'[d].pc = "mark" /\ call'[d].version = v
               \/ v \in refused \cup crashed
    <3>1. CASE v \in refused \cup crashed
      BY <3>1
    <3>2. CASE named[versions[v].of] = v
      BY <1>1, <2>1, <3>2 DEF PromotionInv, TypeOK
    <3>3. CASE \E d \in Caller : call[d].pc = "mark" /\ call[d].version = v
      <4>1. PICK d \in Caller : call[d].pc = "mark" /\ call[d].version = v
        BY <3>3
      <4>2. d # c
        BY <2>2, <4>1
      <4>3. call'[d] = call[d]
        BY <1>1, <4>2 DEF PromotionInv, TypeOK
      <4>4. QED
        BY <4>1, <4>3
    <3>4. QED
      BY <3>1, <3>2, <3>3 DEF PromotionInv, VersionsAccounted
  <2>3. named'[p] = n
    BY <1>1 DEF PromotionInv, TypeOK
  <2>4. QED
    BY <1>1, <2>2, <2>3 DEF VersionsAccounted, Id
<1>6. DuplicatesOverlap'
  BY <1>1 DEF PromotionInv, DuplicatesOverlap, Id
<1>7. QED
  BY <1>2, <1>3, <1>4, <1>5, <1>6 DEF PromotionInv

LEMMA MarkMissesHolds ==
    ASSUME PromotionInv, NEW c \in Caller, MarkMisses(c)
    PROVE  PromotionInv'
<1>1. /\ UNCHANGED <<status, named, versions, head, lost, answered, crashed>>
      /\ call[c].pc = "mark" /\ call[c].version \in Id
      /\ refused' = refused \cup {call[c].version}
      /\ call' = [call EXCEPT ![c].pc = "return"]
  BY DEF MarkMisses, table, events, PromotionInv, CallInv
<1>2. TypeOK'
  BY <1>1 DEF PromotionInv, TypeOK, Id, Call
<1>3. CallInv' /\ ShownInv' /\ AnsweredInv'
  BY <1>1 DEF PromotionInv, TypeOK, CallInv, ShownInv, AnsweredInv, Id, Call
<1>4. DecidedInv' /\ DuplicatesOverlap'
  BY <1>1 DEF PromotionInv, DecidedInv, DuplicatesOverlap, Id
<1>5. VersionsAccounted'
  BY <1>1 DEF PromotionInv, TypeOK, VersionsAccounted, Id, Call
<1>6. QED
  BY <1>2, <1>3, <1>4, <1>5 DEF PromotionInv

\* What an idle call carries is empty.
LEMMA IdleFacts ==
    /\ Idle \in Call /\ Idle.pc = "idle" /\ Idle.version = 0
    /\ Idle.shown = {} /\ Idle.before = {}
BY DEF Idle, Call

LEMMA ReturnHolds ==
    ASSUME PromotionInv, NEW c \in Caller, Return(c)
    PROVE  PromotionInv'
<1>1. /\ UNCHANGED <<status, named, versions, head, lost, refused, crashed>>
      /\ call[c].pc = "return"
      /\ answered \subseteq answered'
      /\ answered' \subseteq answered \cup ({call[c].version} \ {0})
      /\ call' = [call EXCEPT ![c] = Idle]
  BY DEF Return, table, events
<1>2. Id = 1 .. head
  BY DEF Return, CaughtUp, Behind, PromotionInv, TypeOK, Id
<1>3. TypeOK'
  BY <1>1, IdleFacts DEF PromotionInv, TypeOK, Id
<1>4. CallInv' /\ ShownInv'
  BY <1>1, IdleFacts DEF PromotionInv, TypeOK, CallInv, ShownInv, Id
<1>5. AnsweredInv'
  BY <1>1, <1>2, IdleFacts DEF PromotionInv, TypeOK, AnsweredInv
<1>6. DecidedInv' /\ DuplicatesOverlap'
  BY <1>1 DEF PromotionInv, DecidedInv, DuplicatesOverlap, Id
<1>7. VersionsAccounted'
  BY <1>1 DEF PromotionInv, TypeOK, VersionsAccounted, Id
<1>8. QED
  BY <1>3, <1>4, <1>5, <1>6, <1>7 DEF PromotionInv

LEMMA ReturnBehindHolds ==
    ASSUME PromotionInv, NEW c \in Caller, ReturnBehind(c)
    PROVE  PromotionInv'
<1>1. /\ UNCHANGED <<status, named, versions, head, lost, answered, refused, crashed>>
      /\ call[c].pc = "return"
      /\ call' = [call EXCEPT ![c] = Idle]
  BY DEF ReturnBehind, table, events, history
<1>2. TypeOK'
  BY <1>1, IdleFacts DEF PromotionInv, TypeOK, Id
<1>3. CallInv' /\ ShownInv' /\ AnsweredInv'
  BY <1>1, IdleFacts DEF PromotionInv, TypeOK, CallInv, ShownInv, AnsweredInv, Id
<1>4. DecidedInv' /\ DuplicatesOverlap'
  BY <1>1 DEF PromotionInv, DecidedInv, DuplicatesOverlap, Id
<1>5. VersionsAccounted'
  BY <1>1 DEF PromotionInv, TypeOK, VersionsAccounted, Id
<1>6. QED
  BY <1>2, <1>3, <1>4, <1>5 DEF PromotionInv

LEMMA CrashHolds ==
    ASSUME PromotionInv, NEW c \in Caller, Crash(c)
    PROVE  PromotionInv'
<1>1. /\ UNCHANGED <<status, named, versions, head, lost, answered, refused>>
      /\ crashed \subseteq crashed'
      /\ crashed' \subseteq crashed \cup ({call[c].version} \cap Id)
      /\ call[c].pc = "mark" => call[c].version \in crashed'
      /\ call' = [call EXCEPT ![c] = Idle]
  BY DEF Crash, table, events, PromotionInv, CallInv
<1>2. TypeOK'
  BY <1>1, IdleFacts DEF PromotionInv, TypeOK, Id
<1>3. CallInv' /\ ShownInv' /\ AnsweredInv'
  BY <1>1, IdleFacts DEF PromotionInv, TypeOK, CallInv, ShownInv, AnsweredInv, Id
<1>4. DecidedInv' /\ DuplicatesOverlap'
  BY <1>1 DEF PromotionInv, DecidedInv, DuplicatesOverlap, Id
<1>5. VersionsAccounted'
  BY <1>1 DEF PromotionInv, TypeOK, VersionsAccounted, Id
<1>6. QED
  BY <1>2, <1>3, <1>4, <1>5 DEF PromotionInv

LEMMA PromotionInvHolds == Spec => []PromotionInv
<1>1. PromotionInv /\ [Next]_vars => PromotionInv'
  <2>1. SUFFICES ASSUME PromotionInv, [Next]_vars PROVE PromotionInv'
    OBVIOUS
  <2>2. CASE Draft \/ Project
    BY <2>1, <2>2, DraftHolds, ProjectHolds
  <2>3. ASSUME NEW c \in Caller,
               Step(c) \/ NoMembers(c) \/ ReturnBehind(c) \/ Crash(c)
        PROVE  PromotionInv'
    BY <2>1, <2>3, ReadHolds, BlockHolds, MintHolds, MarkHolds, MarkMissesHolds,
       ReturnHolds, ReturnBehindHolds, CrashHolds DEF Step
  <2>4. CASE UNCHANGED vars
    BY <2>1, <2>4, StutterHolds
  <2>5. QED
    BY <2>1, <2>2, <2>3, <2>4 DEF Next
<1>2. QED
  BY <1>1, InitHolds, PTL DEF Spec

----------------------------------------------------------------------------
(* The theorems.                                                             *)

\* For any proposals and callers every variable keeps its type: in particular
\* the projection never runs past the log, and proposals name real versions.
THEOREM PromotionTypeCorrect == Spec => []TypeOK
<1>1. PromotionInv => TypeOK
  BY DEF PromotionInv
<1>2. QED
  BY <1>1, PromotionInvHolds, PTL

\* Each version minted is named by its proposal, or its call is still to mark,
\* has lost the race or has crashed (promote_proposal).
THEOREM VersionsAreAccounted == Spec => []VersionsAccounted
<1>1. PromotionInv => VersionsAccounted
  BY DEF PromotionInv
<1>2. QED
  BY <1>1, PromotionInvHolds, PTL

\* Two alike versions come only from promotions that overlapped, from a projection
\* that failed, or from a catch-up that ended behind (duplicate_gate,
\* codebook_promote, the 20 reads of ResearchProjection.catch_up).
THEOREM DuplicatesComeFromOverlaps == Spec => []DuplicatesOverlap
<1>1. PromotionInv => DuplicatesOverlap
  BY DEF PromotionInv
<1>2. QED
  BY <1>1, PromotionInvHolds, PTL

\* The version a proposal names is never replaced (_mark_proposal with
\* from_status), not even when a late call blocks the proposal.
THEOREM NamesAreFinal == Spec => NamedOnce
<1>1. ASSUME PromotionInv, [Next]_vars, NEW p \in Proposal, named[p] # 0
      PROVE  named'[p] = named[p]
  <2>1. CASE UNCHANGED named
    BY <2>1
  <2>2. ASSUME NEW c \in Caller, Mark(c) PROVE named'[p] = named[p]
    <3>1. call[c].proposal # p
      BY <1>1, <2>2 DEF Mark, Promotable, PromotionInv, DecidedInv
    <3>2. QED
      BY <1>1, <2>2, <3>1 DEF Mark, PromotionInv, TypeOK
  <2>3. QED
    BY <1>1, <2>1, <2>2
    DEF Next, Step, Draft, Project, Load, ReadRegistry, NoMembers, Block, Mint,
        MarkMisses, Return, ReturnBehind, Crash, vars, table
<1>2. PromotionInv /\ [Next]_vars
      => [\A p \in Proposal : named[p] # 0 => named'[p] = named[p]]_vars
  BY <1>1
<1>3. QED
  BY <1>2, PromotionInvHolds, PTL DEF Spec, NamedOnce
----------------------------------------------------------------------------
(* The refinement.                                                           *)

\* A call is about a proposal that has been drafted.
DraftedInv ==
    \A c \in Caller : call[c].pc # "idle" => status[call[c].proposal] # "absent"

LEMMA DraftedInductive == PromotionInv /\ DraftedInv /\ [Next]_vars => DraftedInv'
<1> SUFFICES ASSUME PromotionInv, DraftedInv, [Next]_vars,
                    NEW d \in Caller, call'[d].pc # "idle"
             PROVE  status'[call'[d].proposal] # "absent"
  BY DEF DraftedInv
<1>1. ASSUME NEW p \in Proposal, status[p] # "absent" PROVE status'[p] # "absent"
  BY <1>1 DEF Next, Step, Draft, Project, Load, ReadRegistry, NoMembers, Block, Mint,
         Mark, MarkMisses, Return, ReturnBehind, Crash, vars, table, PromotionInv, TypeOK,
         CallInv
<1>2. CASE \E p \in Proposal : call'[d].proposal = p /\ status[p] # "absent"
  BY <1>1, <1>2
<1>3. CASE call'[d] = call[d]
  BY <1>2, <1>3 DEF DraftedInv, PromotionInv, CallInv
<1>4. ASSUME NEW c \in Caller, Load(c), call'[d] # call[d]
      PROVE  \E p \in Proposal : call'[d].proposal = p /\ status[p] # "absent"
  <2>1. PICK p \in Proposal :
          /\ status[p] = "proposed"
          /\ call' = [call EXCEPT ![c].pc = "loaded", ![c].proposal = p]
    BY <1>4 DEF Load
  <2>2. d = c /\ call'[c].proposal = p
    BY <1>4, <2>1 DEF PromotionInv, TypeOK, Call
  <2> QED
    BY <2>1, <2>2
<1>5. ASSUME NEW c \in Caller,
             Step(c) \/ NoMembers(c) \/ ReturnBehind(c) \/ Crash(c), ~Load(c),
             call'[d] # call[d]
      PROVE  call[d].pc # "idle" /\ call'[d].proposal = call[d].proposal
  <2>1. CASE ReadRegistry(c) \/ NoMembers(c) \/ Block(c) \/ Mint(c) \/ Mark(c) \/ MarkMisses(c)
    BY <1>5, <2>1 DEF ReadRegistry, NoMembers, Block, Mint, Mark, MarkMisses,
       PromotionInv, TypeOK, Call
  <2>2. CASE Return(c) \/ ReturnBehind(c) \/ Crash(c)
    <3>1. call' = [call EXCEPT ![c] = Idle] /\ call \in [Caller -> Call]
      BY <2>2 DEF Return, ReturnBehind, Crash, PromotionInv, TypeOK
    <3> QED
      BY <1>5, <3>1, IdleFacts
  <2> QED
    BY <1>5, <2>1, <2>2 DEF Step
<1>6. CASE Draft \/ Project \/ UNCHANGED vars
  BY <1>3, <1>6 DEF Draft, Project, vars
<1>7. ASSUME NEW c \in Caller,
             Step(c) \/ NoMembers(c) \/ ReturnBehind(c) \/ Crash(c), call'[d] # call[d]
      PROVE  \E p \in Proposal : call'[d].proposal = p /\ status[p] # "absent"
  BY <1>4, <1>5, <1>7 DEF DraftedInv, PromotionInv, CallInv
<1> QED
  BY <1>2, <1>3, <1>6, <1>7 DEF Next

\* The codebook as CodebookGrowth sees it.
Book == [v \in Id |-> versions[v].of]

LEMMA BookFacts ==
    ASSUME TypeOK
    PROVE  Book \in Seq(Proposal) /\ Len(Book) = Len(versions) /\ DOMAIN Book = Id
<1>1. versions \in Seq(Version) /\ Id = 1 .. Len(versions) /\ Len(versions) \in Nat
  BY DEF TypeOK, Id
<1>2. \A v \in 1 .. Len(versions) : versions[v].of \in Proposal
  <2>1. \A v \in 1 .. Len(versions) : versions[v] \in Version
    BY <1>1
  <2>2. \A x \in Version : x.of \in Proposal
    BY DEF Version
  <2> QED
    BY <2>1, <2>2
<1> QED
  BY <1>1, <1>2 DEF Book

LEMMA MintedBook ==
    ASSUME PromotionInv, NEW c \in Caller, Mint(c)
    PROVE  Book' = Append(Book, call[c].proposal)
<1> DEFINE p == call[c].proposal
           new == [of |-> p, before |-> call[c].before]
           n == Len(versions)
<1>1. versions' = Append(versions, new) /\ new.of = p /\ new \in Version
  BY DEF Mint, PromotionInv, TypeOK, CallInv, Call, Version
<1>2. versions \in Seq(Version) /\ n \in Nat /\ Id = 1 .. n /\ Id' = 1 .. n + 1
  BY <1>1 DEF PromotionInv, TypeOK, Id
<1>3. \A v \in 1 .. n + 1 : versions'[v].of = IF v = n + 1 THEN p ELSE versions[v].of
  BY <1>1, <1>2
<1>4. Book' = [v \in 1 .. n + 1 |-> IF v = n + 1 THEN p ELSE versions[v].of]
  BY <1>2, <1>3 DEF Book
<1>5. Book \in Seq(Proposal) /\ Len(Book) = n /\ \A v \in 1 .. n : Book[v] = versions[v].of
  BY <1>2, BookFacts DEF Book, PromotionInv
<1>6. p \in Proposal /\ n \in Nat
  BY <1>1, <1>2 DEF Version
<1>7. Append(Book, p) \in Seq(Proposal)
      /\ Len(Append(Book, p)) = n + 1
      /\ \A v \in 1 .. n + 1 : Append(Book, p)[v] = IF v = n + 1 THEN p ELSE Book[v]
  <2> HIDE DEF p, n
  <2> QED
    BY <1>5, <1>6, AppendProperties
<1>8. /\ \A v \in 1 .. n + 1 : Book'[v] = Append(Book, p)[v]
      /\ Book' = [v \in 1 .. n + 1 |-> Book'[v]]
  BY <1>2, <1>4, <1>5, <1>7
<1>9. Book' \in Seq(Proposal) /\ Len(Book') = n + 1
  <2>1. \A v \in 1 .. n + 1 : Book'[v] \in Proposal
    BY <1>7, <1>8, <1>6
  <2> HIDE DEF p, n
  <2> QED
    BY <1>6, <1>8, <2>1
<1>10. Book' = Append(Book, p)
  <2> HIDE DEF p, n
  <2> QED
    BY <1>7, <1>8, <1>9, SeqEqual
<1> QED
  BY <1>10

LEMMA StepRefines == PromotionInv /\ DraftedInv /\ [Next]_vars
                     => [Growth!Next]_<<status, named, Book>>
<1> SUFFICES ASSUME PromotionInv, DraftedInv, Next
             PROVE  Growth!Next \/ UNCHANGED <<status, named, Book>>
  BY DEF vars, table, events, Book, Id
<1>1. CASE Draft
  <2>1. PICK P \in SUBSET {p \in Proposal : status[p] = "absent"} :
          /\ P # {}
          /\ status' = [p \in Proposal |-> IF p \in P THEN "proposed" ELSE status[p]]
    BY <1>1 DEF Draft
  <2>2. UNCHANGED named /\ UNCHANGED Book
    BY <1>1 DEF Draft, events, Book, Id
  <2>3. Growth!Propose(P) /\ P \in SUBSET Proposal
    BY <2>1, <2>2 DEF Growth!Propose, Book
  <2> QED
    BY <2>3 DEF Growth!Next
<1>2. CASE Project
  BY <1>2 DEF Project, table, Book, Id
<1>3. ASSUME NEW c \in Caller, Load(c) \/ ReadRegistry(c) \/ NoMembers(c) \/ MarkMisses(c)
                               \/ Return(c) \/ ReturnBehind(c) \/ Crash(c)
      PROVE  UNCHANGED <<status, named, Book>>
  BY <1>3 DEF Load, ReadRegistry, NoMembers, MarkMisses, Return, ReturnBehind, Crash, table,
              events, Book, Id
<1>4. ASSUME NEW c \in Caller, Block(c) PROVE Growth!Next
  <2> DEFINE p == call[c].proposal
  <2>1. p \in Proposal /\ status[p] # "absent"
    BY <1>4 DEF Block, PromotionInv, CallInv, DraftedInv
  <2>2. status' = [status EXCEPT ![p] = "duplicate_blocked"]
        /\ UNCHANGED named /\ UNCHANGED Book
    BY <1>4 DEF Block, events, Book, Id
  <2>3. Growth!Block(p)
    BY <2>1, <2>2 DEF Growth!Block, Book
  <2> QED
    BY <2>1, <2>3 DEF Growth!Next
<1>5. ASSUME NEW c \in Caller, Mint(c) PROVE Growth!Next
  <2>1. PICK p \in Proposal : p = call[c].proposal
    BY <1>5 DEF Mint, PromotionInv, CallInv
  <2>2. status[p] # "absent" /\ UNCHANGED <<status, named>>
    BY <1>5, <2>1 DEF Mint, table, DraftedInv
  <2>3. Book' = Append(Book, p)
    BY <1>5, <2>1, MintedBook
  <2>4. Growth!Grow(p)
    BY <2>2, <2>3 DEF Growth!Grow, Book
  <2> QED
    BY <2>4 DEF Growth!Next
<1>6. ASSUME NEW c \in Caller, Mark(c) PROVE Growth!Next
  <2> DEFINE p == call[c].proposal
             n == call[c].version
  <2>1. /\ p \in Proposal /\ status[p] = "proposed" /\ named[p] = 0
        /\ n \in Id /\ versions[n].of = p
        /\ status' = [status EXCEPT ![p] = "promoted"]
        /\ named' = [named EXCEPT ![p] = n]
    BY <1>6 DEF Mark, Promotable, PromotionInv, CallInv, DecidedInv
  <2>2. UNCHANGED Book
    BY <1>6 DEF Mark, events, Book, Id
  <2>3. n \in DOMAIN Book /\ Book[n] = p
    BY <2>1 DEF Book
  <2>4. Growth!Promote(p)
    BY <2>1, <2>2, <2>3 DEF Growth!Promote, Book
  <2> QED
    BY <2>1, <2>4 DEF Growth!Next
<1> QED
  BY <1>1, <1>2, <1>3, <1>4, <1>5, <1>6 DEF Next, Step

\* Every behaviour of the calls is one of CodebookGrowth: however promotions race,
\* miss their mark or die after the mint, each proposal is promoted at most once
\* (promote_proposal, _mark_proposal).
THEOREM PromotionImplementsGrowth == Spec => Implements
<1>1. Init => Growth!Init /\ DraftedInv
  <2>1. Init => Book = <<>>
    BY DEF Init, Book, Id
  <2> QED
    BY <2>1, IdleFacts DEF Init, Growth!Init, DraftedInv, Book
<1>2. Spec => []DraftedInv
  BY <1>1, DraftedInductive, PromotionInvHolds, PTL DEF Spec
<1>3. [Growth!Next]_<<status, named, Book>>
      <=> [Growth!Next]_<<status, named, [v \in Id |-> versions[v].of]>>
  BY DEF Book
<1> QED
  BY <1>1, <1>2, StepRefines, PromotionInvHolds, PTL DEF Spec, Implements, Growth!Spec, Book
=============================================================================
