--------------------------- MODULE CodePromotion ---------------------------
(***************************************************************************)
(* The promotion of proposed codes (research/promote_code.py, and the tool *)
(* research_tools.codebook_promote that calls it).                         *)
(*                                                                         *)
(* An inductive run leaves proposals.  A person promotes one: the call     *)
(* loads the proposal, compares its prototypes with those of the codes     *)
(* that the registry shows, and either blocks it as a duplicate or mints a *)
(* codebook version and then marks the proposal.  The registry is a read   *)
(* model of the versions: the projection of the event log writes it.  Each *)
(* step is a transaction of its own; calls overlap, and a call may end     *)
(* between any two of them.                                                *)
(***************************************************************************)
EXTENDS Naturals, Sequences

CONSTANTS Proposal,
          Alike,         \* <<p, q>>: the prototypes of p are within tau_dup, the
                         \* one of the configuration, of those of q
          Caller,
          Steady,        \* callers that go on promoting and do not crash
          MaxVersions,   \* bound: versions minted by the other callers
          None

ASSUME PromotionAssumption ==
    /\ Alike \subseteq Proposal \X Proposal
    /\ Steady \subseteq Caller
    /\ MaxVersions \in Nat
    /\ None \notin Proposal

VARIABLES
    status,     \* proposal -> its status
    named,      \* proposal -> promoted_version_id, 0 for NULL
    versions,   \* the versions in the event log, in order; ids are positions
    head,       \* how far the research projection has come
    lost,       \* versions whose events went to the dead letters
    call        \* caller -> its call

VARIABLES
    answered,   \* history: versions whose call has returned, and had caught
                \* the projections up with the log
    refused,    \* history: versions whose call said that it minted none
    crashed     \* history: versions whose call ended before it marked

table == <<status, named>>
events == <<versions, head, lost>>
history == <<answered, refused, crashed>>

vars == <<table, events, call, history>>

Status == {"absent", "proposed", "promoted", "duplicate_blocked"}

Id == DOMAIN versions

\* What a version is of, and a history: the versions whose calls had caught up
\* and returned when its own call read the registry.
Version == [of : Proposal, before : SUBSET Nat]

Call == [pc : {"idle", "loaded", "gate", "mark", "return"},
         proposal : Proposal \cup {None},
         shown : SUBSET Nat, before : SUBSET Nat,
         version : Nat]

Idle == [pc |-> "idle", proposal |-> None, shown |-> {}, before |-> {},
         version |-> 0]

\* The codes with exemplars in code_registry.
Registry == (1 .. head) \ lost

TypeOK ==
    /\ status \in [Proposal -> Status]
    /\ named \in [Proposal -> {0} \cup Id]
    /\ versions \in Seq(Version)
    /\ head \in {0} \cup Id
    /\ lost \subseteq 1 .. head
    /\ call \in [Caller -> Call]
    /\ \A c \in Caller : call[c].version \in {0} \cup Id
    /\ answered \subseteq Id /\ refused \subseteq Id /\ crashed \subseteq Id

Init ==
    /\ status = [p \in Proposal |-> "absent"]
    /\ named = [p \in Proposal |-> 0]
    /\ versions = <<>>
    /\ head = 0
    /\ lost = {}
    /\ call = [c \in Caller |-> Idle]
    /\ answered = {} /\ refused = {} /\ crashed = {}

----------------------------------------------------------------------------
(* Around the calls.                                                         *)

\* The last transaction of an inductive run writes all its proposals.
Draft ==
    /\ \E P \in SUBSET {p \in Proposal : status[p] = "absent"} :
        /\ P # {}
        /\ status' = [p \in Proposal |-> IF p \in P THEN "proposed" ELSE status[p]]
    /\ UNCHANGED <<named, events, call, history>>

\* A bug: the reader is asked once more at the head of the log.
Fault_Behind == head <= Len(versions)

\* The reader of the projection has another event.
Behind == head < Len(versions)

\* A catch-up or the loop of the server projects the next version.  One that
\* fails goes to the dead letters and is passed.
Project ==
    /\ Behind
    /\ head' = head + 1
    /\ \/ lost' = lost
       \/ lost' = lost \cup {head + 1}
    /\ UNCHANGED <<table, versions, call, history>>

----------------------------------------------------------------------------
(* A call.                                                                   *)

\* A proposal that is not proposed any more is refused, which changes nothing.
Load(c) ==
    /\ call[c].pc = "idle"
    /\ \E p \in Proposal :
        /\ status[p] = "proposed"
        /\ call' = [call EXCEPT ![c].pc = "loaded", ![c].proposal = p]
    /\ UNCHANGED <<table, events, history>>

\* The same transaction reads the registry, but in a statement of its own.
ReadRegistry(c) ==
    /\ call[c].pc = "loaded"
    /\ call' = [call EXCEPT ![c].pc = "gate", ![c].shown = Registry,
                            ![c].before = answered]
    /\ UNCHANGED <<table, events, history>>

\* No view of a member unit can be resolved.
NoMembers(c) ==
    /\ call[c].pc = "gate" /\ c \notin Steady
    /\ call' = [call EXCEPT ![c].pc = "return"]
    /\ UNCHANGED <<table, events, history>>

\* The gate: a code that is shown is too close.
Duplicate(p, shown) == \E v \in shown : <<p, versions[v].of>> \in Alike

\* A bug: the duplicate is answered but not written to the proposal.
Fault_Block(c) ==
    /\ call[c].pc = "gate"
    /\ Duplicate(call[c].proposal, call[c].shown)
    /\ call' = [call EXCEPT ![c].pc = "return"]
    /\ UNCHANGED <<table, events, history>>

\* The mark asks for no status: it also overwrites a promotion, and keeps the
\* version that the promotion has named.
Block(c) ==
    /\ call[c].pc = "gate"
    /\ Duplicate(call[c].proposal, call[c].shown)
    /\ status' = [status EXCEPT ![call[c].proposal] = "duplicate_blocked"]
    /\ call' = [call EXCEPT ![c].pc = "return"]
    /\ UNCHANGED <<named, events, history>>

\* A new aggregate, so no save can conflict.
Mint(c) ==
    /\ call[c].pc = "gate"
    /\ ~Duplicate(call[c].proposal, call[c].shown)
    /\ c \in Steady \/ Len(versions) < MaxVersions
    /\ versions' = Append(versions, [of |-> call[c].proposal,
                                     before |-> call[c].before])
    /\ call' = [call EXCEPT ![c].pc = "mark", ![c].version = Len(versions) + 1]
    /\ UNCHANGED <<table, head, lost, history>>

\* A bug: the mark asks for no status (as it did before e120372).
Fault_Promotable(p) == TRUE

Promotable(p) == status[p] = "proposed"

Mark(c) ==
    /\ call[c].pc = "mark"
    /\ Promotable(call[c].proposal)
    /\ status' = [status EXCEPT ![call[c].proposal] = "promoted"]
    /\ named' = [named EXCEPT ![call[c].proposal] = call[c].version]
    /\ call' = [call EXCEPT ![c].pc = "return"]
    /\ UNCHANGED <<events, history>>

\* No row was marked: the answer is an error, "no second version was minted".
MarkMisses(c) ==
    /\ call[c].pc = "mark"
    /\ ~Promotable(call[c].proposal)
    /\ refused' = refused \cup {call[c].version}
    /\ call' = [call EXCEPT ![c].pc = "return"]
    /\ UNCHANGED <<table, events, answered, crashed>>

\* A bug: the call returns without catching the projections up.
Fault_CaughtUp == TRUE

CaughtUp == ~Behind

\* The tool catches the projections up before it answers.
Return(c) ==
    /\ call[c].pc = "return"
    /\ CaughtUp
    /\ answered' = IF call[c].version = 0 THEN answered
                   ELSE answered \cup {call[c].version}
    /\ call' = [call EXCEPT ![c] = Idle]
    /\ UNCHANGED <<table, events, refused, crashed>>

\* A catch-up is bounded (20 reads of 500 events each), so it may end behind a log
\* that has grown by more; the call answers all the same.
ReturnBehind(c) ==
    /\ call[c].pc = "return"
    /\ Behind
    /\ call' = [call EXCEPT ![c] = Idle]
    /\ UNCHANGED <<table, events, history>>

\* The process ends, or the store raises.
Crash(c) ==
    /\ c \notin Steady
    /\ call[c].pc # "idle"
    /\ crashed' = IF call[c].pc = "mark" THEN crashed \cup {call[c].version} ELSE crashed
    /\ call' = [call EXCEPT ![c] = Idle]
    /\ UNCHANGED <<table, events, answered, refused>>

Step(c) ==
    \/ Load(c) \/ ReadRegistry(c) \/ Block(c) \/ Mint(c)
    \/ Mark(c) \/ MarkMisses(c) \/ Return(c)

Next ==
    \/ Draft \/ Project
    \/ \E c \in Caller : Step(c) \/ NoMembers(c) \/ ReturnBehind(c) \/ Crash(c)

Spec == Init /\ [][Next]_vars

\* Somebody keeps promoting, in calls that neither crash nor miss members, and
\* the projections go on.
FairSpec == Spec /\ WF_vars(Project) /\ \A c \in Steady : WF_vars(Step(c))

----------------------------------------------------------------------------
(* What promotion promises.                                                  *)

\* "Only the racer whose update still matches the live row wins": two calls for
\* one proposal may both mint, but the version that the proposal names is never
\* replaced, is a version of this proposal, and a promoted proposal has one.
NamedOnce ==
    [][\A p \in Proposal : named[p] # 0 => named'[p] = named[p]]_vars

\* Each version is accounted for: its proposal names it, or its call is still to
\* mark it, has reported that it lost the race, or ended before it could.
VersionsAccounted ==
    \A v \in Id :
        \/ named[versions[v].of] = v
        \/ \E c \in Caller : call[c].pc = "mark" /\ call[c].version = v
        \/ v \in refused \cup crashed

\* Two alike codes are in the codebook only if their promotions overlapped, or the
\* projection of the first one failed, or the catch-up of its call ended behind:
\* a code whose call had caught the projections up and returned before the second
\* call read the registry is seen by its gate.
DuplicatesOverlap ==
    \A v \in Id : \A u \in versions[v].before :
        <<versions[v].of, versions[u].of>> \in Alike => u \in lost

\* Seen from the table and the codebook alone, the calls are the decisions of
\* CodebookGrowth, one at a time.
Growth ==
    INSTANCE CodebookGrowth WITH
        verdict <- status, name <- named, book <- [v \in Id |-> versions[v].of]

Implements == Growth!Spec

\* A proposal that people keep trying to promote is decided, whatever other
\* calls leave behind: it is promoted, or blocked, maybe by a version of its own
\* whose call crashed before the mark.
ProposalsEnd == \A p \in Proposal : status[p] = "proposed" ~> status[p] # "proposed"
=============================================================================
