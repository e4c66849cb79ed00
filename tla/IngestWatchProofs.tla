------------------------- MODULE IngestWatchProofs -------------------------
(***************************************************************************)
(* Machine-checked theorems about IngestWatch, for every set of files,     *)
(* every cap on the heal attempts and every limit on the passes.           *)
(***************************************************************************)
EXTENDS IngestWatch, TLAPS

\* The files of a heal round that it has not ingested yet are armed, and none
\* of their counts is above the one the round began with.
RoundInv ==
    /\ pc = "backoff" => \A p \in armed : attempts[p] \in 0 .. attempt
    /\ pc = "reheal" => \A p \in todo : attempts[p] \in 0 .. attempt
    /\ pc \in {"backoff", "reheal"} => attempt + 1 <= rounds /\ failed

\* A count stands for at least as many heal rounds, and covers the file's own
\* heal ingests; a settled file was ingested or given up.
CountInv ==
    /\ \A p \in Path : attempts[p] <= rounds
    /\ \A p \in Path : attempts[p] >= 0 => tries[p] <= attempts[p]
    /\ \A p \in Path : attempts[p] = Settled => p \in succeeded \cup gaveUp

Promises == HealTriesBounded /\ NotBeforeCap /\ FailedCounted

WatchInv == TypeOK /\ RoundInv /\ CountInv /\ Promises

LEMMA InitWatch == Init => WatchInv
<1> SUFFICES ASSUME Init PROVE WatchInv
  OBVIOUS
<1>1. TypeOK
  <2>1. failed \in BOOLEAN /\ heal \in BOOLEAN
    BY DEF Init
  <2>2. 0 \in Settled .. MaxAttempts /\ left \in Nat \cup {Forever}
    BY WatchAssumption DEF Init, Settled
  <2>3. status \in [Path -> Ending \cup {"absent"}] /\ tries \in [Path -> Nat]
    BY DEF Init
  <2>4. attempts \in [Path -> Settled .. MaxAttempts]
    BY <2>2 DEF Init
  <2>5. QED
    BY <2>1, <2>2, <2>3, <2>4, WatchAssumption DEF Init, TypeOK, Awaits, Stopped
<1>2. RoundInv /\ CountInv
  BY DEF Init, RoundInv, CountInv, Settled
<1>3. HealTriesBounded /\ NotBeforeCap
  BY WatchAssumption DEF Init, HealTriesBounded, NotBeforeCap
<1>4. FailedCounted
  BY DEF Init, FailedCounted, Broken
<1>5. QED
  BY <1>1, <1>2, <1>3, <1>4 DEF WatchInv, Promises

\* The steps that change neither the book nor the round.
Quiet ==
    \/ BeginPass \/ EndScan \/ NothingArmed \/ EndHeal \/ Pause \/ Return
    \/ Cancel \/ FileAppears \/ FileVanishes

LEMMA QuietTypes == ASSUME TypeOK, Quiet PROVE TypeOK'
<1>1. CASE BeginPass
  BY <1>1, WatchAssumption
  DEF TypeOK, BeginPass, Listed, book, history, Awaits, Stopped
<1>2. CASE EndScan \/ NothingArmed \/ EndHeal \/ Pause \/ Return \/ Cancel
  BY <1>2
  DEF TypeOK, EndScan, NothingArmed, EndHeal, Pause, Return, Cancel, book, history,
      Awaits, Stopped
<1>3. CASE FileAppears \/ FileVanishes
  BY <1>3 DEF TypeOK, FileAppears, FileVanishes, book, loop, history
<1>4. QED
  BY <1>1, <1>2, <1>3 DEF Quiet

LEMMA QuietKeeps == ASSUME WatchInv, Quiet PROVE WatchInv'
<1>1. /\ book' = book /\ history' = history
      /\ pc' \in {"backoff", "reheal"} => UNCHANGED <<pc, armed, attempt, todo>>
  <2>1. CASE BeginPass \/ EndScan \/ NothingArmed \/ EndHeal \/ Pause \/ Return \/ Cancel
    BY <2>1
    DEF BeginPass, EndScan, NothingArmed, EndHeal, Pause, Return, Cancel
  <2>2. CASE FileAppears \/ FileVanishes
    BY <2>2 DEF FileAppears, FileVanishes, loop
  <2>3. QED
    BY <2>1, <2>2 DEF Quiet
<1>2. RoundInv' /\ CountInv' /\ Promises'
  BY <1>1
  DEF WatchInv, RoundInv, CountInv, Promises, HealTriesBounded, NotBeforeCap,
      FailedCounted, Broken, book, history
<1>3. QED
  BY <1>2, QuietTypes DEF WatchInv

LEMMA ScanKeeps == ASSUME WatchInv, ScanFile PROVE WatchInv'
<1> PICK p \in todo : \E ending \in Endings(p) :
      /\ status' = [status EXCEPT ![p] = ending]
      /\ attempts' = [attempts EXCEPT ![p] = Recorded(p, ending)]
      /\ CountFailure(ending)
      /\ NoteSuccess(p, ending)
      /\ todo' = todo \ {p}
  BY DEF ScanFile
<1> PICK ending \in Endings(p) :
      /\ status' = [status EXCEPT ![p] = ending]
      /\ attempts' = [attempts EXCEPT ![p] = Recorded(p, ending)]
      /\ CountFailure(ending)
      /\ NoteSuccess(p, ending)
      /\ todo' = todo \ {p}
  OBVIOUS
<1>1. /\ p \in Path /\ ending \in Ending
      /\ Recorded(p, ending) \in {Settled, attempts[p]}
  BY DEF WatchInv, TypeOK, Endings, Ending, Recorded
<1>2. TypeOK'
  <2>1. failed' \in BOOLEAN
    BY DEF CountFailure
  <2>2. /\ status' \in [Path -> Ending \cup {"absent"}]
        /\ attempts' \in [Path -> Settled .. MaxAttempts]
        /\ succeeded' \subseteq Path
        /\ todo' \subseteq Path
    BY <1>1, WatchAssumption DEF WatchInv, TypeOK, NoteSuccess, Settled
  <2>3. QED
    BY <2>1, <2>2 DEF WatchInv, TypeOK, ScanFile, Awaits, Stopped
<1>3. RoundInv'
  BY DEF RoundInv, ScanFile
<1>4. Recorded(p, ending) = Settled => ending = "success" \/ attempts[p] = Settled
  BY DEF Recorded
<1>5. CountInv'
  BY <1>1, <1>4 DEF WatchInv, TypeOK, CountInv, ScanFile, NoteSuccess, Settled
<1>6. FailedCounted'
  BY <1>1 DEF WatchInv, TypeOK, Promises, FailedCounted, Broken, CountFailure, Ending
<1>7. HealTriesBounded' /\ NotBeforeCap'
  BY DEF WatchInv, Promises, HealTriesBounded, NotBeforeCap, ScanFile
<1>8. QED
  BY <1>2, <1>3, <1>5, <1>6, <1>7 DEF WatchInv, Promises

LEMMA GiveUpKeeps == ASSUME WatchInv, GiveUp PROVE WatchInv'
<1>1. TypeOK'
  BY WatchAssumption
  DEF WatchInv, TypeOK, GiveUp, Armed, Settled, Awaits, Stopped
<1>2. RoundInv'
  BY DEF RoundInv, GiveUp
<1>3. rounds = MaxAttempts
  BY WatchAssumption DEF WatchInv, TypeOK, CountInv, GiveUp, Spent, Armed
<1>4. CountInv'
  BY <1>3, WatchAssumption
  DEF WatchInv, TypeOK, CountInv, GiveUp, Armed, Settled
<1>5. Promises'
  BY <1>3
  DEF WatchInv, Promises, HealTriesBounded, NotBeforeCap, FailedCounted, Broken, GiveUp
<1>6. QED
  BY <1>1, <1>2, <1>4, <1>5 DEF WatchInv

LEMMA BackOffKeeps == ASSUME WatchInv, BackOff PROVE WatchInv'
<1> PICK p \in Armed :
      /\ \A q \in Armed : attempts[q] <= attempts[p]
      /\ attempt' = attempts[p]
  BY DEF BackOff
<1>1. p \in Path /\ attempts[p] \in 0 .. MaxAttempts /\ attempts[p] < MaxAttempts
  BY WatchAssumption DEF WatchInv, TypeOK, BackOff, Armed, Spent, Settled
<1>2. TypeOK'
  BY <1>1, WatchAssumption
  DEF WatchInv, TypeOK, BackOff, Armed, book, Awaits, Stopped
<1>3. failed /\ attempts[p] <= rounds
  BY <1>1
  DEF WatchInv, Promises, FailedCounted, Broken, Armed, CountInv
<1>4. RoundInv'
  BY <1>1, <1>3, WatchAssumption
  DEF WatchInv, TypeOK, RoundInv, BackOff, Armed, book
<1>5. CountInv'
  BY WatchAssumption DEF WatchInv, TypeOK, CountInv, BackOff, book, Settled
<1>6. Promises'
  BY DEF WatchInv, TypeOK, Promises, HealTriesBounded, NotBeforeCap, FailedCounted,
         Broken, BackOff, book
<1>7. QED
  BY <1>2, <1>4, <1>5, <1>6 DEF WatchInv

LEMMA ProbeFailsKeeps == ASSUME WatchInv, ProbeFails PROVE WatchInv'
<1>1. \A p \in armed : attempts[p] \in 0 .. attempt
  BY DEF WatchInv, RoundInv, ProbeFails
<1>2. attempt < MaxAttempts /\ attempt + 1 <= rounds
  BY DEF WatchInv, TypeOK, RoundInv, ProbeFails
<1>3. TypeOK'
  BY <1>1, <1>2, WatchAssumption
  DEF WatchInv, TypeOK, ProbeFails, history, Settled, Awaits, Stopped
<1>4. RoundInv'
  BY DEF RoundInv, ProbeFails
<1>5. CountInv'
  BY <1>1, <1>2, WatchAssumption
  DEF WatchInv, TypeOK, CountInv, ProbeFails, history, Settled
<1>6. Promises'
  BY DEF WatchInv, Promises, HealTriesBounded, NotBeforeCap, FailedCounted, Broken,
         ProbeFails, history
<1>7. QED
  BY <1>3, <1>4, <1>5, <1>6 DEF WatchInv

LEMMA ProbeAnswersKeeps == ASSUME WatchInv, ProbeAnswers PROVE WatchInv'
<1>1. TypeOK'
  BY DEF WatchInv, TypeOK, ProbeAnswers, book, history, Awaits, Stopped
<1>2. RoundInv' /\ CountInv' /\ Promises'
  BY DEF WatchInv, RoundInv, CountInv, Promises, HealTriesBounded, NotBeforeCap,
         FailedCounted, Broken, ProbeAnswers, book, history
<1>3. QED
  BY <1>1, <1>2 DEF WatchInv

LEMMA HealKeeps == ASSUME WatchInv, HealFile PROVE WatchInv'
<1> PICK p \in todo : \E ending \in Endings(p) :
      /\ status' = [status EXCEPT ![p] = ending]
      /\ attempts' = [attempts EXCEPT ![p] = Counted(p, ending)]
      /\ NoteSuccess(p, ending)
      /\ tries' = [tries EXCEPT ![p] = @ + 1]
      /\ todo' = todo \ {p}
  BY DEF HealFile
<1> PICK ending \in Endings(p) :
      /\ status' = [status EXCEPT ![p] = ending]
      /\ attempts' = [attempts EXCEPT ![p] = Counted(p, ending)]
      /\ NoteSuccess(p, ending)
      /\ tries' = [tries EXCEPT ![p] = @ + 1]
      /\ todo' = todo \ {p}
  OBVIOUS
<1>1. p \in Path /\ ending \in Ending /\ pc = "reheal"
  BY DEF WatchInv, TypeOK, Endings, Ending, HealFile
<1>2. /\ attempts[p] \in 0 .. attempt /\ attempt < MaxAttempts
      /\ attempt + 1 <= rounds /\ failed
      /\ attempt \in Nat /\ rounds \in Nat
  BY <1>1, WatchAssumption DEF WatchInv, TypeOK, RoundInv
<1>3. tries[p] \in Nat /\ tries[p] <= attempts[p]
  BY <1>1, <1>2 DEF WatchInv, TypeOK, CountInv
<1>4. /\ Counted(p, ending) \in {Settled, attempt + 1}
      /\ Counted(p, ending) = Settled => ending = "success"
  BY <1>2 DEF Counted, Settled
<1>5. TypeOK'
  BY <1>1, <1>2, <1>3, <1>4, WatchAssumption
  DEF WatchInv, TypeOK, HealFile, NoteSuccess, Settled, Awaits, Stopped
<1>6. RoundInv'
  BY <1>1, <1>2 DEF WatchInv, TypeOK, RoundInv, HealFile
<1>7. CountInv'
  BY <1>1, <1>2, <1>3, <1>4, WatchAssumption
  DEF WatchInv, TypeOK, CountInv, HealFile, NoteSuccess, Settled
<1>8. Promises'
  BY <1>1, <1>2, <1>3, WatchAssumption
  DEF WatchInv, TypeOK, Promises, HealTriesBounded, NotBeforeCap, FailedCounted, HealFile
<1>9. QED
  BY <1>5, <1>6, <1>7, <1>8 DEF WatchInv

LEMMA NextKeeps == WatchInv /\ [Next]_vars => WatchInv'
<1> SUFFICES ASSUME WatchInv, [Next]_vars PROVE WatchInv'
  OBVIOUS
<1>1. CASE Quiet
  BY <1>1, QuietKeeps
<1>2. CASE ScanFile \/ GiveUp \/ BackOff \/ ProbeFails \/ ProbeAnswers \/ HealFile
  BY <1>2, ScanKeeps, GiveUpKeeps, BackOffKeeps, ProbeFailsKeeps, ProbeAnswersKeeps,
     HealKeeps
<1>3. CASE UNCHANGED vars
  BY <1>3
  DEF WatchInv, TypeOK, RoundInv, CountInv, Promises, HealTriesBounded, NotBeforeCap,
      FailedCounted, Broken, vars, book, loop, history
<1>4. QED
  BY <1>1, <1>2, <1>3 DEF Next, Loop, Quiet

LEMMA WatchInvHolds == Spec => []WatchInv
BY InitWatch, NextKeeps, PTL DEF Spec

----------------------------------------------------------------------------
(* The theorems.                                                             *)

\* Every variable keeps its type: in particular no count passes the cap, and a
\* heal round begins below it.
THEOREM WatchTypeCorrect == Spec => []TypeOK
<1>1. WatchInv => TypeOK
  BY DEF WatchInv
<1>2. QED
  BY <1>1, WatchInvHolds, PTL

\* For any number of files and any cap, the heal pass ingests a file at most
\* heal_max_attempts times, however counts are inherited, and the heal set is
\* given up only after heal_max_attempts rounds (_heal_pass).
THEOREM HealingKeepsTheCap == Spec => []CapIsExact
<1>1. WatchInv => CapIsExact
  BY DEF WatchInv, Promises, CapIsExact
<1>2. QED
  BY <1>1, WatchInvHolds, PTL

\* A file with an outage is armed, was ingested before, or was named as given
\* up (_record, _heal_pass).
THEOREM OutagesAreNotDropped == Spec => []NeverDropped
<1>1. WatchInv => NeverDropped
  BY WatchAssumption
  DEF WatchInv, TypeOK, CountInv, NeverDropped, Armed, Settled
<1>2. QED
  BY <1>1, WatchInvHolds, PTL

\* The failed count is above 0 while a file is broken (watch_directory).
THEOREM FailuresAreCounted == Spec => []FailedCounted
<1>1. WatchInv => FailedCounted
  BY DEF WatchInv, Promises
<1>2. QED
  BY <1>1, WatchInvHolds, PTL

\* No scan and no heal round brings a settled file back (_record, _heal_pass).
THEOREM SettledFilesStay == Spec => SettledForGood
<1>1. ASSUME WatchInv, Next, NEW p \in Path, attempts[p] = Settled
      PROVE  attempts'[p] = Settled
  <2>1. CASE Quiet
    BY <1>1, <2>1
    DEF Quiet, BeginPass, EndScan, NothingArmed, EndHeal, Pause, Return, Cancel,
        FileAppears, FileVanishes, book
  <2>2. CASE ScanFile
    BY <1>1, <2>2 DEF WatchInv, TypeOK, ScanFile, Recorded
  <2>3. CASE GiveUp
    BY <1>1, <2>3 DEF WatchInv, TypeOK, GiveUp
  <2>4. CASE BackOff \/ ProbeAnswers
    BY <1>1, <2>4 DEF BackOff, ProbeAnswers, book
  <2>5. CASE ProbeFails
    BY <1>1, <2>5 DEF WatchInv, TypeOK, RoundInv, ProbeFails, Settled
  <2>6. CASE HealFile
    BY <1>1, <2>6 DEF WatchInv, TypeOK, RoundInv, HealFile, Settled
  <2>7. QED
    BY <1>1, <2>1, <2>2, <2>3, <2>4, <2>5, <2>6 DEF Next, Loop, Quiet
<1>2. WatchInv /\ [Next]_vars
      => [\A p \in Path : attempts[p] = Settled => attempts'[p] = Settled]_vars
  BY <1>1
<1>3. QED
  BY <1>2, WatchInvHolds, PTL DEF Spec, SettledForGood
=============================================================================
