---------------------------- MODULE IngestWatch ----------------------------
(***************************************************************************)
(* The watch loop of the ingest front door (ingest_watch.py).              *)
(*                                                                         *)
(* One coroutine polls a directory.  A pass ingests every file it lists,   *)
(* then tries to heal the files whose last error was an outage of the      *)
(* embedding provider: it backs off, probes the provider, and ingests the  *)
(* armed files again.  How often a file was tried is kept in memory, one   *)
(* count per file; -1 means the file is settled and is never armed again.  *)
(* Files come and go at any time, the pipeline may end in any way, and the *)
(* loop can be cancelled at each await.  A pass takes its files in the     *)
(* order of their names, which plays no part here: any order is allowed.   *)
(***************************************************************************)
EXTENDS Integers

CONSTANTS Path,          \* files
          MaxAttempts,   \* heal_max_attempts (5 in the code)
          Limits,        \* the values of max_passes
          Forever        \* max_passes = None

Settled == -1

ASSUME WatchAssumption ==
    /\ MaxAttempts \in Nat
    /\ Limits \subseteq Nat \cup {Forever}
    /\ Forever \notin Nat

VARIABLES
    files,       \* what the directory holds
    status,      \* path -> how its last ingest ended, as the book has it
    attempts,    \* path -> failed heal rounds counted for it, or Settled
    failed       \* whether the summary's failed count is above 0
book == <<status, attempts, failed>>

VARIABLES
    pc,          \* where the loop stands
    left,        \* passes it has left, or Forever
    heal,        \* the option of that name
    todo,        \* files the pass or the heal round has still to ingest
    armed,       \* the heal set of the round
    attempt      \* the largest count in it, read before the back-off
loop == <<pc, left, heal, todo, armed, attempt>>

VARIABLES
    tries,       \* history: path -> heal ingests of it
    rounds,      \* history: heal rounds begun, counted up to MaxAttempts
    succeeded,   \* history: files that were ingested once
    gaveUp       \* history: files reported as given up
history == <<tries, rounds, succeeded, gaveUp>>

vars == <<files, book, loop, history>>

Stopped == {"done", "cancelled"}
Awaits == {"scan", "backoff", "reheal", "pause"}

\* An ingest ends in success, in an error or a partial run that an outage
\* caused, in one with another cause, or is skipped (unchanged content, or a
\* run of the same content elsewhere).
Ending == {"success", "outage", "failure", "skipped"}

\* An exception is turned into an error result; its text may be an outage's.
\* A file that has gone is an error.
Endings(p) == IF p \in files THEN Ending ELSE {"failure"}

Broken == {p \in Path : status[p] \in {"outage", "failure"}}
Armed == {p \in Path : attempts[p] >= 0 /\ status[p] = "outage"}

----------------------------------------------------------------------------
TypeOK ==
    /\ files \subseteq Path
    /\ status \in [Path -> Ending \cup {"absent"}]
    /\ attempts \in [Path -> Settled .. MaxAttempts]
    /\ failed \in BOOLEAN
    /\ pc \in {"list", "heal"} \cup Awaits \cup Stopped
    /\ left \in Nat \cup {Forever}
    /\ heal \in BOOLEAN
    /\ todo \subseteq Path
    /\ armed \subseteq Path
    /\ attempt \in 0 .. MaxAttempts
    /\ pc \in {"backoff", "reheal"} => attempt < MaxAttempts
    /\ tries \in [Path -> Nat]
    /\ rounds \in 0 .. MaxAttempts
    /\ succeeded \subseteq Path
    /\ gaveUp \subseteq Path

Init ==
    /\ files \in SUBSET Path
    /\ status = [p \in Path |-> "absent"]
    /\ attempts = [p \in Path |-> 0]
    /\ failed = FALSE
    /\ pc = "list"
    /\ left \in Limits
    /\ heal \in BOOLEAN
    /\ todo = {}
    /\ armed = {}
    /\ attempt = 0
    /\ tries = [p \in Path |-> 0]
    /\ rounds = 0
    /\ succeeded = {}
    /\ gaveUp = {}

----------------------------------------------------------------------------
(* The book.                                                                 *)

\* A bug: any ending but an outage settles the file.
Fault_Recorded(p, ending) ==
    IF ending # "outage" \/ attempts[p] = Settled THEN Settled ELSE attempts[p]

\* The count after an ingest: a success settles the file and a settled file
\* stays settled; the count of the others stays as it was.
Recorded(p, ending) ==
    IF ending = "success" \/ attempts[p] = Settled THEN Settled ELSE attempts[p]

NoteSuccess(p, ending) ==
    succeeded' = IF ending = "success" THEN succeeded \cup {p} ELSE succeeded

\* Every ending of a scan but success counts as failed.
CountFailure(ending) == failed' = (failed \/ ending # "success")

----------------------------------------------------------------------------
(* The scan.                                                                 *)

\* What a pass lists: the directory as it is now.
Listed == files

BeginPass ==
    /\ pc = "list" /\ left # 0
    /\ left' = IF left = Forever THEN Forever ELSE left - 1
    /\ todo' = Listed
    /\ pc' = "scan"
    /\ UNCHANGED <<files, book, heal, armed, attempt, history>>

ScanFile ==
    /\ pc = "scan"
    /\ \E p \in todo : \E ending \in Endings(p) :
        /\ status' = [status EXCEPT ![p] = ending]
        /\ attempts' = [attempts EXCEPT ![p] = Recorded(p, ending)]
        /\ CountFailure(ending)
        /\ NoteSuccess(p, ending)
        /\ todo' = todo \ {p}
    /\ UNCHANGED <<files, pc, left, heal, armed, attempt, tries, rounds, gaveUp>>

EndScan ==
    /\ pc = "scan" /\ todo = {}
    /\ pc' = IF heal THEN "heal" ELSE "pause"
    /\ UNCHANGED <<files, book, left, heal, todo, armed, attempt, history>>

----------------------------------------------------------------------------
(* The heal pass.                                                            *)

NothingArmed ==
    /\ pc = "heal" /\ Armed = {}
    /\ pc' = "pause"
    /\ UNCHANGED <<files, book, left, heal, todo, armed, attempt, history>>

\* A bug: one round too late.
Fault_SpentLate(count) == count > MaxAttempts

\* When the heal set is given up.
Spent(count) == count >= MaxAttempts

\* The whole set is given up as soon as one file of it has spent its attempts.
GiveUp ==
    /\ pc = "heal"
    /\ \E p \in Armed : Spent(attempts[p])
    /\ attempts' = [p \in Path |-> IF p \in Armed THEN Settled ELSE attempts[p]]
    /\ gaveUp' = gaveUp \cup Armed
    /\ pc' = "pause"
    /\ UNCHANGED <<files, status, failed, left, heal, todo, armed, attempt,
                   tries, rounds, succeeded>>

BackOff ==
    /\ pc = "heal"
    /\ \A p \in Armed : ~Spent(attempts[p])
    /\ armed' = Armed
    /\ \E p \in Armed :
        /\ \A q \in Armed : attempts[q] <= attempts[p]
        /\ attempt' = attempts[p]
    /\ rounds' = IF rounds < MaxAttempts THEN rounds + 1 ELSE rounds
    /\ pc' = "backoff"
    /\ UNCHANGED <<files, book, left, heal, todo, tries, succeeded, gaveUp>>

\* A bug: only a failed ingest counts, and a probe that fails does not.
Fault_ProbeFails ==
    /\ pc = "backoff"
    /\ pc' = "pause"
    /\ UNCHANGED <<files, book, left, heal, todo, armed, attempt, history>>

\* The probe costs every armed file an attempt.
ProbeFails ==
    /\ pc = "backoff"
    /\ attempts' = [p \in Path |-> IF p \in armed THEN attempts[p] + 1 ELSE attempts[p]]
    /\ pc' = "pause"
    /\ UNCHANGED <<files, status, failed, left, heal, todo, armed, attempt, history>>

ProbeAnswers ==
    /\ pc = "backoff"
    /\ todo' = armed
    /\ pc' = "reheal"
    /\ UNCHANGED <<files, book, left, heal, armed, attempt, history>>

\* A bug: a heal ingest that fails for another reason than the provider's
\* outage starts the file's count anew.
Fault_Counted(p, ending) ==
    IF ending = "success" THEN Settled
    ELSE IF ending = "outage" THEN attempt + 1 ELSE 0

\* The count after a heal ingest: a file that failed again gets the largest
\* count of the round and one, whatever its own count was.
Counted(p, ending) == IF ending = "success" THEN Settled ELSE attempt + 1

HealFile ==
    /\ pc = "reheal"
    /\ \E p \in todo : \E ending \in Endings(p) :
        /\ status' = [status EXCEPT ![p] = ending]
        /\ attempts' = [attempts EXCEPT ![p] = Counted(p, ending)]
        /\ NoteSuccess(p, ending)
        /\ tries' = [tries EXCEPT ![p] = @ + 1]
        /\ todo' = todo \ {p}
    /\ UNCHANGED <<files, failed, pc, left, heal, armed, attempt, rounds, gaveUp>>

EndHeal ==
    /\ pc = "reheal" /\ todo = {}
    /\ pc' = "pause"
    /\ UNCHANGED <<files, book, left, heal, todo, armed, attempt, history>>

----------------------------------------------------------------------------
(* The end of a pass and of the loop.                                        *)

Pause ==
    /\ pc = "pause" /\ left # 0
    /\ pc' = "list"
    /\ UNCHANGED <<files, book, left, heal, todo, armed, attempt, history>>

Return ==
    /\ pc \in {"list", "pause"} /\ left = 0
    /\ pc' = "done"
    /\ UNCHANGED <<files, book, left, heal, todo, armed, attempt, history>>

\* CancelledError is the one exception that leaves the loop; there is no summary.
Cancel ==
    /\ pc \in Awaits
    /\ pc' = "cancelled"
    /\ UNCHANGED <<files, book, left, heal, todo, armed, attempt, history>>

\* Files are dropped into the directory and taken away, also during a pass.
FileAppears ==
    /\ pc \notin Stopped
    /\ \E p \in Path \ files : files' = files \cup {p}
    /\ UNCHANGED <<book, loop, history>>

FileVanishes ==
    /\ pc \notin Stopped
    /\ \E p \in files : files' = files \ {p}
    /\ UNCHANGED <<book, loop, history>>

Loop ==
    \/ BeginPass \/ ScanFile \/ EndScan
    \/ NothingArmed \/ GiveUp \/ BackOff
    \/ ProbeFails \/ ProbeAnswers \/ HealFile \/ EndHeal
    \/ Pause \/ Return

Next == Loop \/ Cancel \/ FileAppears \/ FileVanishes

Spec == Init /\ [][Next]_vars

\* The event loop runs the coroutine: every await returns.
FairSpec == Spec /\ WF_vars(Loop)

----------------------------------------------------------------------------
(* What the loop promises.                                                   *)

\* "All bounded; nothing runs unbounded" (WatchOptions): whatever the heal
\* rounds, the probes and the scans between them do to the count of a file, the
\* heal pass ingests a file at most heal_max_attempts times in a session.
HealTriesBounded == \A p \in Path : tries[p] <= MaxAttempts

\* No file is given up early: a file may inherit the count of another one, so
\* it may be given up after a single try of its own or none, but the session
\* has then made heal_max_attempts heal rounds.
NotBeforeCap == gaveUp # {} => rounds = MaxAttempts

\* The cap is kept from both sides: no try too many, no file given up early.
CapIsExact == HealTriesBounded /\ NotBeforeCap

\* "Never retried silently, never dropped quietly": a file whose last error is
\* an outage is armed, unless it was ingested once before in the session or
\* the report has named it as given up.
NeverDropped ==
    \A p \in Path :
        status[p] = "outage" => p \in Armed \cup succeeded \cup gaveUp

\* "So failed never reads 0 beside a non-empty broken set" (watch_directory):
\* also heal ingests, which do not add to the count, keep this.
FailedCounted == Broken # {} => failed

\* "Never armed again this session" (_PathState): a settled file stays settled,
\* although scans and heal rounds go on writing its record.
SettledForGood ==
    [][\A p \in Path : attempts[p] = Settled => attempts'[p] = Settled]_vars

\* A file does not stay in the heal set for ever: it is healed, given up, fails
\* for another reason or is skipped, or the loop ends.
HealSettles ==
    \A p \in Path :
        (heal /\ p \in Armed) ~> (p \notin Armed \/ pc \in Stopped)
=============================================================================
