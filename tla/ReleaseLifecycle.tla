------------------------- MODULE ReleaseLifecycle -------------------------
(***************************************************************************)
(* What the release lifecycle promises of each release of a codebook       *)
(* version: it is a draft first, gates and waivers are recorded on drafts  *)
(* only, a released one never changes again but for being superseded or    *)
(* retired, once, and nothing done to one release touches another.         *)
(***************************************************************************)
CONSTANTS Release,      \* release ids
          Record        \* what can be on record for a release

VARIABLES life,         \* release -> where it is in its life
          record        \* release -> its gate results, waivers and approver

Become(r, from, to) ==
    /\ life[r] = from
    /\ life' = [life EXCEPT ![r] = to]

Open(r) ==
    /\ Become(r, "none", "draft")
    /\ UNCHANGED record

Weigh(r) ==
    /\ life[r] = "draft"
    /\ \E x \in Record : record' = [record EXCEPT ![r] = x]
    /\ UNCHANGED life

\* The approver is put on record with the release itself.
Publish(r) ==
    /\ Become(r, "draft", "released")
    /\ \E x \in Record :
        /\ [x EXCEPT !.approver = record[r].approver] = record[r]
        /\ record' = [record EXCEPT ![r] = x]

Withdraw(r) ==
    /\ \E to \in {"superseded", "retired"} : Become(r, "released", to)
    /\ UNCHANGED record

Init ==
    /\ life = [r \in Release |-> "none"]
    /\ record \in [Release -> Record]

Next == \E r \in Release : Open(r) \/ Weigh(r) \/ Publish(r) \/ Withdraw(r)

Spec == Init /\ [][Next]_<<life, record>>
=============================================================================
