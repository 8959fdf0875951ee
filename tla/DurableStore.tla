---------------------------- MODULE DurableStore ----------------------------
(***************************************************************************)
(* What a write-behind store promises to the services that save their      *)
(* state in it (cds/src/infra/state-store/mongo-split-store.ts): a restart *)
(* finds every document as it was at the last confirmed flush or at some   *)
(* later time, never as it was before, and never as it has not been.       *)
(* Documents need not be of the same time.  Excepted are the documents of  *)
(* which a failed write has left unsure what became of them.               *)
(***************************************************************************)
EXTENDS Naturals

CONSTANT Docs

VARIABLES
    latest,     \* the number of the last version saved by this process
    versions,   \* the versions since it started, from 0 to latest
    confirmed,  \* the version that a flush has confirmed
    disk,       \* what a restart finds
    unsure      \* documents a failed write may have changed

vars == <<latest, versions, confirmed, disk, unsure>>

\* Nothing that was confirmed is lost, nothing is made up.
Faithful ==
    \A d \in Docs \ unsure :
        \E g \in 0..latest : confirmed <= g /\ versions[g][d] = disk[d]

Started == latest = 0 /\ versions = [g \in {0} |-> disk]
               /\ confirmed = 0 /\ unsure = {}

Init == Started

\* A service changes the state and saves.
Save ==
    /\ latest' = latest + 1
    /\ \A g \in 0..latest : versions'[g] = versions[g]
    /\ UNCHANGED <<confirmed, disk, unsure>>

\* The store writes what it likes of the versions it may write.
Write ==
    /\ unsure' \subseteq unsure
    /\ UNCHANGED <<latest, versions, confirmed>>
    /\ Faithful'

\* A write fails, and nobody knows what it has done.
Doubt ==
    /\ unsure \subseteq unsure' /\ unsure' \subseteq Docs
    /\ UNCHANGED <<latest, versions, confirmed, disk>>

\* A flush answers.
Confirm ==
    /\ confirmed' \in confirmed..latest
    /\ UNCHANGED <<latest, versions, disk, unsure>>
    /\ Faithful'

\* The process dies; the next one reads what there is.
Restart == UNCHANGED disk /\ Started'

Next == Save \/ Write \/ Doubt \/ Confirm \/ Restart

Spec == Init /\ [][Next]_vars
=============================================================================
