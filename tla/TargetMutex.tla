----------------------------- MODULE TargetMutex -----------------------------
(***************************************************************************)
(* What the busy check and the lock of a release target promise            *)
(* (cds/src/services/release-service.ts, isTargetBusy();                   *)
(* release-target-lock.ts): at most one of the users writes to the target  *)
(* at a time, and the target changes in nobody's absence, except by        *)
(* commands that a writer left behind.                                     *)
(***************************************************************************)
CONSTANT Users

VARIABLES
    writers,   \* who is writing to the target
    strays,    \* commands left behind on the target, whose end nobody awaits
    target     \* what the target contains

vars == <<writers, strays, target>>

Init == writers = {} /\ strays = {}

Enter(u) ==
    /\ writers = {}
    /\ writers' = {u}
    /\ UNCHANGED <<strays, target>>

\* The last write and the departure may be one; a writer that is cut off
\* leaves a command behind.
Leave ==
    /\ writers # {}
    /\ writers' = {}
    /\ strays \subseteq strays'

Write ==
    /\ writers # {}
    /\ strays \subseteq strays'
    /\ UNCHANGED writers

StrayWrites ==
    /\ strays # {}
    /\ UNCHANGED writers

Next == (\E u \in Users : Enter(u)) \/ Leave \/ Write \/ StrayWrites

Spec == Init /\ [][Next]_vars

=============================================================================
