------------------------------ MODULE SlotPool ------------------------------
(***************************************************************************)
(* What the global build gate of CDS promises to the machine it protects:  *)
(* a pool of build slots whose limit an operator may change at any time.   *)
(* Builds that already run are never evicted, but nobody is let in unless  *)
(* the population, with the newcomers, respects the limit in force.        *)
(***************************************************************************)
EXTENDS Naturals, FiniteSets

CONSTANTS Callers,    \* builds that may ask for a slot
          Limits      \* values the limit may take

VARIABLES inside,     \* builds that own a slot
          limit       \* the limit in force

vars == <<inside, limit>>

Init == inside = {} /\ limit \in Limits

\* Some builds leave, some enter, the limit may move: whoever enters does so
\* under the limit.
Move(out, in) ==
    /\ out \subseteq inside /\ in \cap inside = {}
    /\ inside' = (inside \ out) \cup in
    /\ limit' \in Limits
    /\ in # {} => Cardinality(inside') <= limit'

Next == \E out, in \in SUBSET Callers : Move(out, in)

Spec == Init /\ [][Next]_vars

=============================================================================
