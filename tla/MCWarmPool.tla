----------------------------- MODULE MCWarmPool -----------------------------
(***************************************************************************)
(* A pool for one of two branches, of which one is left to the scheduler   *)
(* and its visitors.  Either it is up, and one operation of a user or one  *)
(* mishap befalls the other; or it has never been deployed, and the other  *)
(* one alone goes through all that the bounds admit.                       *)
(***************************************************************************)
EXTENDS WarmPool

CONSTANT Still  \* the branch that is left alone

ASSUME StillAssumption == Still \in Branches

Alone == branch[Still].age = "never"

MCInit ==
    /\ Init
    /\ branch[Still].status \in {"running", "idle"}
    /\ Alone => ops = 0 /\ mishaps = 0
    /\ ~Alone => /\ ops + mishaps = 1
                 /\ \A b \in Branches : ~Recoverable(branch[b])

\* The bound of operations next to a branch that is up, and what befalls Still:
\* nothing, but for the death of the process.
LeftAlone ==
    /\ ~Alone => ops' <= 1
    /\ ops' # ops => UNCHANGED <<branch[Still], owner[Still]>>
    /\ mishaps' # mishaps
       => Dies \/ UNCHANGED <<branch[Still], owner[Still], Still \in up>>

MCSpec == MCInit /\ [][Next /\ LeftAlone]_vars /\ Fairness
=============================================================================
