---------------------------- MODULE BranchLeases ----------------------------
(***************************************************************************)
(* What the branch operation coordinator of CDS promises, without the      *)
(* priorities, keys, generations and continuations by which it decides.    *)
(* To a handler: what it works on is its own until a conflicting operation *)
(* begins, and never again after that.  To a caller whose deploy was       *)
(* merged: the deploy is dispatched when a holder of the branch finishes,  *)
(* unless the branch is gone, a later deploy has taken its place or an     *)
(* operation that begins on the branch has withdrawn it.                   *)
(***************************************************************************)

CONSTANTS
    Conflicts(_, _), \* whether two operations touch the same containers
    BranchOf(_),     \* the branch of an operation or of a deploy
    Ending(_),       \* whether an operation stops or removes its branch
    Announces(_)     \* whether a continuation may follow an operation

VARIABLES
    holders,  \* the operations that have begun and not finished
    owners,   \* those of them that may still touch their containers
    waiting,  \* deploys that were merged
    sent,     \* deploys that were dispatched and have not arrived
    removed   \* branches that exist no more

vars == <<holders, owners, waiting, sent, removed>>

Of(S, b) == {x \in S : BranchOf(x) = b}

Init == holders = {} /\ owners = {} /\ waiting = {} /\ sent = {} /\ removed = {}

\* An operation begins: it takes over from those it conflicts with, and from
\* nobody else.  It may withdraw what waits on its branch, and does if it ends
\* the branch.
Begin(n) ==
    /\ n \notin holders
    /\ holders' = holders \cup {n}
    /\ owners' = {m \in owners : ~Conflicts(n, m)} \cup {n}
    /\ waiting' \subseteq waiting
    /\ \A w \in waiting \ waiting' : BranchOf(w) = BranchOf(n)
    /\ Ending(n) => Of(waiting', BranchOf(n)) = {}
    /\ sent' \subseteq sent
    /\ UNCHANGED removed

\* A deploy is merged; the latest of a branch wins.
Merge(w) ==
    /\ waiting' = (waiting \ Of(waiting, BranchOf(w))) \cup {w}
    /\ sent' \subseteq sent
    /\ UNCHANGED <<holders, owners, removed>>

\* A holder finishes.  Unless it leaves the branch to its continuation, what
\* waits there is dispatched, or dropped with the branch.
Finish(l) ==
    /\ l \in holders
    /\ holders' = holders \ {l} /\ owners' = owners \ {l}
    /\ \/ Announces(l) /\ UNCHANGED <<waiting, sent, removed>>
       \/ /\ removed' = removed \/ removed' = removed \cup {BranchOf(l)}
          /\ waiting' = waiting \ Of(waiting, BranchOf(l))
          /\ sent' = sent \cup IF BranchOf(l) \in removed' THEN {}
                               ELSE Of(waiting, BranchOf(l))

\* What was dispatched arrives and is refused, or is lost on the way.
Lose == sent' \subseteq sent /\ UNCHANGED <<holders, owners, waiting, removed>>

Next ==
    \/ \E n \in holders' : Begin(n)
    \/ \E w \in waiting' : Merge(w)
    \/ \E l \in holders : Finish(l)
    \/ Lose

Spec == Init /\ [][Next]_vars
=============================================================================
