---------------------------- MODULE MCStateStore ----------------------------
(* Two branches in one collection and a deployment run in the next. *)
EXTENDS StoreHistory, TLC

CONSTANTS b1, b2, run, v

MCCollectionOf == (b1 :> 1) @@ (b2 :> 1) @@ (run :> 2)

\* For the run LostAcknowledgement: at the start every document is there.
StockedSpec == HistorySpec /\ \A d \in Docs : live[d] # Absent

=============================================================================
