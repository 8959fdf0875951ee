---------------------------- MODULE StoreHistory ----------------------------
(***************************************************************************)
(* The write-behind store with a record of the versions that were saved,   *)
(* which shows that it implements DurableStore.  Nothing reads the record. *)
(***************************************************************************)
EXTENDS StateStore

VARIABLE versions   \* history: the state at each save since the start

historyVars == <<vars, versions>>

HistoryInit == Init /\ versions = [g \in {0} |-> live]

\* Up to the generation of the next state as before, there as it is then.
Recorded ==
    versions' = [g \in 0..writeGeneration' |->
                    IF g < writeGeneration' THEN versions[g] ELSE live']

HistoryNext == Next /\ Recorded

HistorySpec == HistoryInit /\ [][HistoryNext]_historyVars

FairHistorySpec == HistorySpec /\ WF_vars(Tick) /\ WF_vars(Write)

Promised == INSTANCE DurableStore WITH
    latest <- writeGeneration, confirmed <- flushed, disk <- db,
    unsure <- doubtful

\* Whatever snapshots were taken, merged, upgraded, written, half written or
\* lost, a restart finds every document as it was at the last flush that was
\* confirmed or later, unless a failed write has left it in doubt.
StorePromise == Promised!Spec
=============================================================================
