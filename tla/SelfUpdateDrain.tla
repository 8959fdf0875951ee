--------------------------- MODULE SelfUpdateDrain ---------------------------
(***************************************************************************)
(* A self-update of CDS restarts the process under the deployments it      *)
(* runs.  Before that it drains: it closes the gate of the deploy routes   *)
(* (cds/src/services/deploy-drain.ts, the middleware in server.ts), waits  *)
(* until no run shows signs of life any more or until its patience ends,   *)
(* flushes the state and restarts (drainDeploysBeforeSelfUpdateRestart()   *)
(* and its callers in cds/src/routes/branches.ts).  Whoever is still       *)
(* working then is killed, and the reaper fails its run later.             *)
(***************************************************************************)
EXTENDS DeploymentRuns

CONSTANT MaxUpdates   \* bound: self-updates that get as far as the drain

ASSUME MaxUpdatesAssumption == MaxUpdates \in Nat

VARIABLES
    gate,      \* "open", "closed": may a deploy request begin a run?
    updater,   \* "idle", "draining", "drained", "gaveUp", "flushed"
    writtenOff,  \* runs in flight that were silent at the last poll, or that
                 \* the drain gave up on
    updates    \* self-updates so far

drainVars == <<gate, updater, writtenOff, updates>>
allVars   == <<vars, drainVars>>

DrainTypeOK ==
    /\ TypeOK
    /\ gate \in {"open", "closed"}
    /\ updater \in {"idle", "draining", "drained", "gaveUp", "flushed"}
    /\ writtenOff \subseteq Runs
    /\ updates \in Nat

DrainInit ==
    /\ Init
    /\ gate = "open" /\ updater = "idle" /\ writtenOff = {} /\ updates = 0

InFlightRuns == {r \in Runs : Active(r)}

\* Mutant: the statuses the first version of the drain forgot.
IsWaitedFor(r) ==
    /\ Active(r) /\ ledger[r].status \notin {"preparing", "verifying"}
    /\ ledger[r].age = Fresh

\* isRunAlive(): in flight, and heard of within DRAIN_STALE_HEARTBEAT_MS.
IsRunAlive(r) == Active(r) /\ ledger[r].age = Fresh

PendingRuns == {r \in Runs : IsRunAlive(r)}

\* What a poll finds decides whether the wait goes on.
Look ==
    /\ writtenOff' = {r \in InFlightRuns : ledger[r].age # Fresh}
    /\ updater' = IF PendingRuns = {} THEN "drained" ELSE "draining"

\* Mutant: the gate stays open while the runs are awaited.
LeftOpen == gate

Closed == "closed"

\* The gate is closed before the first poll, in the same turn.
StartDrain ==
    /\ updater = "idle" /\ updates < MaxUpdates
    /\ updates' = updates + 1
    /\ gate' = Closed
    /\ Look
    /\ UNCHANGED vars

Poll ==
    /\ updater = "draining" /\ PendingRuns = {}
    /\ Look
    /\ UNCHANGED <<vars, gate, updates>>

\* Mutant: the patience of the drain ends only with the last live run.
NothingLeft == PendingRuns = {}

\* CDS_SELFUPDATE_DRAIN_TIMEOUT_MS is over: restart all the same.
TimeIsUp == PendingRuns # {}

GiveUp ==
    /\ updater = "draining" /\ TimeIsUp
    /\ updater' = "gaveUp"
    /\ writtenOff' = InFlightRuns
    /\ UNCHANGED <<vars, gate, updates>>

\* flush(), bounded by a second: it may time out or fail, nobody cares.
Flush ==
    /\ updater \in {"drained", "gaveUp"}
    /\ saved' \in {ledger, saved}
    /\ updater' = "flushed"
    /\ UNCHANGED <<ledger, handler, crashes, gate, writtenOff, updates>>

\* The gate and the drain live in memory only.
Forget ==
    /\ gate' = "open" /\ updater' = "idle" /\ writtenOff' = {}
    /\ UNCHANGED updates

\* exec_cds.sh is spawned and the process exits one second later; with
\* exitOnFailure it exits when the spawn fails as well.
Exit ==
    /\ updater = "flushed"
    /\ Restart
    /\ Forget
    /\ UNCHANGED crashes

\* The spawn fails and the process lives on: the gate opens at once.
SpawnFails ==
    /\ updater = "flushed"
    /\ Forget
    /\ UNCHANGED vars

\* An exception on the way to the restart: nobody opens the gate.
Abandon ==
    /\ updater \in {"drained", "gaveUp", "flushed"}
    /\ updater' = "idle" /\ writtenOff' = {}
    /\ UNCHANGED <<vars, gate, updates>>

\* Mutant: the gate has no maximal hold time.
NeverDue == FALSE

\* The maximal hold time exceeds the patience of the drain by a minute.
HoldIsDue == updater = "idle"

GateExpires ==
    /\ gate = "closed" /\ HoldIsDue
    /\ gate' = "open"
    /\ UNCHANGED <<vars, updater, writtenOff, updates>>

CrashResets ==
    /\ Crash
    /\ Forget

\* The middleware of the deploy routes.
BeginAtGate(r) == gate = "open" /\ Begin(r)

RunStep ==
    /\ \/ \E r \in Runs : BeginAtGate(r) \/ Handle(r) \/ Background(r)
       \/ Reap
    /\ UNCHANGED drainVars

DrainNext ==
    \/ StartDrain \/ Poll \/ GiveUp \/ Flush \/ Exit \/ SpawnFails \/ Abandon
    \/ GateExpires \/ CrashResets \/ RunStep

DrainSpec == DrainInit /\ [][DrainNext]_allVars

\* The updater runs on timers and bounded waits; the handlers owe nothing.
FairDrainSpec ==
    /\ DrainSpec
    /\ WF_allVars(Poll \/ GiveUp)
    /\ WF_allVars(Flush) /\ WF_allVars(Exit \/ SpawnFails \/ Abandon)
    /\ WF_allVars(GateExpires)

-----------------------------------------------------------------------------
(* Properties. *)

Working(r) == handler[r] \notin {"idle", "ended"}

\* The restart kills nobody whom the drain did not write off: who works on a run
\* in flight then was silent for minutes at the last poll, unless the drain gave
\* up on it and said so.
NoLiveVictim ==
    updater \notin {"idle", "draining"} =>
      \A r \in Runs : Working(r) /\ Active(r) => r \in writtenOff

\* No deployment begins between the last poll and the restart.
NobodySlipsIn ==
    [][updater \notin {"idle", "draining"} =>
         \A r \in Runs : handler[r] = "idle" => handler'[r] = "idle"]_allVars

\* "A stuck deployment must not block the self-update for ever."
DrainEnds == updater = "draining" ~> updater # "draining"

\* "The gate never locks deployments out for good", whatever becomes of the
\* restart.
GateReopens == gate = "closed" ~> gate = "open"
=============================================================================
