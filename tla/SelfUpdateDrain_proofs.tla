----------------------- MODULE SelfUpdateDrain_proofs -----------------------
(***************************************************************************)
(* Proofs about the drain before a self-update, for any number of          *)
(* deployments and of updates: no deployment begins once the updater has   *)
(* looked for the last time, and the restart kills nobody whom the drain   *)
(* did not write off.                                                      *)
(***************************************************************************)
EXTENDS SelfUpdateDrain, DeploymentRuns_proofs

USE MaxUpdatesAssumption

Busy == updater \notin {"idle", "draining"}

\* An updater that is on its way has closed the gate, and the gate does not
\* expire under it.
ClosedWhileUpdating == updater # "idle" => gate = "closed"

DrainInv == DrainTypeOK /\ IdleAbsent /\ ClosedWhileUpdating /\ NoLiveVictim

\* The part of the invariant that speaks of the ledger.
RunsInv == TypeOK /\ IdleAbsent

-----------------------------------------------------------------------------
(* What the drain knows about the steps of the runs. *)

LEMMA DrainInitInvariant == DrainInit => DrainInv
BY ConstantRuns
DEF DrainInit, Init, DrainInv, DrainTypeOK, TypeOK, IdleAbsent,
    ClosedWhileUpdating, NoLiveVictim, Phases

\* Every run that is in flight under a working handler after a step was so
\* before it.
NobodyNew == \A q \in Runs : Working(q)' /\ Active(q)' => Working(q) /\ Active(q)

\* A step of a handler keeps the invariant of the ledger and gives nobody work.
LEMMA HandleKeeps ==
    ASSUME RunsInv, NEW r \in Runs, Handle(r)
    PROVE  RunsInv' /\ NobodyNew /\ (\A q \in Runs : handler[q] = "idle" => handler'[q] = "idle")
<1>1. PICK new \in Run, phase \in Phases : HandlerMove(r, new, phase)
  BY HandleMoves DEF RunsInv
<1>2. TypeOK'
  BY <1>1 DEF HandlerMove, RunsInv, TypeOK
<1>3. IdleAbsent'
  BY <1>1 DEF HandlerMove, RunsInv, TypeOK, IdleAbsent
<1>4. \A q \in Runs : handler[q] = "idle" => handler'[q] = "idle"
  BY <1>1 DEF HandlerMove, RunsInv, TypeOK
<1>5. \A q \in Runs \ {r} : ledger'[q] = ledger[q] /\ handler'[q] = handler[q]
  BY <1>1 DEF HandlerMove, RunsInv, TypeOK
<1>6. Working(r) /\ (Active(r)' => Active(r))
  BY <1>1 DEF HandlerMove, RunsInv, TypeOK, Respects, Active, Working
<1>7. NobodyNew
  BY <1>5, <1>6 DEF NobodyNew, Working, Active
<1> QED
  BY <1>2, <1>3, <1>4, <1>7 DEF RunsInv

\* So do time, the store and the reaper.
LEMMA BackgroundKeeps ==
    ASSUME RunsInv, Reap \/ \E r \in Runs : Background(r)
    PROVE  RunsInv' /\ NobodyNew /\ handler' = handler
<1>1. CASE Reap
  <2>1. /\ ledger' \in [Runs -> Run]
        /\ \A r \in Runs : Respects(ledger[r], ledger'[r])
        /\ saved' = saved /\ handler' = handler /\ crashes' = crashes
    BY <1>1, ReapEffect DEF RunsInv
  <2>2. RunsInv'
    BY <2>1, ConstantRuns, StatusKinds DEF RunsInv, TypeOK, IdleAbsent, Respects
  <2>3. NobodyNew
    BY <2>1 DEF NobodyNew, Working, Active, Respects
  <2> QED
    BY <2>1, <2>2, <2>3
<1>2. ASSUME NEW r \in Runs, Age(r)
      PROVE  RunsInv' /\ NobodyNew /\ handler' = handler
  <2>1. /\ ledger' = [ledger EXCEPT ![r] = Older(ledger[r])]
        /\ saved' = [saved EXCEPT ![r] = Older(saved[r])]
        /\ handler' = handler /\ crashes' = crashes
        /\ ledger[r].status \in InFlight
    BY <1>2 DEF Age, Active
  <2>2. /\ Older(ledger[r]) \in Run /\ Older(saved[r]) \in Run
        /\ saved[r].status \notin InFlight => Older(saved[r]) = saved[r]
    BY OlderRun DEF RunsInv, TypeOK
  <2>3. RunsInv'
    BY <2>1, <2>2, ConstantRuns, StatusKinds DEF RunsInv, TypeOK, IdleAbsent
  <2>4. NobodyNew
    BY <2>1, <2>2 DEF NobodyNew, Working, Active, RunsInv, TypeOK
  <2> QED
    BY <2>1, <2>3, <2>4
<1>3. ASSUME NEW r \in Runs, Persist(r)
      PROVE  RunsInv' /\ NobodyNew /\ handler' = handler
  BY <1>3 DEF Persist, RunsInv, TypeOK, IdleAbsent, NobodyNew, Working, Active
<1> QED
  BY <1>1, <1>2, <1>3 DEF Background

\* begin() keeps the invariant of the ledger.
LEMMA BeginKeeps ==
    ASSUME RunsInv, NEW r \in Runs, Begin(r)
    PROVE  RunsInv'
<1> DEFINE begun == [ledger EXCEPT ![r] = NewRun]
<1>1. begun \in [Runs -> Run]
      /\ \A q \in Runs \ {r} : begun[q] = ledger[q]
  BY ConstantRuns DEF RunsInv, TypeOK
<1>2. ledger' = Pruned(begun) /\ handler' = [handler EXCEPT ![r] = "beginning"]
      /\ saved' = saved /\ crashes' = crashes
  BY DEF Begin, Goto
<1> HIDE DEF begun
<1>3. ledger' \in [Runs -> Run] /\ \A q \in Runs : ledger'[q] \in {begun[q], Absent}
  BY <1>1, <1>2, PrunedRuns
<1> QED
  BY <1>1, <1>2, <1>3 DEF RunsInv, TypeOK, IdleAbsent, Phases

\* And so does a restart, whatever was saved.
LEMMA RestartKeeps ==
    ASSUME RunsInv, Restart, crashes' \in Nat
    PROVE  RunsInv'
BY DEF Restart, RunsInv, TypeOK, IdleAbsent, Phases

-----------------------------------------------------------------------------
(* The invariant of the drain. *)

\* A step of the runs, with the gate as it is.
LEMMA RunStepInvariant ==
    ASSUME DrainInv, RunStep
    PROVE  DrainInv'
<1>0. RunsInv /\ UNCHANGED drainVars
  BY DEF DrainInv, DrainTypeOK, RunsInv, RunStep
<1>1. RunsInv' /\ (updater = "idle" \/ NobodyNew)
  <2>1. CASE \E r \in Runs : BeginAtGate(r)
    BY <1>0, <2>1, BeginKeeps DEF BeginAtGate, DrainInv, ClosedWhileUpdating
  <2>2. CASE \E r \in Runs : Handle(r)
    BY <1>0, <2>2, HandleKeeps
  <2>3. CASE Reap \/ \E r \in Runs : Background(r)
    BY <1>0, <2>3, BackgroundKeeps
  <2> QED
    BY <2>1, <2>2, <2>3 DEF RunStep
<1>2. NoLiveVictim'
  BY <1>0, <1>1 DEF drainVars, DrainInv, NoLiveVictim, NobodyNew
<1> QED
  BY <1>0, <1>1, <1>2
  DEF drainVars, DrainInv, DrainTypeOK, RunsInv, ClosedWhileUpdating

\* The updater's own steps leave the runs alone, up to the restart.
LEMMA UpdaterInvariant ==
    ASSUME DrainInv,
           \/ StartDrain \/ Poll \/ GiveUp \/ Flush \/ Exit \/ SpawnFails
           \/ Abandon \/ GateExpires \/ CrashResets
    PROVE  DrainInv'
<1>0. RunsInv
  BY DEF DrainInv, DrainTypeOK, RunsInv
<1>1. CASE StartDrain \/ Poll
  <2>1. UNCHANGED vars /\ gate' = "closed" /\ updates' \in Nat /\ Look
    BY <1>1 DEF StartDrain, Poll, Closed, DrainInv, DrainTypeOK, ClosedWhileUpdating
  <2>2. updater' \in {"drained", "draining"} /\ writtenOff' \subseteq Runs
    BY <2>1 DEF Look, InFlightRuns
  <2>3. NoLiveVictim'
    BY <2>1, <2>2 DEF Look, NoLiveVictim, PendingRuns, IsRunAlive, InFlightRuns,
                      Active, Working, vars
  <2> QED
    BY <2>1, <2>2, <2>3
    DEF DrainInv, DrainTypeOK, TypeOK, IdleAbsent, ClosedWhileUpdating, vars
<1>2. CASE GiveUp
  <2>1. NoLiveVictim'
    BY <1>2 DEF GiveUp, NoLiveVictim, InFlightRuns, Active, Working, vars
  <2> QED
    BY <1>2, <2>1
    DEF GiveUp, DrainInv, DrainTypeOK, TypeOK, IdleAbsent, ClosedWhileUpdating,
        InFlightRuns, vars
<1>3. CASE Flush
  <2>1. saved' \in [Runs -> Run] /\ IdleAbsent'
    BY <1>3 DEF Flush, DrainInv, DrainTypeOK, TypeOK, IdleAbsent
  <2> QED
    BY <1>3, <2>1
    DEF Flush, DrainInv, DrainTypeOK, TypeOK, ClosedWhileUpdating, NoLiveVictim,
        Active, Working
<1>4. CASE Exit \/ CrashResets
  <2>1. Restart /\ Forget /\ crashes' \in Nat
    BY <1>4 DEF Exit, CrashResets, Crash, DrainInv, DrainTypeOK, TypeOK
  <2>2. RunsInv'
    BY <1>0, <2>1, RestartKeeps
  <2> QED
    BY <2>1, <2>2
    DEF Forget, DrainInv, DrainTypeOK, RunsInv, ClosedWhileUpdating, NoLiveVictim
<1>5. CASE SpawnFails \/ Abandon
  BY <1>5
  DEF SpawnFails, Abandon, Forget, DrainInv, DrainTypeOK, TypeOK, IdleAbsent,
      ClosedWhileUpdating, NoLiveVictim, vars
<1>6. CASE GateExpires
  BY <1>6
  DEF GateExpires, HoldIsDue, DrainInv, DrainTypeOK, TypeOK, IdleAbsent,
      ClosedWhileUpdating, NoLiveVictim, Active, Working, vars
<1> QED
  BY <1>1, <1>2, <1>3, <1>4, <1>5, <1>6

LEMMA DrainNextInvariant == DrainInv /\ [DrainNext]_allVars => DrainInv'
<1> SUFFICES ASSUME DrainInv, [DrainNext]_allVars
             PROVE  DrainInv'
  OBVIOUS
<1>1. CASE RunStep
  BY <1>1, RunStepInvariant
<1>2. CASE UNCHANGED allVars
  BY <1>2
  DEF allVars, drainVars, vars, DrainInv, DrainTypeOK, TypeOK, IdleAbsent,
      ClosedWhileUpdating, NoLiveVictim, Active, Working
<1> QED
  BY <1>1, <1>2, UpdaterInvariant DEF DrainNext

\* In every state: an updater under way has closed the gate.
THEOREM DrainInvariantHolds == DrainSpec => []DrainInv
BY DrainInitInvariant, DrainNextInvariant, PTL DEF DrainSpec

\* Every variable of the drain keeps its type.
THEOREM DrainTypeCorrect == DrainSpec => []DrainTypeOK
<1>1. DrainInv => DrainTypeOK
  BY DEF DrainInv
<1> QED
  BY <1>1, DrainInvariantHolds, PTL

\* The restart kills nobody whom the drain saw alive, unless it gave up.
THEOREM OnlyWrittenOffDie == DrainSpec => []NoLiveVictim
<1>1. DrainInv => NoLiveVictim
  BY DEF DrainInv
<1> QED
  BY <1>1, DrainInvariantHolds, PTL

-----------------------------------------------------------------------------
(* Nobody slips in. *)

\* What NobodySlipsIn demands of a step.
NobodyBegins == Busy => \A r \in Runs : handler[r] = "idle" => handler'[r] = "idle"

LEMMA StepLetsNobodyIn ==
    ASSUME DrainInv, [DrainNext]_allVars
    PROVE  NobodyBegins
<1>0. RunsInv
  BY DEF DrainInv, DrainTypeOK, RunsInv
<1>1. CASE RunStep
  <2>1. CASE \E r \in Runs : BeginAtGate(r)
    BY <2>1 DEF BeginAtGate, DrainInv, ClosedWhileUpdating, NobodyBegins, Busy
  <2>2. CASE \E r \in Runs : Handle(r)
    BY <1>0, <2>2, HandleKeeps DEF NobodyBegins
  <2>3. CASE Reap \/ \E r \in Runs : Background(r)
    BY <1>0, <2>3, BackgroundKeeps DEF NobodyBegins
  <2> QED
    BY <1>1, <2>1, <2>2, <2>3 DEF RunStep
<1>2. CASE Exit \/ CrashResets
  BY <1>2 DEF Exit, CrashResets, Crash, Restart, NobodyBegins
<1>3. CASE \/ StartDrain \/ Poll \/ GiveUp \/ Flush \/ SpawnFails \/ Abandon
           \/ GateExpires \/ UNCHANGED allVars
  <2>1. handler' = handler
    BY <1>3 DEF StartDrain, Poll, GiveUp, Flush, SpawnFails, Abandon, GateExpires,
                allVars, vars
  <2> QED
    BY <2>1 DEF NobodyBegins
<1> QED
  BY <1>1, <1>2, <1>3 DEF DrainNext

\* No deployment begins between the last poll of the drain and the restart.
THEOREM GateHolds == DrainSpec => NobodySlipsIn
<1>1. DrainInv /\ [DrainNext]_allVars => [NobodyBegins]_allVars
  BY StepLetsNobodyIn
<1> QED
  BY <1>1, DrainInvariantHolds, PTL DEF DrainSpec, NobodySlipsIn, NobodyBegins, Busy

-----------------------------------------------------------------------------
(* What is promised of the ledger. *)

LEMMA DrainShows ==
    ASSUME TypeOK, DrainNext
    PROVE  [Book!Next]_(Book!vars)
<1>1. CASE RunStep
  BY <1>1, RunsShow DEF RunStep, BeginAtGate, Book!Next
<1>2. CASE Exit \/ CrashResets
  BY <1>2, RestartShows DEF Exit, CrashResets, Crash
<1>3. CASE Flush
  BY <1>3, SaveShows DEF Flush, Book!Next
<1>4. CASE StartDrain \/ Poll \/ GiveUp \/ SpawnFails \/ Abandon \/ GateExpires
  <2>1. UNCHANGED vars
    BY <1>4 DEF StartDrain, Poll, GiveUp, SpawnFails, Abandon, GateExpires
  <2> QED
    BY <2>1, StillShows
<1> QED
  BY <1>1, <1>2, <1>3, <1>4 DEF DrainNext

\* A self-update restarts the process on purpose, with a flush that may fail: the
\* promise survives that as it survives a crash.
THEOREM DrainKeepsPromise == DrainSpec => BookPromise
<1>1. DrainInit => Book!Init
  BY InitShows DEF DrainInit
<1>2. UNCHANGED allVars => UNCHANGED Book!vars
  BY StillShows DEF allVars, vars
<1>3. DrainTypeOK => TypeOK
  BY DEF DrainTypeOK
<1>4. DrainTypeOK /\ [DrainNext]_allVars => [Book!Next]_(Book!vars)
  BY <1>2, <1>3, DrainShows
<1> QED
  BY <1>1, <1>4, DrainTypeCorrect, PTL DEF DrainSpec, BookPromise, Book!Spec
=============================================================================
