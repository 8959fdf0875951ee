------------------------ MODULE DeploymentRuns_proofs ------------------------
(***************************************************************************)
(* Proofs about the ledger of deployment runs, for any number of runs, any *)
(* ring and any quota: its type, that work is only done for durable runs,  *)
(* that the first verdict on a run stands, and that the ledger implements  *)
(* the run book; and what a reader may conclude from the book alone.       *)
(*                                                                         *)
(* The operations of the ledger share one law: a run that is not in flight *)
(* is left alone (Respects).  Every action of a handler amounts to moving  *)
(* the handler and doing one lawful thing to its run (HandlerMove), which  *)
(* is all that the invariants need to know about the handlers.             *)
(***************************************************************************)
EXTENDS DeploymentRuns, TLAPS

USE BoundsAssumption

\* The ring holds the last events of a run, as many as fit.
Trimmed(run) == run.first = IF run.seq > Ring THEN run.seq - Ring + 1 ELSE 1

\* What an operation of the ledger may make of a run.
Respects(run, new) ==
    /\ new \in Run
    /\ run.status \notin InFlight => new = run
    /\ new.seq >= run.seq
    /\ Trimmed(run) => Trimmed(new)

WorkPhases == Phases \ {"idle", "beginning", "ended"}

HandlerMove(r, new, phase) ==
    /\ Respects(ledger[r], new)
    /\ phase \in Phases \ {"idle", "beginning"}
    /\ handler[r] \notin {"idle", "ended"}
    /\ phase \in WorkPhases /\ handler[r] = "beginning" => saved[r].status # "none"
    /\ ledger'  = [ledger EXCEPT ![r] = new]
    /\ handler' = [handler EXCEPT ![r] = phase]
    /\ saved' = saved /\ crashes' = crashes

-----------------------------------------------------------------------------
(* The operations on one run. *)

\* appendEvent() keeps the type of the run and its status, and the ring full.
LEMMA AppendedRun ==
    ASSUME NEW run \in Run, NEW k \in Nat
    PROVE  /\ Appended(run, k) \in Run
           /\ Appended(run, k).status = run.status
           /\ Appended(run, k).seq >= run.seq
           /\ Trimmed(run) => Trimmed(Appended(run, k))
<1> DEFINE last  == run.seq + k
           first == IF last - run.first + 1 > Ring THEN last - Ring + 1 ELSE run.first
<1>1. run.seq \in Nat /\ run.first \in Nat
  BY DEF Run
<1>2. last \in Nat /\ first \in Nat
  BY <1>1
<1>3. Appended(run, k) = [run EXCEPT !.seq = last, !.age = Fresh, !.first = first]
  BY DEF Appended
<1>4. last >= run.seq
      /\ (Trimmed(run) => first = IF last > Ring THEN last - Ring + 1 ELSE 1)
  BY <1>1 DEF Trimmed
<1> HIDE DEF last, first
<1>5. Appended(run, k).seq = last /\ Appended(run, k).first = first
      /\ Appended(run, k).status = run.status /\ Appended(run, k) \in Run
  BY <1>2, <1>3 DEF Run
<1> QED
  BY <1>4, <1>5 DEF Trimmed

\* A run left alone.
LEMMA SameRun ==
    ASSUME NEW run \in Run
    PROVE  Respects(run, run)
BY DEF Respects, Run

\* A run in flight with more events, about to get a new status.
RespectfulStatus(run, new, s) ==
    /\ s \in InFlight \cup Final /\ run.status \in InFlight
    /\ new \in Run /\ new.seq >= run.seq
    /\ Trimmed(run) => Trimmed(new)

LEMMA StatusSet ==
    ASSUME NEW run \in Run, NEW new, NEW s, RespectfulStatus(run, new, s)
    PROVE  Respects(run, [new EXCEPT !.status = s])
<1> DEFINE set == [new EXCEPT !.status = s]
<1>1. set \in Run /\ set.seq = new.seq /\ set.first = new.first
  BY DEF RespectfulStatus, Run
<1> HIDE DEF set
<1> QED
  BY <1>1 DEF RespectfulStatus, Respects, Trimmed, set

\* A verdict is only passed on a run in flight.
LEMMA EndedRespects ==
    ASSUME NEW run \in Run, NEW s \in Final
    PROVE  Respects(run, Ended(run, s))
<1>1. CASE run.status \notin InFlight
  BY <1>1, SameRun DEF Ended
<1>2. CASE run.status \in InFlight
  <2>1. RespectfulStatus(run, Appended(run, 1), s)
    BY <1>2, AppendedRun DEF RespectfulStatus
  <2> QED
    BY <1>2, <2>1, StatusSet DEF Ended
<1> QED
  BY <1>1, <1>2

\* A run advances only while it is in flight.
LEMMA AdvancedRespects ==
    ASSUME NEW run \in Run, NEW s \in DOMAIN Rank
    PROVE  Respects(run, Advanced(run, s))
<1>0. s \in InFlight \cup Final
  BY DEF Rank, InFlight, Final
<1>1. CASE run.status \in InFlight /\ Rank[s] > Rank[run.status]
  <2>1. Rank[s] - Rank[run.status] \in Nat
    BY <1>1 DEF Rank, InFlight
  <2>2. RespectfulStatus(run, Appended(run, Rank[s] - Rank[run.status]), s)
    BY <1>0, <1>1, <2>1, AppendedRun DEF RespectfulStatus
  <2> QED
    BY <1>1, <2>2, StatusSet DEF Advanced
<1>2. CASE ~(run.status \in InFlight /\ Rank[s] > Rank[run.status])
  BY <1>2, SameRun DEF Advanced
<1> QED
  BY <1>1, <1>2

\* Events are only added to a run in flight, and leave its status alone.
LEMMA LoggedRespects ==
    ASSUME NEW run \in Run
    PROVE  Respects(run, Logged(run)) /\ Logged(run).status = run.status
<1>1. CASE run.status \in InFlight
  BY <1>1, AppendedRun DEF Logged, Respects
<1>2. CASE run.status \notin InFlight
  BY <1>2, SameRun DEF Logged
<1> QED
  BY <1>1, <1>2

\* Only a run in flight has a heartbeat.
LEMMA BeatenRespects ==
    ASSUME NEW run \in Run
    PROVE  Respects(run, Beaten(run))
<1>1. CASE run.status \in InFlight
  <2>1. Beaten(run) \in Run /\ Beaten(run).seq = run.seq /\ Beaten(run).first = run.first
    BY <1>1 DEF Beaten, Run, Fresh, Quiet, Stale
  <2> QED
    BY <1>1, <2>1 DEF Respects, Trimmed, Run
<1>2. CASE run.status \notin InFlight
  BY <1>2, SameRun DEF Beaten
<1> QED
  BY <1>1, <1>2

\* The error and the verdict after it.
LEMMA FailRespects ==
    ASSUME NEW run \in Run
    PROVE  Respects(run, Fail(run))
<1>1. Respects(run, Logged(run)) /\ Logged(run).status = run.status
  BY LoggedRespects
<1>2. Respects(Logged(run), Ended(Logged(run), "failed"))
  BY <1>1, EndedRespects DEF Respects, Final
<1>3. run.seq \in Nat /\ Logged(run).seq \in Nat /\ Fail(run).seq \in Nat
  BY <1>1, <1>2 DEF Fail, Respects, Run
<1> QED
  BY <1>1, <1>2, <1>3 DEF Fail, Respects

\* Getting older changes nothing but the age.
LEMMA OlderRun ==
    ASSUME NEW run \in Run
    PROVE  /\ Older(run) \in Run
           /\ Older(run).status = run.status
           /\ run.status \notin InFlight => Older(run) = run
BY DEF Older, Run, Fresh, Quiet, Stale

\* The constants of the ledger are runs, and none of them is final.
LEMMA ConstantRuns ==
    /\ Absent \in Run /\ Absent.status = "none"
    /\ NewRun \in Run /\ NewRun.status = "pending"
BY DEF Absent, NewRun, Run, Fresh, Quiet, Stale, InFlight, Final

\* The three kinds of status do not overlap.
LEMMA StatusKinds ==
    InFlight \cap Final = {} /\ "none" \notin InFlight \cup Final
BY DEF InFlight, Final

\* Pruning deletes final runs and touches nothing else.
LEMMA PrunedRuns ==
    ASSUME NEW runs \in [Runs -> Run]
    PROVE  /\ Pruned(runs) \in [Runs -> Run]
           /\ \A r \in Runs : \/ Pruned(runs)[r] = runs[r]
                              \/ /\ Pruned(runs)[r] = Absent
                                 /\ runs[r].status \in Final
<1> DEFINE present == {r \in Runs : runs[r].status # "none"}
           final   == {r \in present : runs[r].status \in Final}
           older(r) == {q \in final : q < r}
           goes(r) == /\ r \in final
                      /\ Cardinality(older(r)) + Keep < Cardinality(present)
<1>1. Pruned(runs) = [r \in Runs |-> IF goes(r) THEN Absent ELSE runs[r]]
  BY DEF Pruned
<1>2. \A r \in Runs : goes(r) => runs[r].status \in Final
  OBVIOUS
<1> HIDE DEF goes
<1> QED
  BY <1>1, <1>2, ConstantRuns

-----------------------------------------------------------------------------
(* The handlers. *)

\* Every action of a handler is a lawful move.
LEMMA HandleMoves ==
    ASSUME TypeOK, NEW r \in Runs, Handle(r)
    PROVE  \E new \in Run, phase \in Phases : HandlerMove(r, new, phase)
<1>0. ledger[r] \in Run /\ handler[r] \in Phases /\ Respects(ledger[r], ledger[r])
  BY SameRun DEF TypeOK
<1> DEFINE Moves(new, phase) ==
        /\ ledger'  = [ledger EXCEPT ![r] = new]
        /\ handler' = [handler EXCEPT ![r] = phase]
        /\ saved' = saved /\ crashes' = crashes
<1>1. \A from, to : Step(r, from, to) => handler[r] = from /\ Moves(ledger[r], to)
  BY DEF Step, Goto, TypeOK
<1>2. \A from, to, new : StepWith(r, from, to, new) => handler[r] \in from /\ Moves(new, to)
  BY DEF StepWith, Goto, Update
<1>3. Respects(ledger[r], Ended(ledger[r], "failed"))
      /\ Respects(ledger[r], Ended(ledger[r], "cancelled"))
  BY <1>0, EndedRespects DEF Final
<1>4. \A s \in {"preparing", "building", "starting", "verifying", "running"} :
         Respects(ledger[r], Advanced(ledger[r], s))
  BY <1>0, AdvancedRespects DEF Rank
<1>5. Respects(ledger[r], Logged(ledger[r])) /\ Respects(ledger[r], Beaten(ledger[r]))
      /\ Respects(ledger[r], Fail(ledger[r]))
  BY <1>0, LoggedRespects, BeatenRespects, FailRespects
<1>6. \A new, phase :
         /\ Respects(ledger[r], new)
         /\ phase \in Phases \ {"idle", "beginning"}
         /\ handler[r] \notin {"idle", "ended"}
         /\ phase \in WorkPhases /\ handler[r] = "beginning" => saved[r].status # "none"
         /\ Moves(new, phase)
         => \E n \in Run, p \in Phases : HandlerMove(r, n, p)
  BY DEF HandlerMove, Respects
<1> HIDE DEF Moves
<1>7. CASE BeginThrows(r)
  BY <1>0, <1>1, <1>6, <1>7 DEF BeginThrows, Phases, WorkPhases
<1>8. CASE LeaseDenied(r)
  BY <1>2, <1>3, <1>6, <1>8 DEF LeaseDenied, Phases, WorkPhases
<1>9. CASE LeaseGranted(r)
  BY <1>2, <1>4, <1>6, <1>9 DEF LeaseGranted, IsSaved, Phases, WorkPhases
<1>10. CASE \E s \in {"building", "starting"} : Progress(r, s)
  BY <1>2, <1>4, <1>6, <1>10 DEF Progress, Phases, WorkPhases
<1>11. CASE Log(r)
  <2>1. Moves(Logged(ledger[r]), handler[r])
    BY <1>11 DEF Log, Update, Moves, TypeOK
  <2> QED
    BY <1>5, <1>6, <1>11, <2>1 DEF Log, Phases, WorkPhases
<1>12. CASE Beat(r)
  BY <1>2, <1>5, <1>6, <1>12 DEF Beat, Phases, WorkPhases
<1>13. CASE Verify(r)
  BY <1>2, <1>4, <1>6, <1>13 DEF Verify, Phases, WorkPhases
<1>14. CASE Conclude(r)
  BY <1>0, <1>1, <1>6, <1>14 DEF Conclude, Phases, WorkPhases
<1>15. CASE AttachThrows(r)
  BY <1>0, <1>1, <1>6, <1>15 DEF AttachThrows, Phases, WorkPhases
<1>16. CASE Announce(r)
  BY <1>0, <1>1, <1>6, <1>16 DEF Announce, Phases, WorkPhases
<1>17. CASE FlushFails(r)
  BY <1>2, <1>5, <1>6, <1>17 DEF FlushFails, Phases, WorkPhases
<1>18. CASE ReportSuccess(r)
  BY <1>2, <1>4, <1>6, <1>18 DEF ReportSuccess, Phases, WorkPhases
<1>19. CASE ReportFailure(r)
  BY <1>2, <1>3, <1>6, <1>19 DEF ReportFailure, Phases, WorkPhases
<1>20. CASE Superseded(r)
  BY <1>2, <1>3, <1>6, <1>20 DEF Superseded, Phases, WorkPhases
<1>21. CASE Throw(r)
  BY <1>2, <1>5, <1>6, <1>21 DEF Throw, Phases, WorkPhases
<1> QED
  BY <1>7, <1>8, <1>9, <1>10, <1>11, <1>12, <1>13, <1>14, <1>15, <1>16, <1>17,
     <1>18, <1>19, <1>20, <1>21 DEF Handle

-----------------------------------------------------------------------------
(* The invariant. *)

\* A request that has not reached begin() has no run.
IdleAbsent ==
    \A r \in Runs : handler[r] = "idle" => ledger[r] = Absent /\ saved[r] = Absent

IInv == TypeOK /\ IdleAbsent /\ DurableBeforeWork

LEMMA InitInvariant == Init => IInv
BY ConstantRuns DEF Init, IInv, TypeOK, IdleAbsent, DurableBeforeWork, Phases, Active

LEMMA BeginInvariant ==
    ASSUME IInv, NEW r \in Runs, Begin(r)
    PROVE  IInv'
<1> DEFINE begun == [ledger EXCEPT ![r] = NewRun]
<1>1. begun \in [Runs -> Run] /\ begun[r] = NewRun
      /\ \A q \in Runs \ {r} : begun[q] = ledger[q]
  BY ConstantRuns DEF IInv, TypeOK
<1>2. ledger' = Pruned(begun) /\ handler' = [handler EXCEPT ![r] = "beginning"]
      /\ saved' = saved /\ crashes' = crashes /\ handler[r] = "idle"
  BY DEF Begin, Goto
<1> HIDE DEF begun
<1>3. /\ ledger' \in [Runs -> Run]
      /\ \A q \in Runs : \/ ledger'[q] = begun[q]
                         \/ ledger'[q] = Absent
  BY <1>1, <1>2, PrunedRuns
<1>4. TypeOK'
  BY <1>2, <1>3 DEF IInv, TypeOK, Phases
<1>5. IdleAbsent'
  BY <1>1, <1>2, <1>3 DEF IInv, TypeOK, IdleAbsent
<1>6. DurableBeforeWork'
  BY <1>1, <1>2, <1>3, ConstantRuns, StatusKinds
  DEF IInv, TypeOK, DurableBeforeWork, Active
<1> QED
  BY <1>4, <1>5, <1>6 DEF IInv

\* A handler that begins to work has seen its run saved; one that works on a
\* run in flight worked on it, in flight, before.
LEMMA HandleInvariant ==
    ASSUME IInv, NEW r \in Runs, Handle(r)
    PROVE  IInv'
<1>1. PICK new \in Run, phase \in Phases : HandlerMove(r, new, phase)
  BY HandleMoves DEF IInv
<1>2. TypeOK'
  BY <1>1 DEF HandlerMove, IInv, TypeOK
<1>3. IdleAbsent'
  BY <1>1 DEF HandlerMove, IInv, TypeOK, IdleAbsent
<1>4. DurableBeforeWork'
  <2> SUFFICES ASSUME NEW q \in Runs,
                      handler'[q] \notin {"idle", "beginning", "ended"},
                      Active(q)'
               PROVE  saved'[q].status # "none"
    BY DEF DurableBeforeWork
  <2>1. CASE q # r
    <3>1. handler[q] = handler'[q] /\ ledger[q] = ledger'[q] /\ saved' = saved
      BY <1>1, <2>1 DEF HandlerMove, IInv, TypeOK
    <3> QED
      BY <3>1 DEF IInv, DurableBeforeWork, Active
  <2>2. CASE q = r
    <3>1. ledger'[r] = new /\ handler'[r] = phase /\ saved' = saved
      BY <1>1 DEF HandlerMove, IInv, TypeOK
    <3>2. ledger[r].status \in InFlight
      BY <1>1, <2>2, <3>1 DEF HandlerMove, Respects, Active
    <3>3. handler[r] \notin {"idle", "ended"}
          /\ (handler[r] = "beginning" => saved[r].status # "none")
      BY <1>1, <2>2, <3>1 DEF HandlerMove, WorkPhases
    <3> QED
      BY <2>2, <3>1, <3>2, <3>3 DEF IInv, DurableBeforeWork, Active
  <2> QED
    BY <2>1, <2>2
<1> QED
  BY <1>2, <1>3, <1>4 DEF IInv

LEMMA AgeInvariant ==
    ASSUME IInv, NEW r \in Runs, Age(r)
    PROVE  IInv'
<1>1. /\ ledger' = [ledger EXCEPT ![r] = Older(ledger[r])]
      /\ saved' = [saved EXCEPT ![r] = Older(saved[r])]
      /\ handler' = handler /\ crashes' = crashes
      /\ ledger[r].status \in InFlight
  BY DEF Age, Active
<1>2. /\ Older(ledger[r]) \in Run /\ Older(ledger[r]).status = ledger[r].status
      /\ Older(saved[r]) \in Run /\ Older(saved[r]).status = saved[r].status
      /\ saved[r].status \notin InFlight => Older(saved[r]) = saved[r]
  BY OlderRun DEF IInv, TypeOK
<1>3. TypeOK'
  BY <1>1, <1>2 DEF IInv, TypeOK
<1>4. IdleAbsent'
  BY <1>1, <1>2, ConstantRuns, StatusKinds DEF IInv, TypeOK, IdleAbsent
<1>5. \A q \in Runs : ledger'[q].status = ledger[q].status
                     /\ saved'[q].status = saved[q].status
  BY <1>1, <1>2 DEF IInv, TypeOK
<1>6. DurableBeforeWork'
  BY <1>1, <1>5 DEF IInv, DurableBeforeWork, Active
<1> QED
  BY <1>3, <1>4, <1>6 DEF IInv

LEMMA PersistInvariant ==
    ASSUME IInv, NEW r \in Runs, Persist(r)
    PROVE  IInv'
<1>1. saved' = [saved EXCEPT ![r] = ledger[r]]
      /\ ledger' = ledger /\ handler' = handler /\ crashes' = crashes
  BY DEF Persist
<1>2. TypeOK' /\ IdleAbsent'
  BY <1>1 DEF IInv, TypeOK, IdleAbsent
<1>3. DurableBeforeWork'
  BY <1>1, StatusKinds DEF IInv, TypeOK, DurableBeforeWork, Active
<1> QED
  BY <1>2, <1>3 DEF IInv

\* What the reaper leaves of each run.
LEMMA ReapEffect ==
    ASSUME TypeOK, Reap
    PROVE  /\ ledger' \in [Runs -> Run]
           /\ \A r \in Runs : Respects(ledger[r], ledger'[r])
           /\ saved' = saved /\ handler' = handler /\ crashes' = crashes
<1>1. \A r \in Runs : /\ Respects(ledger[r], Ended(ledger[r], "failed"))
                      /\ Respects(ledger[r], ledger[r])
  BY EndedRespects, SameRun DEF TypeOK, Final
<1> QED
  BY <1>1 DEF Reap, Respects

LEMMA ReapInvariant ==
    ASSUME IInv, Reap
    PROVE  IInv'
<1>1. /\ ledger' \in [Runs -> Run]
      /\ \A r \in Runs : Respects(ledger[r], ledger'[r])
      /\ saved' = saved /\ handler' = handler /\ crashes' = crashes
  BY ReapEffect DEF IInv
<1>2. TypeOK'
  BY <1>1 DEF IInv, TypeOK
<1>3. IdleAbsent'
  BY <1>1, ConstantRuns, StatusKinds DEF IInv, IdleAbsent, Respects
<1>4. DurableBeforeWork'
  BY <1>1 DEF IInv, DurableBeforeWork, Active, Respects
<1> QED
  BY <1>2, <1>3, <1>4 DEF IInv

LEMMA RestartInvariant ==
    ASSUME IInv, Restart, crashes' \in Nat
    PROVE  IInv'
<1>1. ledger' = saved /\ saved' = saved
      /\ handler' = [r \in Runs |-> IF handler[r] = "idle" THEN "idle" ELSE "ended"]
  BY DEF Restart
<1> QED
  BY <1>1 DEF IInv, TypeOK, IdleAbsent, DurableBeforeWork, Phases

LEMMA NextInvariant == IInv /\ [Next]_vars => IInv'
<1> SUFFICES ASSUME IInv, [Next]_vars
             PROVE  IInv'
  OBVIOUS
<1>1. CASE \E r \in Runs : Begin(r)
  BY <1>1, BeginInvariant
<1>2. CASE \E r \in Runs : Handle(r)
  BY <1>2, HandleInvariant
<1>3. CASE \E r \in Runs : Background(r)
  BY <1>3, AgeInvariant, PersistInvariant DEF Background
<1>4. CASE Reap
  BY <1>4, ReapInvariant
<1>5. CASE Crash
  <2>1. Restart /\ crashes' \in Nat
    BY <1>5 DEF Crash, IInv, TypeOK
  <2> QED
    BY <2>1, RestartInvariant
<1>6. CASE UNCHANGED vars
  BY <1>6 DEF vars, IInv, TypeOK, IdleAbsent, DurableBeforeWork, Active
<1> QED
  BY <1>1, <1>2, <1>3, <1>4, <1>5, <1>6 DEF Next

\* The invariant holds in every state: an unused request has no run, and only
\* durable runs are worked on.
THEOREM InvariantHolds == Spec => []IInv
BY InitInvariant, NextInvariant, PTL DEF Spec

\* Every variable of the ledger keeps its type.
THEOREM LedgerTypeCorrect == Spec => []TypeOK
<1>1. IInv => TypeOK
  BY DEF IInv
<1> QED
  BY <1>1, InvariantHolds, PTL

\* While a handler works on a run in flight, a restart would find the run.
THEOREM WorkIsDurable == Spec => []DurableBeforeWork
<1>1. IInv => DurableBeforeWork
  BY DEF IInv
<1> QED
  BY <1>1, InvariantHolds, PTL

-----------------------------------------------------------------------------
(* The first verdict. *)

\* What FirstVerdictStands allows a step.
VerdictsStand ==
    crashes' = crashes =>
      \A r \in Runs : ledger[r].status \in Final => ledger'[r] \in {ledger[r], Absent}

LEMMA StepKeepsVerdicts ==
    ASSUME IInv, [Next]_vars
    PROVE  VerdictsStand
<1>1. CASE \E r \in Runs : Begin(r)
  <2> PICK r \in Runs : Begin(r)
    BY <1>1
  <2> DEFINE begun == [ledger EXCEPT ![r] = NewRun]
  <2>1. begun \in [Runs -> Run] /\ \A q \in Runs \ {r} : begun[q] = ledger[q]
    BY ConstantRuns DEF IInv, TypeOK
  <2>2. ledger' = Pruned(begun) /\ handler[r] = "idle"
    BY DEF Begin
  <2> HIDE DEF begun
  <2>3. ledger[r].status \notin Final
    BY <2>2, ConstantRuns, StatusKinds DEF IInv, IdleAbsent
  <2>4. \A q \in Runs : ledger'[q] \in {begun[q], Absent}
    BY <2>1, <2>2, PrunedRuns
  <2> QED
    BY <2>1, <2>3, <2>4 DEF VerdictsStand
<1>2. CASE \E r \in Runs : Handle(r)
  <2> PICK r \in Runs : Handle(r)
    BY <1>2
  <2>1. PICK new \in Run, phase \in Phases : HandlerMove(r, new, phase)
    BY HandleMoves DEF IInv
  <2> QED
    BY <2>1, StatusKinds DEF HandlerMove, Respects, VerdictsStand, IInv, TypeOK
<1>3. CASE \E r \in Runs : Background(r)
  <2> PICK r \in Runs : Age(r) \/ Persist(r)
    BY <1>3 DEF Background
  <2>1. CASE Age(r)
    BY <2>1, StatusKinds DEF Age, Active, VerdictsStand, IInv, TypeOK
  <2>2. CASE Persist(r)
    BY <2>2 DEF Persist, VerdictsStand
  <2> QED
    BY <2>1, <2>2
<1>4. CASE Reap
  <2>1. \A r \in Runs : Respects(ledger[r], ledger'[r])
    BY <1>4, ReapEffect DEF IInv
  <2> QED
    BY <2>1, StatusKinds DEF Respects, VerdictsStand
<1>5. CASE Crash
  BY <1>5 DEF Crash, VerdictsStand, IInv, TypeOK
<1>6. CASE UNCHANGED vars
  BY <1>6 DEF vars, VerdictsStand
<1> QED
  BY <1>1, <1>2, <1>3, <1>4, <1>5, <1>6 DEF Next

\* Whoever comes late, the handler or the reaper: between two restarts the first
\* verdict on a run stands until the run is pruned.
THEOREM VerdictsAreFinal == Spec => FirstVerdictStands
<1>1. IInv /\ [Next]_vars => [VerdictsStand]_vars
  BY StepKeepsVerdicts
<1> QED
  BY <1>1, InvariantHolds, PTL DEF Spec, FirstVerdictStands, VerdictsStand

-----------------------------------------------------------------------------
(* What is promised of the ledger.                                         *)
(*                                                                         *)
(* Each operation on a run either leaves its entry in the book alone, or   *)
(* carries it on, or decides it; each action of a handler is one of these  *)
(* together with one move between the stages of the book.                  *)

\* What the book shows of a run.
LEMMA EntryShows ==
    ASSUME NEW run \in Run
    PROVE  /\ Entry(run).last = run.seq
           /\ Book!Undecided(Entry(run)) <=> run.status \in InFlight
           /\ run.status \in Final => Entry(run).state = run.status
           /\ Entry(run).state = "built" <=> run.status = "verifying"
           /\ Entry(run).state = "none" <=> run.status = "none"
           /\ Entry(run).state = "open" <=> run.status \in InFlight \ {"verifying"}
BY DEF Entry, State, Run, InFlight, Final, Book!Undecided

\* A status set on a run with more events decides it or carries it on.
LEMMA StatusShows ==
    ASSUME NEW run \in Run, run.status \in InFlight, NEW k \in Nat \ {0},
           NEW s \in InFlight \cup Final,
           run.status = "verifying" /\ s \in InFlight => s = "verifying"
    PROVE  LET new == [Appended(run, k) EXCEPT !.status = s]
           IN  /\ s \in InFlight => Book!Continues(Entry(run), Entry(new))
               /\ s \in Final => Book!Decided(Entry(run), Entry(new), s)
<1> DEFINE new == [Appended(run, k) EXCEPT !.status = s]
<1>1. Appended(run, k) \in Run
  BY AppendedRun
<1>2. Appended(run, k).seq = run.seq + k
  BY DEF Appended, Run
<1>3. new \in Run /\ new.status = s /\ new.seq = run.seq + k /\ run.seq \in Nat
  BY <1>1, <1>2 DEF Run
<1> HIDE DEF new
<1>4. Book!Longer(Entry(run), Entry(new)) /\ Book!Undecided(Entry(run))
  BY <1>3, EntryShows DEF Book!Longer
<1>5. s \in InFlight => Book!Continues(Entry(run), Entry(new))
  BY <1>3, <1>4, EntryShows DEF Book!Continues
<1>6. s \in Final => Book!Decided(Entry(run), Entry(new), s)
  BY <1>3, <1>4, EntryShows DEF Book!Decided
<1> QED
  BY <1>5, <1>6 DEF new

LEMMA EndedShows ==
    ASSUME NEW run \in Run, NEW s \in Final
    PROVE  \/ Ended(run, s) = run
           \/ Book!Decided(Entry(run), Entry(Ended(run, s)), s)
<1>1. CASE run.status \in InFlight
  BY <1>1, StatusShows, StatusKinds DEF Ended
<1> QED
  BY <1>1 DEF Ended

LEMMA AdvancedShows ==
    ASSUME NEW run \in Run, NEW s \in DOMAIN Rank
    PROVE  /\ s # "running" => Book!Continues(Entry(run), Entry(Advanced(run, s)))
           /\ s = "running" =>
                \/ Advanced(run, s) = run
                \/ Book!Decided(Entry(run), Entry(Advanced(run, s)), s)
<1>1. CASE run.status \in InFlight /\ Rank[s] > Rank[run.status]
  <2>1. /\ Rank[s] - Rank[run.status] \in Nat \ {0}
        /\ s \in InFlight \cup Final
        /\ s \in InFlight <=> s # "running"
        /\ run.status = "verifying" /\ s \in InFlight => s = "verifying"
    BY <1>1 DEF Rank, InFlight, Final
  <2> QED
    BY <1>1, <2>1, StatusShows DEF Advanced, Final
<1>2. CASE ~(run.status \in InFlight /\ Rank[s] > Rank[run.status])
  BY <1>2 DEF Advanced, Book!Continues
<1> QED
  BY <1>1, <1>2

LEMMA LoggedShows ==
    ASSUME NEW run \in Run
    PROVE  Book!Continues(Entry(run), Entry(Logged(run)))
<1>1. CASE run.status \in InFlight
  <2>1. /\ Appended(run, 1) \in Run /\ Appended(run, 1).status = run.status
        /\ Appended(run, 1).seq = run.seq + 1 /\ run.seq \in Nat
    BY AppendedRun DEF Appended, Run
  <2> QED
    BY <1>1, <2>1, EntryShows DEF Logged, Book!Continues, Book!Longer
<1>2. CASE run.status \notin InFlight
  BY <1>2 DEF Logged, Book!Continues
<1> QED
  BY <1>1, <1>2

\* Neither a heartbeat nor its absence shows.
LEMMA AgeHidden ==
    ASSUME NEW run \in Run
    PROVE  Entry(Beaten(run)) = Entry(run) /\ Entry(Older(run)) = Entry(run)
BY DEF Beaten, Older, Entry, Run

LEMMA FailShows ==
    ASSUME NEW run \in Run
    PROVE  \/ Fail(run) = run
           \/ Book!Decided(Entry(run), Entry(Fail(run)), "failed")
<1>1. CASE run.status \in InFlight
  <2>1. /\ Logged(run) \in Run /\ Logged(run).status = run.status
        /\ Logged(run).seq >= run.seq
    BY LoggedRespects DEF Respects
  <2>2. Book!Decided(Entry(Logged(run)), Entry(Fail(run)), "failed")
    BY <1>1, <2>1, StatusShows, StatusKinds DEF Fail, Ended, Final
  <2>3. run.seq \in Nat /\ Logged(run).seq \in Nat
    BY <2>1 DEF Run
  <2>4. Fail(run) \in Run
    BY FailRespects DEF Respects
  <2>5. Entry(Fail(run)).last \in Nat
    BY <2>4, EntryShows DEF Run
  <2> QED
    BY <1>1, <2>1, <2>2, <2>3, <2>5, EntryShows DEF Book!Decided, Book!Longer
<1>2. CASE run.status \notin InFlight
  BY <1>2 DEF Fail, Logged, Ended
<1> QED
  BY <1>1, <1>2

\* A handler moves, and makes of its run what it makes of it.
Moves(r, from, phase, new) ==
    /\ new \in Run /\ handler[r] = from /\ phase \in Phases
    /\ ledger'  = [ledger EXCEPT ![r] = new]
    /\ handler' = [handler EXCEPT ![r] = phase]
    /\ saved' = saved /\ crashes' = crashes

WorkingPhases   == {"leased", "verifying", "flushingOk", "flushingErr"}
ReportingPhases == {"reportingOk", "reportingErr"}

\* The book sees a move of the handler between stages, and of its run alone.
LEMMA MoveShows ==
    ASSUME TypeOK, NEW r \in Runs, NEW from, NEW phase, NEW new,
           Moves(r, from, phase, new)
    PROVE  /\ Record[r] = Entry(ledger[r]) /\ Record'[r] = Entry(new)
           /\ Record' = [Record EXCEPT ![r] = Record'[r]]
           /\ Durable' = Durable /\ Durable[r] = Entry(saved[r])
           /\ Stages[r] = Stage[from]
           /\ Stages' = [Stages EXCEPT ![r] = Stage[phase]]
           /\ Stage[phase] = Stage[from] => Stages' = Stages
           /\ new = ledger[r] => Record' = Record
<1>1. \A q \in Runs : /\ ledger'[q] = IF q = r THEN new ELSE ledger[q]
                      /\ handler'[q] = IF q = r THEN phase ELSE handler[q]
  BY DEF Moves, TypeOK
<1>2. Record' = [q \in Runs |-> IF q = r THEN Entry(new) ELSE Entry(ledger[q])]
  BY <1>1 DEF Record
<1>3. Stages' = [q \in Runs |-> IF q = r THEN Stage[phase] ELSE Stage[handler[q]]]
  BY <1>1 DEF Stages
<1>4. Durable' = Durable /\ Stages[r] = Stage[from] /\ Durable[r] = Entry(saved[r])
  BY DEF Moves, Durable, Stages
<1> QED
  BY <1>2, <1>3, <1>4 DEF Record, Stages

LEMMA EngageShows ==
    ASSUME TypeOK, NEW r \in Runs, NEW new, Moves(r, "beginning", "leased", new),
           saved[r].status # "none",
           Book!Continues(Entry(ledger[r]), Entry(new))
    PROVE  Book!Engage(r)
<1>1. saved[r] \in Run
  BY DEF TypeOK
<1>2. Durable[r].state # "none" /\ Stages[r] = "asking"
      /\ Stages' = [Stages EXCEPT ![r] = "working"]
  BY <1>1, MoveShows, EntryShows DEF Stage
<1>3. Book!Continues(Record[r], Record'[r]) /\ Book!Own(r)
  BY MoveShows DEF Book!Own
<1> QED
  BY <1>2, <1>3 DEF Book!Engage, Book!Goes

LEMMA WorkShows ==
    ASSUME TypeOK, NEW r \in Runs, NEW from \in WorkingPhases,
           NEW phase \in WorkingPhases, NEW new, Moves(r, from, phase, new),
           Book!Continues(Entry(ledger[r]), Entry(new))
    PROVE  Book!Work(r)
<1>1. Stage[from] = "working" /\ Stage[phase] = "working"
  BY DEF WorkingPhases, Stage
<1>2. Stages[r] = "working" /\ Stages' = Stages
  BY <1>1, MoveShows
<1> QED
  BY <1>2, MoveShows DEF Book!Work, Book!Own

LEMMA ReportShows ==
    ASSUME TypeOK, NEW r \in Runs, NEW from \in WorkingPhases,
           NEW phase \in ReportingPhases, Moves(r, from, phase, ledger[r]),
           saved[r].status \notin InFlight \ {"verifying"}
    PROVE  Book!Report(r)
<1>1. Stage[from] = "working" /\ Stage[phase] = "reporting"
  BY DEF WorkingPhases, ReportingPhases, Stage
<1>2. saved[r] \in Run
  BY DEF TypeOK
<1>3. Durable[r].state # "open"
  BY <1>2, MoveShows, EntryShows
<1>4. Record' = Record
  BY MoveShows
<1> QED
  BY <1>1, <1>3, <1>4, MoveShows
  DEF Book!Report, Book!Goes

LEMMA LeaveShows ==
    ASSUME TypeOK, NEW r \in Runs, NEW from \in Phases \ {"idle", "ended"}, NEW new,
           Moves(r, from, "ended", new),
           \/ new = ledger[r]
           \/ \E v \in Book!MayGive[Stage[from]] :
                Book!Decided(Entry(ledger[r]), Entry(new), v)
    PROVE  Book!Leave(r)
<1>1. Stage[from] \in DOMAIN Book!MayGive /\ Stage["ended"] = "gone"
  BY DEF Phases, Stage, Book!MayGive
<1>2. Book!Goes(r, Stage[from], "gone")
  BY <1>1, MoveShows DEF Book!Goes
<1>3. \/ Record'[r] = Record[r]
      \/ \E v \in Book!MayGive[Stage[from]] : Book!Decided(Record[r], Record'[r], v)
  BY MoveShows
<1>4. Book!Own(r)
  BY MoveShows DEF Book!Own
<1> QED
  BY <1>1, <1>2, <1>3, <1>4 DEF Book!Leave

\* A handler does what the book allows it at its stage.
LEMMA HandleShows ==
    ASSUME TypeOK, NEW r \in Runs, Handle(r)
    PROVE  Book!Live
<1> DEFINE run == ledger[r]
<1>0. run \in Run /\ handler[r] \in Phases
  BY DEF TypeOK
<1>1. \A from, to : Step(r, from, to) /\ to \in Phases => Moves(r, from, to, run)
  BY <1>0 DEF Step, Goto, Moves, TypeOK
<1>2. \A from, to, new : StepWith(r, from, to, new) /\ to \in Phases /\ new \in Run =>
                            handler[r] \in from /\ Moves(r, handler[r], to, new)
  BY DEF StepWith, Goto, Update, Moves
<1>3. Ended(run, "failed") \in Run /\ Ended(run, "cancelled") \in Run
      /\ Fail(run) \in Run /\ Logged(run) \in Run /\ Beaten(run) \in Run
  BY <1>0, EndedRespects, FailRespects, LoggedRespects, BeatenRespects DEF Respects, Final
<1>4. \A s \in {"preparing", "building", "starting", "verifying", "running"} :
         s \in DOMAIN Rank /\ Advanced(run, s) \in Run
  BY <1>0, AdvancedRespects DEF Respects, Rank
<1>5. Book!Continues(Entry(run), Entry(run))
  BY DEF Book!Continues
<1>6. \A from \in WorkingPhases : {"cancelled", "failed"} \subseteq Book!MayGive[Stage[from]]
  BY DEF WorkingPhases, Stage, Book!MayGive
<1>7. /\ "cancelled" \in Book!MayGive[Stage["beginning"]]
      /\ {"running", "failed"} \subseteq Book!MayGive[Stage["reportingOk"]]
      /\ {"running", "failed"} \subseteq Book!MayGive[Stage["reportingErr"]]
  BY DEF Stage, Book!MayGive
<1>8. /\ WorkingPhases \subseteq Phases \ {"idle", "ended"}
      /\ ReportingPhases \subseteq Phases \ {"idle", "ended"}
      /\ "beginning" \in Phases \ {"idle", "ended"} /\ "ended" \in Phases
  BY DEF WorkingPhases, ReportingPhases, Phases
<1>9. Book!Engage(r) \/ Book!Work(r) \/ Book!Report(r) \/ Book!Leave(r) => Book!Live
  BY DEF Book!Live
<1> HIDE DEF run
<1>10. CASE BeginThrows(r)
  <2>1. Moves(r, "beginning", "ended", run)
    BY <1>1, <1>8, <1>10 DEF BeginThrows
  <2> QED
    BY <1>8, <1>9, <2>1, LeaveShows DEF run
<1>11. CASE LeaseDenied(r)
  <2>1. Moves(r, "beginning", "ended", Ended(run, "cancelled"))
    BY <1>2, <1>3, <1>8, <1>11 DEF LeaseDenied, run
  <2>2. \/ Ended(run, "cancelled") = run
        \/ Book!Decided(Entry(run), Entry(Ended(run, "cancelled")), "cancelled")
    BY <1>0, EndedShows DEF Final
  <2> QED
    BY <1>7, <1>8, <1>9, <2>1, <2>2, LeaveShows DEF run
<1>12. CASE LeaseGranted(r)
  <2>1. Moves(r, "beginning", "leased", Advanced(run, "preparing"))
        /\ saved[r].status # "none"
    BY <1>2, <1>4, <1>8, <1>12 DEF LeaseGranted, IsSaved, run, WorkingPhases
  <2>2. Book!Continues(Entry(run), Entry(Advanced(run, "preparing")))
    BY <1>0, <1>4, AdvancedShows
  <2> QED
    BY <1>9, <2>1, <2>2, EngageShows DEF run
<1>13. CASE \E s \in {"building", "starting"} : Progress(r, s)
  <2> PICK s \in {"building", "starting"} : Progress(r, s)
    BY <1>13
  <2>1. Moves(r, "leased", "leased", Advanced(run, s))
    BY <1>2, <1>4, <1>8 DEF Progress, run, WorkingPhases
  <2>2. Book!Continues(Entry(run), Entry(Advanced(run, s)))
    BY <1>0, <1>4, AdvancedShows
  <2> QED
    BY <1>9, <2>1, <2>2, WorkShows DEF run, WorkingPhases
<1>14. CASE Log(r)
  <2>1. Moves(r, handler[r], handler[r], Logged(run)) /\ handler[r] \in WorkingPhases
    BY <1>0, <1>3, <1>14 DEF Log, Update, Moves, WorkingPhases, TypeOK, run
  <2>2. Book!Continues(Entry(run), Entry(Logged(run)))
    BY <1>0, LoggedShows
  <2> QED
    BY <1>9, <2>1, <2>2, WorkShows DEF run
<1>15. CASE Beat(r)
  <2>1. Moves(r, "leased", "leased", Beaten(run))
    BY <1>2, <1>3, <1>8, <1>15 DEF Beat, run, WorkingPhases
  <2>2. Book!Continues(Entry(run), Entry(Beaten(run)))
    BY <1>0, <1>5, AgeHidden
  <2> QED
    BY <1>9, <2>1, <2>2, WorkShows DEF run, WorkingPhases
<1>16. CASE Verify(r)
  <2>1. Moves(r, "leased", "verifying", Advanced(run, "verifying"))
    BY <1>2, <1>4, <1>8, <1>16 DEF Verify, run, WorkingPhases
  <2>2. Book!Continues(Entry(run), Entry(Advanced(run, "verifying")))
    BY <1>0, <1>4, AdvancedShows
  <2> QED
    BY <1>9, <2>1, <2>2, WorkShows DEF run, WorkingPhases
<1>17. CASE Conclude(r)
  <2>1. \E phase \in {"flushingOk", "flushingErr"} : Moves(r, "verifying", phase, run)
    BY <1>1, <1>8, <1>17 DEF Conclude, WorkingPhases
  <2> QED
    BY <1>5, <1>9, <2>1, WorkShows DEF run, WorkingPhases
<1>18. CASE AttachThrows(r)
  <2>1. Moves(r, "verifying", "ended", run)
    BY <1>1, <1>8, <1>18 DEF AttachThrows
  <2> QED
    BY <1>8, <1>9, <2>1, LeaveShows DEF run, WorkingPhases
<1>19. CASE Announce(r)
  <2>1. saved[r].status \notin InFlight \ {"verifying"}
    BY <1>19 DEF Announce, InFlight
  <2>2. \E from \in WorkingPhases, phase \in ReportingPhases : Moves(r, from, phase, run)
    BY <1>1, <1>8, <1>19 DEF Announce, WorkingPhases, ReportingPhases
  <2> QED
    BY <1>9, <2>1, <2>2, ReportShows DEF run
<1>20. CASE FlushFails(r)
  <2>1. \E from \in WorkingPhases : Moves(r, from, "ended", Fail(run))
    BY <1>2, <1>3, <1>8, <1>20 DEF FlushFails, run, WorkingPhases
  <2>2. \/ Fail(run) = run \/ Book!Decided(Entry(run), Entry(Fail(run)), "failed")
    BY <1>0, FailShows
  <2> QED
    BY <1>6, <1>8, <1>9, <2>1, <2>2, LeaveShows DEF run
<1>21. CASE ReportSuccess(r)
  <2>1. Moves(r, "reportingOk", "ended", Advanced(run, "running"))
    BY <1>2, <1>4, <1>8, <1>21 DEF ReportSuccess, run
  <2>2. \/ Advanced(run, "running") = run
        \/ Book!Decided(Entry(run), Entry(Advanced(run, "running")), "running")
    BY <1>0, <1>4, AdvancedShows
  <2> QED
    BY <1>7, <1>8, <1>9, <2>1, <2>2, LeaveShows DEF run, ReportingPhases
<1>22. CASE ReportFailure(r)
  <2>1. Moves(r, "reportingErr", "ended", Ended(run, "failed"))
    BY <1>2, <1>3, <1>8, <1>22 DEF ReportFailure, run
  <2>2. \/ Ended(run, "failed") = run
        \/ Book!Decided(Entry(run), Entry(Ended(run, "failed")), "failed")
    BY <1>0, EndedShows DEF Final
  <2> QED
    BY <1>7, <1>8, <1>9, <2>1, <2>2, LeaveShows DEF run, ReportingPhases
<1>23. CASE Superseded(r)
  <2>1. \E from \in WorkingPhases : Moves(r, from, "ended", Ended(run, "cancelled"))
    BY <1>2, <1>3, <1>8, <1>23 DEF Superseded, run, WorkingPhases
  <2>2. \/ Ended(run, "cancelled") = run
        \/ Book!Decided(Entry(run), Entry(Ended(run, "cancelled")), "cancelled")
    BY <1>0, EndedShows DEF Final
  <2> QED
    BY <1>6, <1>8, <1>9, <2>1, <2>2, LeaveShows DEF run
<1>24. CASE Throw(r)
  <2>1. \E from \in WorkingPhases : Moves(r, from, "ended", Fail(run))
    BY <1>2, <1>3, <1>8, <1>24 DEF Throw, run, WorkingPhases
  <2>2. \/ Fail(run) = run \/ Book!Decided(Entry(run), Entry(Fail(run)), "failed")
    BY <1>0, FailShows
  <2> QED
    BY <1>6, <1>8, <1>9, <2>1, <2>2, LeaveShows DEF run
<1> QED
  BY <1>10, <1>11, <1>12, <1>13, <1>14, <1>15, <1>16, <1>17, <1>18, <1>19, <1>20,
     <1>21, <1>22, <1>23, <1>24 DEF Handle

\* Only final runs are pruned to make room for the one that begins.
LEMMA BeginShows ==
    ASSUME TypeOK, NEW r \in Runs, Begin(r)
    PROVE  Book!Live
<1> DEFINE begun == [ledger EXCEPT ![r] = NewRun]
<1>1. begun \in [Runs -> Run] /\ begun[r] = NewRun
      /\ \A q \in Runs \ {r} : begun[q] = ledger[q]
  BY ConstantRuns DEF TypeOK
<1>2. ledger' = Pruned(begun) /\ handler' = [handler EXCEPT ![r] = "beginning"]
      /\ saved' = saved /\ handler[r] = "idle"
  BY DEF Begin, Goto
<1> HIDE DEF begun
<1>3. \A q \in Runs : \/ ledger'[q] = begun[q]
                      \/ ledger'[q] = Absent /\ begun[q].status \in Final
  BY <1>1, <1>2, PrunedRuns
<1>4. ledger'[r] = NewRun
  BY <1>1, <1>3, ConstantRuns DEF Final
<1>5. Record'[r] = Book!First
  BY <1>4 DEF Record, Entry, State, NewRun, InFlight, Book!First
<1>6. ASSUME NEW q \in Runs \ {r}
      PROVE  Record'[q] = Record[q] \/ Book!Forgotten(Record[q], Record'[q])
  <2>1. CASE ledger'[q] = ledger[q]
    BY <2>1 DEF Record
  <2>2. CASE ledger'[q] = Absent /\ ledger[q].status \in Final
    <3>1. Record'[q] = Book!Gone
      BY <2>2 DEF Record, Entry, State, Absent, InFlight, Book!Gone
    <3>2. Record[q].state \in Final
      BY <2>2, EntryShows DEF Record, TypeOK
    <3> QED
      BY <3>1, <3>2 DEF Book!Forgotten, Book!Verdicts, Final
  <2> QED
    BY <1>1, <1>3, <2>1, <2>2
<1>7. Book!Goes(r, "idle", "asking")
  <2>1. \A q \in Runs : handler'[q] = IF q = r THEN "beginning" ELSE handler[q]
    BY <1>2 DEF TypeOK
  <2>2. Stages' = [q \in Runs |-> IF q = r THEN "asking" ELSE Stage[handler[q]]]
    BY <2>1 DEF Stages, Stage
  <2>3. Stages[r] = "idle"
    BY <1>2 DEF Stages, Stage
  <2> QED
    BY <2>2, <2>3 DEF Book!Goes, Stages
<1>8. Durable' = Durable
  BY <1>2 DEF Durable
<1> QED
  BY <1>5, <1>6, <1>7, <1>8 DEF Book!Begin, Book!Live

LEMMA ReapShows ==
    ASSUME TypeOK, Reap
    PROVE  Book!Live
<1>1. /\ ledger' = [r \in Runs |-> IF Expired(r) THEN Ended(ledger[r], "failed")
                                   ELSE ledger[r]]
      /\ saved' = saved /\ handler' = handler
  BY DEF Reap
<1>2. ASSUME NEW r \in Runs
      PROVE  \/ Record'[r] = Record[r]
             \/ Book!Decided(Record[r], Record'[r], "failed")
  <2>1. Record[r] = Entry(ledger[r]) /\ Record'[r] = Entry(ledger'[r])
    BY DEF Record
  <2>2. ledger'[r] \in {ledger[r], Ended(ledger[r], "failed")}
    BY <1>1
  <2>3. \/ Ended(ledger[r], "failed") = ledger[r]
        \/ Book!Decided(Entry(ledger[r]), Entry(Ended(ledger[r], "failed")), "failed")
    BY EndedShows DEF TypeOK, Final
  <2> QED
    BY <2>1, <2>2, <2>3
<1>3. Durable' = Durable /\ Stages' = Stages
  BY <1>1 DEF Durable, Stages
<1> QED
  BY <1>2, <1>3 DEF Book!Expire, Book!Live

\* Getting older leaves no trace in the book.
LEMMA AgeShows ==
    ASSUME TypeOK, NEW r \in Runs, Age(r)
    PROVE  UNCHANGED Book!vars
<1>1. /\ \A q \in Runs : ledger'[q] \in {ledger[q], Older(ledger[q])}
      /\ \A q \in Runs : saved'[q] \in {saved[q], Older(saved[q])}
      /\ handler' = handler
  BY DEF Age, TypeOK
<1>2. \A q \in Runs : Entry(ledger'[q]) = Entry(ledger[q]) /\ Entry(saved'[q]) = Entry(saved[q])
  BY <1>1, AgeHidden DEF TypeOK
<1> QED
  BY <1>1, <1>2 DEF Record, Durable, Stages, Book!vars

\* Any write of the store: some runs become durable as they are.
LEMMA SaveShows ==
    ASSUME TypeOK, \A r \in Runs : saved'[r] \in {saved[r], ledger[r]},
           ledger' = ledger, handler' = handler
    PROVE  Book!Live
<1>1. \A r \in Runs : Durable'[r] \in {Durable[r], Record[r]}
  BY DEF Durable, Record
<1>2. Record' = Record /\ Stages' = Stages
  BY DEF Record, Stages
<1> QED
  BY <1>1, <1>2 DEF Book!Save, Book!Live

LEMMA RestartShows ==
    ASSUME TypeOK, Restart
    PROVE  Book!Next
<1>1. ledger' = saved /\ saved' = saved
      /\ handler' = [r \in Runs |-> IF handler[r] = "idle" THEN "idle" ELSE "ended"]
  BY DEF Restart
<1>2. Record' = Durable /\ Durable' = Durable
  BY <1>1 DEF Record, Durable
<1>3. \A r \in Runs : Stage[handler'[r]] = IF Stages[r] = "idle" THEN "idle" ELSE "gone"
  <2> TAKE r \in Runs
  <2>1. Stage[handler[r]] = "idle" <=> handler[r] = "idle"
    BY DEF TypeOK, Phases, Stage
  <2>2. Stage["idle"] = "idle" /\ Stage["ended"] = "gone"
    BY DEF Stage
  <2> QED
    BY <1>1, <2>1, <2>2 DEF Stages
<1>4. Stages' = [r \in Runs |-> IF Stages[r] = "idle" THEN "idle" ELSE "gone"]
  BY <1>3 DEF Stages
<1> QED
  BY <1>2, <1>4 DEF Book!Restart, Book!Next

LEMMA InitShows == Init => Book!Init
<1> SUFFICES ASSUME Init
             PROVE  Book!Init
  OBVIOUS
<1>1. Entry(Absent) = Book!Gone
  BY DEF Entry, State, Absent, InFlight, Book!Gone
<1>2. Stage["idle"] = "idle"
  BY DEF Stage
<1> QED
  BY <1>1, <1>2 DEF Init, Record, Durable, Stages, Book!Init

LEMMA StillShows == UNCHANGED vars => UNCHANGED Book!vars
BY DEF vars, Book!vars, Record, Durable, Stages

\* What the runs, time, the reaper and the store do between two deaths.
LEMMA RunsShow ==
    ASSUME TypeOK, Reap \/ \E r \in Runs : Begin(r) \/ Handle(r) \/ Background(r)
    PROVE  Book!Live \/ UNCHANGED Book!vars
<1>1. CASE Reap
  BY <1>1, ReapShows
<1>2. ASSUME NEW r \in Runs, Begin(r) \/ Handle(r)
      PROVE  Book!Live
  BY <1>2, BeginShows, HandleShows
<1>3. ASSUME NEW r \in Runs, Age(r)
      PROVE  UNCHANGED Book!vars
  BY <1>3, AgeShows
<1>4. ASSUME NEW r \in Runs, Persist(r)
      PROVE  Book!Live
  BY <1>4, SaveShows DEF Persist, TypeOK
<1> QED
  BY <1>1, <1>2, <1>3, <1>4 DEF Background

\* The ledger, its handlers, the reaper, write-behind and the restarts together
\* keep what the run book promises.
THEOREM LedgerKeepsPromise == Spec => BookPromise
<1>1. TypeOK /\ [Next]_vars => [Book!Next]_(Book!vars)
  BY RunsShow, RestartShows, StillShows DEF Next, Crash, Book!Next
<1> QED
  BY <1>1, InitShows, LedgerTypeCorrect, PTL DEF Spec, BookPromise, Book!Spec

-----------------------------------------------------------------------------
(* What a reader of the book may conclude, from the promise alone. *)

Numbered(entry) ==
    \/ entry = Book!Gone
    \/ entry.last \in Nat \ {0} /\ entry.state # "none"

\* What is there has a number, and what has not begun is not there.
BookInv ==
    /\ \A r \in Runs : Numbered(Record[r]) /\ Numbered(Durable[r])
    /\ \A r \in Runs : Stages[r] = "idle" => Record[r] = Book!Gone /\ Durable[r] = Book!Gone
    /\ Book!WorkIsDurable

\* What a step may do to the entry of one run while the process lives.
Follows(old, new) ==
    \/ old = Book!Gone /\ new = Book!First
    \/ Book!Continues(old, new)
    \/ \E v \in Book!Verdicts : Book!Decided(old, new, v)
    \/ Book!Forgotten(old, new)

LEMMA FollowsTells ==
    ASSUME NEW old, NEW new, Numbered(old), Follows(old, new)
    PROVE  /\ Numbered(new)
           /\ new.last = old.last => new = old
           /\ old.state \in Book!Verdicts => new \in {old, Book!Gone}
           /\ Book!Undecided(new) => Book!Undecided(old) \/ new = Book!First
<1>0. Book!Gone.last = 0 /\ Book!Gone.state = "none"
      /\ Book!First.last = 1 /\ Book!First.state = "open"
  BY DEF Book!Gone, Book!First
<1>1. old.last \in Nat
  BY <1>0 DEF Numbered
<1>2. CASE old = Book!Gone /\ new = Book!First
  BY <1>0, <1>2 DEF Numbered, Book!Verdicts
<1>3. CASE Book!Continues(old, new)
  BY <1>1, <1>3 DEF Book!Continues, Book!Longer, Book!Undecided, Numbered, Book!Verdicts
<1>4. CASE \E v \in Book!Verdicts : Book!Decided(old, new, v)
  BY <1>1, <1>4 DEF Book!Decided, Book!Longer, Book!Undecided, Numbered, Book!Verdicts
<1>5. CASE Book!Forgotten(old, new)
  BY <1>0, <1>1, <1>5 DEF Book!Forgotten, Book!Undecided, Numbered, Book!Verdicts
<1> QED
  BY <1>2, <1>3, <1>4, <1>5 DEF Follows

\* Every step but a restart does only that.
LEMMA LiveFollows ==
    ASSUME BookInv, Book!Live, NEW r \in Runs
    PROVE  Follows(Record[r], Record'[r])
<1>0. Book!Continues(Record[r], Record[r])
  BY DEF Book!Continues
<1>1. ASSUME NEW q \in Runs, Book!Begin(q)
      PROVE  Follows(Record[r], Record'[r])
  <2>1. Record[q] = Book!Gone /\ Record'[q] = Book!First
    BY <1>1 DEF Book!Begin, Book!Goes, BookInv
  <2>2. q # r => Record'[r] = Record[r] \/ Book!Forgotten(Record[r], Record'[r])
    BY <1>1 DEF Book!Begin
  <2> QED
    BY <1>0, <2>1, <2>2 DEF Follows
<1>2. ASSUME NEW q \in Runs, Book!Own(q), q # r
      PROVE  Record'[r] = Record[r]
  BY <1>2 DEF Book!Own, Record
<1>3. ASSUME NEW q \in Runs, Book!Engage(q) \/ Book!Work(q)
      PROVE  Follows(Record[r], Record'[r])
  <2>1. Book!Own(q) /\ Book!Continues(Record[q], Record'[q])
    BY <1>3 DEF Book!Engage, Book!Work
  <2> QED
    BY <1>0, <1>2, <2>1 DEF Follows
<1>4. ASSUME NEW q \in Runs, Book!Report(q)
      PROVE  Follows(Record[r], Record'[r])
  BY <1>0, <1>4 DEF Book!Report, Follows
<1>5. ASSUME NEW q \in Runs, Book!Leave(q)
      PROVE  Follows(Record[r], Record'[r])
  <2>1. Book!Own(q)
    BY <1>5 DEF Book!Leave
  <2>2. \/ Record'[q] = Record[q]
        \/ \E v \in Book!Verdicts : Book!Decided(Record[q], Record'[q], v)
    BY <1>5 DEF Book!Leave, Book!MayGive, Book!Verdicts
  <2> QED
    BY <1>0, <1>2, <2>1, <2>2 DEF Follows
<1>6. CASE Book!Expire
  BY <1>0, <1>6 DEF Book!Expire, Book!Verdicts, Follows
<1>7. CASE Book!Save
  BY <1>0, <1>7 DEF Book!Save, Follows
<1>8. CASE Book!Forget
  BY <1>0, <1>8 DEF Book!Forget, Follows
<1> QED
  BY <1>1, <1>3, <1>4, <1>5, <1>6, <1>7, <1>8 DEF Book!Live

\* What becomes durable was in the book before, what has not begun stays as it
\* is, and work is found by a restart.
KeptFor(r) ==
    /\ Durable'[r] \in {Durable[r], Record[r]}
    /\ Stages'[r] = "idle" => Stages[r] = "idle" /\ Record'[r] = Record[r]
    /\ Stages'[r] \in {"working", "reporting"} /\ Book!Undecided(Record'[r])
         => Durable'[r].state # "none"

LEMMA LiveKeeps ==
    ASSUME BookInv, Book!Live, NEW r \in Runs
    PROVE  KeptFor(r)
<1>0. /\ Stages[r] = "idle" => Record[r] = Book!Gone
      /\ Stages[r] \in {"working", "reporting"} /\ Book!Undecided(Record[r])
           => Durable[r].state # "none"
  BY DEF BookInv, Book!WorkIsDurable
<1>1. /\ Book!Gone.state \notin Book!Verdicts /\ ~Book!Undecided(Book!Gone)
      /\ \A new : ~Book!Forgotten(Book!Gone, new)
      /\ \A new, v : ~Book!Decided(Book!Gone, new, v)
  BY DEF Book!Gone, Book!Verdicts, Book!Undecided, Book!Forgotten, Book!Decided
<1>2. \A old, new : Book!Continues(old, new) /\ Book!Undecided(new) => Book!Undecided(old)
  BY DEF Book!Continues
<1>3. \A old, new : Book!Forgotten(old, new) => ~Book!Undecided(new)
  BY <1>1 DEF Book!Forgotten
<1>4. \A old, new : Book!Decided(old, new, "failed") => ~Book!Undecided(new)
  BY DEF Book!Decided, Book!Undecided
<1>5. ASSUME Durable' = Durable, Stages'[r] = Stages[r],
             \/ Record'[r] = Record[r]
             \/ Book!Forgotten(Record[r], Record'[r])
             \/ Book!Decided(Record[r], Record'[r], "failed")
      PROVE  KeptFor(r)
  BY <1>0, <1>1, <1>3, <1>4, <1>5 DEF KeptFor
<1>6. ASSUME NEW q \in Runs, NEW from, NEW to, Book!Goes(q, from, to)
      PROVE  /\ q = r => Stages[r] = from /\ Stages'[r] = to
             /\ q # r => Stages'[r] = Stages[r]
  BY <1>6 DEF Book!Goes, Stages
<1>7. ASSUME NEW q \in Runs, Book!Own(q)
      PROVE  Durable' = Durable /\ (q # r => Record'[r] = Record[r])
  BY <1>7 DEF Book!Own, Record
<1>8. ASSUME NEW q \in Runs, Book!Begin(q)
      PROVE  KeptFor(r)
  <2>1. Book!Goes(q, "idle", "asking") /\ Durable' = Durable
        /\ (q # r => Record'[r] = Record[r] \/ Book!Forgotten(Record[r], Record'[r]))
    BY <1>8 DEF Book!Begin
  <2>2. CASE q = r
    BY <1>6, <2>1, <2>2 DEF KeptFor
  <2>3. CASE q # r
    BY <1>5, <1>6, <2>1, <2>3
  <2> QED
    BY <2>2, <2>3
<1>9. ASSUME NEW q \in Runs, Book!Engage(q)
      PROVE  KeptFor(r)
  <2>1. Book!Goes(q, "asking", "working") /\ Book!Own(q) /\ Durable[q].state # "none"
    BY <1>9 DEF Book!Engage
  <2>2. CASE q = r
    BY <1>6, <1>7, <2>1, <2>2 DEF KeptFor
  <2>3. CASE q # r
    BY <1>5, <1>6, <1>7, <2>1, <2>3
  <2> QED
    BY <2>2, <2>3
<1>10. ASSUME NEW q \in Runs, Book!Work(q)
       PROVE  KeptFor(r)
  <2>1. Stages[q] = "working" /\ Stages' = Stages /\ Book!Own(q)
        /\ Book!Continues(Record[q], Record'[q])
    BY <1>10 DEF Book!Work
  <2>2. CASE q = r
    BY <1>0, <1>2, <1>7, <2>1, <2>2 DEF KeptFor
  <2>3. CASE q # r
    BY <1>5, <1>7, <2>1, <2>3
  <2> QED
    BY <2>2, <2>3
<1>11. ASSUME NEW q \in Runs, Book!Report(q)
       PROVE  KeptFor(r)
  <2>1. Book!Goes(q, "working", "reporting") /\ Record' = Record /\ Durable' = Durable
    BY <1>11 DEF Book!Report
  <2>2. CASE q = r
    BY <1>0, <1>6, <2>1, <2>2 DEF KeptFor
  <2>3. CASE q # r
    BY <1>5, <1>6, <2>1, <2>3
  <2> QED
    BY <2>2, <2>3
<1>12. ASSUME NEW q \in Runs, Book!Leave(q)
       PROVE  KeptFor(r)
  <2>1. PICK from : Book!Goes(q, from, "gone")
    BY <1>12 DEF Book!Leave
  <2>2. Book!Own(q)
    BY <1>12 DEF Book!Leave
  <2>3. CASE q = r
    BY <1>6, <1>7, <2>1, <2>2, <2>3 DEF KeptFor
  <2>4. CASE q # r
    BY <1>5, <1>6, <1>7, <2>1, <2>2, <2>4
  <2> QED
    BY <2>3, <2>4
<1>13. CASE Book!Expire
  BY <1>5, <1>13 DEF Book!Expire
<1>14. CASE Book!Save
  <2>1. Durable'[r] \in {Durable[r], Record[r]} /\ Record' = Record /\ Stages' = Stages
    BY <1>14 DEF Book!Save
  <2>2. Book!Undecided(Record[r]) => Record[r].state # "none"
    BY DEF Book!Undecided
  <2> QED
    BY <1>0, <2>1, <2>2 DEF KeptFor
<1>15. CASE Book!Forget
  BY <1>5, <1>15 DEF Book!Forget
<1> QED
  BY <1>8, <1>9, <1>10, <1>11, <1>12, <1>13, <1>14, <1>15 DEF Book!Live

LEMMA BookNext == BookInv /\ [Book!Next]_(Book!vars) => BookInv'
<1> SUFFICES ASSUME BookInv, [Book!Next]_(Book!vars)
             PROVE  BookInv'
  OBVIOUS
<1>1. CASE Book!Live
  <2>1. \A r \in Runs : Numbered(Record'[r])
    BY <1>1, LiveFollows, FollowsTells DEF BookInv
  <2>2. \A r \in Runs : KeptFor(r)
    BY <1>1, LiveKeeps
  <2>3. \A r \in Runs : Numbered(Durable'[r])
    BY <2>2 DEF KeptFor, BookInv
  <2>4. \A r \in Runs : Stages'[r] = "idle" =>
                           Record'[r] = Book!Gone /\ Durable'[r] = Book!Gone
    BY <2>2 DEF KeptFor, BookInv
  <2>5. Book!WorkIsDurable'
    BY <2>2 DEF KeptFor, Book!WorkIsDurable
  <2> QED
    BY <2>1, <2>3, <2>4, <2>5 DEF BookInv, Numbered
<1>2. CASE Book!Restart
  BY <1>2 DEF Book!Restart, BookInv, Book!WorkIsDurable, Stages, Numbered
<1>3. CASE UNCHANGED Book!vars
  BY <1>3 DEF Book!vars, BookInv, Book!WorkIsDurable, Numbered
<1> QED
  BY <1>1, <1>2, <1>3 DEF Book!Next

LEMMA BookInit == Book!Init => BookInv
BY DEF Book!Init, BookInv, Book!WorkIsDurable, Numbered

LEMMA BookHolds == BookPromise => []BookInv
BY BookInit, BookNext, PTL DEF BookPromise, Book!Spec

\* What the book promises is enough for a client that resumes by number: as long
\* as the process lives, an entry with the same number is the same entry.
THEOREM BookNumbersTell == BookPromise => Book!NumbersTell
<1> DEFINE Tells == Book!Live => \A r \in Runs :
                      Record'[r].last = Record[r].last => Record'[r] = Record[r]
<1>1. BookInv => Tells
  BY LiveFollows, FollowsTells DEF BookInv
<1>2. BookInv /\ [Book!Next]_(Book!vars) => [Tells]_(Book!vars)
  BY <1>1
<1> QED
  BY <1>2, BookHolds, PTL DEF BookPromise, Book!Spec, Book!NumbersTell

\* What the book promises is enough for everybody who relies on a verdict: as long
\* as the process lives it stands, until the run is forgotten.
THEOREM BookVerdictsStand == BookPromise => Book!VerdictsStand
<1> DEFINE Stand == Book!Live => \A r \in Runs :
                      Record[r].state \in Book!Verdicts => Record'[r] \in {Record[r], Book!Gone}
<1>1. BookInv => Stand
  BY LiveFollows, FollowsTells DEF BookInv
<1>2. BookInv /\ [Book!Next]_(Book!vars) => [Stand]_(Book!vars)
  BY <1>1
<1> QED
  BY <1>2, BookHolds, PTL DEF BookPromise, Book!Spec, Book!VerdictsStand

\* What the book promises is enough for the operator who looks, after a restart,
\* whose work is left: every undecided run that was worked on is found.
THEOREM BookWorkIsDurable == BookPromise => []Book!WorkIsDurable
<1>1. BookInv => Book!WorkIsDurable
  BY DEF BookInv
<1> QED
  BY <1>1, BookHolds, PTL
=============================================================================
