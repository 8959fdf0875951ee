-------------------------- MODULE Releases_proofs --------------------------
(***************************************************************************)
(* Proofs about the releases to one target, for any number of runs, of     *)
(* requests and of mishaps: nobody writes at the same time, verdicts stand,*)
(* a cancelled execution does not begin anything new, what serves is not   *)
(* reclaimed, and the ledger tells what serves.                            *)
(***************************************************************************)
EXTENDS Releases, TLAPS

USE ReleasesAssumption

Targets  == [current : Dirs \cup {NoDir}, previous : Dirs \cup {NoDir},
             dirs : SUBSET Dirs]
Commands == {"switch", "delete", "over"} \X Dirs

-----------------------------------------------------------------------------
(* The operations of the ledger. *)

\* A record that an operation may leave behind: verdicts stand, nothing that is
\* over is in flight again.
Lawful(old, new) ==
    /\ new.previous = old.previous
    /\ InFlight(new) => InFlight(old)
    /\ ~InFlight(old) => new.status = old.status
    /\ new.status = "none" => old.status = "none"

LawfulMove(l, m) ==
    /\ m \in [Runs -> Records]
    /\ \A s \in Runs : Lawful(l[s], m[s])

LEMMA StatusKinds ==
    ASSUME NEW rec \in Records
    PROVE  /\ InFlight(rec) => FailedStatus(rec.status) \in {"failed", "rollback_failed"}
           /\ Final(rec) <=> rec.status # "none" /\ ~InFlight(rec)
           /\ Successful(rec) => Final(rec)
BY DEF Records, Statuses, InFlight, FailedStatus, Final, Successful

\* What failing, passing, probing and stamping a run does to the ledger.
LEMMA LedgerOps ==
    ASSUME NEW l \in [Runs -> Records], NEW r \in Runs
    PROVE  /\ LawfulMove(l, FailRun(l, r))
           /\ \A to \in {"success", "rollback_success"} : LawfulMove(l, Verdict(l, r, to))
           /\ LawfulMove(l, Healthchecking(l, r))
           /\ Successful(Healthchecking(l, r)[r]) => Successful(l[r])
           /\ Healthchecking(l, r)[r].restored = l[r].restored
           /\ \A passed \in BOOLEAN : LawfulMove(l, Stamped(l, r, passed))
           /\ \A s \in Runs \ {r} :
                /\ FailRun(l, r)[s] = l[s]
                /\ \A to \in {"success", "rollback_success"} : Verdict(l, r, to)[s] = l[s]
                /\ Healthchecking(l, r)[s] = l[s]
                /\ \A passed \in BOOLEAN : Stamped(l, r, passed)[s] = l[s]
BY DEF LawfulMove, Lawful, FailRun, Verdict, Healthchecking, Stamped, Records,
       Statuses, InFlight, FailedStatus, Successful

\* The reaper fails some of the runs in flight.
LEMMA SweptLawful ==
    ASSUME NEW l \in [Runs -> Records], NEW silent \in SUBSET Runs,
           \A r \in silent : InFlight(l[r])
    PROVE  /\ LawfulMove(l, Swept(l, silent))
           /\ \A s \in Runs : Swept(l, silent)[s].restored = l[s].restored
           /\ \A s \in Runs : l[s] = NoRecord => Swept(l, silent)[s] = NoRecord
           /\ \A s \in silent : ~InFlight(Swept(l, silent)[s])
           /\ \A s \in Runs : Successful(Swept(l, silent)[s]) <=> Successful(l[s])
<1>1. ASSUME NEW s \in Runs
      PROVE  LET new == IF s \in silent
                        THEN [l[s] EXCEPT !.status = FailedStatus(@)] ELSE l[s]
             IN  /\ new \in Records /\ Lawful(l[s], new)
                 /\ new.restored = l[s].restored
                 /\ l[s] = NoRecord => new = NoRecord
                 /\ s \in silent => ~InFlight(new)
                 /\ Successful(new) <=> Successful(l[s])
  <2>1. l[s] \in Records
    OBVIOUS
  <2>2. CASE s \in silent
    <3>1. InFlight(l[s])
      BY <2>2
    <3> DEFINE new == [l[s] EXCEPT !.status = FailedStatus(@)]
    <3>2. /\ new \in Records /\ new.status \in {"failed", "rollback_failed"}
          /\ new.previous = l[s].previous /\ new.restored = l[s].restored
      BY <2>1 DEF Records, Statuses, FailedStatus
    <3>3. l[s].status \in {"running", "healthchecking", "rollback_running"}
      BY <3>1 DEF InFlight
    <3> QED
      BY <2>2, <3>1, <3>2, <3>3 DEF Lawful, InFlight, Successful, NoRecord
  <2>3. CASE s \notin silent
    BY <2>1, <2>3 DEF Lawful
  <2> QED
    BY <2>2, <2>3
<1> QED
  BY <1>1 DEF LawfulMove, Swept

LEMMA SweepsLawful ==
    ASSUME NEW l \in [Runs -> Records], NEW m \in Sweeps(l)
    PROVE  /\ LawfulMove(l, m)
           /\ \A s \in Runs : m[s].restored = l[s].restored
           /\ \A s \in Runs : l[s] = NoRecord => m[s] = NoRecord
           /\ \A s \in Runs : Successful(m[s]) <=> Successful(l[s])
<1>1. PICK silent \in SUBSET Orphans(l) : m = Swept(l, silent)
  BY DEF Sweeps
<1>2. silent \in SUBSET Runs /\ \A r \in silent : InFlight(l[r])
  BY DEF Orphans
<1> QED
  BY <1>1, <1>2, SweptLawful

-----------------------------------------------------------------------------
(* The actions by their effect. *)

\* A start: one run more, with its execution.
Starts(n) ==
    /\ n = started + 1 /\ n \in Runs /\ started' = n
    /\ \E swept \in Sweeps(ledger) :
         \E status \in {"running", "rollback_running"}, previous \in 0 .. MaxRuns :
           /\ TargetFree(swept)
           /\ ledger' = [swept EXCEPT ![n] =
                [status |-> status, previous |-> previous, restored |-> FALSE]]
    /\ \E stage \in {"connect", "deploy"} : exec' = [exec EXCEPT ![n] = stage]
    /\ UNCHANGED <<saved, aborted, reclaim, target, lost, crashes>>

\* A step of an execution, the last one or not.
Works(r) ==
    /\ exec[r] # "none"
    /\ LawfulMove(ledger, ledger') /\ \A s \in Runs \ {r} : ledger'[s] = ledger[s]
    /\ \/ exec' = [exec EXCEPT ![r] = "none"] /\ aborted' = aborted \ {r}
       \/ /\ r \notin aborted /\ aborted' = aborted
          /\ Successful(ledger'[r]) => Successful(ledger[r])
          /\ ledger'[r].restored = ledger[r].restored
          /\ \E stage \in Stages \ {"none"} : exec' = [exec EXCEPT ![r] = stage]
    /\ UNCHANGED <<saved, started, request, reclaim, crashes>>
    /\ target' \in Targets
    /\ lost \subseteq lost' /\ lost' \subseteq Commands

\* Whatever changes only what the ledger says of runs in flight.
Judges ==
    /\ LawfulMove(ledger, ledger')
    /\ \A s \in Runs : Successful(ledger'[s]) => Successful(ledger[s])
    /\ \A s \in Runs : ledger'[s].restored = ledger[s].restored
    /\ aborted \subseteq aborted' /\ aborted' \subseteq aborted \cup Executing
    /\ UNCHANGED <<saved, started, exec, reclaim, target, lost, crashes>>

LEMMA AdmitStarts ==
    ASSUME TypeOK, NEW status \in {"running", "rollback_running"},
           NEW stage \in {"connect", "deploy"}, NEW previous \in 0 .. MaxRuns,
           Admit(status, stage, previous)
    PROVE  Starts(started + 1)
<1>1. started \in 0 .. MaxRuns /\ started < MaxRuns
  BY DEF Admit, TypeOK
<1>2. started + 1 \in Runs
  BY <1>1 DEF Runs
<1> QED
  BY <1>2 DEF Admit, Starts

LEMMA ExecutionWorks ==
    ASSUME TypeOK, NEW r \in Runs, Execution(r)
    PROVE  Works(r)
<1>1. ledger \in [Runs -> Records] /\ exec[r] \in Stages /\ target \in Targets
      /\ lost \subseteq Commands
  BY DEF TypeOK, Targets, Commands
<1>2. Own(r) \in Dirs /\ Restored(r) \in Dirs
  BY DEF Own, Restored, Dirs
<1>3. \A d \in Dirs : SwitchedTo(d) \in Targets
  BY <1>1 DEF SwitchedTo, Targets
<1>4. LawfulMove(ledger, ledger) /\ \A s \in Runs \ {r} : ledger[s] = ledger[s]
  BY <1>1 DEF LawfulMove, Lawful
<1>5. \A ds \in SUBSET Dirs, kind \in {"switch", "delete"} :
        \A new \in Fates(kind, ds) : lost \subseteq new /\ new \subseteq Commands
  BY <1>1 DEF Fates, Commands
<1>6. {d \in Switching : d[1] = r} \in SUBSET Dirs /\ Switching \in SUBSET Dirs
  BY DEF Switching, Own, Restored, Dirs
<1> USE DEF Works, KeepsOn, Advance, Exit, Stages
<1>7. CASE Connected(r)
  BY <1>1, <1>4, <1>7 DEF Connected
<1>8. CASE Built(r)
  BY <1>1, <1>2, <1>4, <1>8 DEF Built, Targets
<1>9. CASE Switched(r)
  <2>1. target' \in Targets
    BY <1>2, <1>3, <1>9 DEF Switched
  <2> QED
    BY <1>1, <1>9, <2>1, LedgerOps DEF Switched
<1>10. CASE EndedUnseen(r)
  <2>1. lost \subseteq lost' /\ lost' \subseteq Commands
    BY <1>1, <1>2, <1>10 DEF EndedUnseen, Commands
  <2> QED
    BY <1>1, <1>10, <2>1, LedgerOps DEF EndedUnseen
<1>11. CASE CommandFails(r)
  BY <1>1, <1>11, LedgerOps DEF CommandFails
<1>12. CASE CommandCut(r)
  BY <1>1, <1>5, <1>6, <1>12, LedgerOps DEF CommandCut
<1>13. CASE ProbePasses(r)
  BY <1>1, <1>13, LedgerOps DEF ProbePasses
<1>14. CASE ProbeFails(r)
  BY <1>1, <1>4, <1>14, LedgerOps DEF ProbeFails, MayRestore
<1>15. CASE RestoreDone(r)
  <2>1. target' \in Targets
    BY <1>2, <1>3, <1>15 DEF RestoreDone
  <2> QED
    BY <1>1, <1>4, <1>15, <2>1 DEF RestoreDone
<1>16. CASE RestoreFails(r)
  <2>1. target' \in Targets
    BY <1>1, <1>2, <1>16 DEF RestoreFails, Targets
  <2> QED
    BY <1>1, <1>2, <1>5, <1>16, <2>1, LedgerOps DEF RestoreFails
<1>17. CASE RestoreEndedUnseen(r)
  <2>1. lost \subseteq lost' /\ lost' \subseteq Commands
    BY <1>1, <1>2, <1>17 DEF RestoreEndedUnseen, Commands
  <2> QED
    BY <1>1, <1>4, <1>17, <2>1 DEF RestoreEndedUnseen
<1>18. CASE Reprobed(r)
  BY <1>1, <1>18, LedgerOps DEF Reprobed
<1>19. CASE SettleFails(r)
  BY <1>1, <1>4, <1>5, <1>6, <1>19 DEF SettleFails
<1> QED
  BY <1>7, <1>8, <1>9, <1>10, <1>11, <1>12, <1>13, <1>14, <1>15, <1>16, <1>17,
     <1>18, <1>19 DEF Execution

RequestTypes == [Requests -> [stage : {"idle", "probing"}, previous : 0 .. MaxRuns]]

LEMMA LatestRange == \A l : LatestSuccess(l) \subseteq 0 .. MaxRuns
BY DEF LatestSuccess

LEMMA StartStarts ==
    ASSUME TypeOK, StartReusing \/ StartRollback \/ \E q \in Requests : StartRelease(q)
    PROVE  Starts(started + 1) /\ request' \in RequestTypes
<1>1. request \in RequestTypes /\ NotAsking \in [stage : {"idle", "probing"}, previous : 0 .. MaxRuns]
  BY DEF TypeOK, RequestTypes, NotAsking, NoRun
<1>2. CASE StartReusing
  BY <1>1, <1>2, AdmitStarts, LatestRange DEF StartReusing
<1>3. CASE StartRollback
  <2>1. PICK r \in Runs : Admit("rollback_running", "deploy", r)
    BY <1>3 DEF StartRollback
  <2>2. r \in 0 .. MaxRuns
    BY DEF Runs
  <2> QED
    BY <1>1, <1>3, <2>1, <2>2, AdmitStarts DEF StartRollback
<1>4. ASSUME NEW q \in Requests, StartRelease(q)
      PROVE  Starts(started + 1) /\ request' \in RequestTypes
  <2>1. request[q].previous \in 0 .. MaxRuns
    BY <1>1 DEF RequestTypes
  <2>2. request' \in RequestTypes
    BY <1>1, <1>4 DEF StartRelease, RequestTypes
  <2> QED
    BY <1>4, <2>1, <2>2, AdmitStarts DEF StartRelease
<1> QED
  BY <1>2, <1>3, <1>4

LEMMA Judging ==
    ASSUME TypeOK,
           \/ Reap \/ \E q \in Requests : StartRefused(q)
           \/ \E r \in Runs : Cancel(r)
    PROVE  Judges /\ request' \in RequestTypes
<1>1. /\ request \in RequestTypes /\ ledger \in [Runs -> Records]
      /\ NotAsking \in [stage : {"idle", "probing"}, previous : 0 .. MaxRuns]
  BY DEF TypeOK, RequestTypes, NotAsking, NoRun
<1>2. CASE Reap
  BY <1>1, <1>2, SweepsLawful DEF Reap, Judges
<1>3. ASSUME NEW q \in Requests, StartRefused(q)
      PROVE  Judges /\ request' \in RequestTypes
  <2>1. ledger' \in Sweeps(ledger)
    BY <1>3 DEF StartRefused
  <2>2. request' \in RequestTypes
    BY <1>1, <1>3 DEF StartRefused, RequestTypes
  <2> QED
    BY <1>1, <1>3, <2>1, <2>2, SweepsLawful DEF StartRefused, Judges
<1>4. ASSUME NEW r \in Runs, Cancel(r)
      PROVE  Judges /\ request' \in RequestTypes
  <2>1. InFlight(ledger[r]) /\ ledger' = Swept(ledger, {r})
    BY <1>1, <1>4 DEF Cancel, Swept
  <2>2. /\ LawfulMove(ledger, ledger')
        /\ \A s \in Runs : Successful(ledger'[s]) => Successful(ledger[s])
        /\ \A s \in Runs : ledger'[s].restored = ledger[s].restored
    BY <1>1, <2>1, SweptLawful
  <2>3. aborted \subseteq aborted' /\ aborted' \subseteq aborted \cup Executing
    BY <1>4 DEF Cancel, Executing
  <2> QED
    BY <1>1, <1>4, <2>2, <2>3 DEF Cancel, Judges
<1> QED
  BY <1>2, <1>3, <1>4

\* What the janitor does to itself, to the target and to the lost commands.
ReclaimTypes ==
    [stage : {"idle", "asking", "seen", "deleting"}, expected : 0 .. MaxRuns,
     current : Dirs \cup {NoDir}, listed : SUBSET Dirs, crowded : BOOLEAN,
     plan : SUBSET Dirs]

LEMMA ReclaimingTyped ==
    ASSUME TypeOK, StartReclaim \/ Reclaiming
    PROVE  /\ reclaim' \in ReclaimTypes /\ target' \in Targets /\ lost' \subseteq Commands
           /\ UNCHANGED <<runVars, crashes>>
<1>1. reclaim \in ReclaimTypes /\ target \in Targets /\ lost \subseteq Commands
  BY DEF TypeOK, ReclaimTypes, Targets, Commands
<1>2. NotReclaiming \in ReclaimTypes
  BY DEF NotReclaiming, ReclaimTypes, NoRun
<1> USE DEF ReclaimKeeps
<1>3. CASE StartReclaim
  BY <1>1, <1>2, <1>3, LatestRange DEF StartReclaim, ReclaimTypes
<1>4. CASE TakeInventory
  BY <1>1, <1>4 DEF TakeInventory, ReclaimTypes, Targets
<1>5. CASE Decide
  <2>1. Plan \in SUBSET Dirs
    BY <1>1 DEF Plan, ReclaimTypes
  <2> QED
    BY <1>1, <1>2, <1>5, <2>1 DEF Decide, ReclaimTypes
<1>6. CASE ReclaimFails
  BY <1>1, <1>2, <1>6 DEF ReclaimFails
<1>7. CASE Delete
  BY <1>1, <1>2, <1>7 DEF Delete, Targets
<1>8. CASE DeleteCut
  BY <1>1, <1>2, <1>8 DEF DeleteCut, Fates, Commands, ReclaimTypes
<1> QED
  BY <1>3, <1>4, <1>5, <1>6, <1>7, <1>8 DEF Reclaiming

\* A stray command.
LEMMA StraysTyped ==
    ASSUME TypeOK, NEW d \in Dirs, StraySwitches(d) \/ StrayDeletes(d)
    PROVE  /\ target' \in Targets /\ lost' \subseteq Commands
           /\ {c[2] : c \in lost'} = {c[2] : c \in lost}
           /\ UNCHANGED <<runVars, reclaim, crashes>>
<1>1. target \in Targets /\ lost \subseteq Commands
  BY DEF TypeOK, Targets, Commands
<1>2. target' \in Targets
  <2>1. SwitchedTo(d) \in Targets /\ [target EXCEPT !.dirs = @ \ {d}] \in Targets
    BY <1>1 DEF SwitchedTo, Targets
  <2> QED
    BY <2>1 DEF StraySwitches, StrayDeletes
<1>3. lost' \subseteq Commands
  BY <1>1 DEF StraySwitches, StrayDeletes, Commands
<1>4. PICK kind \in {"switch", "delete"} :
        /\ <<kind, d>> \in lost
        /\ lost' = (lost \ {<<kind, d>>}) \cup {<<"over", d>>}
  BY DEF StraySwitches, StrayDeletes
<1>5. {c[2] : c \in lost'} = {c[2] : c \in lost}
  <2>1. <<kind, d>>[2] = d /\ <<"over", d>>[2] = d
    OBVIOUS
  <2> QED
    BY <1>4, <2>1
<1> QED
  BY <1>2, <1>3, <1>5 DEF StraySwitches, StrayDeletes

-----------------------------------------------------------------------------
(* Type correctness. *)

LEMMA RestartTyped ==
    ASSUME TypeOK, Restart
    PROVE  TypeOK'
<1>1. saved \in [Runs -> Records] /\ lost \subseteq Commands /\ reclaim \in ReclaimTypes
  BY DEF TypeOK, Commands, ReclaimTypes
<1>2. ledger' \in [Runs -> Records]
  BY <1>1, SweptLawful DEF Restart, LawfulMove
<1>3. lost' \subseteq Commands
  <2>1. Switching \subseteq Dirs /\ reclaim.plan \subseteq Dirs
    BY <1>1 DEF Switching, Own, Restored, Dirs, ReclaimTypes
  <2> QED
    BY <1>1, <2>1 DEF Restart, Fates, Commands
<1>4. exec' \in [Runs -> Stages] /\ aborted' \subseteq Runs
  BY DEF Restart, Stages
<1>5. request' \in RequestTypes /\ reclaim' \in ReclaimTypes
  BY DEF Restart, RequestTypes, NotAsking, ReclaimTypes, NotReclaiming, NoRun
<1> QED
  BY <1>1, <1>2, <1>3, <1>4, <1>5
  DEF TypeOK, Restart, RequestTypes, ReclaimTypes, Commands

LEMMA InitTypes == Init => TypeOK
<1>1. SUFFICES ASSUME Init PROVE TypeOK
  OBVIOUS
<1>2. ledger \in [Runs -> Records]
  BY <1>1 DEF Init, PastRun, NoRecord, Records, Statuses, NoRun
<1>3. target \in Targets
  <2>1. <<Past, "own">> \in Dirs \cup {NoDir}
    BY DEF Dirs, Runs, NoDir, NoRun
  <2>2. {Own(r) : r \in 1 .. Past} \subseteq Dirs
    BY DEF Own, Dirs, Runs
  <2> QED
    BY <1>1, <2>1, <2>2 DEF Init, Targets
<1>4. reclaim \in ReclaimTypes /\ request \in RequestTypes
  BY <1>1 DEF Init, NotReclaiming, ReclaimTypes, RequestTypes, NotAsking, NoRun
<1> QED
  BY <1>1, <1>2, <1>3, <1>4
  DEF Init, TypeOK, Stages, Targets, ReclaimTypes, RequestTypes

LEMMA NextTypes == TypeOK /\ [Next]_vars => TypeOK'
<1> SUFFICES ASSUME TypeOK, [Next]_vars PROVE TypeOK'
  OBVIOUS
<1> USE DEF RequestTypes, ReclaimTypes, Targets, Commands
<1>1. CASE StartReusing \/ StartRollback \/ \E q \in Requests : StartRelease(q)
  <2>1. Starts(started + 1) /\ request' \in RequestTypes
    BY <1>1, StartStarts
  <2>2. PICK swept \in Sweeps(ledger), status \in {"running", "rollback_running"},
             previous \in 0 .. MaxRuns :
          ledger' = [swept EXCEPT ![started + 1] =
            [status |-> status, previous |-> previous, restored |-> FALSE]]
    BY <2>1 DEF Starts
  <2>3. swept \in [Runs -> Records]
    BY SweepsLawful DEF TypeOK, LawfulMove
  <2>4. ledger' \in [Runs -> Records]
    BY <2>2, <2>3 DEF Records, Statuses
  <2>5. started' \in 0 .. MaxRuns /\ exec' \in [Runs -> Stages]
    BY <2>1 DEF Starts, TypeOK, Stages, Runs
  <2> QED
    BY <2>1, <2>4, <2>5 DEF Starts, TypeOK
<1>2. ASSUME NEW r \in Runs, Execution(r) PROVE TypeOK'
  <2>1. Works(r)
    BY <1>2, ExecutionWorks
  <2>2. exec' \in [Runs -> Stages] /\ aborted' \subseteq Runs
    BY <2>1 DEF Works, TypeOK, Stages
  <2> QED
    BY <2>1, <2>2 DEF Works, LawfulMove, TypeOK
<1>3. CASE \/ Reap \/ \E q \in Requests : StartRefused(q)
           \/ \E r \in Runs : Cancel(r)
  <2>1. Judges /\ request' \in RequestTypes
    BY <1>3, Judging
  <2>2. Executing \subseteq Runs
    BY DEF Executing
  <2> QED
    BY <2>1, <2>2 DEF Judges, LawfulMove, TypeOK
<1>4. CASE StartReclaim \/ Reclaiming
  BY <1>4, ReclaimingTyped DEF TypeOK, runVars
<1>5. ASSUME NEW d \in Dirs, StraySwitches(d) \/ StrayDeletes(d) PROVE TypeOK'
  BY <1>5, StraysTyped DEF TypeOK, runVars
<1>6. ASSUME NEW q \in Requests, BeginPreflight(q) \/ EndPreflight(q) PROVE TypeOK'
  <2>1. request' \in RequestTypes
    BY <1>6, LatestRange DEF BeginPreflight, EndPreflight, NotAsking, NoRun, TypeOK
  <2> QED
    BY <1>6, <2>1 DEF BeginPreflight, EndPreflight, TypeOK
<1>7. CASE Persist
  BY <1>7 DEF Persist, TypeOK
<1>8. CASE Restart
  BY <1>8, RestartTyped
<1>9. CASE UNCHANGED vars
  BY <1>9 DEF vars, TypeOK
<1> QED
  BY <1>1, <1>2, <1>3, <1>4, <1>5, <1>6, <1>7, <1>8, <1>9 DEF Next

THEOREM ReleasesTypeCorrect == Spec => []TypeOK
BY InitTypes, NextTypes, PTL DEF Spec

-----------------------------------------------------------------------------
(* Who is at work. *)

\* Runs that have not been started have left no trace, saved or not.
Unstarted ==
    \A r \in Runs : r > started => ledger[r] = NoRecord /\ saved[r] = NoRecord

\* What executes is the run started last, and it has not succeeded yet, nor has
\* anything been restored for it.
Fresh ==
    \A r \in Executing :
        /\ r = started
        /\ \A l \in {ledger, saved} : ~Successful(l[r]) /\ ~l[r].restored

AbortedExecute == aborted \subseteq Executing

\* Once the inventory was taken in peace, nobody executes until the reclaiming is
\* over, and what served still serves, unless a lost command has switched.
InventoryStands ==
    reclaim.stage \in {"seen", "deleting"} /\ ~reclaim.crowded =>
        /\ Executing = {}
        /\ target.current # reclaim.current => \E c \in lost : c[2] = target.current

PlanSpares ==
    /\ reclaim.stage # "deleting" => reclaim.plan = {}
    /\ reclaim.current \notin reclaim.plan

Access ==
    /\ TypeOK /\ OneWriter /\ Unstarted /\ Fresh /\ AbortedExecute
    /\ InventoryStands /\ PlanSpares

LEMMA AccessStart ==
    ASSUME Access, Starts(started + 1), TypeOK'
    PROVE  Access'
<1> DEFINE n == started + 1
<1>1. PICK swept \in Sweeps(ledger), status \in {"running", "rollback_running"},
           previous \in 0 .. MaxRuns :
        /\ TargetFree(swept)
        /\ ledger' = [swept EXCEPT ![n] =
             [status |-> status, previous |-> previous, restored |-> FALSE]]
  BY DEF Starts
<1>2. PICK stage \in {"connect", "deploy"} : exec' = [exec EXCEPT ![n] = stage]
  BY DEF Starts
<1>3. /\ n \in Runs /\ started' = n /\ started \in Nat
      /\ UNCHANGED <<saved, aborted, reclaim, target, lost>>
  BY DEF Starts, Access, TypeOK
<1>4. /\ swept \in [Runs -> Records] /\ exec \in [Runs -> Stages]
      /\ \A s \in Runs : ledger[s] = NoRecord => swept[s] = NoRecord
  BY SweepsLawful DEF Access, TypeOK, LawfulMove
<1>5. Executing = {} /\ (\A s \in Runs : ~InFlight(swept[s])) /\ reclaim.stage = "idle"
  BY <1>1 DEF TargetFree, RunsDone, Settling, Executing, Locked
<1>6. Executing' = {n}
  BY <1>2, <1>3, <1>4, <1>5 DEF Executing
<1>7. \A s \in Runs : InFlight(ledger'[s]) => s = n
  BY <1>1, <1>4, <1>5
<1>8. OneWriter'
  BY <1>3, <1>5, <1>6, <1>7 DEF OneWriter
<1>9. Unstarted'
  <2>1. \A s \in Runs : s > n => s # n /\ s > started
    BY <1>3 DEF Runs
  <2>2. \A s \in Runs : s > n => ledger'[s] = swept[s]
    BY <1>1, <1>4, <2>1
  <2> QED
    BY <1>3, <1>4, <2>1, <2>2 DEF Access, Unstarted
<1>10. Fresh'
  <2>1. saved[n] = NoRecord
    BY <1>3 DEF Access, Unstarted
  <2>2. ledger'[n] = [status |-> status, previous |-> previous, restored |-> FALSE]
    BY <1>1, <1>3, <1>4
  <2> QED
    BY <1>3, <1>6, <2>1, <2>2 DEF Fresh, Successful, NoRecord
<1>11. AbortedExecute'
  BY <1>3, <1>5 DEF Access, AbortedExecute
<1>12. InventoryStands' /\ PlanSpares'
  BY <1>3, <1>5 DEF Access, InventoryStands, PlanSpares
<1> QED
  BY <1>8, <1>9, <1>10, <1>11, <1>12 DEF Access

LEMMA AccessWork ==
    ASSUME Access, NEW r \in Runs, Works(r), TypeOK'
    PROVE  Access'
<1>1. /\ exec \in [Runs -> Stages] /\ ledger \in [Runs -> Records]
      /\ UNCHANGED <<saved, started, reclaim>>
  BY DEF Access, TypeOK, Works
<1>2. r \in Executing /\ Executing = {r} /\ r = started
  BY DEF Works, Executing, Access, OneWriter, Fresh
<1>3. Executing' \subseteq {r}
  BY <1>1, <1>2 DEF Works, Executing
<1>4. \A s \in Runs : InFlight(ledger'[s]) => s = r
  BY <1>2 DEF Works, LawfulMove, Lawful, Access, OneWriter
<1>5. OneWriter'
  BY <1>1, <1>2, <1>3, <1>4 DEF OneWriter, Access
<1>6. Unstarted'
  <2>1. \A s \in Runs \ {r} : ledger'[s] = ledger[s]
    BY DEF Works
  <2>2. \A s \in Runs : s > started => s # r
    BY <1>2 DEF Runs
  <2>3. \A s \in Runs : s > started' => ledger'[s] = ledger[s] /\ saved'[s] = saved[s]
    BY <1>1, <2>1, <2>2
  <2> QED
    BY <1>1, <2>3 DEF Access, Unstarted
<1>7. Fresh'
  <2>1. CASE exec' = [exec EXCEPT ![r] = "none"]
    BY <1>1, <1>3, <2>1 DEF Fresh, Executing
  <2>2. CASE exec' # [exec EXCEPT ![r] = "none"]
    <3>1. /\ Successful(ledger'[r]) => Successful(ledger[r])
          /\ ledger'[r].restored = ledger[r].restored
      BY <2>2 DEF Works
    <3> QED
      BY <1>1, <1>2, <1>3, <3>1 DEF Access, Fresh
  <2> QED
    BY <2>1, <2>2
<1>8. AbortedExecute'
  BY <1>1, <1>2 DEF Works, Access, AbortedExecute, Executing, Stages
<1>9. InventoryStands' /\ PlanSpares'
  BY <1>1, <1>2 DEF Access, InventoryStands, PlanSpares
<1> QED
  BY <1>5, <1>6, <1>7, <1>8, <1>9 DEF Access

LEMMA AccessJudge ==
    ASSUME Access, Judges, TypeOK'
    PROVE  Access'
<1>1. /\ UNCHANGED <<saved, started, exec, reclaim, target, lost>>
      /\ Executing' = Executing
      /\ ledger \in [Runs -> Records]
  BY DEF Judges, Executing, Access, TypeOK
<1>2. \A s \in Runs : InFlight(ledger'[s]) => InFlight(ledger[s])
  BY DEF Judges, LawfulMove, Lawful
<1>3. OneWriter'
  BY <1>1, <1>2 DEF Access, OneWriter
<1>4. \A s \in Runs : ledger[s] = NoRecord => ledger'[s] = NoRecord
  BY <1>1 DEF Judges, LawfulMove, Lawful, NoRecord, Records, InFlight
<1>5. Unstarted'
  BY <1>1, <1>4 DEF Access, Unstarted
<1>6. Fresh'
  BY <1>1 DEF Access, Fresh, Judges, Executing
<1>7. AbortedExecute'
  BY <1>1 DEF Access, AbortedExecute, Judges
<1>8. InventoryStands' /\ PlanSpares'
  BY <1>1 DEF Access, InventoryStands, PlanSpares
<1> QED
  BY <1>3, <1>5, <1>6, <1>7, <1>8 DEF Access

LEMMA AccessReclaim ==
    ASSUME Access, StartReclaim \/ Reclaiming, TypeOK'
    PROVE  Access'
<1>1. UNCHANGED <<ledger, saved, started, exec, aborted>> /\ Executing' = Executing
  BY ReclaimingTyped DEF Access, runVars, Executing
<1>2. Unstarted' /\ Fresh' /\ AbortedExecute'
  BY <1>1 DEF Access, Unstarted, Fresh, AbortedExecute
<1>3. OneWriter' /\ InventoryStands' /\ PlanSpares'
  <2> USE <1>1 DEF Access, OneWriter, InventoryStands, PlanSpares, NotReclaiming
  <2>1. reclaim \in ReclaimTypes /\ target \in Targets /\ lost \subseteq Commands
    BY DEF TypeOK, ReclaimTypes, Targets, Commands
  <2>2. CASE StartReclaim
    BY <2>1, <2>2 DEF StartReclaim, ReclaimTypes
  <2>3. CASE TakeInventory
    <3>1. /\ reclaim'.stage = "seen" /\ reclaim'.plan = reclaim.plan
          /\ reclaim'.crowded = (Executing # {}) /\ reclaim'.current = target.current
      BY <2>1, <2>3 DEF TakeInventory, ReclaimTypes
    <3> QED
      BY <2>3, <3>1 DEF TakeInventory
  <2>4. CASE Decide
    <3>1. CASE reclaim' = NotReclaiming
      BY <3>1
    <3>2. CASE reclaim' # NotReclaiming
      <4>1. /\ RunsDone(ledger)
            /\ reclaim' = [reclaim EXCEPT !.stage = "deleting", !.plan = Plan]
        BY <2>4, <3>2 DEF Decide
      <4>2. Executing = {}
        BY <4>1 DEF RunsDone, Settling, Executing
      <4>3. /\ reclaim'.stage = "deleting" /\ reclaim'.plan = Plan
            /\ reclaim'.current = reclaim.current /\ reclaim'.crowded = reclaim.crowded
            /\ reclaim.current \notin Plan
        BY <2>1, <4>1 DEF ReclaimTypes, Plan, Protected
      <4>4. reclaim.stage = "seen" /\ target' = target /\ lost' = lost
        BY <2>4 DEF Decide
      <4>5. OneWriter'
        BY <4>2, <4>3
      <4>6. InventoryStands' /\ PlanSpares'
        BY <4>2, <4>3, <4>4
      <4> QED
        BY <4>5, <4>6
    <3> QED
      BY <3>1, <3>2
  <2>5. CASE ReclaimFails \/ Delete \/ DeleteCut
    <3>1. reclaim' = NotReclaiming
      BY <2>5 DEF ReclaimFails, Delete, DeleteCut
    <3> QED
      BY <3>1
  <2> QED
    BY <2>2, <2>3, <2>4, <2>5 DEF Reclaiming
<1> QED
  BY <1>2, <1>3 DEF Access

LEMMA AccessStray ==
    ASSUME Access, NEW d \in Dirs, StraySwitches(d) \/ StrayDeletes(d), TypeOK'
    PROVE  Access'
<1>1. /\ UNCHANGED <<ledger, saved, started, exec, aborted, reclaim>>
      /\ Executing' = Executing
      /\ {c[2] : c \in lost'} = {c[2] : c \in lost}
  BY StraysTyped DEF Access, runVars, Executing
<1>2. OneWriter' /\ Unstarted' /\ Fresh' /\ AbortedExecute' /\ PlanSpares'
  BY <1>1 DEF Access, OneWriter, Unstarted, Fresh, AbortedExecute, PlanSpares
<1>3. target'.current = target.current \/ \E c \in lost' : c[2] = target'.current
  <2>1. CASE StraySwitches(d)
    <3>1. target'.current = d /\ <<"over", d>> \in lost'
      BY <2>1 DEF StraySwitches, SwitchedTo, Access, TypeOK
    <3> QED
      BY <3>1
  <2>2. CASE StrayDeletes(d)
    BY <2>2 DEF StrayDeletes, Access, TypeOK
  <2> QED
    BY <2>1, <2>2
<1>4. InventoryStands'
  BY <1>1, <1>3 DEF Access, InventoryStands
<1> QED
  BY <1>2, <1>4 DEF Access

LEMMA AccessRestart ==
    ASSUME Access, Restart, TypeOK'
    PROVE  Access'
<1>1. /\ Executing' = {} /\ aborted' = {} /\ reclaim' = NotReclaiming
      /\ started' = started /\ saved' = saved
      /\ ledger' = Swept(saved, {r \in Runs : InFlight(saved[r])})
  BY DEF Restart, Executing
<1>2. \A s \in Runs : saved[s] = NoRecord => ledger'[s] = NoRecord
  BY <1>1, SweptLawful DEF Access, TypeOK
<1>3. Unstarted'
  BY <1>1, <1>2 DEF Access, Unstarted
<1> QED
  BY <1>1, <1>3 DEF Access, OneWriter, Fresh, AbortedExecute, InventoryStands,
     PlanSpares, NotReclaiming

LEMMA AccessInit == Init => Access
<1>1. SUFFICES ASSUME Init PROVE Access
  OBVIOUS
<1>2. /\ Executing = {} /\ aborted = {} /\ reclaim = NotReclaiming
      /\ started = Past /\ saved = ledger
      /\ ledger = [r \in Runs |-> IF r <= Past THEN PastRun(r) ELSE NoRecord]
  BY <1>1 DEF Init, Executing
<1>3. Unstarted
  BY <1>2 DEF Unstarted, Runs
<1> QED
  BY <1>1, <1>2, <1>3, InitTypes DEF Access, OneWriter, Fresh, AbortedExecute,
     InventoryStands, PlanSpares, NotReclaiming

LEMMA AccessNext == Access /\ [Next]_vars => Access'
<1> SUFFICES ASSUME Access, [Next]_vars PROVE Access'
  OBVIOUS
<1>1. TypeOK /\ TypeOK'
  BY NextTypes DEF Access
<1>2. CASE StartReusing \/ StartRollback \/ \E q \in Requests : StartRelease(q)
  BY <1>1, <1>2, StartStarts, AccessStart
<1>3. ASSUME NEW r \in Runs, Execution(r) PROVE Access'
  BY <1>1, <1>3, ExecutionWorks, AccessWork
<1>4. CASE \/ Reap \/ \E q \in Requests : StartRefused(q)
           \/ \E r \in Runs : Cancel(r)
  BY <1>1, <1>4, Judging, AccessJudge
<1>5. CASE StartReclaim \/ Reclaiming
  BY <1>1, <1>5, AccessReclaim
<1>6. ASSUME NEW d \in Dirs, StraySwitches(d) \/ StrayDeletes(d) PROVE Access'
  BY <1>1, <1>6, AccessStray
<1>7. CASE Restart
  BY <1>1, <1>7, AccessRestart
<1>8. CASE Persist
  BY <1>1, <1>8 DEF Persist, Access, OneWriter, Unstarted, Fresh, AbortedExecute,
     InventoryStands, PlanSpares, Executing
<1>9. CASE UNCHANGED vars \/ \E q \in Requests : BeginPreflight(q) \/ EndPreflight(q)
  <2>1. UNCHANGED <<ledger, saved, started, exec, aborted, reclaim, target, lost>>
    BY <1>9 DEF vars, BeginPreflight, EndPreflight
  <2> QED
    BY <1>1, <2>1 DEF Access, OneWriter, Unstarted, Fresh, AbortedExecute,
       InventoryStands, PlanSpares, Executing
<1> QED
  BY <1>2, <1>3, <1>4, <1>5, <1>6, <1>7, <1>8, <1>9 DEF Next

\* At most one execution writes to the target, whatever the ledger says, and none
\* while artifacts are deleted.
THEOREM WritersExcluded == Spec => []OneWriter
<1>1. Access => OneWriter
  BY DEF Access
<1> QED
  BY <1>1, AccessInit, AccessNext, PTL DEF Spec

\* What serves is not among what is to be deleted, unless a release was at work
\* during the inventory or a lost command has switched.
THEOREM ServingIsSpared == Spec => []ReclaimSparesServing
<1>1. Access => ReclaimSparesServing
  BY DEF Access, ReclaimSparesServing, InventoryStands, PlanSpares
<1> QED
  BY <1>1, AccessInit, AccessNext, PTL DEF Spec

-----------------------------------------------------------------------------
(* What a step may not do. *)

\* A step other than a restart leaves every verdict.
LEMMA StepLeavesVerdicts ==
    ASSUME Access, [Next]_vars, crashes' = crashes, NEW r \in Runs, Final(ledger[r])
    PROVE  ledger'[r].status = ledger[r].status
<1>1. TypeOK /\ ledger \in [Runs -> Records] /\ ~InFlight(ledger[r])
  BY DEF Access, TypeOK, Final, InFlight
<1>2. CASE LawfulMove(ledger, ledger')
  BY <1>1, <1>2 DEF LawfulMove, Lawful
<1>3. CASE StartReusing \/ StartRollback \/ \E q \in Requests : StartRelease(q)
  <2>1. PICK swept \in Sweeps(ledger), status \in {"running", "rollback_running"},
             previous \in 0 .. MaxRuns :
          ledger' = [swept EXCEPT ![started + 1] =
            [status |-> status, previous |-> previous, restored |-> FALSE]]
    BY <1>1, <1>3, StartStarts DEF Starts
  <2>2. swept \in [Runs -> Records] /\ Lawful(ledger[r], swept[r])
    BY <1>1, SweepsLawful DEF LawfulMove
  <2>3. r # started + 1
    BY DEF Access, TypeOK, Unstarted, Runs, Final, NoRecord
  <2> QED
    BY <1>1, <2>1, <2>2, <2>3 DEF Lawful
<1>4. ASSUME NEW s \in Runs, Execution(s) PROVE LawfulMove(ledger, ledger')
  BY <1>1, <1>4, ExecutionWorks DEF Works
<1>5. CASE \/ Reap \/ \E q \in Requests : StartRefused(q)
           \/ \E s \in Runs : Cancel(s)
  BY <1>1, <1>2, <1>5, Judging DEF Judges
<1>6. CASE UNCHANGED ledger
  BY <1>6
<1>7. CASE StartReclaim \/ Reclaiming
  BY <1>1, <1>6, <1>7, ReclaimingTyped DEF runVars
<1>8. ASSUME NEW d \in Dirs, StraySwitches(d) \/ StrayDeletes(d) PROVE UNCHANGED ledger
  BY <1>1, <1>8, StraysTyped DEF runVars
<1>9. ~Restart
  BY DEF Restart, Access, TypeOK
<1>10. CASE \/ Persist \/ UNCHANGED vars
            \/ \E q \in Requests : BeginPreflight(q) \/ EndPreflight(q)
  BY <1>6, <1>10 DEF Persist, vars, BeginPreflight, EndPreflight
<1> QED
  BY <1>2, <1>3, <1>4, <1>5, <1>6, <1>7, <1>8, <1>9, <1>10 DEF Next

\* A cancelled execution only ends.
LEMMA StepStopsCancelled ==
    ASSUME Access, [Next]_vars, NEW r \in Runs, r \in aborted, exec'[r] # exec[r]
    PROVE  exec'[r] = "none"
<1>1. TypeOK /\ exec \in [Runs -> Stages] /\ r \in Executing
  BY DEF Access, TypeOK, AbortedExecute
<1>2. CASE StartReusing \/ StartRollback \/ \E q \in Requests : StartRelease(q)
  <2>1. Starts(started + 1)
    BY <1>1, <1>2, StartStarts
  <2>2. Executing = {}
    BY <2>1 DEF Starts, TargetFree, RunsDone, Settling, Executing
  <2> QED
    BY <1>1, <2>2
<1>3. ASSUME NEW s \in Runs, Execution(s) PROVE exec'[r] = "none"
  <2>1. Works(s)
    BY <1>1, <1>3, ExecutionWorks
  <2>2. s = r
    BY <1>1, <2>1 DEF Works, Executing, Access, OneWriter
  <2> QED
    BY <1>1, <2>1, <2>2 DEF Works
<1>4. CASE \/ Reap \/ \E q \in Requests : StartRefused(q)
           \/ \E s \in Runs : Cancel(s)
  BY <1>1, <1>4, Judging DEF Judges
<1>5. CASE StartReclaim \/ Reclaiming
  BY <1>1, <1>5, ReclaimingTyped DEF runVars
<1>6. ASSUME NEW d \in Dirs, StraySwitches(d) \/ StrayDeletes(d) PROVE UNCHANGED exec
  BY <1>1, <1>6, StraysTyped DEF runVars
<1>7. CASE Restart
  BY <1>7 DEF Restart
<1>8. CASE \/ Persist \/ UNCHANGED vars
           \/ \E q \in Requests : BeginPreflight(q) \/ EndPreflight(q)
  BY <1>8 DEF Persist, vars, BeginPreflight, EndPreflight
<1> QED
  BY <1>2, <1>3, <1>4, <1>5, <1>6, <1>7, <1>8 DEF Next

\* Between two restarts a verdict is final.
THEOREM VerdictsAreFinal == Spec => VerdictsStand
<1>1. Access /\ [Next]_vars =>
        [crashes' = crashes =>
           \A r \in Runs : Final(ledger[r]) => ledger'[r].status = ledger[r].status]_vars
  BY StepLeavesVerdicts
<1> QED
  BY <1>1, AccessInit, AccessNext, PTL DEF Spec, VerdictsStand

\* After a cancellation the execution begins no stage that runs a command.
THEOREM CancellationHolds == Spec => CancelledWritesNoMore
<1>1. Access /\ [Next]_vars =>
        [\A r \in Runs : r \in aborted /\ exec'[r] # exec[r] => exec'[r] = "none"]_vars
  BY StepStopsCancelled
<1> QED
  BY <1>1, AccessInit, AccessNext, PTL DEF Spec, CancelledWritesNoMore

-----------------------------------------------------------------------------
(* The mutex. *)

LostDirs == {c[2] : c \in lost}
Writers  == Executing \cup (IF reclaim.stage = "deleting" THEN {Janitor} ELSE {})

\* A step of the mutex, written out.
MutexStep ==
    \/ \E u \in Runs \cup {Janitor} :
         Writers = {} /\ Writers' = {u} /\ LostDirs' = LostDirs /\ target' = target
    \/ Writers # {} /\ Writers' \in {{}, Writers} /\ LostDirs \subseteq LostDirs'
    \/ LostDirs # {} /\ Writers' = Writers
    \/ Writers' = Writers /\ LostDirs' = LostDirs /\ target' = target

LEMMA MutexStepIsOne == MutexStep => [Mutex!Next]_(Mutex!vars)
BY DEF MutexStep, Mutex!Next, Mutex!vars, Mutex!Enter, Mutex!Leave, Mutex!Write,
       Mutex!StrayWrites, Writers, LostDirs

LEMMA LostGrows ==
    ASSUME lost \subseteq lost'
    PROVE  LostDirs \subseteq LostDirs'
BY DEF LostDirs

LEMMA StepsOfMutex ==
    ASSUME Access, [Next]_vars
    PROVE  MutexStep
<1>1. TypeOK /\ exec \in [Runs -> Stages]
  BY DEF Access, TypeOK
<1>2. CASE StartReusing \/ StartRollback \/ \E q \in Requests : StartRelease(q)
  <2>1. Starts(started + 1)
    BY <1>1, <1>2, StartStarts
  <2>2. Executing = {} /\ reclaim.stage = "idle"
    BY <2>1 DEF Starts, TargetFree, RunsDone, Settling, Executing, Locked
  <2>3. Executing' = {started + 1} /\ started + 1 \in Runs
    BY <1>1, <2>1, <2>2 DEF Starts, Executing
  <2>4. Writers = {} /\ Writers' = {started + 1}
    BY <2>1, <2>2, <2>3 DEF Starts, Writers
  <2> QED
    BY <2>1, <2>3, <2>4 DEF MutexStep, Starts, LostDirs
<1>3. ASSUME NEW r \in Runs, Execution(r) PROVE MutexStep
  <2>1. Works(r)
    BY <1>1, <1>3, ExecutionWorks
  <2>2. Executing = {r} /\ reclaim.stage # "deleting"
    BY <2>1 DEF Works, Executing, Access, OneWriter
  <2>3. Executing' \in {{}, {r}}
    BY <1>1, <2>1, <2>2 DEF Works, Executing
  <2>4. Writers = {r} /\ Writers' \in {{}, Writers}
    BY <2>1, <2>2, <2>3 DEF Works, Writers
  <2> QED
    BY <2>1, <2>4, LostGrows DEF Works, MutexStep
<1>4. CASE UNCHANGED <<exec, reclaim, target, lost>>
  BY <1>4 DEF MutexStep, Writers, Executing, LostDirs
<1>5. CASE \/ Reap \/ \E q \in Requests : StartRefused(q)
           \/ \E s \in Runs : Cancel(s)
  BY <1>1, <1>4, <1>5, Judging DEF Judges
<1>6. CASE StartReclaim \/ Reclaiming
  <2>1. Executing' = Executing
    BY <1>1, <1>6, ReclaimingTyped DEF runVars, Executing
  <2>2. reclaim \in ReclaimTypes
    BY <1>1 DEF TypeOK, ReclaimTypes
  <2>3. CASE StartReclaim \/ TakeInventory
    <3>1. /\ reclaim.stage # "deleting" /\ reclaim'.stage # "deleting"
          /\ target' = target /\ lost' = lost
      BY <2>2, <2>3 DEF StartReclaim, TakeInventory, Locked, NotReclaiming, ReclaimTypes
    <3> QED
      BY <2>1, <3>1 DEF MutexStep, Writers, LostDirs
  <2>4. CASE Decide
    <3>1. reclaim.stage = "seen" /\ target' = target /\ lost' = lost
      BY <2>4 DEF Decide
    <3>2. CASE reclaim' = NotReclaiming
      BY <2>1, <3>1, <3>2 DEF MutexStep, Writers, LostDirs, NotReclaiming
    <3>3. CASE reclaim' # NotReclaiming
      <4>1. RunsDone(ledger) /\ reclaim'.stage = "deleting"
        BY <2>2, <2>4, <3>3 DEF Decide, ReclaimTypes
      <4>2. Executing = {}
        BY <4>1 DEF RunsDone, Settling, Executing
      <4>3. Writers = {} /\ Writers' = {Janitor}
        BY <2>1, <3>1, <4>1, <4>2 DEF Writers
      <4> QED
        BY <3>1, <4>3 DEF MutexStep, LostDirs
    <3> QED
      BY <3>2, <3>3
  <2>5. CASE ReclaimFails \/ Delete \/ DeleteCut
    <3>1. reclaim' = NotReclaiming /\ Writers' = Executing
      BY <2>1, <2>5 DEF ReclaimFails, Delete, DeleteCut, NotReclaiming, Writers
    <3>2. lost \subseteq lost'
      BY <2>5 DEF ReclaimFails, Delete, DeleteCut, Fates
    <3>3. CASE reclaim.stage = "deleting"
      <4>1. Executing = {} /\ Writers = {Janitor}
        BY <3>3 DEF Access, OneWriter, Writers
      <4> QED
        BY <3>1, <3>2, <4>1, LostGrows DEF MutexStep
    <3>4. CASE reclaim.stage # "deleting"
      <4>1. target' = target /\ lost' = lost /\ Writers' = Writers
        BY <2>5, <3>1, <3>4 DEF ReclaimFails, Delete, DeleteCut, Writers
      <4> QED
        BY <4>1 DEF MutexStep, LostDirs
    <3> QED
      BY <3>3, <3>4
  <2> QED
    BY <1>6, <2>3, <2>4, <2>5 DEF Reclaiming
<1>7. ASSUME NEW d \in Dirs, StraySwitches(d) \/ StrayDeletes(d) PROVE MutexStep
  <2>1. UNCHANGED <<exec, reclaim>>
    BY <1>1, <1>7, StraysTyped DEF runVars
  <2>2. \E c \in lost : c[2] = d
    BY <1>7 DEF StraySwitches, StrayDeletes
  <2> QED
    BY <2>1, <2>2 DEF MutexStep, Writers, Executing, LostDirs
<1>8. CASE Restart
  <2>1. /\ Writers' = {} /\ target' = target
        /\ lost' \in Fates("switch", Switching) \cup Fates("delete", reclaim.plan)
    BY <1>8 DEF Restart, Writers, Executing, NotReclaiming
  <2>2. lost \subseteq lost'
    BY <2>1 DEF Fates
  <2>3. CASE Writers # {}
    BY <2>1, <2>2, <2>3, LostGrows DEF MutexStep
  <2>4. CASE Writers = {}
    <3>1. Executing = {} /\ reclaim.stage # "deleting"
      BY <2>4 DEF Writers
    <3>2. Switching = {} /\ reclaim.plan = {}
      BY <3>1 DEF Switching, Executing, Access, PlanSpares
    <3>3. lost' = lost
      BY <2>1, <3>2 DEF Fates
    <3> QED
      BY <2>1, <2>4, <3>3 DEF MutexStep, LostDirs
  <2> QED
    BY <2>3, <2>4
<1>9. CASE \/ Persist \/ UNCHANGED vars
           \/ \E q \in Requests : BeginPreflight(q) \/ EndPreflight(q)
  BY <1>4, <1>9 DEF Persist, vars, BeginPreflight, EndPreflight
<1> QED
  BY <1>2, <1>3, <1>4, <1>5, <1>6, <1>7, <1>8, <1>9 DEF Next

\* Releases, rollbacks, restorations and the janitor use the target as TargetMutex
\* says, whatever is lost on the way.
THEOREM ReleasesImplementMutex == Spec => UsersTakeTurns
<1>1. Init => Mutex!Init
  BY DEF Init, Mutex!Init, Executing, NotReclaiming
<1>2. Access /\ [Next]_vars => [Mutex!Next]_(Mutex!vars)
  BY StepsOfMutex, MutexStepIsOne
<1> QED
  BY <1>1, <1>2, AccessInit, AccessNext, PTL DEF Spec, UsersTakeTurns, Mutex!Spec

-----------------------------------------------------------------------------
(* What the ledger tells. *)

\* A run that claims to have left d on the target is right, or excused: a lost
\* command is about it or about what serves, or a later run has switched since.
Right(r, d, current, dirs) ==
    current = d \/ d \in dirs \/ current \in dirs \/ current[1] > r

Says(l, r)     == IF l[r].restored THEN Restored(r) ELSE Own(r)
Claims(l, r)   == Successful(l[r]) \/ l[r].restored
NewestIn(l, r) == l[r].status # "none" /\ \A s \in Runs : s > r => l[s].status = "none"

Tells(l, current, dirs) ==
    \A r \in Runs : NewestIn(l, r) /\ Claims(l, r) => Right(r, Says(l, r), current, dirs)

\* An execution that has switched will claim what it has switched to.
AtProbe ==
    \A r \in Runs :
        /\ exec[r] = "probe" => Right(r, Own(r), target.current, LostDirs)
        /\ exec[r] = "reprobe" => Right(r, Restored(r), target.current, LostDirs)

\* The copy that a restart finds tells it as well.
TellsInv ==
    /\ Access /\ AtProbe
    /\ Tells(ledger, target.current, LostDirs)
    /\ Tells(saved, target.current, LostDirs)

\* A ledger in which nobody has gained a claim tells no more than the old one.
NoGain(l, m) ==
    /\ LawfulMove(l, m)
    /\ \A s \in Runs : m[s].restored = l[s].restored
    /\ \A s \in Runs : Successful(m[s]) => Successful(l[s])

LEMMA NoGainTells ==
    ASSUME NEW l \in [Runs -> Records], NEW m, NoGain(l, m),
           NEW current, NEW dirs, Tells(l, current, dirs)
    PROVE  Tells(m, current, dirs)
<1>1. ASSUME NEW r \in Runs, NewestIn(m, r), Claims(m, r)
      PROVE  Right(r, Says(m, r), current, dirs)
  <2>1. \A s \in Runs : m[s].status = "none" <=> l[s].status = "none"
    BY DEF NoGain, LawfulMove, Lawful, InFlight
  <2>2. NewestIn(l, r)
    BY <1>1, <2>1 DEF NewestIn
  <2>3. Claims(l, r) /\ Says(l, r) = Says(m, r)
    BY <1>1 DEF NoGain, Claims, Says
  <2> QED
    BY <2>2, <2>3 DEF Tells
<1> QED
  BY <1>1 DEF Tells

\* Losing more commands excuses more.
LEMMA MoreLost ==
    ASSUME NEW l, NEW current, NEW dirs, NEW more, dirs \subseteq more,
           Tells(l, current, dirs)
    PROVE  Tells(l, current, more)
BY DEF Tells, Right

\* A lost command that switches excuses everybody.
LEMMA Excused ==
    ASSUME NEW l, NEW current, NEW dirs, current \in dirs
    PROVE  Tells(l, current, dirs)
BY DEF Tells, Right

\* A run that switches contradicts nobody who has a claim: they are older.
LEMMA SwitchTells ==
    ASSUME Access, NEW r \in Executing, NEW l \in {ledger, saved},
           NEW current, current[1] = r, NEW dirs
    PROVE  Tells(l, current, dirs)
<1>1. ASSUME NEW s \in Runs, NewestIn(l, s), Claims(l, s)
      PROVE  r > s
  <2>1. s # r
    BY <1>1 DEF Claims, Access, Fresh
  <2>2. ~(s > started)
    BY <1>1 DEF Access, Unstarted, NewestIn, NoRecord
  <2>3. r = started /\ started \in Nat
    BY DEF Access, Fresh, TypeOK
  <2> QED
    BY <2>1, <2>2, <2>3 DEF Runs
<1> QED
  BY <1>1 DEF Tells, Right

\* What the execution that is there does to its claim and to the links.
LEMMA ExecutionClaims ==
    ASSUME Access, NEW r \in Runs, Execution(r)
    PROVE  \/ /\ NoGain(ledger, ledger') /\ target'.current = target.current
              /\ exec'[r] = "probe" => Own(r) \in LostDirs'
              /\ exec'[r] = "reprobe" => Restored(r) \in LostDirs'
           \/ /\ NoGain(ledger, ledger') /\ target'.current[1] = r
              /\ exec'[r] = "probe" => target'.current = Own(r)
              /\ exec'[r] = "reprobe" => target'.current = Restored(r)
           \/ /\ exec[r] = "probe" /\ exec'[r] = "none" /\ UNCHANGED <<target, lost>>
              /\ ledger'[r].restored = ledger[r].restored
           \/ /\ exec[r] = "reprobe" /\ exec'[r] = "none" /\ UNCHANGED <<target, lost>>
              /\ Successful(ledger'[r]) => Successful(ledger[r])
<1>1. /\ TypeOK /\ ledger \in [Runs -> Records] /\ exec \in [Runs -> Stages]
      /\ target \in Targets
  BY DEF Access, TypeOK, Targets
<1>2. Own(r)[1] = r /\ Restored(r)[1] = r
  BY DEF Own, Restored
<1>3. exec[r] # "none" => ~ledger[r].restored
  BY DEF Access, Fresh, Executing
<1>4. NoGain(ledger, ledger)
  BY <1>1 DEF NoGain, LawfulMove, Lawful
<1>5. NoGain(ledger, FailRun(ledger, r)) /\ NoGain(ledger, Healthchecking(ledger, r))
  <2>1. /\ FailRun(ledger, r)[r].restored = ledger[r].restored
        /\ Successful(FailRun(ledger, r)[r]) => Successful(ledger[r])
    BY <1>1 DEF FailRun, Records, Successful, FailedStatus
  <2> QED
    BY <1>1, <2>1, LedgerOps DEF NoGain
<1>6. /\ \A passed \in BOOLEAN :
           Successful(Stamped(ledger, r, passed)[r]) => Successful(ledger[r])
      /\ exec[r] # "none" => NoGain(ledger, Stamped(ledger, r, FALSE))
  <2>1. \A passed \in BOOLEAN :
          /\ Successful(Stamped(ledger, r, passed)[r]) => Successful(ledger[r])
          /\ Stamped(ledger, r, passed)[r].restored = passed
    BY <1>1 DEF Stamped, FailRun, Records, Successful, FailedStatus
  <2> DEFINE m == Stamped(ledger, r, FALSE)
  <2>2. LawfulMove(ledger, m) /\ \A s \in Runs \ {r} : m[s] = ledger[s]
    BY <1>1, LedgerOps
  <2>3. exec[r] # "none" => m[r].restored = ledger[r].restored
    BY <1>1, <1>3, <2>1 DEF Records
  <2>4. Successful(m[r]) => Successful(ledger[r])
    BY <2>1
  <2>5. exec[r] # "none" => NoGain(ledger, m)
    <3> HIDE DEF m
    <3> QED
      BY <2>2, <2>3, <2>4 DEF NoGain
  <2> QED
    BY <2>1, <2>5
<1> USE DEF KeepsOn, Advance, Exit
<1>7. CASE Connected(r) \/ Built(r)
  BY <1>1, <1>4, <1>7 DEF Connected, Built, Targets
<1>8. CASE Switched(r)
  <2>1. target'.current = Own(r)
    BY <1>1, <1>8 DEF Switched, SwitchedTo, Targets
  <2>2. exec'[r] = "probe" /\ NoGain(ledger, ledger')
    BY <1>1, <1>5, <1>8 DEF Switched
  <2> QED
    BY <1>2, <2>1, <2>2
<1>9. CASE EndedUnseen(r)
  <2>1. <<"switch", Own(r)>> \in lost' /\ exec'[r] = "probe" /\ target' = target
    BY <1>1, <1>9 DEF EndedUnseen
  <2>2. Own(r) \in LostDirs'
    BY <2>1 DEF LostDirs
  <2> QED
    BY <1>5, <1>9, <2>1, <2>2 DEF EndedUnseen
<1>10. CASE CommandFails(r) \/ CommandCut(r)
  BY <1>1, <1>5, <1>10 DEF CommandFails, CommandCut
<1>11. CASE ProbePasses(r)
  BY <1>1, <1>11 DEF ProbePasses, Verdict, Records
<1>12. CASE ProbeFails(r)
  BY <1>1, <1>4, <1>5, <1>12 DEF ProbeFails
<1>13. CASE RestoreDone(r)
  <2>1. target'.current = Restored(r)
    BY <1>1, <1>13 DEF RestoreDone, SwitchedTo, Targets
  <2>2. exec'[r] = "reprobe" /\ NoGain(ledger, ledger')
    BY <1>1, <1>4, <1>13 DEF RestoreDone
  <2> QED
    BY <1>2, <2>1, <2>2
<1>14. CASE RestoreEndedUnseen(r)
  <2>1. <<"switch", Restored(r)>> \in lost' /\ exec'[r] = "reprobe" /\ target' = target
    BY <1>1, <1>14 DEF RestoreEndedUnseen
  <2>2. Restored(r) \in LostDirs'
    BY <2>1 DEF LostDirs
  <2> QED
    BY <1>4, <1>14, <2>1, <2>2 DEF RestoreEndedUnseen
<1>15. CASE RestoreFails(r)
  <2>1. exec'[r] = "none" /\ target'.current = target.current
    BY <1>1, <1>15 DEF RestoreFails, Targets
  <2>2. NoGain(ledger, ledger')
    BY <1>6, <1>15 DEF RestoreFails
  <2> QED
    BY <2>1, <2>2
<1>16. CASE Reprobed(r)
  BY <1>1, <1>6, <1>16 DEF Reprobed
<1>17. CASE SettleFails(r)
  BY <1>1, <1>4, <1>17 DEF SettleFails
<1> QED
  BY <1>7, <1>8, <1>9, <1>10, <1>11, <1>12, <1>13, <1>14, <1>15, <1>16, <1>17
  DEF Execution

LEMMA TellsExecution ==
    ASSUME TellsInv, NEW r \in Runs, Execution(r), Access'
    PROVE  TellsInv'
<1>1. /\ TypeOK /\ Works(r)
      /\ ledger \in [Runs -> Records] /\ exec \in [Runs -> Stages]
  BY ExecutionWorks DEF TellsInv, Access, TypeOK
<1>2. /\ saved' = saved /\ LostDirs \subseteq LostDirs'
      /\ Executing = {r} /\ r \in Executing
  BY <1>1, LostGrows DEF Works, Executing, TellsInv, Access, OneWriter
<1>3. \A s \in Runs : exec'[s] # "none" => s = r
  BY <1>1, <1>2 DEF Works, Executing
<1>4. CASE /\ NoGain(ledger, ledger') /\ target'.current = target.current
           /\ exec'[r] = "probe" => Own(r) \in LostDirs'
           /\ exec'[r] = "reprobe" => Restored(r) \in LostDirs'
  <2>1. AtProbe'
    BY <1>3, <1>4 DEF AtProbe, Right
  <2>2. Tells(ledger, target.current, LostDirs') /\ Tells(saved, target.current, LostDirs')
    BY <1>2, MoreLost DEF TellsInv
  <2>3. Tells(ledger', target.current, LostDirs')
    BY <1>1, <1>4, <2>2, NoGainTells
  <2> QED
    BY <1>2, <1>4, <2>1, <2>2, <2>3 DEF TellsInv
<1>5. CASE /\ NoGain(ledger, ledger') /\ target'.current[1] = r
           /\ exec'[r] = "probe" => target'.current = Own(r)
           /\ exec'[r] = "reprobe" => target'.current = Restored(r)
  <2>1. AtProbe'
    BY <1>3, <1>5 DEF AtProbe, Right
  <2>2. Tells(ledger, target'.current, LostDirs') /\ Tells(saved, target'.current, LostDirs')
    BY <1>2, <1>5, SwitchTells DEF TellsInv
  <2>3. Tells(ledger', target'.current, LostDirs')
    BY <1>1, <1>5, <2>2, NoGainTells
  <2> QED
    BY <1>2, <2>1, <2>2, <2>3 DEF TellsInv
<1>6. CASE \/ /\ exec[r] = "probe" /\ exec'[r] = "none" /\ UNCHANGED <<target, lost>>
              /\ ledger'[r].restored = ledger[r].restored
           \/ /\ exec[r] = "reprobe" /\ exec'[r] = "none" /\ UNCHANGED <<target, lost>>
              /\ Successful(ledger'[r]) => Successful(ledger[r])
  <2>1. AtProbe'
    BY <1>3, <1>6 DEF AtProbe
  <2>2. LostDirs' = LostDirs /\ target' = target
    BY <1>6 DEF LostDirs
  <2>3. Claims(ledger', r) => Right(r, Says(ledger', r), target.current, LostDirs)
    BY <1>2, <1>6 DEF TellsInv, AtProbe, Access, Fresh, Claims, Says
  <2>4. ASSUME NEW s \in Runs, NewestIn(ledger', s), Claims(ledger', s)
        PROVE  Right(s, Says(ledger', s), target.current, LostDirs)
    <3>1. CASE s = r
      BY <2>3, <2>4, <3>1
    <3>2. CASE s # r
      <4>1. ledger'[s] = ledger[s]
        BY <1>1, <3>2 DEF Works
      <4>2. \A q \in Runs : ledger'[q].status = "none" => ledger[q].status = "none"
        BY <1>1 DEF Works, LawfulMove, Lawful
      <4>3. NewestIn(ledger, s) /\ Claims(ledger, s) /\ Says(ledger, s) = Says(ledger', s)
        BY <2>4, <4>1, <4>2 DEF NewestIn, Claims, Says
      <4> QED
        BY <4>3 DEF TellsInv, Tells
    <3> QED
      BY <3>1, <3>2
  <2>5. Tells(ledger', target.current, LostDirs)
    BY <2>4 DEF Tells
  <2> QED
    BY <1>2, <2>1, <2>2, <2>5 DEF TellsInv
<1> QED
  BY <1>4, <1>5, <1>6, ExecutionClaims DEF TellsInv

LEMMA TellsStart ==
    ASSUME TellsInv, Starts(started + 1), Access'
    PROVE  TellsInv'
<1> DEFINE n == started + 1
<1>1. PICK swept \in Sweeps(ledger), status \in {"running", "rollback_running"},
           previous \in 0 .. MaxRuns :
        ledger' = [swept EXCEPT ![n] =
          [status |-> status, previous |-> previous, restored |-> FALSE]]
  BY DEF Starts
<1>2. /\ swept \in [Runs -> Records] /\ n \in Runs /\ exec \in [Runs -> Stages]
      /\ \A s \in Runs : ledger[s] = NoRecord => swept[s] = NoRecord
  BY SweepsLawful DEF TellsInv, Access, TypeOK, LawfulMove, Starts
<1>3. /\ target' = target /\ LostDirs' = LostDirs /\ saved' = saved
      /\ started \in Nat
  BY DEF Starts, LostDirs, TellsInv, Access, TypeOK
<1>4. ledger'[n] = [status |-> status, previous |-> previous, restored |-> FALSE]
  BY <1>1, <1>2
<1>5. ASSUME NEW s \in Runs, NewestIn(ledger', s)
      PROVE  s = n
  <2>1. ~(n > s)
    BY <1>2, <1>4, <1>5 DEF NewestIn
  <2>2. s > n => ledger'[s].status = "none"
    <3>1. s > n => s > started /\ s # n
      BY <1>3 DEF Runs
    <3>2. s > n => swept[s] = NoRecord
      BY <1>2, <3>1 DEF TellsInv, Access, Unstarted
    <3> QED
      BY <1>1, <1>2, <3>1, <3>2 DEF NoRecord
  <2> QED
    BY <1>3, <1>5, <2>1, <2>2 DEF NewestIn, Runs
<1>6. Tells(ledger', target.current, LostDirs)
  BY <1>4, <1>5 DEF Tells, Claims, Successful
<1>7. AtProbe'
  <2>1. PICK stage \in {"connect", "deploy"} : exec' = [exec EXCEPT ![n] = stage]
    BY DEF Starts
  <2> QED
    BY <1>2, <1>3, <2>1 DEF TellsInv, AtProbe
<1> QED
  BY <1>3, <1>6, <1>7 DEF TellsInv

LEMMA TellsRestart ==
    ASSUME TellsInv, Restart, Access'
    PROVE  TellsInv'
<1> DEFINE m == Swept(saved, {r \in Runs : InFlight(saved[r])})
<1>1. saved \in [Runs -> Records] /\ target' = target /\ saved' = saved /\ ledger' = m
  BY DEF Restart, TellsInv, Access, TypeOK
<1>2. LostDirs \subseteq LostDirs'
  BY LostGrows DEF Restart, Fates
<1>3. Tells(saved, target.current, LostDirs')
  BY <1>2, MoreLost DEF TellsInv
<1>4. NoGain(saved, m)
  BY <1>1, SweptLawful DEF NoGain
<1>5. Tells(m, target.current, LostDirs')
  <2> HIDE DEF m
  <2> QED
    BY <1>1, <1>3, <1>4, NoGainTells
<1>6. AtProbe'
  BY DEF Restart, AtProbe
<1> QED
  BY <1>1, <1>3, <1>5, <1>6 DEF TellsInv

LEMMA TellsInit == Init => TellsInv
<1>1. SUFFICES ASSUME Init PROVE TellsInv
  OBVIOUS
<1>2. /\ ledger = [r \in Runs |-> IF r <= Past THEN PastRun(r) ELSE NoRecord]
      /\ saved = ledger /\ target.current = <<Past, "own">>
      /\ exec = [r \in Runs |-> "none"]
  BY <1>1 DEF Init
<1>3. ASSUME NEW r \in Runs, NewestIn(ledger, r), Claims(ledger, r)
      PROVE  Right(r, Says(ledger, r), target.current, LostDirs)
  <2>1. r <= Past
    BY <1>2, <1>3 DEF NewestIn, NoRecord, Runs
  <2>2. ~(r < Past)
    <3>1. r < Past => Past \in Runs /\ ledger[Past].status # "none"
      BY <1>2 DEF Runs, PastRun
    <3> QED
      BY <1>3, <3>1 DEF NewestIn
  <2>3. r = Past /\ ~ledger[r].restored
    BY <1>2, <2>1, <2>2 DEF Runs, PastRun
  <2> QED
    BY <1>2, <2>3 DEF Right, Says, Own
<1>4. Tells(ledger, target.current, LostDirs)
  BY <1>3 DEF Tells
<1>5. AtProbe
  BY <1>2 DEF AtProbe
<1> QED
  BY <1>1, <1>2, <1>4, <1>5, AccessInit DEF TellsInv

LEMMA TellsNext == TellsInv /\ [Next]_vars => TellsInv'
<1> SUFFICES ASSUME TellsInv, [Next]_vars PROVE TellsInv'
  OBVIOUS
<1>1. Access /\ Access' /\ TypeOK /\ ledger \in [Runs -> Records]
  BY AccessNext DEF TellsInv, Access, TypeOK
<1>2. CASE StartReusing \/ StartRollback \/ \E q \in Requests : StartRelease(q)
  BY <1>1, <1>2, StartStarts, TellsStart
<1>3. ASSUME NEW r \in Runs, Execution(r) PROVE TellsInv'
  BY <1>1, <1>3, TellsExecution
<1>4. CASE \/ Reap \/ \E q \in Requests : StartRefused(q)
           \/ \E r \in Runs : Cancel(r)
  <2>1. Judges
    BY <1>1, <1>4, Judging
  <2>2. NoGain(ledger, ledger') /\ UNCHANGED <<saved, exec, target, lost>>
    BY <2>1 DEF Judges, NoGain
  <2>3. Tells(ledger', target.current, LostDirs)
    BY <1>1, <2>2, NoGainTells DEF TellsInv
  <2> QED
    BY <1>1, <2>2, <2>3 DEF TellsInv, AtProbe, LostDirs
<1>5. ASSUME UNCHANGED <<ledger, saved, exec>>, LostDirs \subseteq LostDirs',
             target'.current = target.current \/ target'.current \in LostDirs'
      PROVE  TellsInv'
  <2>1. \A l \in {ledger, saved} : Tells(l, target'.current, LostDirs')
    BY <1>5, MoreLost, Excused DEF TellsInv
  <2>2. AtProbe'
    BY <1>5 DEF TellsInv, AtProbe, Right
  <2> QED
    BY <1>1, <1>5, <2>1, <2>2 DEF TellsInv
<1>6. CASE StartReclaim \/ Reclaiming
  <2>1. UNCHANGED <<ledger, saved, exec>>
    BY <1>1, <1>6, ReclaimingTyped DEF runVars
  <2>2. lost \subseteq lost'
    BY <1>6 DEF StartReclaim, Reclaiming, TakeInventory, Decide, ReclaimFails, Delete,
       DeleteCut, Fates
  <2>3. target'.current = target.current
    BY <1>1, <1>6 DEF StartReclaim, Reclaiming, TakeInventory, Decide, ReclaimFails,
       Delete, DeleteCut, TypeOK
  <2> QED
    BY <1>5, <2>1, <2>2, <2>3, LostGrows
<1>7. ASSUME NEW d \in Dirs, StraySwitches(d) \/ StrayDeletes(d) PROVE TellsInv'
  <2>1. UNCHANGED <<ledger, saved, exec>> /\ LostDirs' = LostDirs
    BY <1>1, <1>7, StraysTyped DEF runVars, LostDirs
  <2>2. target'.current = target.current \/ target'.current \in LostDirs'
    <3>1. CASE StraySwitches(d)
      <4>1. target'.current = d /\ <<"over", d>> \in lost'
        BY <1>1, <3>1 DEF StraySwitches, SwitchedTo, TypeOK
      <4> QED
        BY <4>1 DEF LostDirs
    <3>2. CASE StrayDeletes(d)
      BY <1>1, <3>2 DEF StrayDeletes, TypeOK
    <3> QED
      BY <1>7, <3>1, <3>2
  <2> QED
    BY <1>5, <2>1, <2>2
<1>8. CASE Restart
  BY <1>1, <1>8, TellsRestart
<1>9. CASE Persist
  BY <1>1, <1>9 DEF Persist, TellsInv, AtProbe, LostDirs
<1>10. CASE UNCHANGED vars \/ \E q \in Requests : BeginPreflight(q) \/ EndPreflight(q)
  <2>1. UNCHANGED <<ledger, saved, exec, target, lost>>
    BY <1>10 DEF vars, BeginPreflight, EndPreflight
  <2> QED
    BY <1>5, <2>1 DEF LostDirs
<1> QED
  BY <1>2, <1>3, <1>4, <1>6, <1>7, <1>8, <1>9, <1>10 DEF Next

\* When nobody is at work, the newest run tells what serves, with the excuses that
\* the property names.
THEOREM LedgerIsRight == Spec => []LedgerTellsWhatServes
<1>1. TellsInv => LedgerTellsWhatServes
  <2> SUFFICES ASSUME TellsInv, NEW r \in Runs, Newest(r),
                      Successful(ledger[r]) \/ ledger[r].restored
               PROVE  \/ target.current = Says(ledger, r)
                      \/ \E c \in lost : c[2] \in {Says(ledger, r), target.current}
                      \/ ledger[target.current[1]].status = "none"
    BY DEF LedgerTellsWhatServes, Says
  <2>1. Right(r, Says(ledger, r), target.current, LostDirs)
    BY DEF TellsInv, Tells, NewestIn, Newest, Claims
  <2>2. CASE target.current[1] > r
    <3>1. target.current[1] \in 0 .. MaxRuns
      BY DEF TellsInv, Access, TypeOK, Dirs, NoDir, NoRun, Runs
    <3>2. target.current[1] \in Runs
      BY <2>2, <3>1 DEF Runs
    <3> QED
      BY <2>2, <3>2 DEF Newest
  <2>3. CASE Says(ledger, r) \in LostDirs \/ target.current \in LostDirs
    BY <2>3 DEF LostDirs
  <2> QED
    BY <2>1, <2>2, <2>3 DEF Right
<1> QED
  BY <1>1, TellsInit, TellsNext, PTL DEF Spec

=============================================================================
