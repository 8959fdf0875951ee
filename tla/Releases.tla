------------------------------ MODULE Releases ------------------------------
(***************************************************************************)
(* Releases to one production target                                       *)
(* (cds/src/services/release-service.ts, release-target-lock.ts,           *)
(* release-artifact-retention.ts, the reaper in server.ts): starting,      *)
(* executing, cancelling and rolling back a release, the restoration of    *)
(* its predecessor when the final probe fails, the reaping of runs whose   *)
(* execution is gone, and the reclaiming of old artifacts.  Targets share  *)
(* nothing, so one is enough.  The strategies are the generated ones,      *)
(* which switch the symbolic link "current"; existing-script does less.    *)
(***************************************************************************)
EXTENDS Integers, FiniteSets

CONSTANTS
    MaxRuns,     \* bound: runs ever started
    Past,        \* of these, how many are over when the model begins
    Requests,    \* requests for a release that may be in their preflight
    KeepRecent,  \* RELEASE_ARTIFACT_KEEP_RECENT
    MaxMishaps   \* bound: deaths of the process, and directories with a command
                 \* that has outlived its connection

ASSUME ReleasesAssumption ==
    /\ MaxRuns \in Nat
    /\ Past \in 0 .. MaxRuns
    /\ KeepRecent \in Nat
    /\ MaxMishaps \in Nat

\* Runs in the order of their startedAt.
Runs  == 1 .. MaxRuns
NoRun == 0

\* The directories a run makes on the target: its own and -auto-restore.
Dirs        == Runs \X {"own", "restore"}
Own(r)      == <<r, "own">>
Restored(r) == <<r, "restore">>
NoDir       == <<NoRun, "own">>

VARIABLES
    ledger,    \* releaseRuns: status, previousReleaseId, autoRestoredAt
    saved,     \* the write-behind copy of the ledger
    started,   \* runs ever started; the last of them is the newest
    exec,      \* where the execution of each run stands; inFlight holds it
    aborted,   \* executions whose handle was aborted
    request,   \* requests in their preflight, with the predecessor they saw
    reclaim,   \* the reclaiming of artifacts, which holds the target lock
    target,    \* the links current and previous, and the directories there
    lost,      \* commands whose end was not seen, and their directories
    crashes    \* deaths so far

vars == <<ledger, saved, started, exec, aborted, request, reclaim, target,
          lost, crashes>>

Statuses == {"none", "running", "healthchecking", "rollback_running",
             "success", "failed", "rollback_success", "rollback_failed"}
Stages   == {"none", "connect", "deploy", "built", "probe", "restore",
             "reprobe"}
Records  == [status : Statuses, previous : 0 .. MaxRuns, restored : BOOLEAN]

NoRecord    == [status |-> "none", previous |-> NoRun, restored |-> FALSE]
NotAsking   == [stage |-> "idle", previous |-> NoRun]
NotReclaiming ==
    [stage |-> "idle", expected |-> NoRun, current |-> NoDir,
     listed |-> {}, crowded |-> FALSE, plan |-> {}]

TypeOK ==
    /\ ledger \in [Runs -> Records]
    /\ saved \in [Runs -> Records]
    /\ started \in 0 .. MaxRuns
    /\ exec \in [Runs -> Stages]
    /\ aborted \subseteq Runs
    /\ request \in [Requests -> [stage : {"idle", "probing"},
                                 previous : 0 .. MaxRuns]]
    /\ reclaim \in [stage : {"idle", "asking", "seen", "deleting"},
                    expected : 0 .. MaxRuns, current : Dirs \cup {NoDir},
                    listed : SUBSET Dirs, crowded : BOOLEAN,
                    plan : SUBSET Dirs]
    /\ target \in [current : Dirs \cup {NoDir}, previous : Dirs \cup {NoDir},
                   dirs : SUBSET Dirs]
    /\ lost \subseteq {"switch", "delete", "over"} \X Dirs
    /\ crashes \in Nat

\* The target's past: builds that failed and left their directories, and then
\* a success, which serves.
PastRun(r) == [status |-> IF r < Past THEN "failed" ELSE "success",
               previous |-> NoRun, restored |-> FALSE]

Init ==
    /\ ledger = [r \in Runs |-> IF r <= Past THEN PastRun(r) ELSE NoRecord]
    /\ saved = ledger /\ started = Past
    /\ exec = [r \in Runs |-> "none"] /\ aborted = {}
    /\ request = [q \in Requests |-> NotAsking]
    /\ reclaim = NotReclaiming
    /\ target = [current |-> <<Past, "own">>, previous |-> NoDir,
                 dirs |-> {Own(r) : r \in 1 .. Past}]
    /\ lost = {} /\ crashes = 0

runVars == <<ledger, saved, started, exec, aborted, request>>

-----------------------------------------------------------------------------
(* The ledger. *)

InFlight(rec)   == rec.status \in {"running", "healthchecking", "rollback_running"}
Successful(rec) == rec.status \in {"success", "rollback_success"}
Final(rec)      == rec.status \notin {"none", "running", "healthchecking",
                                      "rollback_running"}

\* getLatestSuccessfulReleaseRun(): one run, or NoRun.
LatestSuccess(l) ==
    {p \in 0 .. MaxRuns :
        /\ p # NoRun => Successful(l[p])
        /\ \A r \in Runs : Successful(l[r]) => r <= p}

\* Mutant: a cancelled run gets a status of its own.
CancelledStatus(status) == "cancelled"

FailedStatus(status) ==
    IF status = "rollback_running" THEN "rollback_failed" ELSE "failed"

\* failRun(): a run that is over is left alone.
FailRun(l, r) ==
    IF InFlight(l[r]) THEN [l EXCEPT ![r].status = FailedStatus(@)] ELSE l

\* Mutant: patchStatus() does not look at the transition.
AnyTransition(l, r, to) == [l EXCEPT ![r].status = to]

\* patchStatus() at the end of an execution: it throws when the run was
\* cancelled in the meantime, and failRun() then finds a final run.
Verdict(l, r, to) == IF InFlight(l[r]) THEN [l EXCEPT ![r].status = to] ELSE l

Executing == {r \in Runs : exec[r] # "none"}

\* Mutant: the reaper has given up.
NoOrphans(l) == {}

\* Runs in flight whose execution is gone.
Orphans(l) == {r \in Runs : InFlight(l[r]) /\ exec[r] = "none"}

\* reconcileInterruptedReleases(): an orphan may be silent for less than
\* RELEASE_HEARTBEAT_STALE_MS, and then it is left alone for now.
Swept(l, silent) ==
    [r \in Runs |-> IF r \in silent
                    THEN [l[r] EXCEPT !.status = FailedStatus(@)] ELSE l[r]]
Sweeps(l) == {Swept(l, silent) : silent \in SUBSET Orphans(l)}

\* Mutant: an execution counts until its run is over, not until it ends.
NotSettling(r) == FALSE

Settling(r) == exec[r] # "none"

\* Mutant: nobody looks at the target lock.
NeverLocked == FALSE

Locked == reclaim.stage # "idle"

RunsDone(l) == \A r \in Runs : ~InFlight(l[r]) /\ ~Settling(r)

\* isTargetBusy().
TargetFree(l) == RunsDone(l) /\ ~Locked

-----------------------------------------------------------------------------
(* Starting. *)

\* Everything after the awaits of a start is one turn: sweep, busy check,
\* addReleaseRun(), and the execution up to its first SSH command.
Admit(status, stage, previous) ==
    /\ started < MaxRuns
    /\ started' = started + 1
    /\ \E swept \in Sweeps(ledger) :
         /\ TargetFree(swept)
         /\ ledger' = [swept EXCEPT ![started + 1] =
              [status |-> status, previous |-> previous, restored |-> FALSE]]
    /\ exec' = [exec EXCEPT ![started + 1] = stage]
    /\ UNCHANGED <<saved, aborted, reclaim, target, lost, crashes>>

\* preflight() looks up the predecessor and then probes the target.
BeginPreflight(q) ==
    /\ request[q].stage = "idle"
    /\ \E p \in LatestSuccess(ledger) :
         request' = [request EXCEPT ![q] = [stage |-> "probing", previous |-> p]]
    /\ UNCHANGED <<ledger, saved, started, exec, aborted, reclaim, target,
                   lost, crashes>>

\* A blocking check fails, the branch has moved on, or the client only asked
\* for the preflight.
EndPreflight(q) ==
    /\ request[q].stage = "probing"
    /\ request' = [request EXCEPT ![q] = NotAsking]
    /\ UNCHANGED <<ledger, saved, started, exec, aborted, reclaim, target,
                   lost, crashes>>

StartRelease(q) ==
    /\ request[q].stage = "probing"
    /\ Admit("running", "connect", request[q].previous)
    /\ request' = [request EXCEPT ![q] = NotAsking]

\* The target is busy; the sweep has happened.
StartRefused(q) ==
    /\ request[q].stage = "probing"
    /\ \E swept \in Sweeps(ledger) : ~TargetFree(swept) /\ ledger' = swept
    /\ request' = [request EXCEPT ![q] = NotAsking]
    /\ UNCHANGED <<saved, started, exec, aborted, reclaim, target, lost, crashes>>

\* findReusablePreflight(): no await, and the predecessor is looked up anew.
StartReusing ==
    /\ \E p \in LatestSuccess(ledger) : Admit("running", "connect", p)
    /\ UNCHANGED request

\* startRollback(): from any run, to any successful one.
StartRollback ==
    /\ \E r \in Runs : Successful(ledger[r])
    /\ \E r \in Runs :
         /\ ledger[r].status # "none"
         /\ Admit("rollback_running", "deploy", r)
    /\ UNCHANGED request

-----------------------------------------------------------------------------
(* Executing.  sshExec() of an aborted handle rejects at once: the stages of *)
(* SSH commands then only Fail.                                              *)

Advance(r, stage) == exec' = [exec EXCEPT ![r] = stage]

\* The finally of execute(): the handle goes when the execution ends.
Exit(r) ==
    /\ exec' = [exec EXCEPT ![r] = "none"]
    /\ aborted' = aborted \ {r}

KeepsOn == UNCHANGED <<saved, started, request, reclaim, crashes>>

\* Commands that nobody awaits any more, on these directories, may run on.
Mishap           == Cardinality(lost) + crashes < MaxMishaps
Fates(kind, ds) == {lost} \cup (IF Mishap THEN {lost \cup {kind} \X ds} ELSE {})

\* The directories that executions are switching to.
Switching ==
    {Own(r) : r \in {s \in Runs : exec[s] \in {"deploy", "built"}}}
      \cup {Restored(r) : r \in {s \in Runs : exec[s] = "restore"}}

Connected(r) ==
    /\ exec[r] = "connect" /\ r \notin aborted
    /\ Advance(r, "deploy")
    /\ KeepsOn /\ UNCHANGED <<ledger, aborted, target, lost>>

\* On the target: the worktree is there, the link is not yet switched.
Built(r) ==
    /\ exec[r] = "deploy" /\ r \notin aborted
    /\ target' = [target EXCEPT !.dirs = @ \cup {Own(r)}]
    /\ Advance(r, "built")
    /\ KeepsOn /\ UNCHANGED <<ledger, aborted, lost>>

\* A rollback has no status of its own for the probe.
Healthchecking(l, r) ==
    IF l[r].status = "running" THEN [l EXCEPT ![r].status = "healthchecking"] ELSE l

\* The scripts: previous keeps what current was, unless this is a restoration,
\* then current is replaced.
SwitchedTo(d) ==
    [target EXCEPT
       !.previous = IF target.current = NoDir \/ d[2] = "restore"
                    THEN @ ELSE target.current,
       !.current = d, !.dirs = @ \cup {d}]

Switched(r) ==
    /\ exec[r] = "built" /\ r \notin aborted
    /\ target' = SwitchedTo(Own(r))
    /\ ledger' = Healthchecking(ledger, r)
    /\ Advance(r, "probe")
    /\ KeepsOn /\ UNCHANGED <<aborted, lost>>

\* The connection closes without an exit code, which counts as zero.
EndedUnseen(r) ==
    /\ Mishap /\ exec[r] \in {"deploy", "built"} /\ r \notin aborted
    /\ ledger' = Healthchecking(ledger, r)
    /\ Advance(r, "probe")
    /\ lost' = lost \cup {<<"switch", Own(r)>>}
    /\ KeepsOn /\ UNCHANGED <<aborted, target>>

\* An exit code other than zero: the scripts switch last.
CommandFails(r) ==
    /\ exec[r] \in {"connect", "deploy", "built"} /\ r \notin aborted
    /\ ledger' = FailRun(ledger, r)
    /\ Exit(r)
    /\ KeepsOn /\ UNCHANGED <<target, lost>>

\* The abort of a cancellation or of RELEASE_EXEC_TIMEOUT_MS arrives.
CommandCut(r) ==
    /\ exec[r] \in {"connect", "deploy", "built"}
    /\ ledger' = FailRun(ledger, r)
    /\ Exit(r)
    /\ lost' \in Fates("switch", Switching \cap {Own(r)})
    /\ KeepsOn /\ UNCHANGED target

IsRollback(r) == ledger[r].status \in {"rollback_running", "rollback_failed"}

ProbePasses(r) ==
    /\ exec[r] = "probe"
    /\ ledger' = Verdict(ledger, r, IF IsRollback(r) THEN "rollback_success"
                                                     ELSE "success")
    /\ Exit(r)
    /\ KeepsOn /\ UNCHANGED <<target, lost>>

\* Mutant: a failed probe restores whatever the user has said.
AlsoWhenCancelled(r) ==
    /\ ~IsRollback(r)
    /\ ledger[r].previous # NoRun /\ ledger[ledger[r].previous].status # "none"

\* restorePreviousAfterFailedProbe(): is there anything to restore?
MayRestore(r) ==
    /\ ~IsRollback(r) /\ r \notin aborted
    /\ ledger[r].previous # NoRun /\ ledger[ledger[r].previous].status # "none"

ProbeFails(r) ==
    /\ exec[r] = "probe"
    /\ IF MayRestore(r)
       THEN Advance(r, "restore") /\ UNCHANGED <<ledger, aborted>>
       ELSE ledger' = FailRun(ledger, r) /\ Exit(r)
    /\ KeepsOn /\ UNCHANGED <<target, lost>>

RestoreDone(r) ==
    /\ exec[r] = "restore" /\ r \notin aborted
    /\ target' = SwitchedTo(Restored(r))
    /\ Advance(r, "reprobe")
    /\ KeepsOn /\ UNCHANGED <<ledger, aborted, lost>>

RestoreEndedUnseen(r) ==
    /\ Mishap /\ exec[r] = "restore" /\ r \notin aborted
    /\ lost' = lost \cup {<<"switch", Restored(r)>>}
    /\ Advance(r, "reprobe")
    /\ KeepsOn /\ UNCHANGED <<ledger, aborted, target>>

\* Mutant: autoRestoredAt is written whether the second probe passes or not.
StampsAlways(l, r, passed) == [FailRun(l, r) EXCEPT ![r].restored = TRUE]

\* autoRestoredAt is written on a passing probe; the run fails in any case.
Stamped(l, r, passed) == [FailRun(l, r) EXCEPT ![r].restored = passed]

\* It fails or is cut off.
RestoreFails(r) ==
    /\ exec[r] = "restore"
    /\ target' \in {target, [target EXCEPT !.dirs = @ \cup {Restored(r)}]}
    /\ lost' \in Fates("switch", {Restored(r)})
    /\ ledger' = Stamped(ledger, r, FALSE)
    /\ Exit(r)
    /\ KeepsOn

Reprobed(r) ==
    /\ exec[r] = "reprobe"
    /\ \E passed \in BOOLEAN : ledger' = Stamped(ledger, r, passed)
    /\ Exit(r)
    /\ KeepsOn /\ UNCHANGED <<target, lost>>

\* The execution ends with an exception and so does failRun(): execute() only
\* logs it, and the run stays in flight without an execution.
SettleFails(r) ==
    /\ exec[r] # "none"
    /\ Exit(r)
    /\ lost' \in Fates("switch", {d \in Switching : d[1] = r})
    /\ KeepsOn /\ UNCHANGED <<ledger, target>>

Execution(r) ==
    \/ Connected(r) \/ Built(r) \/ Switched(r) \/ EndedUnseen(r)
    \/ CommandFails(r) \/ CommandCut(r) \/ ProbePasses(r) \/ ProbeFails(r)
    \/ RestoreDone(r) \/ RestoreFails(r) \/ RestoreEndedUnseen(r) \/ Reprobed(r)
    \/ SettleFails(r)

\* cancelRelease(): abort the handle, fail the run; the execution ends later.
Cancel(r) ==
    /\ InFlight(ledger[r])
    /\ ledger' = [ledger EXCEPT ![r].status = FailedStatus(@)]
    /\ aborted' = IF exec[r] = "none" THEN aborted ELSE aborted \cup {r}
    /\ UNCHANGED <<saved, started, exec, request, reclaim, target, lost, crashes>>

\* The interval of the reaper, or the sweep of a rollback that is refused.
Reap ==
    /\ ledger' \in Sweeps(ledger) /\ ledger' # ledger
    /\ UNCHANGED <<saved, started, exec, aborted, request, reclaim, target,
                   lost, crashes>>

-----------------------------------------------------------------------------
(* Reclaiming. *)

ReclaimKeeps == UNCHANGED runVars /\ UNCHANGED crashes

\* acquireReleaseTargetLock(); the ledger is read before the target.  Whether
\* a release is in flight is not asked yet.
StartReclaim ==
    /\ ~Locked
    /\ \E p \in LatestSuccess(ledger) :
         reclaim' = [NotReclaiming EXCEPT !.stage = "asking", !.expected = p]
    /\ ReclaimKeeps /\ UNCHANGED <<target, lost>>

\* buildReleaseInventoryCommand(), on the target.  That somebody is writing
\* there meanwhile is noted for the properties only.
TakeInventory ==
    /\ reclaim.stage = "asking"
    /\ reclaim' = [reclaim EXCEPT !.stage = "seen", !.current = target.current,
                     !.listed = target.dirs \ {target.previous},
                     !.crowded = Executing # {}]
    /\ ReclaimKeeps /\ UNCHANGED <<target, lost>>

\* What runs behind a -auto-restore directory is the predecessor.
Effective(d) ==
    IF d[2] = "restore" /\ ledger[d[1]].previous # NoRun
    THEN ledger[d[1]].previous ELSE d[1]

\* detectReleaseRemoteDrift().
InSync ==
    /\ reclaim.current # NoDir /\ reclaim.expected # NoRun
    /\ Effective(reclaim.current) = reclaim.expected

\* Mutant: only the ledger says what is still needed.
KeepsByLedger(recent) == recent

\* The link current protects its directory whatever the ledger says.
Protected(recent) == recent \cup {reclaim.current}

Recent == {r \in Runs : /\ Successful(ledger[r])
                        /\ Cardinality({s \in Runs : s > r /\ Successful(ledger[s])})
                             < KeepRecent}

\* computeReleaseArtifactRetentionPlan(); the directory of the previous link
\* was protected as well.
Plan == reclaim.listed \ Protected(Recent \X {"own", "restore"})

\* The answer is there: busy check without the own lock, drift, plan.
Decide ==
    /\ reclaim.stage = "seen"
    /\ reclaim' = IF RunsDone(ledger) /\ InSync /\ Plan # {}
                  THEN [reclaim EXCEPT !.stage = "deleting", !.plan = Plan]
                  ELSE NotReclaiming
    /\ ReclaimKeeps /\ UNCHANGED <<target, lost>>

\* SSH fails before the command: no inventory, or nothing is deleted.
ReclaimFails ==
    /\ reclaim.stage \in {"asking", "seen", "deleting"}
    /\ reclaim' = NotReclaiming
    /\ ReclaimKeeps /\ UNCHANGED <<target, lost>>

\* maxRemovals and failing removals leave some of them.
Delete ==
    /\ reclaim.stage = "deleting"
    /\ \E ds \in SUBSET reclaim.plan :
         target' = [target EXCEPT !.dirs = @ \ ds]
    /\ reclaim' = NotReclaiming
    /\ ReclaimKeeps /\ UNCHANGED lost

\* The deletion is cut off after a minute.
DeleteCut ==
    /\ reclaim.stage = "deleting"
    /\ lost' \in Fates("delete", reclaim.plan)
    /\ reclaim' = NotReclaiming
    /\ ReclaimKeeps /\ UNCHANGED target

Reclaiming ==
    TakeInventory \/ Decide \/ ReclaimFails \/ Delete \/ DeleteCut

-----------------------------------------------------------------------------
(* The target and the process. *)

\* A command that nobody awaits reaches its end.
StraySwitches(d) ==
    /\ <<"switch", d>> \in lost
    /\ target' = SwitchedTo(d)
    /\ lost' = (lost \ {<<"switch", d>>}) \cup {<<"over", d>>}
    /\ UNCHANGED runVars /\ UNCHANGED <<reclaim, crashes>>

StrayDeletes(d) ==
    /\ <<"delete", d>> \in lost
    /\ target' = [target EXCEPT !.dirs = @ \ {d}]
    /\ lost' = (lost \ {<<"delete", d>>}) \cup {<<"over", d>>}
    /\ UNCHANGED runVars /\ UNCHANGED <<reclaim, crashes>>

\* The store writes behind; it matters as long as the process may still die.
Persist ==
    /\ Mishap /\ saved # ledger
    /\ saved' = ledger
    /\ UNCHANGED <<ledger, started, exec, aborted, request, reclaim, target,
                   lost, crashes>>

\* The process dies and starts again; the first pass of the reaper takes every
\* run in flight for an orphan.
Restart ==
    /\ Mishap
    /\ crashes' = crashes + 1
    /\ ledger' = Swept(saved, {r \in Runs : InFlight(saved[r])})
    /\ exec' = [r \in Runs |-> "none"] /\ aborted' = {}
    /\ request' = [q \in Requests |-> NotAsking]
    /\ reclaim' = NotReclaiming
    /\ lost' \in Fates("switch", Switching) \cup Fates("delete", reclaim.plan)
    /\ UNCHANGED <<saved, started, target>>

Next ==
    \/ \E q \in Requests : \/ BeginPreflight(q) \/ EndPreflight(q)
                           \/ StartRelease(q) \/ StartRefused(q)
    \/ StartReusing \/ StartRollback
    \/ \E r \in Runs : Execution(r) \/ Cancel(r)
    \/ Reap \/ StartReclaim \/ Reclaiming
    \/ \E d \in Dirs : StraySwitches(d) \/ StrayDeletes(d)
    \/ Persist \/ Restart

Spec == Init /\ [][Next]_vars

\* SSH commands and probes have timeouts, the reaper an interval.
FairSpec ==
    /\ Spec
    /\ \A r \in Runs : WF_vars(Execution(r))
    /\ WF_vars(Reap) /\ WF_vars(Reclaiming)

-----------------------------------------------------------------------------
(* Properties. *)

\* At most one execution exists, whatever the ledger says of its run; the run
\* in flight, if its execution is alive, is that one; and nobody executes while
\* artifacts are being deleted: two writers would tear the same worktree and
\* links apart.
OneWriter ==
    /\ \A r \in Executing, s \in Runs :
         s \in Executing \/ InFlight(ledger[s]) => r = s
    /\ reclaim.stage = "deleting" => Executing = {}

\* The users of the target follow the mutex.
Janitor == NoRun
Mutex == INSTANCE TargetMutex WITH
    Users   <- Runs \cup {Janitor},
    writers <- Executing \cup (IF reclaim.stage = "deleting" THEN {Janitor} ELSE {}),
    strays  <- {c[2] : c \in lost}
UsersTakeTurns == Mutex!Spec

Newest(r) == ledger[r].status # "none" /\ \A s \in Runs : s > r => ledger[s].status = "none"

\* "The latest successful run is what is online": when nobody is at work, the
\* target serves what the newest run says it left there.  Excused are
\* directories whose command nobody saw end, on either side, and runs that a
\* restart has forgotten.
LedgerTellsWhatServes ==
    Executing = {} =>
      \A r \in Runs :
        LET says == IF ledger[r].restored THEN Restored(r) ELSE Own(r)
        IN  Newest(r) /\ (Successful(ledger[r]) \/ ledger[r].restored) =>
              \/ target.current = says
              \/ \E c \in lost : c[2] \in {says, target.current}
              \/ ledger[target.current[1]].status = "none"

\* A verdict is final, a cancellation against a success that comes later and
\* the reaper against both; only a restart may go back.
VerdictsStand ==
    [][crashes' = crashes =>
         \A r \in Runs : Final(ledger[r]) => ledger'[r].status = ledger[r].status]_vars

\* "Once cancelled, nothing more is written to the target": no stage that runs a
\* command begins after the cancellation.
CancelledWritesNoMore ==
    [][\A r \in Runs : r \in aborted /\ exec'[r] # exec[r] => exec'[r] = "none"]_vars

\* What is to be deleted is never what serves, unless a release was at work while
\* the inventory was taken, or a lost command has switched.
ReclaimSparesServing ==
    reclaim.stage = "deleting" /\ ~reclaim.crowded /\ target.current \in reclaim.plan
      => \E c \in lost : c[2] = target.current

\* "A target is never locked for good": whoever occupies it, it becomes free.
TargetFreesUp == ~TargetFree(ledger) ~> TargetFree(ledger)

\* "The previous version is looked up now": a failed probe restores the latest
\* version that had succeeded when the run began.
RestoresTheLatest ==
    \A r \in Runs : exec[r] = "restore" =>
      \A s \in Runs : s < r /\ Successful(ledger[s]) => s <= ledger[r].previous

=============================================================================
