--------------------------- MODULE DeploymentRuns ---------------------------
(***************************************************************************)
(* The ledger of deployment runs (cds/src/services/deployment-run.ts) and  *)
(* those who write it: the deploy handlers of cds/src/routes/branches.ts,  *)
(* the reaper of cds/src/server.ts, and the process that may die at any    *)
(* moment.  A run is recorded before anything is done for it; its handler  *)
(* moves it to a final status; the reaper fails a run whose heartbeat has  *)
(* stopped, whether its handler is dead or only silent.                    *)
(*                                                                         *)
(* The ledger lives in memory and reaches the database by write-behind:    *)
(* `saved` is what a restart will find.  Note that "running" is the status *)
(* of a deployment that succeeded.                                         *)
(***************************************************************************)
EXTENDS Naturals, FiniteSets

CONSTANTS MaxRuns,     \* bound: deploy requests, numbered in the order they begin
          Ring,        \* events a run retains
          Keep,        \* runs a project retains
          MaxSeq,      \* bound: free log events stop at this sequence number
          MaxCrashes   \* bound: deaths of the process

ASSUME BoundsAssumption ==
    /\ MaxRuns \in Nat /\ MaxSeq \in Nat /\ MaxCrashes \in Nat
    /\ Ring \in Nat \ {0} /\ Keep \in Nat \ {0}

Runs == 1..MaxRuns

\* The progression a handler walks; "queued" is skipped by every walk.
Rank == [pending |-> 1, preparing |-> 2, building |-> 3, starting |-> 4,
         verifying |-> 5, running |-> 6]

Final    == {"running", "failed", "cancelled"}
InFlight == {"pending", "preparing", "building", "starting", "verifying"}

\* Heartbeat ages: within the three minutes the self-update drain waits for,
\* beyond them, and beyond the fifteen minutes of the reaper.
Fresh == 0
Quiet == 1
Stale == 2

\* The events of a run are those numbered first..seq.
Run == [status : InFlight \cup Final \cup {"none"}, seq : Nat, first : Nat,
        age : {Fresh, Quiet, Stale}]

Absent == [status |-> "none", seq |-> 0, first |-> 0, age |-> Fresh]
NewRun == [status |-> "pending", seq |-> 1, first |-> 1, age |-> Fresh]

\* Where the deploy handler of a run stands; the awaits are between the phases.
\*   beginning   awaits the flush of the new run
\*   leased      holds the branch operation; prepares, builds, starts
\*   verifying   past the last fence, collects logs
\*   flushingOk, flushingErr    awaits the flush of the outcome
\*   reportingOk, reportingErr  the client knows; smoke test, check run
Phases == {"idle", "beginning", "leased", "verifying",
           "flushingOk", "flushingErr", "reportingOk", "reportingErr", "ended"}

VARIABLES ledger, saved, handler, crashes

vars == <<ledger, saved, handler, crashes>>

TypeOK ==
    /\ ledger \in [Runs -> Run] /\ saved \in [Runs -> Run]
    /\ handler \in [Runs -> Phases]
    /\ crashes \in Nat

Init ==
    /\ ledger = [r \in Runs |-> Absent] /\ saved = [r \in Runs |-> Absent]
    /\ handler = [r \in Runs |-> "idle"]
    /\ crashes = 0

Active(r) == ledger[r].status \in InFlight

-----------------------------------------------------------------------------
(* What the ledger's operations make of a run; a run that is final, or no  *)
(* longer there, is left alone.                                            *)

\* appendEvent(), k times: the oldest events beyond the ring fall out.
Appended(run, k) ==
    LET last == run.seq + k
    IN  [run EXCEPT !.seq = last, !.age = Fresh,
                    !.first = IF last - run.first + 1 > Ring
                              THEN last - Ring + 1 ELSE run.first]

\* Mutant: a late verdict overwrites an earlier one.
EndedAnyway(run, s) ==
    IF run.status = "none" THEN run
    ELSE [Appended(run, 1) EXCEPT !.status = s]

Ended(run, s) ==
    IF run.status \in InFlight THEN [Appended(run, 1) EXCEPT !.status = s]
    ELSE run

\* advanceDeploymentRun(): one event for each status on the way.
Advanced(run, s) ==
    IF run.status \in InFlight /\ Rank[s] > Rank[run.status]
    THEN [Appended(run, Rank[s] - Rank[run.status]) EXCEPT !.status = s]
    ELSE run

Logged(run) == IF run.status \in InFlight THEN Appended(run, 1) ELSE run

Beaten(run) == IF run.status \in InFlight THEN [run EXCEPT !.age = Fresh] ELSE run

\* pruneDeploymentRuns(): the oldest final runs beyond the quota are deleted.
Pruned(runs) ==
    LET present == {r \in Runs : runs[r].status # "none"}
        final   == {r \in present : runs[r].status \in Final}
        older(r) == {q \in final : q < r}
    IN  [r \in Runs |->
           IF r \in final /\ Cardinality(older(r)) + Keep < Cardinality(present)
           THEN Absent ELSE runs[r]]

-----------------------------------------------------------------------------
(* The deploy handler. *)

Goto(r, phase) == handler' = [handler EXCEPT ![r] = phase]

Update(r, run) == ledger' = [ledger EXCEPT ![r] = run]

\* Only the handler moves, or the handler and its run.
Step(r, from, to) ==
    /\ handler[r] = from /\ Goto(r, to)
    /\ UNCHANGED <<ledger, saved, crashes>>

StepWith(r, from, to, run) ==
    /\ handler[r] \in from /\ Goto(r, to)
    /\ Update(r, run)
    /\ UNCHANGED <<saved, crashes>>

\* begin() up to its await: runs are numbered in the order they get here.
Begin(r) ==
    /\ handler[r] = "idle"
    /\ \A q \in 1..(r - 1) : handler[q] # "idle"
    /\ ledger' = Pruned([ledger EXCEPT ![r] = NewRun])
    /\ Goto(r, "beginning")
    /\ UNCHANGED <<saved, crashes>>

\* Mutant: begin() without awaiting the flush.
SavedOrNot(r) == TRUE

\* The flush that begin() awaits covers the new run.
IsSaved(r) == saved[r].status # "none"

\* flush() rejects: begin() throws, and nobody owns the run any more.
BeginThrows(r) == Step(r, "beginning", "ended")

\* beginBranchOperation() refuses the lease, or merges the request.
LeaseDenied(r) ==
    /\ IsSaved(r)
    /\ StepWith(r, {"beginning"}, "ended", Ended(ledger[r], "cancelled"))

LeaseGranted(r) ==
    /\ IsSaved(r)
    /\ StepWith(r, {"beginning"}, "leased", Advanced(ledger[r], "preparing"))

Progress(r, s) ==
    /\ Advanced(ledger[r], s) # ledger[r]
    /\ StepWith(r, {"leased"}, "leased", Advanced(ledger[r], s))

\* A structured event: layers, queue positions, every 15 s in the queue.
Log(r) ==
    /\ handler[r] \in {"leased", "verifying"}
    /\ Active(r) /\ ledger[r].seq < MaxSeq
    /\ Update(r, Logged(ledger[r]))
    /\ UNCHANGED <<saved, handler, crashes>>

\* Build output or a readiness probe.
Beat(r) ==
    /\ Active(r) /\ ledger[r].age # Fresh
    /\ StepWith(r, {"leased"}, "leased", Beaten(ledger[r]))

\* The last fence before the results are collected; building comes first.
Verify(r) ==
    /\ ledger[r].status # "preparing"
    /\ StepWith(r, {"leased"}, "verifying", Advanced(ledger[r], "verifying"))

\* The outcome is written to the branch entry, then flushed.
Conclude(r) == \E phase \in {"flushingOk", "flushingErr"} : Step(r, "verifying", phase)

\* attachVersion() throws on a run the reaper has closed: a deployment whose
\* services all run ends in the catch block of the handler.
AttachThrows(r) == ~Active(r) /\ Step(r, "verifying", "ended")

\* The outcome is durable: the client is told.
Announce(r) ==
    /\ saved[r].status \notin {"pending", "preparing", "building", "starting"}
    /\ \/ Step(r, "flushingOk", "reportingOk")
       \/ Step(r, "flushingErr", "reportingErr")

\* The error is logged, then it is the verdict.
Fail(run) == Ended(Logged(run), "failed")

FlushFails(r) == StepWith(r, {"flushingOk", "flushingErr"}, "ended", Fail(ledger[r]))

\* After the smoke test.
ReportSuccess(r) ==
    StepWith(r, {"reportingOk"}, "ended", Advanced(ledger[r], "running"))

ReportFailure(r) ==
    StepWith(r, {"reportingErr"}, "ended", Ended(ledger[r], "failed"))

\* The lease was superseded: the next fence throws.
Superseded(r) ==
    StepWith(r, {"leased", "verifying"}, "ended", Ended(ledger[r], "cancelled"))

\* Any other error.
Throw(r) == StepWith(r, {"leased", "verifying"}, "ended", Fail(ledger[r]))

Handle(r) ==
    \/ BeginThrows(r) \/ LeaseDenied(r) \/ LeaseGranted(r)
    \/ \E s \in {"building", "starting"} : Progress(r, s)
    \/ Log(r) \/ Beat(r) \/ Verify(r) \/ Conclude(r) \/ AttachThrows(r)
    \/ Announce(r) \/ FlushFails(r) \/ ReportSuccess(r) \/ ReportFailure(r)
    \/ Superseded(r) \/ Throw(r)

-----------------------------------------------------------------------------
(* Time, the reaper, the store and the process. *)

\* Time passes without a sign of life of the run.
Older(run) ==
    IF run.status \in InFlight /\ run.age < Stale
    THEN [run EXCEPT !.age = @ + 1] ELSE run

Age(r) ==
    /\ Active(r) /\ ledger[r].age < Stale
    /\ ledger' = [ledger EXCEPT ![r] = Older(@)]
    /\ saved' = [saved EXCEPT ![r] = Older(@)]
    /\ UNCHANGED <<handler, crashes>>

\* Mutant: the reaper takes a run that only awaits its results for finished.
ExpiredUnlessVerifying(r) ==
    Active(r) /\ ledger[r].status # "verifying" /\ ledger[r].age = Stale

Expired(r) == Active(r) /\ ledger[r].age = Stale

\* reconcileInterrupted(), at startup and every five minutes.
Reap ==
    /\ \E r \in Runs : Expired(r)
    /\ ledger' = [r \in Runs |-> IF Expired(r) THEN Ended(ledger[r], "failed")
                                 ELSE ledger[r]]
    /\ UNCHANGED <<saved, handler, crashes>>

\* The write-behind store catches up with one run.
Persist(r) ==
    /\ saved[r] # ledger[r]
    /\ saved' = [saved EXCEPT ![r] = ledger[r]]
    /\ UNCHANGED <<ledger, handler, crashes>>

\* The process dies and comes back: handlers are gone, the ledger is as saved.
Restart ==
    /\ ledger' = saved
    /\ handler' = [r \in Runs |-> IF handler[r] = "idle" THEN "idle" ELSE "ended"]
    /\ UNCHANGED saved

Crash ==
    /\ crashes < MaxCrashes
    /\ crashes' = crashes + 1
    /\ Restart

Background(r) == Age(r) \/ Persist(r)

Next ==
    \/ \E r \in Runs : Begin(r) \/ Handle(r) \/ Background(r)
    \/ Reap \/ Crash

Spec == Init /\ [][Next]_vars

\* Time passes and the reaper's interval fires; nothing is assumed of handlers.
Fairness == WF_vars(Reap) /\ \A r \in Runs : WF_vars(Age(r))

FairSpec == Spec /\ Fairness

-----------------------------------------------------------------------------
(* Properties. *)

\* "Every deployment creates its DeploymentRun before any side effect": while a
\* handler works on a run in flight, a restart would find the run.
DurableBeforeWork ==
    \A r \in Runs :
      /\ handler[r] \notin {"idle", "beginning", "ended"}
      /\ Active(r)
      => saved[r].status # "none"

\* "Terminal runs are immutable": whoever comes late, the handler or the reaper,
\* the first verdict stands until the run is pruned or a restart loses it.
FirstVerdictStands ==
    [][crashes' = crashes =>
         \A r \in Runs : ledger[r].status \in Final
                           => ledger'[r] \in {ledger[r], Absent}]_vars

\* What is promised of the ledger (RunBook): its readers see of a run whether it
\* is decided, whether it is built, and the number of its last event.
State(status) == IF status = "verifying" THEN "built"
                 ELSE IF status \in InFlight THEN "open" ELSE status

Entry(run) == [state |-> State(run.status), last |-> run.seq]

Stage == [idle |-> "idle", beginning |-> "asking", leased |-> "working",
          verifying |-> "working", flushingOk |-> "working", flushingErr |-> "working",
          reportingOk |-> "reporting", reportingErr |-> "reporting", ended |-> "gone"]

Record  == [r \in Runs |-> Entry(ledger[r])]
Durable == [r \in Runs |-> Entry(saved[r])]
Stages  == [r \in Runs |-> Stage[handler[r]]]

Book == INSTANCE RunBook WITH record <- Record, durable <- Durable, stage <- Stages

\* "Traceable, recoverable": nobody works on a run that a restart would not find,
\* a run says something new only with a new event, the first verdict stands until
\* the run is pruned or a restart loses it, only a handler that has reported its
\* outcome gives a success, and a restart forgets what was not durable, no more.
BookPromise == Book!Spec

\* "It is forbidden to stay in building for ever": a run in flight whose handler
\* is gone is closed at last.
OrphansSettle ==
    \A r \in Runs : (handler[r] = "ended" /\ Active(r)) ~> ~Active(r)

=============================================================================
