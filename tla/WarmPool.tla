------------------------------ MODULE WarmPool ------------------------------
(***************************************************************************)
(* The warm pool of branches (cds/src/services/scheduler.ts) with its      *)
(* callbacks in cds/src/index.ts: the periodic tick that cools what is     *)
(* idle or too much, the cooling itself, the waking of a cooled branch by  *)
(* a visitor of its preview, the recovery of a branch whose deploy was cut *)
(* off, and what the operations of the users (deploy, restart, stop), the  *)
(* events of docker and a restart of the process do to the same records.   *)
(* A branch has one service; its containers are local.                     *)
(***************************************************************************)
EXTENDS Integers, FiniteSets

CONSTANTS
    Branches,
    Ticks,      \* passes of tick() that may overlap: setInterval does not wait
    Routes,     \* requests to POST /scheduler/cool that may be in flight
    MaxHot,     \* maxHotBranches; 0 means no limit
    MaxOps,     \* bound: operations of users
    MaxMishaps  \* bound: containers that exit, saves that throw, deaths of
                \* the process

ASSUME WarmPoolAssumption ==
    /\ IsFiniteSet(Branches) /\ Branches # {}
    /\ Ticks \cap Routes = {} /\ (Ticks \cup Routes) \cap Branches = {}
    /\ MaxHot \in Nat /\ MaxOps \in Nat /\ MaxMishaps \in Nat

\* Who calls markCold(): a tick, the route, or the waking of a branch.
Callers == Ticks \cup Routes \cup Branches

VARIABLES
    branch,   \* the fields of BranchEntry that matter here
    up,       \* branches whose container runs, which only docker knows
    owner,    \* who holds the branch-wide lease of the coordinator
    cool,     \* the coolFn each caller awaits, and the branch it cools
    wake,     \* where the auto-wake of each branch stands (revivingSlugs)
    user,     \* the operation a user has in flight on each branch
    tick,     \* where each pass of tick() stands
    asked,    \* history: what a user last asked of the branch
    ops,      \* operations of users so far, of those the bound admits
    mishaps,  \* containers that exited, saves that threw and deaths so far
    recover   \* where the recovery of each branch stands (recoveringSlugs)

vars == <<branch, up, owner, cool, wake, user, tick, asked, ops, mishaps, recover>>

Statuses == {"running", "stopping", "idle", "restarting", "building", "error"}
Services == {"running", "starting", "building", "stopping", "stopped", "error"}
Heats    == {"unset", "hot", "cooling", "cold"}
Ages     == {"never", "old", "recent"}
Sources  == {"scheduler", "other"}   \* lastStopSource
Messages == {"none", "cut", "other"} \* errorMessage; "cut": by a restart of CDS
Entries  == [status : Statuses, service : Services, heat : Heats, age : Ages,
             source : Sources, message : Messages, pinned : BOOLEAN]
\* Nobody holds the lease; or nobody does since a save threw under the last one,
\* or under the recovery, which takes none.
Nobody   == <<"nobody">>
Thrown   == <<"nobody", "thrown">>
Holder(kind, x) == <<kind, x>>
Holders  == {Nobody, Thrown} \cup {Holder("cool", c) : c \in Callers}
                \cup {Holder(k, b) : k \in {"wake", "user"}, b \in Branches}

TypeOK ==
    /\ branch \in [Branches -> Entries]
    /\ up \subseteq Branches
    /\ owner \in [Branches -> Holders]
    /\ cool \in [Callers -> [at : {"off", "stopping", "stopped", "archiving"},
                             on : Branches]]
    /\ wake \in [Branches -> {"off", "evicting", "starting", "probing"}]
    /\ user \in [Branches -> [op : {"none", "stop", "restart", "deploy"},
                              done : BOOLEAN]]
    /\ tick \in [Ticks -> [at : {"off", "idle", "capacity"},
                           todo : SUBSET Branches,
                           hot : Nat]]
    /\ asked \in [Branches -> {"run", "stop"}]
    /\ ops \in 0 .. MaxOps /\ mishaps \in 0 .. MaxMishaps
    /\ recover \in [Branches -> {"off", "posting", "waiting"}]

NotCooling == [at |-> "off", on |-> CHOOSE b \in Branches : TRUE]
NoTick     == [at |-> "off", todo |-> {}, hot |-> 0]
NoRequest  == [op |-> "none", done |-> FALSE]

\* After a start of the process: what ran is hot, of what was being deployed the
\* deploy was cut off, the rest was never deployed.
Started(was) ==
    [status |-> CASE was = "up" -> "running" [] was = "cut" -> "error"
                  [] OTHER -> "idle",
     service |-> CASE was = "up" -> "running" [] was = "cut" -> "error"
                   [] OTHER -> "stopped",
     heat |-> IF was = "up" THEN "hot" ELSE "unset",
     age |-> IF was = "new" THEN "never" ELSE "recent",
     source |-> "other", message |-> IF was = "cut" THEN "cut" ELSE "none",
     pinned |-> FALSE]

Init ==
    /\ \E was \in [Branches -> {"up", "cut", "new"}] :
          /\ branch = [b \in Branches |-> Started(was[b])]
          /\ up = {b \in Branches : was[b] = "up"}
    /\ owner = [b \in Branches |-> Nobody]
    /\ cool = [c \in Callers |-> NotCooling]
    /\ wake = [b \in Branches |-> "off"]
    /\ user = [b \in Branches |-> NoRequest]
    /\ tick = [t \in Ticks |-> NoTick]
    /\ asked = [b \in Branches |-> "run"]
    /\ ops \in 0 .. MaxOps /\ mishaps \in 0 .. MaxMishaps
    /\ recover = [b \in Branches |-> "off"]

-----------------------------------------------------------------------------
(* What the scheduler sees. *)

\* getHotBranches()
IsHot(e) == e.heat = "hot" \/ (e.heat = "unset" /\ e.status = "running")
Hot      == {b \in Branches : IsHot(branch[b])}

Older(x, y) == (x = "never" /\ y # "never") \/ (x = "old" /\ y = "recent")

\* selectLruVictim(): the least recently visited; two visits of the same age
\* may have been in either order.
Victims(hot) ==
    LET free == {b \in hot : ~branch[b].pinned}
    IN  {v \in free : \A b \in free : ~Older(branch[b].age, branch[v].age)}

OverCapacity(n) == MaxHot > 0 /\ n > MaxHot

\* The lease is free, or a cooling holds it, whose priority is lower than that
\* of everybody else.
Free(b)        == owner[b] \in {Nobody, Thrown}
Preemptible(b) == owner[b][1] \in {"nobody", "cool"}

-----------------------------------------------------------------------------
(* Cooling: markCold() and its coolFn. *)

\* Mutant: what does not run needs no cooling.
OnlyRunning(b) ==
    branch[b].pinned \/ branch[b].heat \in {"cold", "cooling"}
        \/ branch[b].status # "running"

\* markCold() does nothing.
Ignored(b) == branch[b].pinned \/ branch[b].heat \in {"cold", "cooling"}

Serving(e) == e.service \in {"running", "starting"}

\* markCold() and coolFn() up to the first await.  On a branch that is busy
\* begin() throws, and markCold() reverts to hot.
CoolingEntry(e) ==
    [e EXCEPT !.heat = "cooling", !.status = "stopping",
              !.service = IF Serving(e) THEN "stopping" ELSE @]
Attempted(b) ==
    IF Free(b) THEN CoolingEntry(branch[b]) ELSE [branch[b] EXCEPT !.heat = "hot"]
AttemptBy(c, b) ==
    [cool EXCEPT ![c] =
        IF Free(b)
        THEN [at |-> IF Serving(branch[b]) THEN "stopping" ELSE "archiving",
              on |-> b]
        ELSE @]
LeaseTo(c, b) ==
    [owner EXCEPT ![b] = IF Free(b) THEN Holder("cool", c) ELSE @]

MarkCold(c, b) ==
    IF Ignored(b)
    THEN UNCHANGED <<branch, owner, cool>>
    ELSE /\ branch' = [branch EXCEPT ![b] = Attempted(b)]
         /\ owner' = LeaseTo(c, b)
         /\ cool' = AttemptBy(c, b)

\* dockerEventMonitor: a container died whose service was not being stopped.  It
\* does not ask who holds the lease.
Watched(e) == e.service \in {"running", "starting", "building"}
Died(e, service, status) ==
    IF Watched(e)
    THEN [e EXCEPT !.service = service, !.status = status, !.source = "other",
                   !.message = "other"]
    ELSE e

\* A docker stop as CDS announces it, docker's own end of a container, and a
\* failure.
StoppedBy(e) == Died(e, "stopped", "idle")
FailedBy(e)  == Died(e, "error", "error")

\* What docker makes of a stop, as pairs of the entry and whether it runs then.
Stops(b) ==
    {<<branch[b], b \in up>>,
     <<IF b \in up THEN StoppedBy(branch[b]) ELSE branch[b], FALSE>>}

\* And of a docker restart, or an rm -f and a run: what ran is killed first,
\* unless it fails before.
Restarts(b) ==
    {<<branch[b], b \in up>>} \cup
    (IF b \in up THEN {StoppedBy(branch[b]), FailedBy(branch[b])} ELSE {branch[b]})
        \X BOOLEAN

\* The entry and the container of b become those of the pair.
Becomes(b, pair) ==
    /\ branch' = [branch EXCEPT ![b] = pair[1]]
    /\ up' = IF pair[2] THEN up \cup {b} ELSE up \ {b}

\* The docker stop takes effect, or fails, which coolFn() takes for a success.
\* It was sent under the lease, but may come after an operation that
\* superseded it.
CoolStops(c) ==
    /\ cool[c].at = "stopping"
    /\ cool' = [cool EXCEPT ![c].at = "stopped"]
    /\ \E pair \in Stops(cool[c].on) : Becomes(cool[c].on, pair)
    /\ UNCHANGED <<owner, wake, user, tick, asked, ops, mishaps, recover>>

\* The stop returns; the logs of the containers are archived next.
CoolStopped(c) ==
    /\ cool[c].at = "stopped"
    /\ cool' = [cool EXCEPT ![c].at = "archiving"]
    /\ branch' = [branch EXCEPT ![cool[c].on].service = "stopped"]
    /\ UNCHANGED <<up, owner, wake, user, tick, asked, ops, mishaps, recover>>

Holds(c) == owner[cool[c].on] = Holder("cool", c)

\* Mutants: a failure leaves the heat as it is, or in a state of its own.
NeverReverts(held) == IF held THEN "cold" ELSE "cooling"
StaysWarming(held) == IF held THEN "cold" ELSE "warming"

\* markCold() sets the heat by how coolFn() ended.
HeatAfter(held) == IF held THEN "cold" ELSE "hot"

\* The capacity pass counts a success and stops at a failure.
TickAfter(t, held) ==
    IF tick[t].at # "capacity" THEN tick[t]
    ELSE IF held THEN [tick[t] EXCEPT !.hot = @ - 1]
    ELSE NoTick

\* Mutant: nobody asks whether the lease is still current.
NeverAsserted(b) == b \in Branches

\* assertCurrent() before a service is restarted.
StillAwake(b) == owner[b] = Holder("wake", b)
WakeAfter(b)  == IF StillAwake(b) THEN "starting" ELSE "off"

\* Whoever awaited the cooling goes on.
GoesOn(c, cold) ==
    /\ cool' = [cool EXCEPT ![c] = NotCooling]
    /\ tick' = [t \in Ticks |-> IF t = c THEN TickAfter(t, cold) ELSE tick[t]]
    /\ wake' = [w \in Branches |-> IF w = c THEN WakeAfter(w) ELSE wake[w]]

\* The end of coolFn(): the status is written before assertCurrent(), so also
\* by a cooling that was superseded.
CoolEnds(c) ==
    LET b == cool[c].on IN
    /\ cool[c].at = "archiving"
    /\ branch' = [branch EXCEPT ![b].status = "idle", ![b].source = "scheduler",
                                ![b].heat = HeatAfter(Holds(c))]
    /\ owner' = [owner EXCEPT ![b] = IF Holds(c) THEN Nobody ELSE @]
    /\ GoesOn(c, Holds(c))
    /\ UNCHANGED <<up, user, asked, ops, mishaps, recover>>

\* The archive of the logs throws: the status is left as it is, and the next tick
\* may try again.
CoolThrows(c) ==
    LET b == cool[c].on IN
    /\ cool[c].at = "archiving" /\ mishaps < MaxMishaps
    /\ branch' = [branch EXCEPT ![b].heat = HeatAfter(FALSE)]
    /\ owner' = [owner EXCEPT ![b] = IF Holds(c) THEN Thrown ELSE @]
    /\ GoesOn(c, FALSE)
    /\ mishaps' = mishaps + 1
    /\ UNCHANGED <<up, user, asked, ops, recover>>

\* POST /scheduler/cool/:slug
CoolRoute(r, b) ==
    /\ cool[r].at = "off" /\ ops < MaxOps
    /\ ~Ignored(b)
    /\ MarkCold(r, b)
    /\ ops' = ops + 1
    /\ UNCHANGED <<up, wake, user, tick, asked, mishaps, recover>>

-----------------------------------------------------------------------------
(* tick(): first the idle, then the surplus.  The model lets others step in *)
(* between two branches of a pass; the code does so only while it awaits.   *)

Waits(c) == cool[c].at # "off"

TickStart(t) ==
    /\ tick[t].at = "off"
    /\ tick' = [tick EXCEPT ![t] = [at |-> "idle", todo |-> Hot, hot |-> 0]]
    /\ UNCHANGED <<branch, up, owner, cool, wake, user, asked, ops, mishaps, recover>>

\* now - lastAccess > idleTTLMs, with lastAccess as it is now
PastTTL(e) == e.age = "old"

TickIdle(t) ==
    /\ tick[t].at = "idle" /\ ~Waits(t)
    /\ \E b \in tick[t].todo :
          /\ tick' = [tick EXCEPT ![t].todo = @ \ {b}]
          /\ IF PastTTL(branch[b]) THEN MarkCold(t, b)
                                   ELSE UNCHANGED <<branch, owner, cool>>
    /\ UNCHANGED <<up, wake, user, asked, ops, mishaps, recover>>

TickCount(t) ==
    /\ tick[t].at = "idle" /\ ~Waits(t) /\ tick[t].todo = {}
    /\ tick' = [tick EXCEPT ![t] =
                  [at |-> "capacity", todo |-> {}, hot |-> Cardinality(Hot)]]
    /\ UNCHANGED <<branch, up, owner, cool, wake, user, asked, ops, mishaps, recover>>

TickEvict(t) ==
    /\ tick[t].at = "capacity" /\ ~Waits(t)
    /\ OverCapacity(tick[t].hot)
    /\ \E v \in Victims(Hot) :
          /\ MarkCold(t, v)
          /\ tick' = [tick EXCEPT ![t] = IF Free(v) THEN @ ELSE NoTick]
    /\ UNCHANGED <<up, wake, user, asked, ops, mishaps, recover>>

TickDone(t) ==
    /\ tick[t].at = "capacity" /\ ~Waits(t)
    /\ ~OverCapacity(tick[t].hot) \/ Victims(Hot) = {}
    /\ tick' = [tick EXCEPT ![t] = NoTick]
    /\ UNCHANGED <<branch, up, owner, cool, wake, user, asked, ops, mishaps, recover>>

-----------------------------------------------------------------------------
(* Auto-wake: setOnReviveCooled. *)

\* shouldAutoWakeCooled(), asked by the proxy and once more by the callback
Revivable(e) ==
    e.status = "idle" /\ e.source = "scheduler" /\ e.age # "never"

Waking(e) ==
    [e EXCEPT !.status = "restarting",
              !.service = IF @ = "stopped" THEN "starting" ELSE @]

\* evictLruIfOverCapacity(slug): the branch itself does not count.
Others(b)     == Hot \ {b}
NeedsRoom(b)  == OverCapacity(Cardinality(Others(b)) + 1)
Evictable(b)  == IF NeedsRoom(b) THEN Victims(Others(b)) ELSE {}

\* A visitor of a cooled branch.  The cooling of a victim that throws is no
\* reason to stop.
WakeBegin(b) ==
    /\ wake[b] = "off" /\ Revivable(branch[b]) /\ Preemptible(b)
    /\ \/ /\ Evictable(b) = {}
          /\ branch' = [branch EXCEPT ![b] = Waking(@)]
          /\ owner' = [owner EXCEPT ![b] = Holder("wake", b)]
          /\ wake' = [wake EXCEPT ![b] = "starting"]
          /\ UNCHANGED cool
       \/ \E v \in Evictable(b) :
          /\ branch' = [branch EXCEPT ![b] = Waking(@), ![v] = Attempted(v)]
          /\ owner' = [LeaseTo(b, v) EXCEPT ![b] = Holder("wake", b)]
          /\ cool' = AttemptBy(b, v)
          /\ wake' = [wake EXCEPT ![b] = IF Free(v) THEN "evicting" ELSE "starting"]
    /\ UNCHANGED <<up, user, tick, asked, ops, mishaps, recover>>

\* docker restart, sent under the lease; it may take effect when an operation of
\* a user has superseded the wake.
WakeStarts(b) ==
    /\ wake[b] = "starting"
    /\ \E pair \in Restarts(b) : Becomes(b, pair)
    /\ wake' = [wake EXCEPT ![b] = "probing"]
    /\ UNCHANGED <<owner, cool, user, tick, asked, ops, mishaps, recover>>

Ready(e) ==
    [e EXCEPT !.status = "running", !.service = "running", !.message = "none"]

\* Mutant: the failure is written to the service alone.
OnlyService(e) == [e EXCEPT !.service = "error"]

Failed(e) ==
    [e EXCEPT !.status = "error", !.service = "error", !.message = "other"]
Revived(e) ==
    [Ready(e) EXCEPT !.source = "other", !.age = "recent", !.heat = "hot"]

\* The probes are over.  A wake that was superseded leaves the state to the
\* new owner.
WakeEnds(b) ==
    /\ wake[b] = "probing"
    /\ wake' = [wake EXCEPT ![b] = "off"]
    /\ IF StillAwake(b)
       THEN /\ \/ b \in up /\ branch' = [branch EXCEPT ![b] = Revived(@)]
               \/ branch' = [branch EXCEPT ![b] = Failed(@)]
            /\ owner' = [owner EXCEPT ![b] = Nobody]
       ELSE UNCHANGED <<branch, owner>>
    /\ UNCHANGED <<up, cool, user, tick, asked, ops, mishaps, recover>>

-----------------------------------------------------------------------------
(* Users and visitors.  Their operations have priority over the scheduler's; *)
(* a branch has at most one of them in flight.                               *)

Begun(e, op) ==
    CASE op = "stop" ->
           [e EXCEPT !.status = "stopping",
                     !.service = IF Serving(e) THEN "stopping" ELSE @]
      [] op = "restart" ->
           [e EXCEPT !.status = "restarting", !.service = "starting"]
      [] op = "deploy" ->
           [e EXCEPT !.status = "building", !.service = "building",
                     !.age = "recent", !.message = "none"]

UserBegins(b, op) ==
    /\ user[b].op = "none" /\ ops < MaxOps
    /\ op = "restart" => branch[b].age # "never"
    /\ branch' = [branch EXCEPT ![b] = Begun(@, op)]
    /\ owner' = [owner EXCEPT ![b] = Holder("user", b)]
    /\ user' = [user EXCEPT ![b] = [op |-> op, done |-> FALSE]]
    /\ asked' = [asked EXCEPT ![b] = IF op = "stop" THEN "stop" ELSE "run"]
    /\ ops' = ops + 1
    /\ UNCHANGED <<up, cool, wake, tick, mishaps, recover>>

\* What docker makes of it.  When a stop returns, with or without success, the
\* service is stopped; when a deploy has run a new container, it is starting.
UserStops(b) ==
    \E pair \in Stops(b) :
        Becomes(b, <<[pair[1] EXCEPT !.service = "stopped"], pair[2]>>)
UserRestarts(b) == \E pair \in Restarts(b) : Becomes(b, pair)
UserDeploys(b) ==
    \/ UNCHANGED <<branch, up>>
    \/ \E pair \in Restarts(b) :
          Becomes(b, <<[pair[1] EXCEPT !.service = IF pair[2] THEN "starting" ELSE @],
                       pair[2]>>)

UserActs(b) ==
    /\ ~user[b].done
    /\ \/ user[b].op = "stop" /\ UserStops(b)
       \/ user[b].op = "restart" /\ UserRestarts(b)
       \/ user[b].op = "deploy" /\ UserDeploys(b)
    /\ user' = [user EXCEPT ![b].done = TRUE]
    /\ UNCHANGED <<owner, cool, wake, tick, asked, ops, mishaps, recover>>

\* A stop and a deploy say nothing of the heat.
Stopped(e) == [e EXCEPT !.status = "idle", !.source = "other"]
Deployed(e) == [Ready(e) EXCEPT !.age = "recent"]

UserEnds(b) ==
    /\ user[b].op # "none" /\ user[b].done
    /\ \/ /\ user[b].op = "stop"
          /\ branch' = [branch EXCEPT ![b] = Stopped(@)]
       \/ /\ user[b].op = "restart" /\ b \in up
          /\ branch' = [branch EXCEPT ![b] = Revived(@)]
       \/ /\ user[b].op = "deploy" /\ b \in up
          /\ branch' = [branch EXCEPT ![b] = Deployed(@)]
       \/ /\ user[b].op # "stop"
          /\ branch' = [branch EXCEPT ![b] = Failed(@)]
    /\ owner' = [owner EXCEPT ![b] = Nobody]
    /\ user' = [user EXCEPT ![b] = NoRequest]
    /\ UNCHANGED <<up, cool, wake, tick, asked, ops, mishaps, recover>>

\* The catch of a stop whose save or archive throws: the lease is given up, the
\* status is left as it is.  Those of a restart and of a deploy write the error.
StopThrows(b) ==
    /\ user[b].op = "stop" /\ mishaps < MaxMishaps
    /\ owner' = [owner EXCEPT ![b] = Thrown]
    /\ user' = [user EXCEPT ![b] = NoRequest]
    /\ mishaps' = mishaps + 1
    /\ UNCHANGED <<branch, up, cool, wake, tick, asked, ops, recover>>

\* pin() and unpin()
Pin(b) ==
    /\ ops < MaxOps
    /\ branch' = [branch EXCEPT ![b].pinned = ~@]
    /\ ops' = ops + 1
    /\ UNCHANGED <<up, owner, cool, wake, user, tick, asked, mishaps, recover>>

\* touch(), by the proxy
Touch(b) ==
    /\ branch[b].status = "running" /\ branch[b].service = "running"
    /\ branch[b].age # "recent"
    /\ branch' = [branch EXCEPT ![b].age = "recent"]
    /\ UNCHANGED <<up, owner, cool, wake, user, tick, asked, ops, mishaps, recover>>

\* idleTTLSeconds go by.
GrowsOld(b) ==
    /\ branch[b].age = "recent"
    /\ branch' = [branch EXCEPT ![b].age = "old"]
    /\ UNCHANGED <<up, owner, cool, wake, user, tick, asked, ops, mishaps, recover>>

-----------------------------------------------------------------------------
(* The recovery of a branch whose deploy a restart of CDS has cut off:      *)
(* setOnRecoverInterrupted.  It holds no lease of its own.                  *)

\* shouldRecoverInterrupted(), asked by the proxy and once more by the callback
Recoverable(e) == e.status = "error" /\ e.message = "cut"

Recovering(e) ==
    [e EXCEPT !.status = "restarting", !.service = "building", !.message = "none"]

\* A visitor of such a branch.  The save that follows may throw, which ends it.
RecoverBegin(b) ==
    /\ recover[b] = "off" /\ Recoverable(branch[b]) /\ Free(b)
    /\ branch' = [branch EXCEPT ![b] = Recovering(@)]
    /\ \/ /\ recover' = [recover EXCEPT ![b] = "posting"]
          /\ UNCHANGED <<owner, mishaps>>
       \/ /\ mishaps < MaxMishaps
          /\ owner' = [owner EXCEPT ![b] = Thrown]
          /\ mishaps' = mishaps + 1
          /\ UNCHANGED recover
    /\ UNCHANGED <<up, cool, wake, user, tick, asked, ops>>

\* It posts a deploy to itself, which begins like that of a user, with the same
\* priority; or is refused, is merged behind one in flight, or gets lost.
RecoverPosts(b) ==
    /\ recover[b] = "posting"
    /\ recover' = [recover EXCEPT ![b] = "waiting"]
    /\ \/ /\ user[b].op = "none"
          /\ branch' = [branch EXCEPT ![b] = Begun(@, "deploy")]
          /\ owner' = [owner EXCEPT ![b] = Holder("user", b)]
          /\ user' = [user EXCEPT ![b] = [op |-> "deploy", done |-> FALSE]]
       \/ UNCHANGED <<branch, owner, user>>
    /\ UNCHANGED <<up, cool, wake, tick, asked, ops, mishaps>>

\* The answer has ended or broken off.  Whoever has set "restarting" meanwhile,
\* it takes it for its own.
GivenUp(e) ==
    IF e.status = "restarting"
    THEN [e EXCEPT !.status = "error", !.message = "cut",
                   !.service = IF @ = "building" THEN "error" ELSE @]
    ELSE e
RecoverEnds(b) ==
    /\ recover[b] = "waiting"
    /\ recover' = [recover EXCEPT ![b] = "off"]
    /\ branch' = [branch EXCEPT ![b] = GivenUp(@)]
    /\ UNCHANGED <<up, owner, cool, wake, user, tick, asked, ops, mishaps>>

-----------------------------------------------------------------------------
(* Containers and the process. *)

\* A container exits, by a crash or on its own.
Exits(b) ==
    /\ b \in up /\ mishaps < MaxMishaps
    /\ up' = up \ {b}
    /\ \/ branch' = [branch EXCEPT ![b] = FailedBy(@)]
       \/ branch' = [branch EXCEPT ![b] = StoppedBy(@)]
    /\ mishaps' = mishaps + 1
    /\ UNCHANGED <<owner, cool, wake, user, tick, asked, ops, recover>>

\* The reconciliation at a start: the services by what docker says, the branch
\* by its services, and whatever is still in flight is an error.  A deploy or a
\* recovery may have left no container at all.
BootService(e, state) ==
    CASE state = "exited" /\ e.service \in {"running", "starting"} -> "error"
      [] state = "exited" /\ e.service \in {"building", "stopping"} -> "stopped"
      [] OTHER -> e.service
BootMessage(e, service) ==
    CASE service = "error" /\ e.service # "error" -> "other"
      [] service \in {"building", "starting"} /\ e.message = "none" -> "cut"
      [] service = "running" -> "none"
      [] OTHER -> e.message
Booted(e, state) ==
    LET s == BootService(e, state)
        cut == s \in {"building", "starting"}
    IN  [e EXCEPT
          !.service = IF cut THEN "error" ELSE s,
          !.status = CASE cut \/ s = "error" -> "error" [] s = "running" -> "running"
                       [] OTHER -> "idle",
          !.message = BootMessage(e, s),
          !.heat = IF @ = "unset" /\ s = "running" THEN "hot" ELSE @]

\* What docker says of the container of b.
States(b) ==
    IF b \in up THEN {"running"}
    ELSE {"exited"} \cup {st \in {"missing"} : branch[b].service = "building"}

\* The process dies with all that is in flight, and starts again.
Dies ==
    /\ mishaps < MaxMishaps
    /\ \E state \in [Branches -> {"running", "exited", "missing"}] :
          /\ \A b \in Branches : state[b] \in States(b)
          /\ branch' = [b \in Branches |-> Booted(branch[b], state[b])]
    /\ owner' = [b \in Branches |-> Nobody]
    /\ cool' = [c \in Callers |-> NotCooling]
    /\ wake' = [b \in Branches |-> "off"]
    /\ user' = [b \in Branches |-> NoRequest]
    /\ tick' = [t \in Ticks |-> NoTick]
    /\ recover' = [b \in Branches |-> "off"]
    /\ mishaps' = mishaps + 1
    /\ UNCHANGED <<up, asked, ops>>

-----------------------------------------------------------------------------
Cooling(c) == CoolStops(c) \/ CoolStopped(c) \/ CoolEnds(c)
Ticking(t) == TickStart(t) \/ TickIdle(t) \/ TickCount(t) \/ TickEvict(t)
                  \/ TickDone(t)
Working(b) == WakeStarts(b) \/ WakeEnds(b) \/ UserActs(b) \/ UserEnds(b)
Recovery(b) == RecoverPosts(b) \/ RecoverEnds(b)

Next ==
    \/ \E c \in Callers : Cooling(c) \/ CoolThrows(c)
    \/ \E t \in Ticks : Ticking(t)
    \/ \E b \in Branches :
          \/ Working(b) \/ WakeBegin(b) \/ StopThrows(b)
          \/ Recovery(b) \/ RecoverBegin(b)
          \/ Pin(b) \/ Touch(b) \/ GrowsOld(b) \/ Exits(b)
    \/ \E r \in Routes, b \in Branches : CoolRoute(r, b)
    \/ \E b \in Branches, op \in {"stop", "restart", "deploy"} : UserBegins(b, op)
    \/ Dies

Spec == Init /\ [][Next]_vars

\* The timer goes on, and what was awaited returns.
Fairness ==
    /\ \A c \in Callers : WF_vars(Cooling(c))
    /\ \A t \in Ticks : WF_vars(Ticking(t))
    /\ \A b \in Branches : WF_vars(Working(b)) /\ WF_vars(Recovery(b))

FairSpec == Spec /\ Fairness

-----------------------------------------------------------------------------
(* Properties *)

\* A branch that shows itself stopping, restarting or building is being worked
\* on, by a current operation or the recovery: whoever gives up, fails, is
\* superseded or dies leaves no branch behind that a visitor would wait for
\* without end.  Only a save that throws does, under a stop, a cooling or the
\* beginning of a recovery, until the next operation.
Stopping(b) ==
    \/ user[b].op = "stop"
    \/ \E c \in Callers : cool[c].at # "off" /\ cool[c].on = b /\ Holds(c)
    \/ owner[b] = Thrown
Restarting(b) ==
    \/ user[b].op = "restart"
    \/ wake[b] # "off" /\ owner[b] = Holder("wake", b)
    \/ recover[b] # "off"
    \/ owner[b] = Thrown
WaitedForIsWorkedOn ==
    \A b \in Branches :
        /\ branch[b].status = "stopping" => Stopping(b)
        /\ branch[b].status = "restarting" => Restarting(b)
        /\ branch[b].status = "building" => user[b].op = "deploy"

\* While an operation of a user is in flight nobody takes its lease, and what
\* its branch shows is changed by three others alone, which do not ask for the
\* lease, and only to show it down: the events of docker when a docker restart
\* of a superseded wake takes effect, a superseded cooling, and the end of a
\* recovery.  No tick, no end of a wake, no visitor, no eviction touches it, and
\* nobody shows it as up before its operation does.
Shown(e)  == <<e.status, e.service>>
Lower(e, f) == /\ f.status \in {e.status, "idle", "error"}
               /\ f.service \in {e.service, "stopped", "error"}
UserWorkStands ==
    [][\A b \in Branches :
          user[b].op # "none" /\ user'[b] = user[b] /\ mishaps' = mishaps
          => /\ owner'[b] = owner[b]
             /\ \/ Shown(branch'[b]) = Shown(branch[b])
                \/ /\ Lower(branch[b], branch'[b])
                   /\ \/ WakeStarts(b)
                      \/ RecoverEnds(b)
                      \/ \E c \in Callers : cool[c].on = b /\ Cooling(c)]_vars

Settled == mishaps = MaxMishaps

\* What nobody visits is cooled in the end: conflicts with other operations,
\* coolings that were superseded or failed are tried again.  Only a branch that
\* stops or fails before it was ever given a heat leaves the pool without.
Visited(b)  == wake[b] # "off" \/ ~PastTTL(branch[b])
Unpooled(e) == e.heat = "unset" /\ e.status # "running"
IdleCools ==
    \A b \in Branches :
        (b \in Hot /\ ~branch[b].pinned /\ Settled)
        ~> (\/ branch[b].heat = "cold" \/ branch[b].pinned
            \/ Visited(b) \/ Unpooled(branch[b]))

\* A pool that is too large returns to its capacity, counting the branches
\* whose cooling may yet fail, unless those that are left are pinned.
BeingCooled == {b \in Branches : \E c \in Callers : Waits(c) /\ cool[c].on = b}
CapacityReturns ==
    (OverCapacity(Cardinality(Hot)) /\ Settled)
    ~> (~OverCapacity(Cardinality(Hot \cup BeingCooled)) \/ Victims(Hot) = {})

\* A visitor never restarts a branch that a user has stopped: proxy.ts says so
\* above shouldAutoWakeCooled().  It does not hold.
VisitsReviveOnlyCooled ==
    [][\A b \in Branches :
          wake[b] = "off" /\ wake'[b] # "off" => asked[b] = "run"]_vars
=============================================================================
