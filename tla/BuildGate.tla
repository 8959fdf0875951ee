----------------------------- MODULE BuildGate -----------------------------
(***************************************************************************)
(* The global build concurrency gate of CDS                                *)
(* (cds/src/services/build-gate.ts): at most `max` builds run at once, the *)
(* others queue in arrival order.  A release hands the slot over to the    *)
(* first waiter that is still wanted instead of freeing it, an operator    *)
(* may move the limit at run time (cds/src/routes/cluster.ts, PUT          *)
(* /build-gate), and a waiter may be withdrawn: its abort signal fires, or *)
(* it is found superseded when its turn comes.                             *)
(*                                                                         *)
(* The gate's functions run without an await, so each is one action.  The  *)
(* one asynchronous gap is between the resolution of a waiter's promise    *)
(* (state "granted") and the continuation that registers the holder.       *)
(***************************************************************************)
EXTENDS Naturals, Sequences, FiniteSets, SequencesExt

CONSTANTS Callers,    \* acquisitions: one build of one service
          Limits      \* limits an operator may set, all positive

ASSUME CallersAssumption == IsFiniteSet(Callers)
ASSUME LimitsAssumption  == Limits \subseteq Nat \ {0}

VARIABLES
    active,     \* the slot counter of the module
    waiters,    \* the queue
    state,      \* where each caller stands
    aborted,    \* callers whose AbortSignal has fired
    cancelled,  \* callers whose isCancelled() answers true
    max         \* maxConcurrentBuilds()

vars == <<active, waiters, state, aborted, cancelled, max>>

States == {"idle", "queued", "granted", "building", "rejected", "done"}

TypeOK ==
    /\ active \in Nat
    /\ waiters \in Seq(Callers)
    /\ state \in [Callers -> States]
    /\ aborted \subseteq Callers /\ cancelled \subseteq Callers
    /\ max \in Limits

Init ==
    /\ active = 0 /\ waiters = <<>>
    /\ state = [c \in Callers |-> "idle"]
    /\ aborted = {} /\ cancelled = {}
    /\ max \in Limits

-----------------------------------------------------------------------------
(* The queue. *)

\* The callers among the first k waiters, and those of them still wanted.
Leaving(k) == {waiters[i] : i \in 1..k}

\* Mutant: the queue is served without asking isCancelled().
LiveOrNot(k) == Leaving(k)

Live(k) == Leaving(k) \ cancelled

Rest(k) == SubSeq(waiters, k + 1, Len(waiters))

\* Position k holds the first waiter that is still wanted.
FirstLive(k) ==
    /\ k \in 1..Len(waiters)
    /\ waiters[k] \notin cancelled
    /\ Live(k - 1) = {}

\* The first k waiters leave the queue: the wanted ones are granted a slot.
Dequeue(k, others) ==
    /\ waiters' = Rest(k)
    /\ state' = [c \in Callers |-> IF c \in Live(k) THEN "granted"
                                   ELSE IF c \in Leaving(k) THEN "rejected"
                                   ELSE others[c]]

-----------------------------------------------------------------------------
(* acquireBuildSlot(). *)

Refuse(c) ==
    /\ state[c] = "idle"
    /\ c \in aborted \/ c \in cancelled
    /\ state' = [state EXCEPT ![c] = "rejected"]
    /\ UNCHANGED <<active, waiters, aborted, cancelled, max>>

HasRoom == active < max

Enter(c) ==
    /\ state[c] = "idle" /\ c \notin aborted \cup cancelled
    /\ HasRoom
    /\ active' = active + 1
    /\ state' = [state EXCEPT ![c] = "building"]
    /\ UNCHANGED <<waiters, aborted, cancelled, max>>

\* Mutant: the newcomer goes first.
QueueFirst(c) ==
    /\ state[c] = "idle" /\ c \notin aborted \cup cancelled
    /\ ~HasRoom
    /\ waiters' = <<c>> \o waiters
    /\ state' = [state EXCEPT ![c] = "queued"]
    /\ UNCHANGED <<active, aborted, cancelled, max>>

Queue(c) ==
    /\ state[c] = "idle" /\ c \notin aborted \cup cancelled
    /\ ~HasRoom
    /\ waiters' = Append(waiters, c)
    /\ state' = [state EXCEPT ![c] = "queued"]
    /\ UNCHANGED <<active, aborted, cancelled, max>>

\* Mutant: a woken waiter counts its slot again.
StartCounting(c) ==
    /\ state[c] = "granted"
    /\ state' = [state EXCEPT ![c] = "building"]
    /\ active' = active + 1
    /\ UNCHANGED <<waiters, aborted, cancelled, max>>

\* The awaited promise has resolved; the continuation runs grantSlot().
Start(c) ==
    /\ state[c] = "granted"
    /\ state' = [state EXCEPT ![c] = "building"]
    /\ UNCHANGED <<active, waiters, aborted, cancelled, max>>

-----------------------------------------------------------------------------
(* release(), called from the finally block of a build.                    *)

Ended(c) == [state EXCEPT ![c] = "done"]

\* Mutants: release() without its `released` flag; a limit lowered without
\* effect on transfers; one slot too many given up.
OwnsOrOwned(c) == state[c] \in {"building", "done"}
NeverOver   == FALSE
AtLimit     == active >= max

\* The `released` flag: a slot is released once, however often it is called.
Owns(c) == state[c] = "building"

OverLimit == active > max

\* The limit was lowered meanwhile: the slot disappears.
Shrink(c) ==
    /\ Owns(c) /\ OverLimit
    /\ active' = active - 1
    /\ state' = Ended(c)
    /\ UNCHANGED <<waiters, aborted, cancelled, max>>

\* The slot goes to the first wanted waiter; those before it are rejected.
Transfer(c) ==
    /\ Owns(c) /\ ~OverLimit
    /\ \E k \in 1..Len(waiters) : FirstLive(k) /\ Dequeue(k, Ended(c))
    /\ UNCHANGED <<active, aborted, cancelled, max>>

\* Nobody in the queue wants it.
Free(c) ==
    /\ Owns(c) /\ ~OverLimit
    /\ Live(Len(waiters)) = {}
    /\ Dequeue(Len(waiters), Ended(c))
    /\ active' = active - 1
    /\ UNCHANGED <<aborted, cancelled, max>>

Release(c) == Shrink(c) \/ Transfer(c) \/ Free(c)

-----------------------------------------------------------------------------
(* Operators and owners.                                                   *)

\* The loop of pumpWaiters() stops after k waiters: at the limit, or at the end
\* of the queue.
PumpStops(k) ==
    /\ \A j \in 0..(k - 1) : active + Cardinality(Live(j)) < max'
    /\ \/ k = Len(waiters)
       \/ active + Cardinality(Live(k)) >= max'

\* PUT /build-gate stores the limit and pumps, in the same turn.
SetLimit(m) ==
    /\ max' = m
    /\ \E k \in 0..Len(waiters) :
         /\ PumpStops(k)
         /\ Dequeue(k, state)
         /\ active' = active + Cardinality(Live(k))
    /\ UNCHANGED <<aborted, cancelled>>

Spliced(i) == RemoveAt(waiters, i)

\* The owner's signal fires: its 15 s tick found the lease gone, or a sibling
\* service of the same layer failed.
Abort(c) ==
    /\ c \notin aborted
    /\ aborted' = aborted \cup {c}
    /\ IF state[c] = "queued"
       THEN /\ \E i \in DOMAIN waiters :
                 waiters[i] = c /\ waiters' = Spliced(i)
            /\ state' = [state EXCEPT ![c] = "rejected"]
       ELSE UNCHANGED <<waiters, state>>
    /\ UNCHANGED <<active, cancelled, max>>

\* The leases of some callers are superseded; the gate is not told.
Cancel(S) ==
    /\ cancelled' = cancelled \cup S
    /\ UNCHANGED <<active, waiters, state, aborted, max>>

\* The next deployment of the same service: a new acquisition.
Return(c) ==
    /\ state[c] \in {"rejected", "done"}
    /\ state' = [state EXCEPT ![c] = "idle"]
    /\ aborted' = aborted \ {c} /\ cancelled' = cancelled \ {c}
    /\ UNCHANGED <<active, waiters, max>>

Caller(c) ==
    \/ Refuse(c) \/ Enter(c) \/ Queue(c) \/ Start(c)
    \/ Shrink(c) \/ Transfer(c) \/ Free(c) \/ Abort(c) \/ Return(c)

Next ==
    \/ \E c \in Callers : Caller(c)
    \/ \E S \in SUBSET Callers : Cancel(S)
    \/ \E m \in Limits : SetLimit(m)

Spec == Init /\ [][Next]_vars

\* Continuations run, and every build ends and releases in a finally block.
Fairness ==
    \A c \in Callers : WF_vars(Start(c)) /\ WF_vars(Release(c))

FairSpec == Spec /\ Fairness

-----------------------------------------------------------------------------
(* Properties.                                                             *)

Inside == {c \in Callers : state[c] \in {"granted", "building"}}

\* The counter is the number of builds that own a slot, those whose promise has
\* resolved but not continued included: no slot is lost or counted twice over
\* fast path, transfer, pump, lowered limit and withdrawal.
SlotAccounting == active = Cardinality(Inside)

\* The queue holds each queued caller once, and nobody else.
QueueMatches ==
    /\ {waiters[i] : i \in DOMAIN waiters} = {c \in Callers : state[c] = "queued"}
    /\ \A i, j \in DOMAIN waiters : waiters[i] = waiters[j] => i = j

\* Nobody waits while a slot is free: with a waiter in the queue at least `max`
\* slots are owned, so there is a release to come that wakes it.
NoStrandedWaiter == waiters # <<>> => active >= max

Before(c, d) ==
    \E i, j \in DOMAIN waiters : i < j /\ waiters[i] = c /\ waiters[j] = d

\* "FIFO: first to queue, first served": as long as c waits, nobody who queued
\* behind it or arrived later gets past it, neither in the queue nor through
\* the fast path into a slot.
FirstComeFirstServed ==
    [][\A c, d \in Callers :
         /\ c # d /\ state[c] = "queued" /\ state'[c] = "queued"
         /\ Before(c, d) \/ state[d] = "idle"
         => /\ state'[d] \notin {"granted", "building"}
            /\ state'[d] = "queued" => Before(c, d)']_vars

\* "A zombie no longer consumes a real slot": a waiter whose operation was
\* superseded in the queue is never granted one.
ZombiesNeverBuild ==
    [][\A c \in cancelled :
         state[c] = "queued" => state'[c] \in {"queued", "rejected"}]_vars

\* The gate implements the pool: nobody gets in over the limit in force, also
\* right after the limit was lowered under running builds.
Pool == INSTANCE SlotPool WITH inside <- Inside, limit <- max
PoolPromise == Pool!Spec

\* Nobody queues for ever: builds end, so every waiter is granted a slot or
\* rejected, whatever the operator does to the limit meanwhile.
QueuedServed == \A c \in Callers : state[c] = "queued" ~> state[c] # "queued"

=============================================================================
