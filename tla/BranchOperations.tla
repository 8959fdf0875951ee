-------------------------- MODULE BranchOperations --------------------------
(***************************************************************************)
(* The branch operation coordinator of the CDS control plane               *)
(* (cds/src/services/branch-operation-coordinator.ts) together with the    *)
(* handlers that hold its leases (cds/src/routes/branches.ts and           *)
(* cds/src/index.ts).                                                      *)
(*                                                                         *)
(* Every write on a preview branch (deploy, stop, delete, force rebuild,   *)
(* automatic restart ...) first asks the coordinator to begin().  begin()  *)
(* runs without an await, so it is one atomic action here; the work done   *)
(* under the lease is asynchronous, so between a begin and its complete()  *)
(* any number of other requests may arrive.                                *)
(***************************************************************************)
EXTENDS Naturals, FiniteSets

CONSTANTS
    Branches,     \* preview branch ids
    Profiles,     \* build profile ids of a branch
    NoProfile,    \* the absent profileId (null in the source)
    Requests,     \* the requests the routes and background tasks issue
    MaxBegins     \* bound: ids handed out before outside requests stop

Kinds == {"deploy", "deploy-profile", "database-init", "restart",
          "force-rebuild", "stop", "reset", "delete", "cleanup-damaged",
          "cleanup-stopped", "cleanup-orphans", "factory-reset",
          "scheduler-cooling", "auto-lifecycle-redeploy", "auto-restart",
          "janitor-remove"}

Triggers == {"manual", "webhook", "auto-lifecycle", "scheduler", "janitor",
             "system"}

\* replayable: carries neither a versionId nor a one-shot option, so a replay
\* that only sends the commit sha loses nothing.
Request == [branch : Branches, profile : Profiles \cup {NoProfile},
            kind : Kinds, trigger : Triggers, replayable : BOOLEAN,
            continueWith : {"none", "deploy", "deploy-profile"}]

ASSUME NoProfileAssumption == NoProfile \notin Profiles
ASSUME RequestsAssumption  == Requests \subseteq Request
ASSUME BoundAssumption     == MaxBegins \in Nat

TerminalKinds == {"delete", "reset", "cleanup-orphans", "factory-reset",
                  "janitor-remove"}

\* Kinds after whose successful completion the branch no longer exists.
RemovingKinds == {"delete", "janitor-remove"}

MergeBehindKinds == {"deploy", "deploy-profile", "force-rebuild", "restart",
                     "auto-restart", "auto-lifecycle-redeploy",
                     "database-init"}

Ends(req) == req.kind \in TerminalKinds \/ req.kind = "stop"

\* The source is a chain of early returns, so the order of the tests matters.
PriorityOf(req) ==
    LET by(trigger, kinds) == req.trigger = trigger /\ req.kind \in kinds
    IN  IF by("manual", TerminalKinds)                    THEN 100
        ELSE IF by("manual", {"stop"})                    THEN 95
        ELSE IF by("webhook", {"delete"})                 THEN 90
        ELSE IF by("webhook", {"stop"})                   THEN 70
        ELSE IF by("manual", {"force-rebuild", "deploy", "deploy-profile",
                              "restart"})                 THEN 80
        ELSE IF req.kind = "cleanup-damaged"              THEN 45
        ELSE IF by("webhook", {"deploy", "deploy-profile"}) THEN 50
        ELSE IF req.trigger = "auto-lifecycle"            THEN 40
        ELSE IF req.kind = "auto-restart"                 THEN 35
        ELSE IF req.trigger = "scheduler"                 THEN 30
        ELSE IF req.trigger = "janitor"                   THEN 25
        ELSE 10

IsWebhookDeploy(req) ==
    req.trigger = "webhook" /\ req.kind \in {"deploy", "deploy-profile"}

IsMergeableManualDeploy(req) ==
    req.trigger = "manual" /\ req.kind = "deploy" /\ req.replayable

IsBranchWide(req) ==
    \/ req.profile = NoProfile
    \/ req.kind \notin {"deploy-profile", "force-rebuild", "auto-restart"}

OperationsConflict(a, b) ==
    /\ a.branch = b.branch
    /\ IsBranchWide(a) \/ IsBranchWide(b) \/ a.profile = b.profile

\* The key of the `active` map: <<branch, *>> or <<branch, profile>>.
OperationKey(req) ==
    <<req.branch, IF IsBranchWide(req) THEN NoProfile ELSE req.profile>>

-----------------------------------------------------------------------------
VARIABLES
    active,      \* entries of the active map; pos is the map's insertion order
    leases,      \* leases whose holder has not called complete() yet
    pending,     \* merged deploys waiting for a completion, one per branch
    reserved,    \* continuations a force rebuild holds open, one per branch
    generations, \* per branch, the last generation handed out
    nextId,      \* supply of operation ids and of insertion positions
    replays,     \* pending deploys POSTed back to this process, in flight
    gone         \* branches whose removal has completed

vars == <<active, leases, pending, reserved, generations, nextId, replays, gone>>

Lease      == [op : Nat, gen : Nat, req : Request]
Entry      == [op : Nat, gen : Nat, req : Request, pos : Nat, cancelled : BOOLEAN]
Pending    == [op : Nat, gen : Nat, req : Request]
Reserved   == [op : Nat, gen : Nat, req : Request, expired : BOOLEAN]

TypeOK ==
    /\ active \subseteq Entry
    /\ leases \subseteq Lease
    /\ pending \subseteq Pending
    /\ reserved \subseteq Reserved
    /\ generations \in [Branches -> Nat]
    /\ nextId \in Nat
    /\ replays \subseteq Pending
    /\ gone \subseteq Branches

Init ==
    /\ active = {} /\ leases = {} /\ pending = {} /\ reserved = {}
    /\ generations = [b \in Branches |-> 0]
    /\ nextId = 1
    /\ replays = {} /\ gone = {}

-----------------------------------------------------------------------------
(* Lookups. *)

OnBranch(S, b) == {x \in S : x.req.branch = b}

Drop(S, b) == {x \in S : x.req.branch # b}

\* Cancelled entries stay in the map until their holder completes, and they
\* block like any other.
Blocking(req) == {e \in active : OperationsConflict(req, e.req)}

First(S) == CHOOSE e \in S : \A f \in S : e.pos <= f.pos

ReservedAgainst(req) == {r \in reserved : OperationsConflict(req, r.req)}

Usable(req) == {r \in ReservedAgainst(req) : ~r.expired}

MatchesContinuation(req, r) ==
    /\ req.trigger = r.req.trigger
    /\ \/ r.req.continueWith = "deploy" /\ req.kind = "deploy"
       \/ /\ r.req.continueWith = "deploy-profile"
          /\ req.kind = "deploy-profile"
          /\ req.profile = r.req.profile

\* The lease's fence: an un-cancelled entry with its operation id and generation.
IsCurrent(l) ==
    \E e \in active : /\ e.req.branch = l.req.branch
                      /\ e.op = l.op /\ e.gen = l.gen /\ ~e.cancelled

-----------------------------------------------------------------------------
(* The two effects of begin(): starting an operation and merging a deploy. *)

NextGeneration(b) == generations[b] + 1

\* start(): Map.set on an existing key replaces the entry and keeps its position.
StartOn(entries, req, id) ==
    LET same == {e \in entries : OperationKey(e.req) = OperationKey(req)}
        gen  == NextGeneration(req.branch)
        new  == [op |-> id, gen |-> gen, req |-> req, cancelled |-> FALSE,
                 pos |-> IF same = {} THEN nextId ELSE (CHOOSE e \in same : TRUE).pos]
    IN  /\ active' = (entries \ same) \cup {new}
        /\ leases' = leases \cup {[op |-> id, gen |-> gen, req |-> req]}
        /\ generations' = [generations EXCEPT ![req.branch] = gen]
        /\ nextId' = nextId + 1

\* The latest request wins; the pending deploy keeps its first operation id.
Merge(req) ==
    LET old == OnBranch(pending, req.branch)
        op  == IF old = {} THEN nextId ELSE (CHOOSE p \in old : TRUE).op
        gen == NextGeneration(req.branch)
    IN  /\ pending' = Drop(pending, req.branch)
                        \cup {[op |-> op, gen |-> gen, req |-> req]}
        /\ generations' = [generations EXCEPT ![req.branch] = gen]
        /\ nextId' = nextId + 1
        /\ UNCHANGED <<active, leases, reserved>>

\* Mutants, for the sensitivity of the properties.
MarkFirstCancelled(entries) ==
    (entries \ {First(entries)}) \cup {[First(entries) EXCEPT !.cancelled = TRUE]}
ClaimedTwice(r) == reserved

MarkCancelled(entries) == {[e EXCEPT !.cancelled = TRUE] : e \in entries}

\* A stop or a terminal operation withdraws the deploy that waits on its branch.
PendingAfter(req) == IF Ends(req) THEN Drop(pending, req.branch) ELSE pending

\* The continuation is removed before the deploy that claims it starts.
Claimed(r) == reserved \ {r}

-----------------------------------------------------------------------------
(* begin(), one disjunct per way it returns.                               *)

\* Nothing blocks.  An expired continuation found on the way is dropped, and
\* the deploy that waited behind it with it.
StartFree(req) ==
    /\ Blocking(req) = {} /\ Usable(req) = {}
    /\ StartOn(active, req, nextId)
    /\ reserved' = reserved \ ReservedAgainst(req)
    /\ pending' = IF ReservedAgainst(req) = {} THEN pending
                  ELSE Drop(pending, req.branch)

\* A webhook deploy never supersedes and is never refused: it waits.
MergeWebhook(req) ==
    /\ Blocking(req) # {} \/ Usable(req) # {}
    /\ IsWebhookDeploy(req)
    /\ Merge(req)

\* The priority is compared with the first blocking entry only; every blocking
\* entry is cancelled.
Supersede(req) ==
    /\ Blocking(req) # {} /\ ~IsWebhookDeploy(req)
    /\ PriorityOf(req) > PriorityOf(First(Blocking(req)).req)
    /\ StartOn((active \ Blocking(req)) \cup MarkCancelled(Blocking(req)), req, nextId)
    /\ pending' = PendingAfter(req)
    /\ UNCHANGED reserved

MergeManual(req) ==
    /\ Blocking(req) # {} /\ ~IsWebhookDeploy(req)
    /\ PriorityOf(req) <= PriorityOf(First(Blocking(req)).req)
    /\ IsMergeableManualDeploy(req)
    /\ First(Blocking(req)).req.kind \in MergeBehindKinds
    /\ Merge(req)

\* beginAgainstReservedContinuation(): the deploy the force rebuild announced
\* takes over its operation id under a new generation.
Continue(req) ==
    /\ Blocking(req) = {} /\ ~IsWebhookDeploy(req)
    /\ \E r \in Usable(req) :
         /\ MatchesContinuation(req, r)
         /\ StartOn(active, req, r.op)
         /\ reserved' = Claimed(r)
    /\ UNCHANGED pending

OverridesReserved(req, r) == PriorityOf(req) > PriorityOf(r.req) \/ Ends(req)

OverrideReserved(req) ==
    /\ Blocking(req) = {} /\ ~IsWebhookDeploy(req)
    /\ \E r \in Usable(req) :
         /\ ~MatchesContinuation(req, r) /\ OverridesReserved(req, r)
         /\ reserved' = reserved \ {r}
    /\ StartOn(active, req, nextId)
    /\ pending' = PendingAfter(req)

MergeBehindReserved(req) ==
    /\ Blocking(req) = {} /\ IsMergeableManualDeploy(req)
    /\ \E r \in Usable(req) :
         ~MatchesContinuation(req, r) /\ ~OverridesReserved(req, r)
    /\ Merge(req)

\* 409: nothing changes.
Reject(req) ==
    /\ ~IsWebhookDeploy(req)
    /\ \/ /\ Blocking(req) # {}
          /\ PriorityOf(req) <= PriorityOf(First(Blocking(req)).req)
          /\ ~ /\ IsMergeableManualDeploy(req)
               /\ First(Blocking(req)).req.kind \in MergeBehindKinds
       \/ /\ Blocking(req) = {} /\ ~IsMergeableManualDeploy(req)
          /\ \E r \in Usable(req) :
               ~MatchesContinuation(req, r) /\ ~OverridesReserved(req, r)
    /\ UNCHANGED <<active, leases, pending, reserved, generations, nextId>>

Begin(req) ==
    \/ StartFree(req)  \/ MergeWebhook(req)     \/ Supersede(req)
    \/ MergeManual(req) \/ Continue(req)        \/ OverrideReserved(req)
    \/ MergeBehindReserved(req) \/ Reject(req)

-----------------------------------------------------------------------------
(* The steps of the system.                                                *)

\* A route or a background task asks for an operation on an existing branch.
Ask(req) ==
    /\ nextId <= MaxBegins
    /\ req.branch \notin gone
    /\ Begin(req)
    /\ UNCHANGED <<replays, gone>>

\* Five minutes pass over an unclaimed continuation.
Expire(r) ==
    /\ ~r.expired
    /\ reserved' = (reserved \ {r}) \cup {[r EXCEPT !.expired = TRUE]}
    /\ UNCHANGED <<active, leases, pending, generations, nextId, replays, gone>>

Statuses == {"completed", "failed", "cancelled"}

\* A force rebuild that a deploy of the same client is to follow.
Announces(l) == l.req.kind = "force-rebuild" /\ l.req.continueWith # "none"

HoldsContinuation(l, status) == status = "completed" /\ Announces(l)

\* Mutants.
ReservationForever(l) == [op |-> l.op, gen |-> l.gen, req |-> l.req]
HeldUnderKey(l) == {e \in active : OperationKey(e.req) = OperationKey(l.req)}
NotPopped(b) == pending

Reservation(l) == [op |-> l.op, gen |-> l.gen, req |-> l.req, expired |-> FALSE]

\* The entry of the active map that complete() removes: found by operation id,
\* since a superseding operation may have taken over the key.
HeldBy(l) == {e \in active : e.op = l.op}

\* complete() takes the pending deploy off the branch, even when the holder was
\* superseded and a newer operation still runs.
Popped(b) == Drop(pending, b)

\* The holder's finally block: complete() and the dispatch of what it returns.
\* A holder whose last check preceded its last await reports "completed" even
\* when it has been superseded meanwhile.
Complete(l, status) ==
    /\ active' = active \ HeldBy(l)
    /\ leases' = leases \ {l}
    /\ gone' = IF status = "completed" /\ l.req.kind \in RemovingKinds
               THEN gone \cup {l.req.branch} ELSE gone
    /\ IF HoldsContinuation(l, status)
       THEN /\ reserved' = Drop(reserved, l.req.branch) \cup {Reservation(l)}
            /\ UNCHANGED <<pending, replays>>
       ELSE /\ pending' = Popped(l.req.branch)
            /\ replays' = IF l.req.branch \in gone' THEN replays
                          ELSE replays \cup OnBranch(pending, l.req.branch)
            /\ UNCHANGED reserved
    /\ UNCHANGED <<generations, nextId>>

\* A replay is POST /branches/:id/deploy with the original trigger and the
\* commit only: whatever was merged comes back as a branch-wide deploy.
ReplayRequest(p) ==
    [p.req EXCEPT !.kind = "deploy", !.profile = NoProfile,
                  !.replayable = TRUE, !.continueWith = "none"]

Replay(p) ==
    /\ replays' = replays \ {p}
    /\ p.req.branch \notin gone
    /\ Begin(ReplayRequest(p))
    /\ UNCHANGED gone

\* The POST fails, is answered with an error before begin(), or finds the
\* branch gone: that is logged and nothing retries it.
LoseReplay(p) ==
    /\ replays' = replays \ {p}
    /\ UNCHANGED <<active, leases, pending, reserved, generations, nextId, gone>>

AskAny      == \E req \in Requests : Ask(req)
ExpireAny   == \E r \in reserved : Expire(r)
CompleteAny == \E l \in leases, status \in Statuses : Complete(l, status)
ReplayAny   == \E p \in replays : Replay(p) \/ LoseReplay(p)

Next == AskAny \/ ExpireAny \/ CompleteAny \/ ReplayAny

Spec == Init /\ [][Next]_vars

\* While there are holders, one of them completes: each handler calls
\* complete() in a finally block and its steps carry timeouts.
Fairness == WF_vars(CompleteAny)

FairSpec == Spec /\ Fairness

-----------------------------------------------------------------------------
(* Properties.                                                             *)

\* At any moment at most one lease passes assertCurrent() for a branch, or for
\* a profile of it: the reason the coordinator exists.  Two handlers whose
\* checks both pass never touch the same containers.
MutualExclusion ==
    \A l, m \in leases :
        l # m /\ IsCurrent(l) /\ IsCurrent(m) => ~OperationsConflict(l.req, m.req)

\* An operation id names one holder: two unfinished leases never share one, and
\* the id a continuation will inherit is not in use.  complete() deletes by id
\* alone and relies on it.
OneHolderPerId ==
    /\ \A l, m \in leases : l.op = m.op => l = m
    /\ \A r \in reserved, l \in leases : r.op # l.op

\* A caller told "merged, will run when the current operation completes" is
\* never forgotten: a pending deploy always has an unfinished holder on its
\* branch, whose complete() pops it, or a continuation that blocks the branch, or
\* did until it expired: the next begin() then drops both.
NoOrphanPending ==
    \A p \in pending : \/ OnBranch(leases, p.req.branch) # {}
                       \/ OnBranch(reserved, p.req.branch) # {}

\* A fence never reopens: a lease that has been superseded stays superseded
\* until its holder gives it up, whatever else begins or completes.
FencedForever ==
    [][\A l \in leases : ~IsCurrent(l) => ~IsCurrent(l)']_vars

\* Nobody loses a branch by accident: an unfinished lease stops being current
\* only because a conflicting operation has just started, never because some
\* other holder completed, expired or was merged.
RevokedOnlyByConflict ==
    [][\A l \in leases \cap leases' :
         IsCurrent(l) /\ ~IsCurrent(l)' =>
           \E n \in leases' \ leases :
             IsCurrent(n)' /\ OperationsConflict(n.req, l.req)]_vars

\* Starting a stop or a terminal operation leaves no deploy waiting on the
\* branch, so that the branch is not started again when it completes
\* ("manual stop clears queued webhook deploys so stopped branches do not
\* silently restart").
EndingClearsPending ==
    [][\A n \in leases' \ leases :
         Ends(n.req) => OnBranch(pending', n.req.branch) = {}]_vars

\* Whatever was merged is dispatched or withdrawn once the holders finish,
\* unless a force rebuild reserves the branch for a continuation that the
\* client may never send.
PendingSettles ==
    \A b \in Branches :
        OnBranch(pending, b) # {} ~>
            (OnBranch(pending, b) = {} \/ OnBranch(reserved, b) # {})

-----------------------------------------------------------------------------
(* The coordinator as its handlers and callers see it.                     *)

Conflicts(l, m) == OperationsConflict(l.req, m.req)
BranchOf(x)     == x.req.branch
Ending(l)       == Ends(l.req)

Table == INSTANCE BranchLeases WITH
    holders <- leases, owners <- {l \in leases : IsCurrent(l)},
    waiting <- pending, sent <- replays, removed <- gone

\* Whatever begins, merges, expires, completes or is replayed, a lease is
\* revoked by a conflicting one alone and for good, and a merged deploy is
\* dispatched, replaced, withdrawn or removed with its branch, never lost.
LeasePromise == Table!Spec

-----------------------------------------------------------------------------
(* What a comment of the source promises and begin() does not keep: it      *)
(* compares priorities with the first blocking entry only, which may be an  *)
(* entry already cancelled.                                                 *)

\* "merging only behind deploy-like operations: behind a stop, reset or delete
\* the pending deploy would restart the branch the operator has just stopped".
NoManualDeployBehindStop ==
    \A p \in pending, l \in leases :
        /\ p.req.trigger = "manual" /\ p.req.branch = l.req.branch
        /\ IsCurrent(l)
        => ~Ends(l.req)

=============================================================================
