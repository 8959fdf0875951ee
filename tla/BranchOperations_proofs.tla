---------------------- MODULE BranchOperations_proofs ----------------------
(***************************************************************************)
(* Theorems about the branch operation coordinator, for any branches,      *)
(* profiles, requests and bound.                                           *)
(*                                                                         *)
(* The argument: begin() has three outcomes (it starts an operation,       *)
(* merges a deploy, or changes nothing).  Lemma BeginOutcome says what a   *)
(* start guarantees about the entries it keeps; the inductive invariant    *)
(* IInv relates the entries of the active map to the unfinished holders,   *)
(* because the checks of the code look at entries while mutual exclusion   *)
(* is about holders.                                                       *)
(***************************************************************************)
EXTENDS BranchOperations, TLAPS

(* The inductive invariant. *)

\* Every entry of the map belongs to an unfinished holder.
EntriesHeld ==
    \A e \in active : \E l \in leases : l.op = e.op /\ l.gen = e.gen /\ l.req = e.req

\* Two entries that are not cancelled never conflict.
EntriesExclusive ==
    \A e, f \in active :
        e # f /\ ~e.cancelled /\ ~f.cancelled => ~OperationsConflict(e.req, f.req)

IdsBelow ==
    /\ \A l \in leases : l.op < nextId
    /\ \A r \in reserved : r.op < nextId

ReservedIdsUnique == \A r, s \in reserved : r.op = s.op => r = s

\* A pending deploy sits behind an entry or a continuation.
PendingCovered ==
    \A p \in pending : \/ OnBranch(active, p.req.branch) # {}
                       \/ OnBranch(reserved, p.req.branch) # {}

IInv == /\ TypeOK /\ OneHolderPerId /\ EntriesHeld /\ EntriesExclusive
        /\ IdsBelow /\ ReservedIdsUnique /\ PendingCovered

-----------------------------------------------------------------------------
(* What a start guarantees. *)

\* The entries a start works on are those of the map, some of them cancelled;
\* whatever conflicts with the new request is cancelled, whatever does not is
\* kept as it was.
Kept(entries, req) ==
    /\ entries \in SUBSET Entry
    /\ \A e \in entries : \E f \in active :
          e.op = f.op /\ e.gen = f.gen /\ e.req = f.req
    /\ \A e \in entries : e \in active \/ e.cancelled
    /\ \A e \in entries : OperationsConflict(req, e.req) => e.cancelled
    /\ \A f \in active : f \in entries \/ OperationsConflict(req, f.req)

\* The id of the new operation is fresh, or inherited from the continuation
\* that the same step removes.
Fresh(id) ==
    /\ id \in Nat /\ id < nextId + 1
    /\ \A l \in leases : l.op # id
    /\ \A r \in reserved' : r.op # id

Starts(req) ==
    /\ \E entries, id : Kept(entries, req) /\ Fresh(id) /\ StartOn(entries, req, id)
    /\ reserved' \subseteq reserved
    /\ pending' \subseteq pending
    /\ \A p \in pending \ pending' : p.req.branch = req.branch
    /\ \A p \in pending' : p.req.branch # req.branch \/ ~Ends(req)
    /\ \A p \in pending' : p.req.branch = req.branch \/ OnBranch(reserved', p.req.branch) = OnBranch(reserved, p.req.branch)

Merges(req) ==
    /\ Merge(req)
    /\ OnBranch(active, req.branch) # {} \/ OnBranch(reserved, req.branch) # {}

Stutters == UNCHANGED <<active, leases, pending, reserved, generations, nextId>>

\* A conflict is within one branch.
LEMMA ConflictSameBranch ==
    ASSUME NEW a, NEW b, OperationsConflict(a, b)
    PROVE  a.branch = b.branch
  BY DEF OperationsConflict

\* Conflicting is symmetric.
LEMMA ConflictSymmetric ==
    ASSUME NEW a, NEW b
    PROVE  OperationsConflict(a, b) <=> OperationsConflict(b, a)
  BY DEF OperationsConflict

\* Requests with the same key conflict.
LEMMA SameKeyConflicts ==
    ASSUME NEW a \in Request, NEW b \in Request, OperationKey(a) = OperationKey(b)
    PROVE  OperationsConflict(a, b)
  BY NoProfileAssumption
     DEF OperationKey, OperationsConflict, IsBranchWide, Request

\* A stop or a terminal operation takes the whole branch.
LEMMA EndingIsBranchWide ==
    ASSUME NEW req \in Request, Ends(req)
    PROVE  IsBranchWide(req)
  BY DEF Ends, TerminalKinds, IsBranchWide

-----------------------------------------------------------------------------
(* Each return of begin() is a start, a merge or a stutter. *)

\* Working on the map itself when nothing blocks keeps every entry.
LEMMA KeptAll ==
    ASSUME TypeOK, NEW req \in Request, Blocking(req) = {}
    PROVE  Kept(active, req)
  BY DEF Kept, Blocking, TypeOK

\* Working on the map with the blocking entries cancelled.
LEMMA KeptCancelled ==
    ASSUME TypeOK, NEW req \in Request
    PROVE  Kept((active \ Blocking(req)) \cup MarkCancelled(Blocking(req)), req)
<1> DEFINE new == (active \ Blocking(req)) \cup MarkCancelled(Blocking(req))
<1>1. \A e \in MarkCancelled(Blocking(req)) :
         /\ e \in Entry /\ e.cancelled
         /\ \E f \in active : e.op = f.op /\ e.gen = f.gen /\ e.req = f.req
  BY DEF MarkCancelled, Blocking, TypeOK, Entry
<1>2. \A e \in active \ Blocking(req) : e \in active /\ ~OperationsConflict(req, e.req)
  BY DEF Blocking
<1>3. new \in SUBSET Entry
  BY <1>1 DEF TypeOK
<1>4. \A f \in active : f \in new \/ OperationsConflict(req, f.req)
  BY DEF Blocking
<1> QED BY <1>1, <1>2, <1>3, <1>4 DEF Kept

\* The next id of the supply is in use nowhere.
LEMMA FreshNext ==
    ASSUME TypeOK, IdsBelow, reserved' \subseteq reserved
    PROVE  Fresh(nextId)
<1>1. \A l \in leases : l.op \in Nat /\ l.op < nextId
  BY DEF TypeOK, Lease, IdsBelow
<1>2. \A r \in reserved' : r.op \in Nat /\ r.op < nextId
  BY DEF TypeOK, Reserved, IdsBelow
<1> QED BY <1>1, <1>2 DEF Fresh, TypeOK

\* An unopposed begin() is a start.
LEMMA StartFreeStarts ==
    ASSUME IInv, NEW req \in Request, StartFree(req)
    PROVE  Starts(req)
<1>1. /\ reserved' \subseteq reserved /\ pending' \subseteq pending
      /\ \A p \in pending \ pending' : p.req.branch = req.branch
  BY DEF StartFree, Drop
<1>2. \E entries, id : Kept(entries, req) /\ Fresh(id) /\ StartOn(entries, req, id)
  BY <1>1, KeptAll, FreshNext DEF StartFree, IInv
<1>3. \A p \in pending' : p.req.branch # req.branch \/ ~Ends(req)
  <2> SUFFICES ASSUME NEW p \in pending', p.req.branch = req.branch, Ends(req)
               PROVE  FALSE
    OBVIOUS
  <2>1. ReservedAgainst(req) = {}
    BY DEF StartFree, Drop
  <2>2. \A x : x.branch = req.branch => OperationsConflict(req, x)
    BY EndingIsBranchWide DEF OperationsConflict
  <2>3. OnBranch(active, req.branch) = {} /\ OnBranch(reserved, req.branch) = {}
    BY <2>1, <2>2 DEF StartFree, Blocking, ReservedAgainst, OnBranch
  <2> QED BY <1>1, <2>3 DEF IInv, PendingCovered
<1>4. \A b : b # req.branch => OnBranch(reserved', b) = OnBranch(reserved, b)
  BY DEF StartFree, ReservedAgainst, OnBranch, OperationsConflict
<1> QED BY <1>1, <1>2, <1>3, <1>4 DEF Starts

\* A superseding begin() is a start on the map with every blocker cancelled.
LEMMA SupersedeStarts ==
    ASSUME IInv, NEW req \in Request, Supersede(req)
    PROVE  Starts(req)
<1>1. /\ reserved' = reserved /\ pending' \subseteq pending
      /\ \A p \in pending \ pending' : p.req.branch = req.branch
  BY DEF Supersede, PendingAfter, Drop
<1>2. \E entries, id : Kept(entries, req) /\ Fresh(id) /\ StartOn(entries, req, id)
  BY <1>1, KeptCancelled, FreshNext DEF Supersede, IInv
<1>3. \A p \in pending' : p.req.branch # req.branch \/ ~Ends(req)
  BY DEF Supersede, PendingAfter, Drop
<1> QED BY <1>1, <1>2, <1>3 DEF Starts

\* A continuation is a start under the inherited id.
LEMMA ContinueStarts ==
    ASSUME IInv, NEW req \in Request, Continue(req)
    PROVE  Starts(req)
<1>1. PICK r \in Usable(req) : /\ MatchesContinuation(req, r)
                               /\ StartOn(active, req, r.op)
                               /\ reserved' = Claimed(r)
  BY DEF Continue
<1>2. r \in reserved /\ r.req.branch = req.branch
  BY ConflictSameBranch DEF Usable, ReservedAgainst
<1>3. reserved' \subseteq reserved /\ pending' = pending
  BY <1>1 DEF Claimed, Continue
<1>4. Fresh(r.op)
  <2>1. r.op \in Nat /\ nextId \in Nat /\ r.op < nextId
    BY <1>2 DEF IInv, TypeOK, Reserved, IdsBelow
  <2>2. \A l \in leases : l.op # r.op
    BY <1>2 DEF IInv, OneHolderPerId
  <2>3. \A s \in reserved' : s.op # r.op
    BY <1>1, <1>2 DEF IInv, ReservedIdsUnique, Claimed
  <2> QED BY <2>1, <2>2, <2>3 DEF Fresh
<1>5. \E entries, id : Kept(entries, req) /\ Fresh(id) /\ StartOn(entries, req, id)
  BY <1>1, <1>4, KeptAll DEF Continue, IInv
<1>6. ~Ends(req)
  BY <1>1 DEF MatchesContinuation, Ends, TerminalKinds
<1>7. \A b : b # req.branch => OnBranch(reserved', b) = OnBranch(reserved, b)
  BY <1>1, <1>2 DEF OnBranch, Claimed
<1> QED BY <1>3, <1>5, <1>6, <1>7 DEF Starts

\* Overriding a reservation is a start.
LEMMA OverrideStarts ==
    ASSUME IInv, NEW req \in Request, OverrideReserved(req)
    PROVE  Starts(req)
<1>1. PICK r \in Usable(req) : reserved' = reserved \ {r}
  BY DEF OverrideReserved
<1>2. r \in reserved /\ r.req.branch = req.branch
  BY ConflictSameBranch DEF Usable, ReservedAgainst
<1>3. /\ reserved' \subseteq reserved /\ pending' \subseteq pending
      /\ \A p \in pending \ pending' : p.req.branch = req.branch
  BY <1>1 DEF OverrideReserved, PendingAfter, Drop
<1>4. \E entries, id : Kept(entries, req) /\ Fresh(id) /\ StartOn(entries, req, id)
  BY <1>3, KeptAll, FreshNext DEF OverrideReserved, IInv
<1>5. \A p \in pending' : p.req.branch # req.branch \/ ~Ends(req)
  BY DEF OverrideReserved, PendingAfter, Drop
<1>6. \A b : b # req.branch => OnBranch(reserved', b) = OnBranch(reserved, b)
  BY <1>1, <1>2 DEF OnBranch
<1> QED BY <1>3, <1>4, <1>5, <1>6 DEF Starts

\* begin() starts an operation, merges a deploy behind something that will
\* give it back, or changes nothing.
LEMMA BeginOutcome ==
    ASSUME IInv, NEW req \in Request, Begin(req)
    PROVE  Starts(req) \/ Merges(req) \/ Stutters
<1>1. Blocking(req) # {} => OnBranch(active, req.branch) # {}
  BY ConflictSameBranch DEF Blocking, OnBranch
<1>2. Usable(req) # {} => OnBranch(reserved, req.branch) # {}
  BY ConflictSameBranch DEF Usable, ReservedAgainst, OnBranch
<1>3. CASE StartFree(req)
  BY <1>3, StartFreeStarts
<1>4. CASE MergeWebhook(req)
  BY <1>4, <1>1, <1>2 DEF MergeWebhook, Merges
<1>5. CASE Supersede(req)
  BY <1>5, SupersedeStarts
<1>6. CASE MergeManual(req)
  BY <1>6, <1>1 DEF MergeManual, Merges
<1>7. CASE Continue(req)
  BY <1>7, ContinueStarts
<1>8. CASE OverrideReserved(req)
  BY <1>8, OverrideStarts
<1>9. CASE MergeBehindReserved(req)
  BY <1>9, <1>2 DEF MergeBehindReserved, Merges
<1>10. CASE Reject(req)
  BY <1>10 DEF Reject, Stutters
<1> QED BY <1>3, <1>4, <1>5, <1>6, <1>7, <1>8, <1>9, <1>10 DEF Begin

-----------------------------------------------------------------------------
(* The three outcomes preserve the invariant. *)

\* What StartOn does to the map and the holders, without its position
\* bookkeeping: one entry and one lease of the same id, generation and request.
LEMMA StartShape ==
    ASSUME TypeOK, NEW req \in Request, NEW entries \in SUBSET Entry, NEW id \in Nat,
           StartOn(entries, req, id)
    PROVE  /\ \E n \in Entry, m \in Lease :
                /\ n.op = id /\ n.req = req /\ ~n.cancelled
                /\ m.op = id /\ m.req = req /\ m.gen = n.gen
                /\ active' = {e \in entries : OperationKey(e.req) # OperationKey(req)}
                                \cup {n}
                /\ leases' = leases \cup {m}
           /\ generations' \in [Branches -> Nat]
           /\ nextId' = nextId + 1
<1> DEFINE same == {e \in entries : OperationKey(e.req) = OperationKey(req)}
           gen  == NextGeneration(req.branch)
           pos  == IF same = {} THEN nextId ELSE (CHOOSE e \in same : TRUE).pos
           n    == [op |-> id, gen |-> gen, req |-> req, cancelled |-> FALSE, pos |-> pos]
           m    == [op |-> id, gen |-> gen, req |-> req]
<1>1. req.branch \in Branches
  BY DEF Request
<1>2. gen \in Nat
  BY <1>1 DEF TypeOK, NextGeneration
<1>3. pos \in Nat
  BY DEF Entry, TypeOK
<1>4. n \in Entry /\ m \in Lease
  BY <1>2, <1>3 DEF Entry, Lease
<1>5. generations' \in [Branches -> Nat]
  BY <1>2 DEF StartOn, TypeOK
<1>6. entries \ same = {e \in entries : OperationKey(e.req) # OperationKey(req)}
  OBVIOUS
<1>7. /\ active' = (entries \ same) \cup {n}
      /\ leases' = leases \cup {m} /\ nextId' = nextId + 1
  BY DEF StartOn
<1>8. /\ n.op = id /\ n.req = req /\ ~n.cancelled
      /\ m.op = id /\ m.req = req /\ m.gen = n.gen
  OBVIOUS
<1> QED BY <1>4, <1>5, <1>6, <1>7, <1>8

\* A start keeps the invariant.
LEMMA StartsPreserves ==
    ASSUME IInv, NEW req \in Request, Starts(req),
           replays' \subseteq replays, UNCHANGED gone
    PROVE  IInv'
<1>1. PICK entries, id : Kept(entries, req) /\ Fresh(id) /\ StartOn(entries, req, id)
  BY DEF Starts
<1>2. entries \in SUBSET Entry /\ id \in Nat /\ TypeOK
  BY <1>1 DEF Kept, Fresh, IInv
<1>3. /\ generations' \in [Branches -> Nat]
      /\ nextId' = nextId + 1
  BY <1>1, <1>2, StartShape
<1>4. PICK n \in Entry, m \in Lease :
         /\ n.op = id /\ n.req = req /\ ~n.cancelled
         /\ m.op = id /\ m.req = req /\ m.gen = n.gen
         /\ active' = {e \in entries : OperationKey(e.req) # OperationKey(req)} \cup {n}
         /\ leases' = leases \cup {m}
  BY <1>1, <1>2, StartShape
<1>5. reserved' \subseteq reserved /\ pending' \subseteq pending
  BY DEF Starts
<1>6. TypeOK'
  BY <1>2, <1>3, <1>4, <1>5 DEF TypeOK
<1>7. OneHolderPerId'
  BY <1>1, <1>3, <1>4, <1>5 DEF IInv, OneHolderPerId, Fresh
<1>8. EntriesHeld'
  <2> SUFFICES ASSUME NEW e \in active'
               PROVE  \E l \in leases' : l.op = e.op /\ l.gen = e.gen /\ l.req = e.req
    BY DEF EntriesHeld
  <2>1. CASE e = n
    BY <2>1, <1>3, <1>4
  <2>2. CASE e \in entries
    BY <2>2, <1>1, <1>4 DEF Kept, IInv, EntriesHeld
  <2> QED BY <2>1, <2>2, <1>4
<1>9. EntriesExclusive'
  <2> SUFFICES ASSUME NEW e \in active', NEW f \in active', e # f,
                      ~e.cancelled, ~f.cancelled
               PROVE  ~OperationsConflict(e.req, f.req)
    BY DEF EntriesExclusive
  <2>1. \A g \in entries : ~g.cancelled => ~OperationsConflict(req, g.req)
    BY <1>1 DEF Kept
  <2>2. CASE e = n
    BY <2>1, <2>2, <1>3, <1>4
  <2>3. CASE f = n
    BY <2>1, <2>3, <1>3, <1>4, ConflictSymmetric
  <2>4. CASE e # n /\ f # n
    <3>1. e \in active /\ f \in active
      BY <2>4, <1>1, <1>4 DEF Kept
    <3> QED BY <3>1 DEF IInv, EntriesExclusive
  <2> QED BY <2>2, <2>3, <2>4
<1>10. IdsBelow'
  BY <1>1, <1>2, <1>3, <1>4, <1>5 DEF IInv, IdsBelow, Fresh, TypeOK, Lease, Reserved
<1>11. ReservedIdsUnique'
  BY <1>5 DEF IInv, ReservedIdsUnique
<1>12. PendingCovered'
  <2> SUFFICES ASSUME NEW p \in pending'
               PROVE  \/ OnBranch(active', p.req.branch) # {}
                      \/ OnBranch(reserved', p.req.branch) # {}
    BY DEF PendingCovered, OnBranch
  <2>1. CASE p.req.branch = req.branch
    BY <2>1, <1>3, <1>4 DEF OnBranch
  <2>2. CASE p.req.branch # req.branch
    <3>1. OnBranch(reserved', p.req.branch) = OnBranch(reserved, p.req.branch)
      BY <2>2 DEF Starts
    <3>2. CASE OnBranch(active, p.req.branch) # {}
      <4>1. PICK f \in active : f.req.branch = p.req.branch
        BY <3>2 DEF OnBranch
      <4>2. ~OperationsConflict(req, f.req) /\ OperationKey(f.req) # OperationKey(req)
        BY <4>1, <2>2 DEF OperationsConflict, OperationKey
      <4>3. f \in active'
        BY <4>2, <1>1, <1>4 DEF Kept
      <4> QED BY <4>1, <4>3 DEF OnBranch
    <3> QED BY <3>1, <3>2, <1>5 DEF IInv, PendingCovered
  <2> QED BY <2>1, <2>2
<1> QED BY <1>6, <1>7, <1>8, <1>9, <1>10, <1>11, <1>12 DEF IInv

\* Merging a deploy keeps the invariant: something blocks it.
LEMMA MergesPreserves ==
    ASSUME IInv, NEW req \in Request, Merges(req),
           replays' \subseteq replays, UNCHANGED gone
    PROVE  IInv'
<1> DEFINE old == OnBranch(pending, req.branch)
           new == [op  |-> IF old = {} THEN nextId ELSE (CHOOSE p \in old : TRUE).op,
                   gen |-> NextGeneration(req.branch), req |-> req]
<1>1. req.branch \in Branches
  BY DEF Request
<1>2. NextGeneration(req.branch) \in Nat
  BY <1>1 DEF IInv, TypeOK, NextGeneration
<1>3. old # {} => (CHOOSE p \in old : TRUE).op \in Nat
  BY DEF IInv, TypeOK, OnBranch, Pending
<1>4. new \in Pending
  BY <1>2, <1>3 DEF IInv, TypeOK, Pending
<1>5. /\ pending' = Drop(pending, req.branch) \cup {new}
      /\ generations' \in [Branches -> Nat] /\ nextId' = nextId + 1
      /\ UNCHANGED <<active, leases, reserved>>
  BY <1>2 DEF Merges, Merge, IInv, TypeOK
<1>6. new.req = req
  OBVIOUS
<1> HIDE DEF new
<1>7. TypeOK'
  BY <1>4, <1>5 DEF IInv, TypeOK, Drop
<1>8. OneHolderPerId' /\ EntriesHeld' /\ EntriesExclusive' /\ ReservedIdsUnique'
  BY <1>5 DEF IInv, OneHolderPerId, EntriesHeld, EntriesExclusive, ReservedIdsUnique
<1>9. IdsBelow'
  BY <1>5 DEF IInv, IdsBelow, TypeOK, Lease, Reserved
<1>10. PendingCovered'
  BY <1>5, <1>6 DEF IInv, PendingCovered, Merges, Drop, OnBranch
<1> QED BY <1>7, <1>8, <1>9, <1>10 DEF IInv

\* A refused request keeps the invariant.
LEMMA StutterPreserves ==
    ASSUME IInv, Stutters, replays' \subseteq replays, UNCHANGED gone
    PROVE  IInv'
  BY DEF Stutters, IInv, TypeOK, OneHolderPerId, EntriesHeld, EntriesExclusive,
         IdsBelow, ReservedIdsUnique, PendingCovered, OnBranch, OperationsConflict,
         IsBranchWide

\* Whatever begin() answers, the invariant is kept.
LEMMA BeginPreserves ==
    ASSUME IInv, NEW req \in Request, Begin(req),
           replays' \subseteq replays, UNCHANGED gone
    PROVE  IInv'
  BY BeginOutcome, StartsPreserves, MergesPreserves, StutterPreserves

\* What is replayed is again a request.
LEMMA ReplayIsRequest ==
    ASSUME NEW p \in Pending
    PROVE  ReplayRequest(p) \in Request
  BY DEF Pending, ReplayRequest, Request, Kinds

\* An expired continuation still blocks and keeps its id.
LEMMA ExpirePreserves ==
    ASSUME IInv, NEW r \in reserved, Expire(r)
    PROVE  IInv'
<1> DEFINE new == [r EXCEPT !.expired = TRUE]
<1>1. new \in Reserved /\ new.op = r.op /\ new.req = r.req
  BY DEF IInv, TypeOK, Reserved
<1>2. reserved' = (reserved \ {r}) \cup {new}
  BY DEF Expire
<1> HIDE DEF new
<1>3. TypeOK'
  BY <1>1, <1>2 DEF Expire, IInv, TypeOK
<1>4. OneHolderPerId' /\ ReservedIdsUnique'
  BY <1>1, <1>2 DEF Expire, IInv, OneHolderPerId, ReservedIdsUnique
<1>5. EntriesHeld' /\ EntriesExclusive'
  BY DEF Expire, IInv, EntriesHeld, EntriesExclusive
<1>6. IdsBelow'
  BY <1>1, <1>2 DEF Expire, IInv, IdsBelow
<1>7. PendingCovered'
  BY <1>1, <1>2 DEF Expire, IInv, PendingCovered, OnBranch
<1> QED BY <1>3, <1>4, <1>5, <1>6, <1>7 DEF IInv

\* complete() keeps the invariant: the id it deletes by has one holder.
LEMMA CompletePreserves ==
    ASSUME IInv, NEW l \in leases, NEW status \in Statuses, Complete(l, status)
    PROVE  IInv'
<1>1. /\ active' = active \ HeldBy(l) /\ leases' = leases \ {l}
      /\ UNCHANGED <<generations, nextId>>
      /\ pending' \subseteq pending
      /\ gone' \subseteq gone \cup {l.req.branch}
      /\ replays' \subseteq replays \cup pending
  BY DEF Complete, Popped, Drop, OnBranch
<1>2. l \in Lease /\ l.req.branch \in Branches
  BY DEF IInv, TypeOK, Lease, Request
<1>3. Reservation(l) \in Reserved /\ Reservation(l).op = l.op
      /\ Reservation(l).req = l.req
  BY <1>2 DEF Reservation, Lease, Reserved
<1>4. \/ reserved' = reserved
      \/ reserved' = Drop(reserved, l.req.branch) \cup {Reservation(l)}
  BY DEF Complete
<1>5. TypeOK'
  BY <1>1, <1>2, <1>3, <1>4 DEF IInv, TypeOK, Drop
<1>6. OneHolderPerId'
  BY <1>1, <1>3, <1>4 DEF IInv, OneHolderPerId, Drop
<1>7. EntriesHeld'
  BY <1>1 DEF IInv, EntriesHeld, HeldBy
<1>8. EntriesExclusive'
  BY <1>1 DEF IInv, EntriesExclusive
<1>9. IdsBelow'
  BY <1>1, <1>3, <1>4 DEF IInv, IdsBelow, Drop
<1>10. ReservedIdsUnique'
  BY <1>3, <1>4 DEF IInv, ReservedIdsUnique, OneHolderPerId, Drop
<1>11. PendingCovered'
  <2> SUFFICES ASSUME NEW p \in pending'
               PROVE  \/ OnBranch(active', p.req.branch) # {}
                      \/ OnBranch(reserved', p.req.branch) # {}
    BY DEF PendingCovered, OnBranch
  <2>1. CASE p.req.branch = l.req.branch
    <3>1. HoldsContinuation(l, status)
      BY <2>1 DEF Complete, Popped, Drop
    <3>2. Reservation(l) \in reserved'
      BY <3>1 DEF Complete
    <3> QED BY <2>1, <3>2, <1>3 DEF OnBranch
  <2>2. CASE p.req.branch # l.req.branch
    <3>1. \A e \in active : e.req.branch = p.req.branch => e \in active'
      <4> SUFFICES ASSUME NEW e \in active, e.req.branch = p.req.branch
                   PROVE  e \notin HeldBy(l)
        BY <1>1
      <4>1. PICK m \in leases : m.op = e.op /\ m.req = e.req
        BY DEF IInv, EntriesHeld
      <4> QED BY <4>1, <2>2 DEF HeldBy, IInv, OneHolderPerId
    <3>2. OnBranch(reserved, p.req.branch) \subseteq OnBranch(reserved', p.req.branch)
      BY <1>4, <2>2 DEF OnBranch, Drop
    <3> QED BY <3>1, <3>2, <1>1 DEF IInv, PendingCovered, OnBranch
  <2> QED BY <2>1, <2>2
<1> QED BY <1>5, <1>6, <1>7, <1>8, <1>9, <1>10, <1>11 DEF IInv

-----------------------------------------------------------------------------
(* Theorems. *)

\* A fresh coordinator satisfies the invariant.
LEMMA InitInvariant == Init => IInv
  BY DEF Init, IInv, TypeOK, OneHolderPerId, EntriesHeld, EntriesExclusive,
         IdsBelow, ReservedIdsUnique, PendingCovered

\* Every step of the system keeps the invariant.
LEMMA StepInvariant == IInv /\ [Next]_vars => IInv'
<1> SUFFICES ASSUME IInv, [Next]_vars
             PROVE  IInv'
  OBVIOUS
<1>1. CASE AskAny
  BY <1>1, BeginPreserves, RequestsAssumption DEF AskAny, Ask
<1>2. CASE ExpireAny
  BY <1>2, ExpirePreserves DEF ExpireAny
<1>3. CASE CompleteAny
  BY <1>3, CompletePreserves DEF CompleteAny
<1>4. CASE ReplayAny
  <2>1. PICK p \in replays : Replay(p) \/ LoseReplay(p)
    BY <1>4 DEF ReplayAny
  <2>2. p \in Pending
    BY DEF IInv, TypeOK
  <2>3. CASE Replay(p)
    BY <2>2, <2>3, ReplayIsRequest, BeginPreserves DEF Replay
  <2>4. CASE LoseReplay(p)
    BY <2>4, StutterPreserves DEF LoseReplay, Stutters
  <2> QED BY <2>1, <2>3, <2>4
<1>5. CASE UNCHANGED vars
  BY <1>5, StutterPreserves DEF vars, Stutters
<1> QED BY <1>1, <1>2, <1>3, <1>4, <1>5 DEF Next

\* The inductive invariant holds in every reachable state.
THEOREM InductiveInvariant == Spec => []IInv
  BY InitInvariant, StepInvariant, PTL DEF Spec

\* Every variable keeps its type, whatever the requests.
THEOREM TypeCorrect == Spec => []TypeOK
<1>1. IInv => TypeOK
  BY DEF IInv
<1> QED BY <1>1, InductiveInvariant, PTL

\* A current lease has an entry of its own request.
LEMMA CurrentEntry ==
    ASSUME IInv, NEW l \in leases, IsCurrent(l)
    PROVE  \E e \in active : e.op = l.op /\ e.gen = l.gen /\ e.req = l.req /\ ~e.cancelled
  BY DEF IInv, IsCurrent, EntriesHeld, OneHolderPerId

\* No two unfinished operations that conflict are ever both current: two
\* handlers whose checks pass never work on the same containers.
THEOREM CurrentLeasesExclusive == Spec => []MutualExclusion
<1>1. IInv => MutualExclusion
  <2> SUFFICES ASSUME IInv, NEW l \in leases, NEW m \in leases, l # m,
                      IsCurrent(l), IsCurrent(m)
               PROVE  ~OperationsConflict(l.req, m.req)
    BY DEF MutualExclusion
  <2>1. PICK e \in active : e.op = l.op /\ e.req = l.req /\ ~e.cancelled
    BY CurrentEntry
  <2>2. PICK f \in active : f.op = m.op /\ f.req = m.req /\ ~f.cancelled
    BY CurrentEntry
  <2>3. e # f
    BY <2>1, <2>2 DEF IInv, OneHolderPerId
  <2> QED BY <2>1, <2>2, <2>3 DEF IInv, EntriesExclusive
<1> QED BY <1>1, InductiveInvariant, PTL

\* An operation id never names two holders.
THEOREM IdsUnique == Spec => []OneHolderPerId
<1>1. IInv => OneHolderPerId
  BY DEF IInv
<1> QED BY <1>1, InductiveInvariant, PTL

\* A merged deploy always has a holder that will dispatch it or a continuation
\* it waits for.
THEOREM MergedNotForgotten == Spec => []NoOrphanPending
<1>1. IInv => NoOrphanPending
  BY DEF IInv, PendingCovered, EntriesHeld, NoOrphanPending, OnBranch
<1> QED BY <1>1, InductiveInvariant, PTL

-----------------------------------------------------------------------------
(* Theorems about steps. *)

\* Starting an operation fences nobody but the holders it conflicts with, and
\* revives nobody.
LEMMA StartFences ==
    ASSUME IInv, NEW req \in Request, Starts(req)
    PROVE  /\ \A l \in leases : ~IsCurrent(l) => ~IsCurrent(l)'
           /\ \A l \in leases : IsCurrent(l) /\ ~IsCurrent(l)' =>
                \E n \in leases' \ leases :
                  IsCurrent(n)' /\ OperationsConflict(n.req, l.req)
           /\ \A n \in leases' \ leases :
                Ends(n.req) => OnBranch(pending', n.req.branch) = {}
<1>1. PICK entries, id : Kept(entries, req) /\ Fresh(id) /\ StartOn(entries, req, id)
  BY DEF Starts
<1>2. entries \in SUBSET Entry /\ id \in Nat /\ TypeOK
  BY <1>1 DEF Kept, Fresh, IInv
<1>4. PICK n \in Entry, m \in Lease :
         /\ n.op = id /\ n.req = req /\ ~n.cancelled
         /\ m.op = id /\ m.req = req /\ m.gen = n.gen
         /\ active' = {e \in entries : OperationKey(e.req) # OperationKey(req)} \cup {n}
         /\ leases' = leases \cup {m}
  BY <1>1, <1>2, StartShape
<1>5. \A l \in leases : l.op # id
  BY <1>1 DEF Fresh
<1>6. m \notin leases /\ IsCurrent(m)'
  BY <1>4, <1>5 DEF IsCurrent
<1>7. ASSUME NEW l \in leases, ~IsCurrent(l)
      PROVE  ~IsCurrent(l)'
  <2> SUFFICES ASSUME NEW e \in active', e.req.branch = l.req.branch,
                      e.op = l.op, e.gen = l.gen, ~e.cancelled
               PROVE  FALSE
    BY DEF IsCurrent
  <2>1. e \in active
    BY <1>1, <1>4, <1>5 DEF Kept
  <2> QED BY <1>7, <2>1 DEF IsCurrent
<1>8. ASSUME NEW l \in leases, IsCurrent(l), ~IsCurrent(l)'
      PROVE  OperationsConflict(m.req, l.req)
  <2>1. PICK f \in active : f.op = l.op /\ f.gen = l.gen /\ f.req = l.req /\ ~f.cancelled
    BY <1>8, CurrentEntry
  <2>2. f \notin active'
    BY <1>8, <2>1 DEF IsCurrent
  <2>3. CASE f \in entries
    <3>1. OperationKey(f.req) = OperationKey(req)
      BY <1>4, <2>2, <2>3
    <3>2. f.req \in Request
      BY <1>2 DEF TypeOK, Entry
    <3> QED BY <3>1, <3>2, <2>1, <1>4, SameKeyConflicts
  <2>4. CASE f \notin entries
    BY <1>1, <1>4, <2>1, <2>4 DEF Kept
  <2> QED BY <2>3, <2>4
<1>9. \A x \in leases' \ leases : Ends(x.req) => OnBranch(pending', x.req.branch) = {}
  BY <1>4 DEF Starts, OnBranch
<1> QED BY <1>4, <1>6, <1>7, <1>8, <1>9

\* A merge or a stutter leaves entries and holders alone.
LEMMA QuietFences ==
    ASSUME UNCHANGED <<active, leases>>
    PROVE  /\ \A l \in leases : IsCurrent(l) <=> IsCurrent(l)'
           /\ leases' \ leases = {}
  BY DEF IsCurrent

\* A completion removes its own entry only.
LEMMA CompleteFences ==
    ASSUME IInv, NEW l \in leases, NEW status \in Statuses, Complete(l, status)
    PROVE  /\ \A m \in leases : ~IsCurrent(m) => ~IsCurrent(m)'
           /\ \A m \in leases' : IsCurrent(m) => IsCurrent(m)'
           /\ leases' \ leases = {}
<1>1. active' = active \ HeldBy(l) /\ leases' = leases \ {l}
  BY DEF Complete
<1>2. \A m \in leases' : m.op # l.op
  BY <1>1 DEF IInv, OneHolderPerId
<1> QED BY <1>1, <1>2 DEF IsCurrent, HeldBy

Fenced ==
    /\ \A l \in leases : ~IsCurrent(l) => ~IsCurrent(l)'
    /\ \A l \in leases \cap leases' : IsCurrent(l) /\ ~IsCurrent(l)' =>
         \E n \in leases' \ leases : IsCurrent(n)' /\ OperationsConflict(n.req, l.req)
    /\ \A n \in leases' \ leases :
         Ends(n.req) => OnBranch(pending', n.req.branch) = {}

\* begin() reopens no fence.
LEMMA BeginFences ==
    ASSUME IInv, NEW req \in Request, Begin(req)
    PROVE  Fenced
<1>1. CASE Starts(req)
  BY <1>1, StartFences DEF Fenced
<1>2. CASE Merges(req) \/ Stutters
  <2>1. UNCHANGED <<active, leases>>
    BY <1>2 DEF Merges, Merge, Stutters
  <2> QED BY <2>1, QuietFences DEF Fenced
<1> QED BY <1>1, <1>2, BeginOutcome

\* No step reopens a fence.
LEMMA StepFences == IInv /\ [Next]_vars => Fenced
<1> SUFFICES ASSUME IInv, [Next]_vars
             PROVE  Fenced
  OBVIOUS
<1>1. CASE AskAny
  BY <1>1, BeginFences, RequestsAssumption DEF AskAny, Ask
<1>2. CASE ExpireAny
  BY <1>2, QuietFences DEF ExpireAny, Expire, Fenced
<1>3. CASE CompleteAny
  BY <1>3, CompleteFences DEF CompleteAny, Fenced
<1>4. CASE ReplayAny
  <2>1. PICK p \in replays : Replay(p) \/ LoseReplay(p)
    BY <1>4 DEF ReplayAny
  <2>2. p \in Pending
    BY DEF IInv, TypeOK
  <2>3. CASE Replay(p)
    BY <2>2, <2>3, ReplayIsRequest, BeginFences DEF Replay
  <2>4. CASE LoseReplay(p)
    BY <2>4, QuietFences DEF LoseReplay, Fenced
  <2> QED BY <2>1, <2>3, <2>4
<1>5. CASE UNCHANGED vars
  BY <1>5, QuietFences DEF vars, Fenced
<1> QED BY <1>1, <1>2, <1>3, <1>4, <1>5 DEF Next

\* A superseded lease stays superseded until its holder completes.
THEOREM FenceHolds == Spec => FencedForever
<1>1. IInv /\ [Next]_vars => [\A l \in leases : ~IsCurrent(l) => ~IsCurrent(l)']_vars
  BY StepFences DEF Fenced
<1> QED BY <1>1, InductiveInvariant, PTL DEF Spec, FencedForever

\* A lease is lost only to a conflicting operation that has just started.
THEOREM NobodyElseRevokes == Spec => RevokedOnlyByConflict
<1> DEFINE A == \A l \in leases \cap leases' :
                   IsCurrent(l) /\ ~IsCurrent(l)' =>
                     \E n \in leases' \ leases :
                       IsCurrent(n)' /\ OperationsConflict(n.req, l.req)
<1>1. IInv /\ [Next]_vars => [A]_vars
  BY StepFences DEF Fenced
<1> QED BY <1>1, InductiveInvariant, PTL DEF Spec, RevokedOnlyByConflict

\* Starting a stop or a terminal operation withdraws the deploy merged before.
THEOREM EndingWithdrawsPending == Spec => EndingClearsPending
<1>1. IInv /\ [Next]_vars =>
        [\A n \in leases' \ leases :
           Ends(n.req) => OnBranch(pending', n.req.branch) = {}]_vars
  BY StepFences DEF Fenced
<1> QED BY <1>1, InductiveInvariant, PTL DEF Spec, EndingClearsPending

-----------------------------------------------------------------------------
(* The coordinator implements BranchLeases. *)

\* The mapping: who owns what it works on.
Owners == {l \in leases : IsCurrent(l)}

\* A start takes over from exactly the owners it conflicts with.
LEMMA StartTakesOver ==
    ASSUME IInv, NEW req \in Request, Starts(req)
    PROVE  \E n \in leases' :
              /\ n.req = req /\ n \notin leases /\ leases' = leases \cup {n}
              /\ Owners' = {m \in Owners : ~OperationsConflict(req, m.req)} \cup {n}
<1>1. PICK entries, id : Kept(entries, req) /\ Fresh(id) /\ StartOn(entries, req, id)
  BY DEF Starts
<1>2. entries \in SUBSET Entry /\ id \in Nat /\ TypeOK
  BY <1>1 DEF Kept, Fresh, IInv
<1>3. PICK e0 \in Entry, n \in Lease :
         /\ e0.op = id /\ e0.req = req /\ ~e0.cancelled
         /\ n.op = id /\ n.req = req /\ n.gen = e0.gen
         /\ active' = {e \in entries : OperationKey(e.req) # OperationKey(req)} \cup {e0}
         /\ leases' = leases \cup {n}
  BY <1>1, <1>2, StartShape
<1>4. \A l \in leases : l.op # id
  BY <1>1 DEF Fresh
<1>5. n \notin leases /\ IsCurrent(n)'
  BY <1>3, <1>4 DEF IsCurrent
<1>6. ASSUME NEW l \in leases, IsCurrent(l)'
      PROVE  IsCurrent(l) /\ ~OperationsConflict(req, l.req)
  <2>1. PICK e \in active' : /\ e.req.branch = l.req.branch
                             /\ e.op = l.op /\ e.gen = l.gen /\ ~e.cancelled
    BY <1>6 DEF IsCurrent
  <2>2. e \in entries /\ e \in active /\ ~OperationsConflict(req, e.req)
    BY <1>1, <1>3, <1>4, <2>1 DEF Kept
  <2>3. IsCurrent(l)
    BY <2>1, <2>2 DEF IsCurrent
  <2>4. e.req = l.req
    BY <2>1, <2>2 DEF IInv, EntriesHeld, OneHolderPerId
  <2> QED BY <2>2, <2>3, <2>4
<1>7. ASSUME NEW l \in leases, IsCurrent(l), ~OperationsConflict(req, l.req)
      PROVE  IsCurrent(l)'
  <2>1. PICK e \in active : e.op = l.op /\ e.gen = l.gen /\ e.req = l.req /\ ~e.cancelled
    BY <1>7, CurrentEntry
  <2>2. e \in entries
    BY <1>1, <1>7, <2>1 DEF Kept
  <2>3. OperationKey(e.req) # OperationKey(req)
    <3>1. e.req \in Request
      BY <1>2 DEF TypeOK, Entry
    <3> QED BY <1>7, <2>1, <3>1, SameKeyConflicts
  <2> QED BY <1>3, <2>1, <2>2, <2>3 DEF IsCurrent
<1>8. Owners' = {m \in Owners : ~OperationsConflict(req, m.req)} \cup {n}
  BY <1>3, <1>5, <1>6, <1>7 DEF Owners
<1> QED BY <1>3, <1>5, <1>8

\* A step of begin(), with what is on its way taken off at most.
LEMMA BeginPromised ==
    ASSUME IInv, NEW req \in Request, Begin(req),
           replays' \subseteq replays, UNCHANGED gone
    PROVE  Table!Next
<1>1. CASE Starts(req)
  <2>1. PICK n \in leases' :
           /\ n.req = req /\ n \notin leases /\ leases' = leases \cup {n}
           /\ Owners' = {m \in Owners : ~OperationsConflict(req, m.req)} \cup {n}
    BY <1>1, StartTakesOver
  <2>2. /\ pending' \subseteq pending
        /\ \A p \in pending \ pending' : p.req.branch = req.branch
        /\ Ends(req) => {p \in pending' : p.req.branch = req.branch} = {}
    BY <1>1 DEF Starts
  <2>3. Table!Begin(n)
    BY <2>1, <2>2
    DEF Table!Begin, Table!Of, BranchOf, Conflicts, Ending, Owners
  <2> QED BY <2>3 DEF Table!Next
<1>2. CASE Merges(req)
  <2> DEFINE old == OnBranch(pending, req.branch)
             new == [op  |-> IF old = {} THEN nextId ELSE (CHOOSE p \in old : TRUE).op,
                     gen |-> NextGeneration(req.branch), req |-> req]
  <2>1. /\ pending' = Drop(pending, req.branch) \cup {new}
        /\ leases' = leases /\ active' = active
    BY <1>2 DEF Merges, Merge
  <2>2. new.req = req
    OBVIOUS
  <2> HIDE DEF new
  <2>3. Owners' = Owners
    BY <2>1 DEF Owners, IsCurrent
  <2>4. Table!Merge(new)
    BY <2>1, <2>2, <2>3
    DEF Table!Merge, Table!Of, BranchOf, Drop, Owners
  <2> QED BY <2>1, <2>4 DEF Table!Next
<1>3. CASE Stutters
  <2>1. Owners' = Owners /\ leases' = leases /\ pending' = pending
    BY <1>3 DEF Owners, IsCurrent, Stutters
  <2> QED BY <2>1 DEF Table!Next, Table!Lose, Owners
<1> QED BY <1>1, <1>2, <1>3, BeginOutcome

\* A completion gives up its own lease and dispatches what waits.
LEMMA CompletePromised ==
    ASSUME IInv, NEW l \in leases, NEW status \in Statuses, Complete(l, status)
    PROVE  Table!Finish(l)
<1>1. leases' = leases \ {l}
  BY DEF Complete
<1>2. Owners' = Owners \ {l}
  <2>1. \A m \in leases' : IsCurrent(m) <=> IsCurrent(m)'
    BY <1>1, CompleteFences
  <2> QED BY <1>1, <2>1 DEF Owners
<1>3. CASE HoldsContinuation(l, status)
  <2>1. Announces(l) /\ UNCHANGED <<pending, replays, gone>>
    BY <1>3 DEF Complete, HoldsContinuation, Announces, RemovingKinds
  <2> QED BY <1>1, <1>2, <2>1 DEF Table!Finish, Owners
<1>4. CASE ~HoldsContinuation(l, status)
  <2>1. /\ gone' = gone \/ gone' = gone \cup {l.req.branch}
        /\ pending' = Drop(pending, l.req.branch)
        /\ replays' = IF l.req.branch \in gone' THEN replays
                      ELSE replays \cup OnBranch(pending, l.req.branch)
    BY <1>4 DEF Complete, Popped
  <2>2. pending' = pending \ Table!Of(pending, BranchOf(l))
    BY <2>1 DEF Drop, Table!Of, BranchOf
  <2>3. replays' = replays \cup IF BranchOf(l) \in gone' THEN {}
                                ELSE Table!Of(pending, BranchOf(l))
    BY <2>1 DEF OnBranch, Table!Of, BranchOf
  <2>4. gone' = gone \/ gone' = gone \cup {BranchOf(l)}
    BY <2>1 DEF BranchOf
  <2> QED BY <1>1, <1>2, <2>2, <2>3, <2>4 DEF Table!Finish, Owners
<1> QED BY <1>3, <1>4

\* Every step of the coordinator and its callers is one of the table.
LEMMA StepPromised ==
    ASSUME IInv, [Next]_vars
    PROVE  [Table!Next]_(Table!vars)
<1>1. UNCHANGED <<active, leases>> => Owners' = Owners
  BY DEF Owners, IsCurrent
<1>2. CASE AskAny
  <2>1. Table!Next
    BY <1>2, BeginPromised, RequestsAssumption DEF AskAny, Ask
  <2> QED BY <2>1
<1>3. CASE ExpireAny
  BY <1>1, <1>3 DEF ExpireAny, Expire, Table!vars, Owners
<1>4. CASE CompleteAny
  <2>1. PICK l \in leases : Table!Finish(l)
    BY <1>4, CompletePromised DEF CompleteAny
  <2> QED BY <2>1 DEF Table!Next
<1>5. CASE ReplayAny
  <2>1. PICK p \in replays : Replay(p) \/ LoseReplay(p)
    BY <1>5 DEF ReplayAny
  <2>2. p \in Pending
    BY DEF IInv, TypeOK
  <2>3. CASE Replay(p)
    <3>1. Table!Next
      BY <2>2, <2>3, ReplayIsRequest, BeginPromised DEF Replay
    <3> QED BY <3>1
  <2>4. CASE LoseReplay(p)
    BY <1>1, <2>4 DEF LoseReplay, Table!Next, Table!Lose, Owners
  <2> QED BY <2>1, <2>3, <2>4
<1>6. CASE UNCHANGED vars
  BY <1>1, <1>6 DEF vars, Table!vars, Owners
<1> QED BY <1>2, <1>3, <1>4, <1>5, <1>6 DEF Next

\* The coordinator keeps its promise: a lease is revoked by a conflicting one
\* alone and for good, and no merged deploy is lost before it is dispatched.
THEOREM CoordinatorKeepsPromise == Spec => LeasePromise
<1>1. Init => Table!Init
  BY DEF Init, Table!Init
<1>2. IInv /\ [Next]_vars => [Table!Next]_(Table!vars)
  BY StepPromised
<1> QED BY <1>1, <1>2, InductiveInvariant, PTL DEF Spec, LeasePromise, Table!Spec

=============================================================================
