--------------------------- MODULE WarmPool_proofs ---------------------------
(***************************************************************************)
(* Proofs about the warm pool, for any branches, any number of overlapping *)
(* ticks and of requests, any capacity: its types, that a branch that asks *)
(* its visitors to wait is being worked on, and that the operations of the *)
(* users are not disturbed.                                                *)
(***************************************************************************)
EXTENDS WarmPool, FiniteSetTheorems, TLAPS

USE WarmPoolAssumption

-----------------------------------------------------------------------------
(* The invariant. *)

\* A pass that awaits the cooling of a surplus branch has counted one.
SurplusCounted ==
    \A t \in Ticks : tick[t].at = "capacity" /\ Waits(t) => tick[t].hot > 0

\* A wake cools others only before it restarts its own services.
EvictsFirst == \A b \in Branches : Waits(b) => wake[b] = "evicting"

\* The operation of a user is never superseded by the scheduler.
UserHolds ==
    \A b \in Branches : user[b].op # "none" => owner[b] = Holder("user", b)

IInv == TypeOK /\ SurplusCounted /\ EvictsFirst /\ UserHolds /\ WaitedForIsWorkedOn

\* What a branch shows is kept up by whoever holds it.
KeptUp(b) ==
    /\ branch[b].status = "stopping" => Stopping(b)
    /\ branch[b].status = "restarting" => Restarting(b)
    /\ branch[b].status = "building" => user[b].op = "deploy"

LEMMA WaitedForByBranch == WaitedForIsWorkedOn <=> \A b \in Branches : KeptUp(b)
BY DEF WaitedForIsWorkedOn, KeptUp

\* Holders of different kinds differ, and so do two of a kind.
LEMMA HoldersDiffer ==
    /\ \A k, x : k # "nobody" => Holder(k, x) # Nobody /\ Holder(k, x) # Thrown
    /\ \A k, l, x, y : Holder(k, x) = Holder(l, y) => k = l /\ x = y
<1>1. \A k, x : Holder(k, x)[1] = k /\ Holder(k, x)[2] = x
  BY DEF Holder
<1>2. Nobody[1] = "nobody" /\ Thrown[1] = "nobody"
  BY DEF Nobody, Thrown
<1> QED
  BY <1>1, <1>2

\* Nothing is being cooled in a record that says so.
LEMMA NotCoolingType == NotCooling \in [at : {"off", "stopping", "stopped", "archiving"},
                                        on : Branches]
BY DEF NotCooling

LEMMA HotCounts == TypeOK => Cardinality(Hot) \in Nat
<1>1. Hot \subseteq Branches
  BY DEF Hot
<1> QED
  BY <1>1, FS_Subset, FS_CardinalityType

LEMMA InitKeeps == Init => IInv
<1> SUFFICES ASSUME Init PROVE IInv
  OBVIOUS
<1>1. PICK was \in [Branches -> {"up", "cut", "new"}] :
         /\ branch = [b \in Branches |-> Started(was[b])]
         /\ up = {b \in Branches : was[b] = "up"}
  BY DEF Init
<1>2. \A b \in Branches : branch[b] \in Entries
                             /\ branch[b].status \in {"running", "idle", "error"}
  BY <1>1 DEF Started, Entries, Statuses, Services, Heats, Ages, Sources, Messages
<1>3. TypeOK
  <2>1. branch \in [Branches -> Entries] /\ up \subseteq Branches
    BY <1>1, <1>2
  <2>2. owner \in [Branches -> Holders]
    BY DEF Init, Holders
  <2>3. cool \in [Callers -> [at : {"off", "stopping", "stopped", "archiving"},
                             on : Branches]]
    BY NotCoolingType DEF Init
  <2>4. tick \in [Ticks -> [at : {"off", "idle", "capacity"},
                           todo : SUBSET Branches, hot : Nat]]
    BY DEF Init, NoTick
  <2>5. user \in [Branches -> [op : {"none", "stop", "restart", "deploy"},
                              done : BOOLEAN]]
    BY DEF Init, NoRequest
  <2> QED
    BY <2>1, <2>2, <2>3, <2>4, <2>5 DEF Init, TypeOK
<1>4. SurplusCounted
  BY DEF Init, SurplusCounted, NoTick
<1>5. EvictsFirst
  BY DEF Init, EvictsFirst, Waits, NotCooling, Callers
<1>6. UserHolds
  BY DEF Init, UserHolds, NoRequest
<1>7. WaitedForIsWorkedOn
  BY <1>2 DEF WaitedForIsWorkedOn
<1> QED
  BY <1>3, <1>4, <1>5, <1>6, <1>7 DEF IInv

-----------------------------------------------------------------------------
(* What carries over from a state to the next. *)

\* A branch whose own records stay, and whose cooler goes on, is still kept up.
LEMMA KeptUpStays ==
    ASSUME NEW x \in Branches, KeptUp(x),
           branch'[x].status = branch[x].status, owner'[x] = owner[x],
           user'[x].op = user[x].op,
           wake[x] # "off" /\ owner[x] = Holder("wake", x) => wake'[x] # "off",
           recover[x] # "off" => recover'[x] # "off",
           \A c \in Callers :
               cool[c].at # "off" /\ cool[c].on = x /\ owner[x] = Holder("cool", c)
               => cool'[c].at # "off" /\ cool'[c].on = x
    PROVE  KeptUp(x)'
BY DEF KeptUp, Stopping, Restarting, Holds

Coolings == [at : {"off", "stopping", "stopped", "archiving"}, on : Branches]

\* What markCold() and coolFn() may do before their first await.
Marks(c, b) ==
    /\ branch' \in [Branches -> Entries]
    /\ owner' \in [Branches -> Holders]
    /\ cool' \in [Callers -> Coolings]
    /\ \A x \in Branches : x # b => branch'[x] = branch[x] /\ owner'[x] = owner[x]
    /\ \A d \in Callers : d # c => cool'[d] = cool[d]
    /\ \/ /\ Shown(branch'[b]) = Shown(branch[b])
          /\ owner'[b] = owner[b] /\ cool'[c] = cool[c]
       \/ /\ Free(b) /\ owner'[b] = Holder("cool", c)
          /\ cool'[c].at # "off" /\ cool'[c].on = b
          /\ branch'[b].status = "stopping"

LEMMA AttemptTypes ==
    ASSUME TypeOK, NEW c \in Callers, NEW b \in Branches
    PROVE  /\ Attempted(b) \in Entries
           /\ LeaseTo(c, b) \in [Branches -> Holders]
           /\ AttemptBy(c, b) \in [Callers -> Coolings]
<1>1. branch[b] \in Entries
  BY DEF TypeOK
<1>2. Attempted(b) \in Entries
  BY <1>1 DEF Attempted, CoolingEntry, Entries, Statuses, Services, Heats, Ages, Sources
<1>3. Holder("cool", c) \in Holders
  BY DEF Holders
<1>4. LeaseTo(c, b) \in [Branches -> Holders]
  BY <1>3 DEF LeaseTo, TypeOK
<1>5. AttemptBy(c, b) \in [Callers -> Coolings]
  BY DEF AttemptBy, TypeOK, Coolings
<1> QED
  BY <1>2, <1>4, <1>5

\* Either the attempt begins a cooling or it changes the heat alone.
LEMMA AttemptShows ==
    ASSUME TypeOK, NEW c \in Callers, NEW b \in Branches
    PROVE  /\ Free(b) => /\ Attempted(b).status = "stopping"
                         /\ LeaseTo(c, b)[b] = Holder("cool", c)
                         /\ AttemptBy(c, b)[c].at # "off"
                         /\ AttemptBy(c, b)[c].on = b
           /\ ~Free(b) => /\ Shown(Attempted(b)) = Shown(branch[b])
                          /\ LeaseTo(c, b) = owner
                          /\ AttemptBy(c, b) = cool
           /\ \A x \in Branches : x # b => LeaseTo(c, b)[x] = owner[x]
           /\ \A d \in Callers : d # c => AttemptBy(c, b)[d] = cool[d]
<1>1. branch[b] \in Entries /\ owner \in [Branches -> Holders]
         /\ cool \in [Callers -> Coolings]
  BY DEF TypeOK, Coolings
<1>2. Free(b) => Attempted(b).status = "stopping"
  BY <1>1 DEF Attempted, CoolingEntry, Entries
<1>3. Free(b) => /\ LeaseTo(c, b)[b] = Holder("cool", c)
                 /\ AttemptBy(c, b)[c].at # "off" /\ AttemptBy(c, b)[c].on = b
  BY <1>1 DEF LeaseTo, AttemptBy
<1>4. ~Free(b) => /\ Shown(Attempted(b)) = Shown(branch[b])
                  /\ LeaseTo(c, b) = owner /\ AttemptBy(c, b) = cool
  BY <1>1 DEF Attempted, LeaseTo, AttemptBy, Shown, Entries
<1>5. /\ \A x \in Branches : x # b => LeaseTo(c, b)[x] = owner[x]
      /\ \A d \in Callers : d # c => AttemptBy(c, b)[d] = cool[d]
  BY <1>1 DEF LeaseTo, AttemptBy
<1> QED
  BY <1>2, <1>3, <1>4, <1>5

LEMMA MarkColdMarks ==
    ASSUME TypeOK, NEW c \in Callers, NEW b \in Branches, MarkCold(c, b)
    PROVE  Marks(c, b)
<1>1. CASE Ignored(b)
  BY <1>1 DEF MarkCold, Marks, TypeOK, Coolings
<1>2. CASE ~Ignored(b)
  <2>1. /\ branch' = [branch EXCEPT ![b] = Attempted(b)]
        /\ owner' = LeaseTo(c, b) /\ cool' = AttemptBy(c, b)
    BY <1>2 DEF MarkCold
  <2>2. branch \in [Branches -> Entries]
    BY DEF TypeOK
  <2>3. branch' \in [Branches -> Entries] /\ branch'[b] = Attempted(b)
           /\ \A x \in Branches : x # b => branch'[x] = branch[x]
    BY <2>1, <2>2, AttemptTypes
  <2> QED
    BY <2>1, <2>3, AttemptTypes, AttemptShows DEF Marks, Free
<1> QED
  BY <1>1, <1>2

\* A step that marks a branch and leaves wakes and users alone.
LEMMA MarksKeep ==
    ASSUME IInv, NEW c \in Callers, NEW b \in Branches, Marks(c, b), ~Waits(c),
           wake' = wake, user' = user, recover' = recover
    PROVE  UserHolds' /\ WaitedForIsWorkedOn'
<1>1. UserHolds'
  BY HoldersDiffer DEF IInv, UserHolds, Marks, Free
<1>2. ASSUME NEW x \in Branches PROVE KeptUp(x)'
  <2>1. KeptUp(x)
    BY WaitedForByBranch DEF IInv
  <2>2. CASE x = b /\ branch'[b].status = "stopping" /\ owner'[b] = Holder("cool", c)
             /\ cool'[c].at # "off" /\ cool'[c].on = b
    BY <2>2 DEF KeptUp, Stopping, Holds
  <2>3. CASE branch'[x].status = branch[x].status /\ owner'[x] = owner[x]
             /\ (x = b => cool'[c] = cool[c])
    <3>1. \A d \in Callers : cool[d].at # "off" => cool'[d] = cool[d]
      BY DEF Marks, Waits
    <3> QED
      BY <2>1, <2>3, <3>1, KeptUpStays
  <2>4. Shown(branch'[b]) = Shown(branch[b]) => branch'[b].status = branch[b].status
    BY DEF Shown
  <2> QED
    BY <2>2, <2>3, <2>4 DEF Marks
<1> QED
  BY <1>1, <1>2, WaitedForByBranch DEF WaitedForIsWorkedOn, KeptUp

-----------------------------------------------------------------------------
(* Each action keeps the invariant: cooling. *)

LEMMA PairParts ==
    ASSUME NEW e, NEW r \in BOOLEAN, NEW pair, pair = <<e, r>>
    PROVE  pair[1] = e /\ pair[2] \in BOOLEAN
OBVIOUS

\* Whatever docker makes of a stop or a restart, the events it sends show the
\* branch down, if they show anything.
LEMMA DockerLowers ==
    ASSUME TypeOK, NEW b \in Branches, NEW pair \in Stops(b) \cup Restarts(b)
    PROVE  /\ pair[1] \in Entries /\ pair[2] \in BOOLEAN
           /\ Lower(branch[b], pair[1])
<1>1. branch[b] \in Entries
  BY DEF TypeOK
<1>2. ASSUME NEW e \in {branch[b], StoppedBy(branch[b]), FailedBy(branch[b])}
      PROVE  e \in Entries /\ Lower(branch[b], e)
  BY <1>1 DEF StoppedBy, FailedBy, Died, Lower, Entries, Statuses, Services, Sources,
              Messages
<1>3. CASE pair = <<branch[b], b \in up>>
  <2>1. (b \in up) \in BOOLEAN
    OBVIOUS
  <2>2. pair[1] = branch[b] /\ pair[2] \in BOOLEAN
    BY <1>3, <2>1, PairParts, Zenon
  <2> QED
    BY <1>2, <2>2
<1>4. CASE \E e \in {branch[b], StoppedBy(branch[b]), FailedBy(branch[b])},
              r \in BOOLEAN : pair = <<e, r>>
  BY <1>2, <1>4
<1>5. ASSUME pair \in Stops(b)
      PROVE  \/ pair = <<branch[b], b \in up>>
             \/ pair = <<IF b \in up THEN StoppedBy(branch[b]) ELSE branch[b], FALSE>>
  BY <1>5, Zenon DEF Stops
<1>6. ASSUME pair \in Restarts(b), pair # <<branch[b], b \in up>>
      PROVE  pair \in (IF b \in up THEN {StoppedBy(branch[b]), FailedBy(branch[b])}
                                    ELSE {branch[b]}) \X BOOLEAN
  BY <1>6, Zenon DEF Restarts
<1>7. ASSUME pair \in Stops(b), pair # <<branch[b], b \in up>>
      PROVE  \E e \in {branch[b], StoppedBy(branch[b]), FailedBy(branch[b])},
                r \in BOOLEAN : pair = <<e, r>>
  <2> DEFINE e == IF b \in up THEN StoppedBy(branch[b]) ELSE branch[b]
  <2>1. pair = <<e, FALSE>>
    BY <1>5, <1>7
  <2>2. e \in {branch[b], StoppedBy(branch[b]), FailedBy(branch[b])}
    OBVIOUS
  <2> QED
    BY <2>1, <2>2, Zenon
<1>8. ASSUME pair \in Restarts(b), pair # <<branch[b], b \in up>>
      PROVE  \E e \in {branch[b], StoppedBy(branch[b]), FailedBy(branch[b])},
                r \in BOOLEAN : pair = <<e, r>>
  BY <1>6, <1>8
<1> QED
  BY <1>3, <1>4, <1>7, <1>8

LEMMA BecomesKeeps ==
    ASSUME TypeOK, NEW b \in Branches, NEW e \in Entries, NEW r \in BOOLEAN,
           Becomes(b, <<e, r>>)
    PROVE  /\ branch' \in [Branches -> Entries] /\ up' \subseteq Branches
           /\ branch'[b] = e
           /\ \A x \in Branches : x # b => branch'[x] = branch[x]
BY DEF TypeOK, Becomes

\* The same of a pair of docker's.
LEMMA DockerKeeps ==
    ASSUME TypeOK, NEW b \in Branches, NEW pair \in Stops(b) \cup Restarts(b),
           Becomes(b, pair)
    PROVE  /\ branch' \in [Branches -> Entries] /\ up' \subseteq Branches
           /\ Lower(branch[b], branch'[b])
           /\ \A x \in Branches : x # b => branch'[x] = branch[x]
<1>1. pair[1] \in Entries /\ pair[2] \in BOOLEAN /\ Lower(branch[b], pair[1])
  BY DockerLowers
<1>2. Becomes(b, <<pair[1], pair[2]>>)
  BY DEF Becomes
<1> QED
  BY <1>1, <1>2, BecomesKeeps

\* A step of which the branches show nothing but that they went down.
LEMMA KeptUpWhenLower ==
    ASSUME NEW x \in Branches, KeptUp(x), Lower(branch[x], branch'[x]),
           owner'[x] = owner[x], user'[x].op = user[x].op,
           wake[x] # "off" /\ owner[x] = Holder("wake", x) => wake'[x] # "off",
           recover[x] # "off" => recover'[x] # "off",
           \A c \in Callers :
               cool[c].at # "off" /\ cool[c].on = x /\ owner[x] = Holder("cool", c)
               => cool'[c].at # "off" /\ cool'[c].on = x
    PROVE  KeptUp(x)'
<1>1. CASE branch'[x].status = branch[x].status
  BY <1>1, KeptUpStays
<1>2. CASE branch'[x].status \in {"idle", "error"}
  BY <1>2 DEF KeptUp
<1> QED
  BY <1>1, <1>2 DEF Lower

LEMMA CoolStopsKeeps ==
    ASSUME IInv, NEW c \in Callers, CoolStops(c)
    PROVE  IInv'
<1>1. TypeOK
  BY DEF IInv
<1>2. cool[c].on \in Branches
  BY <1>1 DEF TypeOK
<1>3. cool' = [cool EXCEPT ![c].at = "stopped"] /\ cool' \in [Callers -> Coolings]
  BY <1>1 DEF CoolStops, TypeOK, Coolings
<1>4. /\ branch' \in [Branches -> Entries] /\ up' \subseteq Branches
      /\ \A x \in Branches : Lower(branch[x], branch'[x])
  BY <1>1, <1>2, DockerKeeps DEF CoolStops, Lower
<1>5. TypeOK'
  BY <1>1, <1>3, <1>4 DEF CoolStops, TypeOK, Coolings
<1>6. SurplusCounted' /\ EvictsFirst' /\ UserHolds'
  BY <1>1, <1>3 DEF IInv, CoolStops, SurplusCounted, EvictsFirst, UserHolds, Waits,
                   TypeOK, Callers, Coolings
<1>7. ASSUME NEW x \in Branches PROVE KeptUp(x)'
  <2>1. KeptUp(x)
    BY WaitedForByBranch DEF IInv
  <2>2. \A d \in Callers : cool[d].at # "off" => cool'[d].at # "off"
                                                 /\ cool'[d].on = cool[d].on
    BY <1>1, <1>3 DEF TypeOK
  <2> QED
    BY <1>4, <2>1, <2>2, KeptUpWhenLower DEF CoolStops
<1> QED
  BY <1>5, <1>6, <1>7, WaitedForByBranch DEF IInv, WaitedForIsWorkedOn, KeptUp

LEMMA CoolStoppedKeeps ==
    ASSUME IInv, NEW c \in Callers, CoolStopped(c)
    PROVE  IInv'
<1>1. TypeOK
  BY DEF IInv
<1>2. cool[c].on \in Branches /\ branch[cool[c].on] \in Entries
  BY <1>1 DEF TypeOK
<1>3. cool' = [cool EXCEPT ![c].at = "archiving"] /\ cool' \in [Callers -> Coolings]
  BY <1>1 DEF CoolStopped, TypeOK, Coolings
<1>4. /\ branch' \in [Branches -> Entries]
      /\ \A x \in Branches : branch'[x].status = branch[x].status
  BY <1>1, <1>2 DEF CoolStopped, TypeOK, Entries, Services
<1>5. TypeOK'
  BY <1>1, <1>3, <1>4 DEF CoolStopped, TypeOK, Coolings
<1>6. SurplusCounted' /\ EvictsFirst' /\ UserHolds'
  BY <1>1, <1>3 DEF IInv, CoolStopped, SurplusCounted, EvictsFirst, UserHolds, Waits,
                   TypeOK, Callers, Coolings
<1>7. ASSUME NEW x \in Branches PROVE KeptUp(x)'
  <2>1. KeptUp(x)
    BY WaitedForByBranch DEF IInv
  <2>2. \A d \in Callers : cool[d].at # "off" => cool'[d].at # "off"
                                                 /\ cool'[d].on = cool[d].on
    BY <1>1, <1>3 DEF TypeOK
  <2> QED
    BY <1>4, <2>1, <2>2, KeptUpStays DEF CoolStopped
<1> QED
  BY <1>5, <1>6, <1>7 DEF IInv, WaitedForIsWorkedOn, KeptUp

\* The caller that awaited the cooling goes on: a tick, a wake, or a request.  The
\* branch is idle, or it stays as it is, with the cooling given up.
LEMMA GoesOnKeeps ==
    ASSUME IInv, NEW c \in Callers, NEW b \in Branches, NEW cold \in BOOLEAN,
           cool[c].at = "archiving", b = cool[c].on, GoesOn(c, cold),
           branch' \in [Branches -> Entries], owner' \in [Branches -> Holders],
           mishaps' \in 0 .. MaxMishaps,
           \A x \in Branches : x # b => branch'[x] = branch[x] /\ owner'[x] = owner[x],
           owner'[b] = owner[b] \/ owner[b] = Holder("cool", c),
           \/ branch'[b].status = "idle"
           \/ /\ branch'[b].status = branch[b].status
              /\ \/ owner'[b] = Thrown
                 \/ owner'[b] = owner[b] /\ owner[b] # Holder("cool", c),
           UNCHANGED <<up, user, asked, ops, recover>>
    PROVE  IInv'
<1>1. TypeOK
  BY DEF IInv
<1>3. /\ cool' \in [Callers -> Coolings] /\ cool'[c].at = "off"
      /\ \A d \in Callers : d # c => cool'[d] = cool[d]
  BY <1>1, NotCoolingType DEF GoesOn, TypeOK, Coolings, NotCooling
<1>6. ASSUME NEW t \in Ticks
      PROVE  /\ tick'[t] \in [at : {"off", "idle", "capacity"},
                               todo : SUBSET Branches, hot : Nat]
             /\ tick'[t] = tick[t] \/ t = c
  <2>1. tick[t] \in [at : {"off", "idle", "capacity"}, todo : SUBSET Branches,
                     hot : Nat]
    BY <1>1 DEF TypeOK
  <2>2. tick'[t] = IF t = c THEN TickAfter(t, cold) ELSE tick[t]
    BY DEF GoesOn
  <2>3. t = c /\ tick[t].at = "capacity" => tick[t].hot > 0
    BY DEF IInv, SurplusCounted, Waits
  <2>4. NoTick \in [at : {"off", "idle", "capacity"}, todo : SUBSET Branches,
                    hot : Nat]
    BY DEF NoTick
  <2>5. t = c => TickAfter(t, cold) \in [at : {"off", "idle", "capacity"},
                                        todo : SUBSET Branches, hot : Nat]
    BY <2>1, <2>3, <2>4 DEF TickAfter
  <2> QED
    BY <2>1, <2>2, <2>5
<1>7. /\ wake' \in [Branches -> {"off", "evicting", "starting", "probing"}]
      /\ \A x \in Branches : x # c => wake'[x] = wake[x]
      /\ \A x \in Branches : owner[x] = Holder("wake", x) /\ wake[x] # "off"
                              => wake'[x] # "off"
  BY <1>1 DEF GoesOn, TypeOK, WakeAfter, StillAwake
<1>8. TypeOK'
  <2>1. tick' \in [Ticks -> [at : {"off", "idle", "capacity"},
                             todo : SUBSET Branches, hot : Nat]]
    BY <1>6 DEF GoesOn
  <2> QED
    BY <1>1, <1>3, <1>7, <2>1 DEF TypeOK, Coolings
<1>9. SurplusCounted'
  BY <1>3, <1>6 DEF IInv, SurplusCounted, Waits, Callers
<1>10. EvictsFirst'
  BY <1>3, <1>7 DEF IInv, EvictsFirst, Waits, Callers
<1>11. UserHolds'
  BY HoldersDiffer DEF IInv, UserHolds
<1>12. ASSUME NEW x \in Branches PROVE KeptUp(x)'
  <2>1. KeptUp(x)
    BY WaitedForByBranch DEF IInv
  <2>2. CASE x = b /\ branch'[b].status = "idle"
    BY <2>2 DEF KeptUp
  <2>3. CASE x = b /\ branch'[b].status = branch[b].status /\ owner'[b] = Thrown
    BY <2>1, <2>3 DEF KeptUp, Stopping, Restarting
  <2>4. CASE x = b /\ branch'[b].status = branch[b].status /\ owner'[b] = owner[b]
             /\ owner[b] # Holder("cool", c)
    BY <1>3, <1>7, <2>1, <2>4, KeptUpStays
  <2>5. CASE x # b
    BY <1>3, <1>7, <2>1, <2>5, KeptUpStays
  <2> QED
    BY <2>2, <2>3, <2>4, <2>5
<1> QED
  BY <1>8, <1>9, <1>10, <1>11, <1>12 DEF IInv, WaitedForIsWorkedOn, KeptUp

LEMMA CoolEndsKeeps ==
    ASSUME IInv, NEW c \in Callers, CoolEnds(c) \/ CoolThrows(c)
    PROVE  IInv'
<1> DEFINE b == cool[c].on
<1>1. TypeOK /\ branch \in [Branches -> Entries] /\ owner \in [Branches -> Holders]
  BY DEF IInv, TypeOK
<1>2. b \in Branches /\ branch[b] \in Entries /\ Holds(c) \in BOOLEAN
  BY <1>1 DEF TypeOK, Holds
<1>3. Nobody \in Holders /\ Thrown \in Holders
  BY DEF Holders
<1>4. /\ \A x \in Branches : x # b => branch'[x] = branch[x] /\ owner'[x] = owner[x]
      /\ branch' \in [Branches -> Entries] /\ owner' \in [Branches -> Holders]
      /\ owner'[b] = owner[b] \/ owner[b] = Holder("cool", c)
  <2>1. CASE CoolEnds(c)
    BY <1>1, <1>2, <1>3, <2>1 DEF CoolEnds, Entries, Statuses, Sources, Heats, HeatAfter,
                                  Holds
  <2>2. CASE CoolThrows(c)
    BY <1>1, <1>2, <1>3, <2>2 DEF CoolThrows, Entries, Heats, HeatAfter, Holds
  <2> QED
    BY <2>1, <2>2
<1>5. CASE CoolEnds(c)
  <2>1. branch'[b].status = "idle"
    BY <1>1, <1>2, <1>5 DEF CoolEnds, Entries
  <2>2. mishaps' \in 0 .. MaxMishaps
    BY <1>1, <1>5 DEF CoolEnds, TypeOK
  <2> HIDE DEF b
  <2> QED
    BY <1>2, <1>4, <1>5, <2>1, <2>2, GoesOnKeeps DEF CoolEnds, b
<1>6. CASE CoolThrows(c)
  <2>1. /\ branch'[b].status = branch[b].status
        /\ \/ owner'[b] = Thrown
           \/ owner'[b] = owner[b] /\ owner[b] # Holder("cool", c)
    BY <1>1, <1>2, <1>6 DEF CoolThrows, Entries, Holds
  <2>2. mishaps' \in 0 .. MaxMishaps
    BY <1>1, <1>6 DEF CoolThrows, TypeOK
  <2>3. GoesOn(c, FALSE) /\ cool[c].at = "archiving"
           /\ UNCHANGED <<up, user, asked, ops, recover>>
    BY <1>6 DEF CoolThrows
  <2> QED
    BY <1>2, <1>4, <2>1, <2>2, <2>3, GoesOnKeeps
<1> QED
  BY <1>5, <1>6

LEMMA CoolRouteKeeps ==
    ASSUME IInv, NEW r \in Routes, NEW b \in Branches, CoolRoute(r, b)
    PROVE  IInv'
<1>1. TypeOK /\ r \in Callers /\ r \notin Ticks /\ r \notin Branches
  BY DEF IInv, Callers
<1>2. Marks(r, b) /\ ~Waits(r)
  BY <1>1, MarkColdMarks DEF CoolRoute, Waits
<1>3. UserHolds' /\ WaitedForIsWorkedOn'
  BY <1>1, <1>2, MarksKeep DEF CoolRoute
<1>4. TypeOK'
  BY <1>1, <1>2 DEF CoolRoute, Marks, TypeOK, Coolings
<1>5. SurplusCounted' /\ EvictsFirst'
  BY <1>1, <1>2 DEF IInv, CoolRoute, Marks, SurplusCounted, EvictsFirst, Waits, Callers
<1> QED
  BY <1>3, <1>4, <1>5 DEF IInv

-----------------------------------------------------------------------------
(* The ticks. *)

Passes == [at : {"off", "idle", "capacity"}, todo : SUBSET Branches, hot : Nat]

\* What a step that touches only its pass of tick() keeps.
LEMMA TickOnlyKeeps ==
    ASSUME IInv, NEW t \in Ticks, ~Waits(t),
           tick' \in [Ticks -> Passes],
           \A u \in Ticks : u # t => tick'[u] = tick[u],
           UNCHANGED <<branch, up, owner, cool, wake, user, asked, ops, mishaps, recover>>
    PROVE  IInv'
<1>1. TypeOK'
  BY DEF IInv, TypeOK, Passes
<1>2. SurplusCounted'
  BY DEF IInv, SurplusCounted, Waits
<1>3. EvictsFirst' /\ UserHolds'
  BY DEF IInv, EvictsFirst, UserHolds, Waits
<1>4. WaitedForIsWorkedOn'
  BY DEF IInv, WaitedForIsWorkedOn, Stopping, Restarting, Holds
<1> QED
  BY <1>1, <1>2, <1>3, <1>4 DEF IInv

\* A step that marks a branch on behalf of a pass of tick().
LEMMA TickMarkKeeps ==
    ASSUME IInv, NEW t \in Ticks, NEW b \in Branches, Marks(t, b), ~Waits(t),
           tick' \in [Ticks -> Passes],
           \A u \in Ticks : u # t => tick'[u] = tick[u],
           tick'[t].at = "capacity" => tick'[t].hot > 0,
           UNCHANGED <<up, wake, user, asked, ops, mishaps, recover>>
    PROVE  IInv'
<1>1. t \in Callers /\ t \notin Branches
  BY DEF Callers
<1>2. UserHolds' /\ WaitedForIsWorkedOn'
  BY <1>1, MarksKeep
<1>3. TypeOK'
  BY DEF IInv, Marks, TypeOK, Coolings, Passes
<1>4. \A c \in Callers : c # t => (Waits(c)' <=> Waits(c))
  BY DEF Marks, Waits
<1>5. SurplusCounted'
  BY <1>4 DEF IInv, SurplusCounted, Callers
<1>6. EvictsFirst'
  BY <1>1, <1>4 DEF IInv, EvictsFirst, Callers
<1> QED
  BY <1>2, <1>3, <1>5, <1>6 DEF IInv

LEMMA TickingKeeps ==
    ASSUME IInv, NEW t \in Ticks, Ticking(t)
    PROVE  IInv'
<1>1. TypeOK /\ tick \in [Ticks -> Passes] /\ t \in Callers
  BY DEF IInv, TypeOK, Passes, Callers
<1>2. NoTick \in Passes
  BY DEF NoTick, Passes
<1>3. CASE TickStart(t)
  <2>1. [at |-> "idle", todo |-> Hot, hot |-> 0] \in Passes
    BY DEF Passes, Hot
  <2>2. tick' \in [Ticks -> Passes] /\ \A u \in Ticks : u # t => tick'[u] = tick[u]
    BY <1>1, <1>3, <2>1 DEF TickStart
  <2>3. CASE ~Waits(t)
    BY <1>3, <2>2, <2>3, TickOnlyKeeps DEF TickStart
  <2>4. CASE Waits(t)
    <3>1. tick'[t].at = "idle"
      BY <1>1, <1>3 DEF TickStart
    <3>2. TypeOK'
      BY <1>1, <1>3, <2>2 DEF TickStart, TypeOK, Passes
    <3>3. SurplusCounted'
      BY <1>3, <2>2, <3>1 DEF IInv, TickStart, SurplusCounted, Waits
    <3>4. EvictsFirst' /\ UserHolds' /\ WaitedForIsWorkedOn'
      BY <1>3 DEF TickStart, IInv, EvictsFirst, UserHolds, Waits,
                  WaitedForIsWorkedOn, Stopping, Restarting, Holds
    <3> QED
      BY <3>2, <3>3, <3>4 DEF IInv
  <2> QED
    BY <2>3, <2>4
<1>4. CASE TickIdle(t)
  <2>1. PICK b \in tick[t].todo :
          /\ tick' = [tick EXCEPT ![t].todo = @ \ {b}]
          /\ IF PastTTL(branch[b]) THEN MarkCold(t, b)
                                   ELSE UNCHANGED <<branch, owner, cool>>
    BY <1>4 DEF TickIdle
  <2>2. b \in Branches /\ tick[t] \in Passes
    BY <1>1, <2>1 DEF Passes
  <2>3. /\ tick' \in [Ticks -> Passes] /\ tick'[t].at = tick[t].at
        /\ \A u \in Ticks : u # t => tick'[u] = tick[u]
    BY <1>1, <2>1, <2>2 DEF Passes
  <2>4. tick'[t].at = "idle" /\ ~Waits(t)
    BY <1>4, <2>3 DEF TickIdle
  <2>5. UNCHANGED <<up, wake, user, asked, ops, mishaps, recover>>
    BY <1>4 DEF TickIdle
  <2>6. CASE PastTTL(branch[b])
    <3>1. Marks(t, b)
      BY <1>1, <2>1, <2>2, <2>6, MarkColdMarks
    <3> QED
      BY <2>2, <2>3, <2>4, <2>5, <3>1, TickMarkKeeps
  <2>7. CASE ~PastTTL(branch[b])
    BY <2>1, <2>3, <2>4, <2>5, <2>7, TickOnlyKeeps
  <2> QED
    BY <2>6, <2>7
<1>5. CASE TickCount(t)
  <2>1. [at |-> "capacity", todo |-> {}, hot |-> Cardinality(Hot)] \in Passes
    BY <1>1, HotCounts DEF Passes
  <2>2. tick' \in [Ticks -> Passes] /\ \A u \in Ticks : u # t => tick'[u] = tick[u]
    BY <1>1, <1>5, <2>1 DEF TickCount
  <2> QED
    BY <1>5, <2>2, TickOnlyKeeps DEF TickCount
<1>6. CASE TickEvict(t)
  <2>1. PICK v \in Victims(Hot) :
          /\ MarkCold(t, v)
          /\ tick' = [tick EXCEPT ![t] = IF Free(v) THEN @ ELSE NoTick]
    BY <1>6 DEF TickEvict
  <2>2. v \in Branches
    BY DEF Victims, Hot
  <2>3. tick[t] \in Passes /\ tick[t].hot > 0
    BY <1>1, <1>6 DEF TickEvict, OverCapacity, Passes
  <2>4. /\ tick' \in [Ticks -> Passes]
        /\ \A u \in Ticks : u # t => tick'[u] = tick[u]
        /\ tick'[t] = tick[t] \/ tick'[t] = NoTick
    BY <1>1, <1>2, <2>1
  <2>5. tick'[t].at = "capacity" => tick'[t].hot > 0
    BY <2>3, <2>4 DEF NoTick
  <2>6. Marks(t, v)
    BY <1>1, <2>1, <2>2, MarkColdMarks
  <2> QED
    BY <1>6, <2>2, <2>4, <2>5, <2>6, TickMarkKeeps DEF TickEvict
<1>7. CASE TickDone(t)
  <2>1. tick' \in [Ticks -> Passes] /\ \A u \in Ticks : u # t => tick'[u] = tick[u]
    BY <1>1, <1>2, <1>7 DEF TickDone
  <2> QED
    BY <1>7, <2>1, TickOnlyKeeps DEF TickDone
<1> QED
  BY <1>3, <1>4, <1>5, <1>6, <1>7 DEF Ticking

-----------------------------------------------------------------------------
(* Waking. *)

\* The lease of a user is taken by nobody who may supersede coolings alone.
LEMMA PreemptsNoUser ==
    ASSUME IInv, NEW b \in Branches, Preemptible(b)
    PROVE  user[b].op = "none"
<1>1. Holder("user", b)[1] = "user"
  BY DEF Holder
<1> QED
  BY <1>1 DEF IInv, UserHolds, Preemptible

LEMMA WakeBeginKeeps ==
    ASSUME IInv, NEW b \in Branches, WakeBegin(b)
    PROVE  IInv'
<1>1. /\ TypeOK /\ b \in Callers /\ b \notin Ticks
      /\ branch \in [Branches -> Entries] /\ branch[b] \in Entries
      /\ user[b].op = "none" /\ ~Waits(b) /\ wake[b] = "off"
  BY PreemptsNoUser DEF IInv, TypeOK, WakeBegin, EvictsFirst, Callers
<1>2. Waking(branch[b]) \in Entries /\ Waking(branch[b]).status = "restarting"
  BY <1>1 DEF Waking, Entries, Statuses, Services
<1>3. Holder("wake", b) \in Holders
  BY DEF Holders
<1>4. /\ wake' \in [Branches -> {"off", "evicting", "starting", "probing"}]
      /\ wake'[b] # "off" /\ \A x \in Branches : x # b => wake'[x] = wake[x]
  BY <1>1 DEF WakeBegin, TypeOK
<1>5. UNCHANGED <<up, user, tick, asked, ops, mishaps, recover>>
  BY DEF WakeBegin
<1>6. CASE Evictable(b) = {} /\ cool' = cool
             /\ branch' = [branch EXCEPT ![b] = Waking(@)]
             /\ owner' = [owner EXCEPT ![b] = Holder("wake", b)]
  <2>1. /\ branch' \in [Branches -> Entries] /\ branch'[b].status = "restarting"
        /\ owner' \in [Branches -> Holders] /\ owner'[b] = Holder("wake", b)
        /\ \A x \in Branches : x # b => branch'[x] = branch[x] /\ owner'[x] = owner[x]
    BY <1>1, <1>2, <1>3, <1>6 DEF TypeOK
  <2>2. TypeOK' /\ SurplusCounted'
    BY <1>1, <1>4, <1>5, <1>6, <2>1 DEF IInv, TypeOK, SurplusCounted, Waits
  <2>3. EvictsFirst' /\ UserHolds'
    BY <1>1, <1>4, <1>5, <1>6, <2>1 DEF IInv, EvictsFirst, UserHolds, Waits
  <2>4. ASSUME NEW x \in Branches PROVE KeptUp(x)'
    <3>1. KeptUp(x)
      BY WaitedForByBranch DEF IInv
    <3>2. CASE x = b
      BY <1>4, <2>1, <3>2 DEF KeptUp, Restarting
    <3>3. CASE x # b
      BY <1>4, <1>5, <1>6, <2>1, <3>1, <3>3, KeptUpStays
    <3> QED
      BY <3>2, <3>3
  <2> QED
    BY <2>2, <2>3, <2>4 DEF IInv, WaitedForIsWorkedOn, KeptUp
<1>7. ASSUME NEW v \in Evictable(b),
             branch' = [branch EXCEPT ![b] = Waking(@), ![v] = Attempted(v)],
             owner' = [LeaseTo(b, v) EXCEPT ![b] = Holder("wake", b)],
             cool' = AttemptBy(b, v),
             wake' = [wake EXCEPT ![b] = IF Free(v) THEN "evicting" ELSE "starting"]
      PROVE  IInv'
  <2>1. v \in Branches /\ v # b
    BY DEF Evictable, Victims, Others, Hot
  <2>2. /\ Attempted(v) \in Entries
        /\ LeaseTo(b, v) \in [Branches -> Holders]
        /\ cool' \in [Callers -> Coolings]
    BY <1>1, <1>7, <2>1, AttemptTypes
  <2>3. /\ branch' \in [Branches -> Entries] /\ branch'[b].status = "restarting"
        /\ branch'[v] = Attempted(v)
        /\ \A x \in Branches : x # b /\ x # v => branch'[x] = branch[x]
    BY <1>1, <1>2, <1>7, <2>1, <2>2
  <2>4. /\ owner' \in [Branches -> Holders] /\ owner'[b] = Holder("wake", b)
        /\ owner'[v] = LeaseTo(b, v)[v]
        /\ \A x \in Branches : x # b /\ x # v => owner'[x] = owner[x]
    BY <1>1, <1>3, <1>7, <2>1, <2>2, AttemptShows
  <2>5. \A d \in Callers : d # b => cool'[d] = cool[d]
    BY <1>1, <1>7, <2>1, AttemptShows
  <2>6. /\ Free(v) => /\ branch'[v].status = "stopping"
                      /\ owner'[v] = Holder("cool", b)
                      /\ cool'[b].at # "off" /\ cool'[b].on = v
                      /\ wake'[b] = "evicting"
        /\ ~Free(v) => /\ branch'[v].status = branch[v].status
                       /\ owner'[v] = owner[v] /\ cool' = cool
    <3>1. wake[b] = "off" /\ (Free(v) => wake'[b] = "evicting")
      BY <1>1, <1>7 DEF TypeOK
    <3>2. Shown(Attempted(v)) = Shown(branch[v])
             => Attempted(v).status = branch[v].status
      BY DEF Shown
    <3> QED
      BY <1>1, <1>7, <2>1, <2>3, <2>4, <3>1, <3>2, AttemptShows
  <2>7. TypeOK' /\ SurplusCounted'
    <3>1. TypeOK'
      BY <1>1, <1>4, <1>5, <2>2, <2>3, <2>4 DEF TypeOK, Coolings
    <3>2. SurplusCounted'
      BY <1>1, <1>5, <2>5 DEF IInv, SurplusCounted, Waits, Callers
    <3> QED
      BY <3>1, <3>2
  <2>8. EvictsFirst'
    <3>1. Waits(b)' => Free(v)
      BY <1>1, <2>6 DEF Waits
    <3> QED
      BY <1>4, <2>5, <2>6, <3>1 DEF IInv, EvictsFirst, Waits, Callers
  <2>9. UserHolds'
    <3>1. Free(v) => user[v].op = "none"
      BY <2>1, HoldersDiffer DEF IInv, UserHolds, Free
    <3> QED
      BY <1>1, <1>5, <2>4, <2>6, <3>1 DEF IInv, UserHolds
  <2>10. ASSUME NEW x \in Branches PROVE KeptUp(x)'
    <3>1. KeptUp(x)
      BY WaitedForByBranch DEF IInv
    <3>2. CASE x = b
      BY <1>4, <2>3, <2>4, <3>2 DEF KeptUp, Restarting
    <3>3. CASE x = v /\ Free(v)
      BY <1>1, <2>6, <3>3 DEF KeptUp, Stopping, Holds
    <3>4. CASE x # b /\ ~(x = v /\ Free(v))
      <4>1. branch'[x].status = branch[x].status /\ owner'[x] = owner[x]
        BY <2>3, <2>4, <2>6, <3>4
      <4>2. \A d \in Callers : cool[d].at # "off" => cool'[d] = cool[d]
        BY <1>1, <2>5 DEF Waits
      <4> QED
        BY <1>4, <1>5, <3>1, <3>4, <4>1, <4>2, KeptUpStays
    <3> QED
      BY <3>2, <3>3, <3>4
  <2> QED
    BY <2>7, <2>8, <2>9, <2>10 DEF IInv, WaitedForIsWorkedOn, KeptUp
<1> QED
  BY <1>6, <1>7 DEF WakeBegin

LEMMA WakeStartsKeeps ==
    ASSUME IInv, NEW b \in Branches, WakeStarts(b)
    PROVE  IInv'
<1>1. /\ TypeOK /\ wake' \in [Branches -> {"off", "evicting", "starting", "probing"}]
      /\ \A x \in Branches : wake[x] # "off" => wake'[x] # "off"
      /\ ~Waits(b) /\ \A x \in Branches : x # b => wake'[x] = wake[x]
  BY DEF IInv, TypeOK, WakeStarts, EvictsFirst
<1>2. /\ branch' \in [Branches -> Entries] /\ up' \subseteq Branches
      /\ \A x \in Branches : Lower(branch[x], branch'[x])
  BY <1>1, DockerKeeps DEF WakeStarts, Lower
<1>3. TypeOK' /\ SurplusCounted'
  BY <1>1, <1>2 DEF IInv, WakeStarts, TypeOK, SurplusCounted, Waits
<1>4. EvictsFirst' /\ UserHolds'
  BY <1>1 DEF IInv, WakeStarts, EvictsFirst, UserHolds, Waits
<1>5. ASSUME NEW x \in Branches PROVE KeptUp(x)'
  <2>1. KeptUp(x)
    BY WaitedForByBranch DEF IInv
  <2> QED
    BY <1>1, <1>2, <2>1, KeptUpWhenLower DEF WakeStarts
<1> QED
  BY <1>3, <1>4, <1>5 DEF IInv, WaitedForIsWorkedOn, KeptUp

LEMMA WakeEndsKeeps ==
    ASSUME IInv, NEW b \in Branches, WakeEnds(b)
    PROVE  IInv'
<1>1. /\ TypeOK /\ wake' \in [Branches -> {"off", "evicting", "starting", "probing"}]
      /\ branch[b] \in Entries /\ wake'[b] = "off" /\ ~Waits(b)
      /\ \A x \in Branches : x # b => wake'[x] = wake[x]
  BY DEF IInv, TypeOK, WakeEnds, EvictsFirst
<1>2. /\ Revived(branch[b]) \in Entries /\ Revived(branch[b]).status = "running"
      /\ Failed(branch[b]) \in Entries /\ Failed(branch[b]).status = "error"
  BY <1>1 DEF Revived, Ready, Failed, Entries, Statuses, Services, Heats, Ages, Sources,
              Messages
<1>3. /\ branch' \in [Branches -> Entries] /\ owner' \in [Branches -> Holders]
      /\ \A x \in Branches : x # b => branch'[x] = branch[x] /\ owner'[x] = owner[x]
      /\ \/ StillAwake(b) /\ branch'[b].status \in {"running", "error"}
         \/ ~StillAwake(b) /\ branch' = branch /\ owner' = owner
  <2>1. /\ branch \in [Branches -> Entries] /\ owner \in [Branches -> Holders]
        /\ Nobody \in Holders
    BY <1>1 DEF TypeOK, Holders
  <2>2. CASE ~StillAwake(b)
    BY <2>1, <2>2 DEF WakeEnds
  <2>3. CASE StillAwake(b)
    <3>1. /\ owner' = [owner EXCEPT ![b] = Nobody]
          /\ \/ branch' = [branch EXCEPT ![b] = Revived(branch[b])]
             \/ branch' = [branch EXCEPT ![b] = Failed(branch[b])]
      BY <2>3 DEF WakeEnds
    <3> QED
      BY <1>2, <2>1, <2>3, <3>1
  <2> QED
    BY <2>2, <2>3
<1>4. TypeOK'
  BY <1>1, <1>3 DEF WakeEnds, TypeOK
<1>5. SurplusCounted' /\ EvictsFirst'
  BY <1>1 DEF IInv, WakeEnds, SurplusCounted, EvictsFirst, Waits
<1>6. UserHolds'
  BY <1>3, HoldersDiffer DEF IInv, WakeEnds, UserHolds, StillAwake
<1>7. ASSUME NEW x \in Branches PROVE KeptUp(x)'
  <2>1. KeptUp(x)
    BY WaitedForByBranch DEF IInv
  <2>2. CASE x = b /\ StillAwake(b)
    BY <1>3, <2>2 DEF KeptUp
  <2>3. CASE x # b \/ ~StillAwake(b)
    BY <1>1, <1>3, <2>1, <2>3, KeptUpStays DEF WakeEnds, StillAwake
  <2> QED
    BY <2>2, <2>3
<1> QED
  BY <1>4, <1>5, <1>6, <1>7 DEF IInv, WaitedForIsWorkedOn, KeptUp

-----------------------------------------------------------------------------
(* Users, visitors, containers and the process. *)

LEMMA UserBeginsKeeps ==
    ASSUME IInv, NEW b \in Branches, NEW op \in {"stop", "restart", "deploy"},
           UserBegins(b, op)
    PROVE  IInv'
<1>1. TypeOK /\ branch \in [Branches -> Entries] /\ branch[b] \in Entries
  BY DEF IInv, TypeOK
<1>2. /\ Begun(branch[b], op) \in Entries
      /\ Begun(branch[b], op).status =
            CASE op = "stop" -> "stopping" [] op = "restart" -> "restarting"
              [] op = "deploy" -> "building"
  BY <1>1 DEF Begun, Serving, Entries, Statuses, Services, Ages, Messages
<1>3. /\ branch' \in [Branches -> Entries] /\ branch'[b] = Begun(branch[b], op)
      /\ \A x \in Branches : x # b => branch'[x] = branch[x]
  BY <1>1, <1>2 DEF UserBegins
<1>4. /\ owner' \in [Branches -> Holders] /\ owner'[b] = Holder("user", b)
      /\ \A x \in Branches : x # b => owner'[x] = owner[x]
  BY <1>1 DEF UserBegins, TypeOK, Holders
<1>5. /\ user' \in [Branches -> [op : {"none", "stop", "restart", "deploy"},
                                 done : BOOLEAN]]
      /\ user'[b].op = op /\ \A x \in Branches : x # b => user'[x] = user[x]
  BY <1>1 DEF UserBegins, TypeOK
<1>6. TypeOK'
  <2>1. asked' \in [Branches -> {"run", "stop"}]
    BY <1>1 DEF UserBegins, TypeOK
  <2>2. ops' \in 0 .. MaxOps
    BY <1>1 DEF UserBegins, TypeOK
  <2> QED
    BY <1>1, <1>3, <1>4, <1>5, <2>1, <2>2 DEF UserBegins, TypeOK
<1>7. SurplusCounted' /\ EvictsFirst'
  BY DEF IInv, UserBegins, SurplusCounted, EvictsFirst, Waits
<1>8. UserHolds'
  BY <1>4, <1>5 DEF IInv, UserHolds
<1>9. ASSUME NEW x \in Branches PROVE KeptUp(x)'
  <2>1. KeptUp(x)
    BY WaitedForByBranch DEF IInv
  <2>2. CASE x = b
    BY <1>2, <1>3, <1>5, <2>2 DEF KeptUp, Stopping, Restarting
  <2>3. CASE x # b
    BY <1>3, <1>4, <1>5, <2>1, <2>3, KeptUpStays DEF UserBegins
  <2> QED
    BY <2>2, <2>3
<1> QED
  BY <1>6, <1>7, <1>8, <1>9 DEF IInv, WaitedForIsWorkedOn, KeptUp

\* What a step of docker's for a user shows.
LEMMA UserActsLowers ==
    ASSUME TypeOK, NEW b \in Branches, UserActs(b)
    PROVE  /\ branch' \in [Branches -> Entries] /\ up' \subseteq Branches
           /\ branch'[b].status \in {branch[b].status, "idle", "error"}
           /\ \A x \in Branches : x # b => branch'[x] = branch[x]
<1>1. branch \in [Branches -> Entries] /\ up \subseteq Branches
  BY DEF TypeOK
<1>2. ASSUME NEW pair \in Stops(b) \cup Restarts(b), NEW s \in Services,
             Becomes(b, <<[pair[1] EXCEPT !.service = s], pair[2]>>)
      PROVE  /\ branch' \in [Branches -> Entries] /\ up' \subseteq Branches
             /\ branch'[b].status \in {branch[b].status, "idle", "error"}
             /\ \A x \in Branches : x # b => branch'[x] = branch[x]
  <2>1. pair[1] \in Entries /\ pair[2] \in BOOLEAN /\ Lower(branch[b], pair[1])
    BY DockerLowers
  <2>2. /\ [pair[1] EXCEPT !.service = s] \in Entries
        /\ [pair[1] EXCEPT !.service = s].status = pair[1].status
    BY <2>1 DEF Entries
  <2> QED
    BY <1>2, <2>1, <2>2, BecomesKeeps DEF Lower
<1>3. CASE UserStops(b)
  BY <1>2, <1>3 DEF UserStops, Services
<1>4. CASE UserRestarts(b)
  BY <1>4, DockerKeeps DEF UserRestarts, Lower
<1>5. CASE UserDeploys(b)
  <2>1. CASE UNCHANGED <<branch, up>>
    BY <1>1, <2>1
  <2>2. ASSUME NEW pair \in Restarts(b),
               Becomes(b, <<[pair[1] EXCEPT !.service = IF pair[2] THEN "starting" ELSE @],
                            pair[2]>>)
        PROVE  \E s \in Services :
                  Becomes(b, <<[pair[1] EXCEPT !.service = s], pair[2]>>)
    <3>1. pair[1] \in Entries
      BY DockerLowers
    <3>2. pair[1].service \in Services /\ "starting" \in Services
      BY <3>1 DEF Entries, Services
    <3> QED
      BY <2>2, <3>2
  <2> QED
    BY <1>2, <1>5, <2>1, <2>2 DEF UserDeploys
<1> QED
  BY <1>3, <1>4, <1>5 DEF UserActs

LEMMA UserActsKeeps ==
    ASSUME IInv, NEW b \in Branches, UserActs(b)
    PROVE  IInv'
<1>1. /\ TypeOK
      /\ user' \in [Branches -> [op : {"none", "stop", "restart", "deploy"},
                                 done : BOOLEAN]]
      /\ \A x \in Branches : user'[x].op = user[x].op
  <2>1. /\ TypeOK
        /\ user \in [Branches -> [op : {"none", "stop", "restart", "deploy"},
                                  done : BOOLEAN]]
    BY DEF IInv, TypeOK
  <2>2. user' = [user EXCEPT ![b].done = TRUE]
    BY DEF UserActs
  <2> QED
    BY <2>1, <2>2
<1>2. /\ branch' \in [Branches -> Entries] /\ up' \subseteq Branches
      /\ \A x \in Branches : branch'[x].status \in {branch[x].status, "idle", "error"}
  BY <1>1, UserActsLowers
<1>3. TypeOK' /\ SurplusCounted' /\ EvictsFirst' /\ UserHolds'
  BY <1>1, <1>2 DEF IInv, UserActs, TypeOK, SurplusCounted, EvictsFirst, UserHolds, Waits
<1>4. ASSUME NEW x \in Branches PROVE KeptUp(x)'
  <2>1. KeptUp(x)
    BY WaitedForByBranch DEF IInv
  <2>2. CASE branch'[x].status = branch[x].status
    BY <1>1, <2>1, <2>2, KeptUpStays DEF UserActs
  <2>3. CASE branch'[x].status \in {"idle", "error"}
    BY <2>3 DEF KeptUp
  <2> QED
    BY <1>2, <2>2, <2>3
<1> QED
  BY <1>3, <1>4 DEF IInv, WaitedForIsWorkedOn, KeptUp

LEMMA UserEndsKeeps ==
    ASSUME IInv, NEW b \in Branches, UserEnds(b)
    PROVE  IInv'
<1>1. /\ TypeOK /\ branch \in [Branches -> Entries] /\ branch[b] \in Entries
      /\ owner \in [Branches -> Holders] /\ Nobody \in Holders
  <2>1. Nobody \in Holders
    BY DEF Holders
  <2> QED
    BY <2>1 DEF IInv, TypeOK
<1>2. \A e \in {Stopped(branch[b]), Revived(branch[b]), Deployed(branch[b]),
                Failed(branch[b])} :
         e \in Entries /\ e.status \in {"idle", "running", "error"}
  <2>1. Stopped(branch[b]) \in Entries /\ Stopped(branch[b]).status = "idle"
    BY <1>1 DEF Stopped, Entries, Statuses, Sources
  <2>2. /\ Ready(branch[b]) \in Entries /\ Ready(branch[b]).status = "running"
        /\ Failed(branch[b]) \in Entries /\ Failed(branch[b]).status = "error"
    BY <1>1 DEF Ready, Failed, Entries, Statuses, Services, Messages
  <2>3. /\ Revived(branch[b]) \in Entries /\ Revived(branch[b]).status = "running"
        /\ Deployed(branch[b]) \in Entries /\ Deployed(branch[b]).status = "running"
    BY <2>2 DEF Revived, Deployed, Entries, Heats, Ages, Sources
  <2> QED
    BY <2>1, <2>2, <2>3
<1>3. PICK e \in {Stopped(branch[b]), Revived(branch[b]), Deployed(branch[b]),
                  Failed(branch[b])} : branch' = [branch EXCEPT ![b] = e]
  BY DEF UserEnds
<1>4. /\ branch' \in [Branches -> Entries]
      /\ branch'[b].status \in {"idle", "running", "error"}
      /\ \A x \in Branches : x # b => branch'[x] = branch[x]
  BY <1>1, <1>2, <1>3
<1>5. /\ owner' \in [Branches -> Holders]
      /\ \A x \in Branches : x # b => owner'[x] = owner[x]
  BY <1>1 DEF UserEnds
<1>6. /\ user' \in [Branches -> [op : {"none", "stop", "restart", "deploy"},
                                 done : BOOLEAN]]
      /\ user'[b].op = "none" /\ \A x \in Branches : x # b => user'[x] = user[x]
  BY <1>1 DEF UserEnds, TypeOK, NoRequest
<1>7. TypeOK' /\ SurplusCounted' /\ EvictsFirst'
  <2>1. TypeOK'
    BY <1>1, <1>4, <1>5, <1>6 DEF UserEnds, TypeOK
  <2>2. SurplusCounted' /\ EvictsFirst'
    BY DEF IInv, UserEnds, SurplusCounted, EvictsFirst, Waits
  <2> QED
    BY <2>1, <2>2
<1>8. UserHolds'
  BY <1>5, <1>6 DEF IInv, UserHolds
<1>9. ASSUME NEW x \in Branches PROVE KeptUp(x)'
  <2>1. KeptUp(x)
    BY WaitedForByBranch DEF IInv
  <2>2. CASE x = b
    BY <1>4, <2>2 DEF KeptUp
  <2>3. CASE x # b
    BY <1>4, <1>5, <1>6, <2>1, <2>3, KeptUpStays DEF UserEnds
  <2> QED
    BY <2>2, <2>3
<1> QED
  BY <1>7, <1>8, <1>9 DEF IInv, WaitedForIsWorkedOn, KeptUp

\* A stop that is given up leaves the branch as it is, and the lease as thrown.
LEMMA StopThrowsKeeps ==
    ASSUME IInv, NEW b \in Branches, StopThrows(b)
    PROVE  IInv'
<1>1. TypeOK /\ Thrown \in Holders
  BY DEF IInv, Holders
<1>2. /\ TypeOK /\ owner' \in [Branches -> Holders] /\ owner'[b] = Thrown
      /\ \A x \in Branches : x # b => owner'[x] = owner[x]
  BY <1>1 DEF TypeOK, StopThrows
<1>3. /\ user' \in [Branches -> [op : {"none", "stop", "restart", "deploy"},
                                 done : BOOLEAN]]
      /\ user'[b].op = "none" /\ \A x \in Branches : x # b => user'[x] = user[x]
  BY <1>2 DEF StopThrows, TypeOK, NoRequest
<1>4. mishaps' \in 0 .. MaxMishaps
  BY <1>2 DEF StopThrows, TypeOK
<1>5. TypeOK'
  BY <1>2, <1>3, <1>4 DEF StopThrows, TypeOK
<1>6. SurplusCounted' /\ EvictsFirst'
  BY DEF IInv, StopThrows, SurplusCounted, EvictsFirst, Waits
<1>7. UserHolds'
  BY <1>2, <1>3 DEF IInv, UserHolds
<1>8. ASSUME NEW x \in Branches PROVE KeptUp(x)'
  <2>1. KeptUp(x)
    BY WaitedForByBranch DEF IInv
  <2>2. CASE x = b
    BY <1>2, <2>1, <2>2 DEF KeptUp, Stopping, Restarting, StopThrows
  <2>3. CASE x # b
    BY <1>2, <1>3, <2>1, <2>3, KeptUpStays DEF StopThrows
  <2> QED
    BY <2>2, <2>3
<1> QED
  BY <1>6, <1>7, <1>8, <1>5 DEF IInv, WaitedForIsWorkedOn, KeptUp

LEMMA RecoverBeginKeeps ==
    ASSUME IInv, NEW b \in Branches, RecoverBegin(b)
    PROVE  IInv'
<1>1. /\ TypeOK /\ branch \in [Branches -> Entries] /\ branch[b] \in Entries
      /\ Free(b) /\ user[b].op = "none"
  BY HoldersDiffer DEF IInv, TypeOK, RecoverBegin, UserHolds, Free
<1>2. Recovering(branch[b]) \in Entries /\ Recovering(branch[b]).status = "restarting"
  BY <1>1 DEF Recovering, Entries, Statuses, Services, Messages
<1>3. /\ branch' \in [Branches -> Entries] /\ branch'[b].status = "restarting"
      /\ \A x \in Branches : x # b => branch'[x] = branch[x]
  BY <1>1, <1>2 DEF RecoverBegin
<1>4. /\ owner' \in [Branches -> Holders] /\ mishaps' \in 0 .. MaxMishaps
      /\ recover' \in [Branches -> {"off", "posting", "waiting"}]
      /\ \A x \in Branches : x # b => owner'[x] = owner[x] /\ recover'[x] = recover[x]
      /\ recover'[b] # "off" \/ owner'[b] = Thrown
  BY <1>1 DEF RecoverBegin, TypeOK, Holders
<1>5. TypeOK' /\ SurplusCounted' /\ EvictsFirst'
  BY <1>1, <1>3, <1>4 DEF IInv, RecoverBegin, TypeOK, SurplusCounted, EvictsFirst, Waits
<1>6. UserHolds'
  BY <1>1, <1>4 DEF IInv, RecoverBegin, UserHolds
<1>7. ASSUME NEW x \in Branches PROVE KeptUp(x)'
  <2>1. KeptUp(x)
    BY WaitedForByBranch DEF IInv
  <2>2. CASE x = b
    BY <1>3, <1>4, <2>2 DEF KeptUp, Restarting
  <2>3. CASE x # b
    BY <1>3, <1>4, <2>1, <2>3, KeptUpStays DEF RecoverBegin
  <2> QED
    BY <2>2, <2>3
<1> QED
  BY <1>5, <1>6, <1>7 DEF IInv, WaitedForIsWorkedOn, KeptUp

LEMMA RecoverPostsKeeps ==
    ASSUME IInv, NEW b \in Branches, RecoverPosts(b)
    PROVE  IInv'
<1>1. TypeOK /\ branch \in [Branches -> Entries] /\ branch[b] \in Entries
  BY DEF IInv, TypeOK
<1>2. /\ recover' \in [Branches -> {"off", "posting", "waiting"}]
      /\ \A x \in Branches : recover[x] # "off" => recover'[x] # "off"
  BY <1>1 DEF RecoverPosts, TypeOK
<1>3. CASE UNCHANGED <<branch, owner, user>>
  <2>1. TypeOK' /\ SurplusCounted' /\ EvictsFirst' /\ UserHolds'
    BY <1>1, <1>2, <1>3 DEF IInv, RecoverPosts, TypeOK, SurplusCounted, EvictsFirst,
                            UserHolds, Waits
  <2>2. ASSUME NEW x \in Branches PROVE KeptUp(x)'
    <3>1. KeptUp(x)
      BY WaitedForByBranch DEF IInv
    <3> QED
      BY <1>2, <1>3, <3>1, KeptUpStays DEF RecoverPosts
  <2> QED
    BY <2>1, <2>2 DEF IInv, WaitedForIsWorkedOn, KeptUp
<1>4. CASE /\ branch' = [branch EXCEPT ![b] = Begun(@, "deploy")]
           /\ owner' = [owner EXCEPT ![b] = Holder("user", b)]
           /\ user' = [user EXCEPT ![b] = [op |-> "deploy", done |-> FALSE]]
  <2>1. /\ Begun(branch[b], "deploy") \in Entries
        /\ Begun(branch[b], "deploy").status = "building"
    BY <1>1 DEF Begun, Entries, Statuses, Services, Ages, Messages
  <2>2. /\ branch' \in [Branches -> Entries] /\ branch'[b].status = "building"
        /\ \A x \in Branches : x # b => branch'[x] = branch[x]
    BY <1>1, <1>4, <2>1
  <2>3. /\ owner' \in [Branches -> Holders] /\ owner'[b] = Holder("user", b)
        /\ \A x \in Branches : x # b => owner'[x] = owner[x]
    BY <1>1, <1>4 DEF TypeOK, Holders
  <2>4. /\ user' \in [Branches -> [op : {"none", "stop", "restart", "deploy"},
                                   done : BOOLEAN]]
        /\ user'[b].op = "deploy" /\ \A x \in Branches : x # b => user'[x] = user[x]
    BY <1>1, <1>4 DEF TypeOK
  <2>5. TypeOK' /\ SurplusCounted' /\ EvictsFirst'
    BY <1>1, <1>2, <2>2, <2>3, <2>4 DEF IInv, RecoverPosts, TypeOK, SurplusCounted,
                                        EvictsFirst, Waits
  <2>6. UserHolds'
    BY <2>3, <2>4 DEF IInv, UserHolds
  <2>7. ASSUME NEW x \in Branches PROVE KeptUp(x)'
    <3>1. KeptUp(x)
      BY WaitedForByBranch DEF IInv
    <3>2. CASE x = b
      BY <2>2, <2>4, <3>2 DEF KeptUp
    <3>3. CASE x # b
      BY <1>2, <2>2, <2>3, <2>4, <3>1, <3>3, KeptUpStays DEF RecoverPosts
    <3> QED
      BY <3>2, <3>3
  <2> QED
    BY <2>5, <2>6, <2>7 DEF IInv, WaitedForIsWorkedOn, KeptUp
<1> QED
  BY <1>3, <1>4 DEF RecoverPosts

LEMMA RecoverEndsKeeps ==
    ASSUME IInv, NEW b \in Branches, RecoverEnds(b)
    PROVE  IInv'
<1>1. TypeOK /\ branch \in [Branches -> Entries] /\ branch[b] \in Entries
  BY DEF IInv, TypeOK
<1>2. /\ GivenUp(branch[b]) \in Entries
      /\ \/ GivenUp(branch[b]) = branch[b] /\ branch[b].status # "restarting"
         \/ GivenUp(branch[b]).status = "error"
  BY <1>1 DEF GivenUp, Entries, Statuses, Services, Messages
<1>3. /\ branch' \in [Branches -> Entries] /\ branch'[b] = GivenUp(branch[b])
      /\ \A x \in Branches : x # b => branch'[x] = branch[x]
  BY <1>1, <1>2 DEF RecoverEnds
<1>4. /\ recover' \in [Branches -> {"off", "posting", "waiting"}]
      /\ \A x \in Branches : x # b => recover'[x] = recover[x]
  BY <1>1 DEF RecoverEnds, TypeOK
<1>5. TypeOK' /\ SurplusCounted' /\ EvictsFirst' /\ UserHolds'
  BY <1>1, <1>3, <1>4 DEF IInv, RecoverEnds, TypeOK, SurplusCounted, EvictsFirst,
                          UserHolds, Waits
<1>6. ASSUME NEW x \in Branches PROVE KeptUp(x)'
  <2>1. KeptUp(x)
    BY WaitedForByBranch DEF IInv
  <2>2. CASE x = b /\ branch'[b].status = "error"
    BY <2>2 DEF KeptUp
  <2>3. CASE x = b /\ branch'[b] = branch[b] /\ branch[b].status # "restarting"
    BY <2>1, <2>3 DEF KeptUp, Stopping, Holds, RecoverEnds
  <2>4. CASE x # b
    BY <1>3, <1>4, <2>1, <2>4, KeptUpStays DEF RecoverEnds
  <2> QED
    BY <1>2, <1>3, <2>2, <2>3, <2>4
<1> QED
  BY <1>5, <1>6 DEF IInv, WaitedForIsWorkedOn, KeptUp

\* A step of which the branch shows nothing but that it stopped or failed.
LEMMA RestKeeps ==
    ASSUME IInv, branch' \in [Branches -> Entries],
           \A x \in Branches : \/ branch'[x].status = branch[x].status
                               \/ branch'[x].status \in {"idle", "error"},
           up' \subseteq Branches, ops' \in 0 .. MaxOps, mishaps' \in 0 .. MaxMishaps,
           UNCHANGED <<owner, cool, wake, user, tick, asked, recover>>
    PROVE  IInv'
<1>1. TypeOK' /\ SurplusCounted' /\ EvictsFirst' /\ UserHolds'
  BY DEF IInv, TypeOK, SurplusCounted, EvictsFirst, UserHolds, Waits
<1>2. ASSUME NEW x \in Branches PROVE KeptUp(x)'
  <2>1. KeptUp(x)
    BY WaitedForByBranch DEF IInv
  <2>2. CASE branch'[x].status = branch[x].status
    BY <2>1, <2>2, KeptUpStays
  <2>3. CASE branch'[x].status \in {"idle", "error"}
    BY <2>3 DEF KeptUp
  <2> QED
    BY <2>2, <2>3
<1> QED
  BY <1>1, <1>2 DEF IInv, WaitedForIsWorkedOn, KeptUp

LEMMA OthersKeep ==
    ASSUME IInv, NEW b \in Branches, Pin(b) \/ Touch(b) \/ GrowsOld(b) \/ Exits(b)
    PROVE  IInv'
<1>1. /\ TypeOK /\ branch \in [Branches -> Entries] /\ branch[b] \in Entries
      /\ up \subseteq Branches /\ ops \in 0 .. MaxOps /\ mishaps \in 0 .. MaxMishaps
  BY DEF IInv, TypeOK
<1>2. /\ [branch[b] EXCEPT !.pinned = ~@] \in Entries
      /\ \A a \in {"old", "recent"} : [branch[b] EXCEPT !.age = a] \in Entries
      /\ [branch[b] EXCEPT !.pinned = ~@].status = branch[b].status
      /\ \A a \in {"old", "recent"} :
            [branch[b] EXCEPT !.age = a].status = branch[b].status
  BY <1>1 DEF Entries, Ages
<1>3. \A e \in {StoppedBy(branch[b]), FailedBy(branch[b])} :
         e \in Entries /\ e.status \in {branch[b].status, "idle", "error"}
  <2>1. ASSUME NEW svc \in {"stopped", "error"}, NEW st \in {"idle", "error"}
        PROVE  /\ Died(branch[b], svc, st) \in Entries
               /\ Died(branch[b], svc, st).status \in {branch[b].status, st}
    BY <1>1 DEF Died, Entries, Statuses, Services, Sources, Messages
  <2> QED
    BY <2>1 DEF StoppedBy, FailedBy
<1>4. PICK e \in Entries : /\ e.status \in {branch[b].status, "idle", "error"}
                           /\ branch' = [branch EXCEPT ![b] = e]
  <2>1. CASE Pin(b)
    BY <1>2, <2>1 DEF Pin
  <2>2. CASE Touch(b) \/ GrowsOld(b)
    BY <1>2, <2>2 DEF Touch, GrowsOld
  <2>3. CASE Exits(b)
    BY <1>3, <2>3 DEF Exits
  <2> QED
    BY <2>1, <2>2, <2>3
<1>5. /\ branch' \in [Branches -> Entries]
      /\ \A x \in Branches : \/ branch'[x].status = branch[x].status
                             \/ branch'[x].status \in {"idle", "error"}
  BY <1>1, <1>4
<1>6. up' \subseteq Branches /\ ops' \in 0 .. MaxOps /\ mishaps' \in 0 .. MaxMishaps
  BY <1>1 DEF Pin, Touch, GrowsOld, Exits
<1> QED
  BY <1>5, <1>6, RestKeeps DEF Pin, Touch, GrowsOld, Exits

LEMMA DiesKeeps ==
    ASSUME IInv, Dies
    PROVE  IInv'
<1>1. TypeOK /\ branch \in [Branches -> Entries]
  BY DEF IInv, TypeOK
<1>2. ASSUME NEW x \in Branches
      PROVE  /\ branch'[x] \in Entries
             /\ branch'[x].status \in {"error", "running", "idle"}
  <2>1. branch[x] \in Entries
    BY <1>1
  <2>2. PICK st : branch'[x] = Booted(branch[x], st)
    BY DEF Dies
  <2>3. BootService(branch[x], st) \in Services
    BY <2>1 DEF BootService, Entries, Services
  <2>4. BootMessage(branch[x], BootService(branch[x], st)) \in Messages
    BY <2>1 DEF BootMessage, Entries, Messages
  <2> QED
    BY <2>1, <2>2, <2>3, <2>4 DEF Booted, Entries, Statuses, Services, Heats
<1>3. branch' \in [Branches -> Entries]
  BY <1>2 DEF Dies
<1>4. TypeOK'
  <2>1. owner' \in [Branches -> Holders]
    BY DEF Dies, Holders
  <2>2. cool' \in [Callers -> Coolings]
    BY NotCoolingType DEF Dies, Coolings
  <2>3. tick' \in [Ticks -> Passes]
    BY DEF Dies, NoTick, Passes
  <2>4. user' \in [Branches -> [op : {"none", "stop", "restart", "deploy"},
                                done : BOOLEAN]]
    BY DEF Dies, NoRequest
  <2>5. mishaps' \in 0 .. MaxMishaps
    BY <1>1 DEF Dies, TypeOK
  <2>6. recover' \in [Branches -> {"off", "posting", "waiting"}]
    BY DEF Dies
  <2> QED
    BY <1>1, <1>3, <2>1, <2>2, <2>3, <2>4, <2>5, <2>6 DEF Dies, TypeOK, Coolings, Passes
<1>5. SurplusCounted'
  BY DEF Dies, SurplusCounted, NoTick
<1>6. EvictsFirst'
  BY DEF Dies, EvictsFirst, Waits, NotCooling, Callers
<1>7. UserHolds'
  BY DEF Dies, UserHolds, NoRequest
<1>8. WaitedForIsWorkedOn'
  BY <1>2 DEF WaitedForIsWorkedOn
<1> QED
  BY <1>4, <1>5, <1>6, <1>7, <1>8 DEF IInv

-----------------------------------------------------------------------------
(* The theorems. *)

LEMMA NextKeeps == IInv /\ [Next]_vars => IInv'
<1> SUFFICES ASSUME IInv, [Next]_vars PROVE IInv'
  OBVIOUS
<1>1. CASE UNCHANGED vars
  BY <1>1 DEF vars, IInv, TypeOK, SurplusCounted, EvictsFirst, UserHolds, Waits,
              WaitedForIsWorkedOn, Stopping, Restarting, Holds
<1>2. CASE \E c \in Callers : Cooling(c) \/ CoolThrows(c)
  BY <1>2, CoolStopsKeeps, CoolStoppedKeeps, CoolEndsKeeps DEF Cooling
<1>3. CASE \E t \in Ticks : Ticking(t)
  BY <1>3, TickingKeeps
<1>4. CASE \E b \in Branches : Working(b) \/ WakeBegin(b) \/ StopThrows(b)
  BY <1>4, WakeStartsKeeps, WakeEndsKeeps, UserActsKeeps, UserEndsKeeps,
     WakeBeginKeeps, StopThrowsKeeps DEF Working
<1>9. CASE \E b \in Branches : Recovery(b) \/ RecoverBegin(b)
  BY <1>9, RecoverBeginKeeps, RecoverPostsKeeps, RecoverEndsKeeps DEF Recovery
<1>5. CASE \E b \in Branches : Pin(b) \/ Touch(b) \/ GrowsOld(b) \/ Exits(b)
  BY <1>5, OthersKeep
<1>6. CASE \E r \in Routes, b \in Branches : CoolRoute(r, b)
  BY <1>6, CoolRouteKeeps
<1>7. CASE \E b \in Branches, op \in {"stop", "restart", "deploy"} : UserBegins(b, op)
  BY <1>7, UserBeginsKeeps
<1>8. CASE Dies
  BY <1>8, DiesKeeps
<1> QED
  BY <1>1, <1>2, <1>3, <1>4, <1>5, <1>6, <1>7, <1>8, <1>9 DEF Next

\* The records, the leases and what is in flight stay of their kinds; among
\* them that no pass of tick() counts its surplus below zero.
THEOREM TypeCorrect == Spec => []TypeOK
<1>1. IInv => TypeOK
  BY DEF IInv
<1> QED
  BY <1>1, InitKeeps, NextKeeps, PTL DEF Spec

\* However operations of users, coolings and wakes supersede each other, fail
\* or die, a branch that shows itself stopping, restarting or building is worked
\* on by a current operation.
THEOREM WaitersAreServed == Spec => []WaitedForIsWorkedOn
<1>1. IInv => WaitedForIsWorkedOn
  BY DEF IInv
<1> QED
  BY <1>1, InitKeeps, NextKeeps, PTL DEF Spec

\* Nobody takes the lease of an operation of a user in flight.  Nobody but docker's
\* events under a superseded wake's restart, a superseded cooling and the end of a
\* recovery changes what its branch shows, and they only show it down: that it is
\* up, nobody writes but the operation itself.
THEOREM UsersUndisturbed == Spec => UserWorkStands
<1> DEFINE Undisturbed(b) ==
      user[b].op # "none" /\ user'[b] = user[b] /\ mishaps' = mishaps
      => /\ owner'[b] = owner[b]
         /\ \/ Shown(branch'[b]) = Shown(branch[b])
            \/ /\ Lower(branch[b], branch'[b])
               /\ \/ WakeStarts(b)
                  \/ RecoverEnds(b)
                  \/ \E c \in Callers : cool[c].on = b /\ Cooling(c)
<1>1. ASSUME IInv, [Next]_vars, NEW b \in Branches, user[b].op # "none",
             user'[b] = user[b], mishaps' = mishaps
      PROVE  /\ owner'[b] = owner[b]
             /\ \/ Shown(branch'[b]) = Shown(branch[b])
                \/ /\ Lower(branch[b], branch'[b])
                   /\ \/ WakeStarts(b)
                      \/ RecoverEnds(b)
                      \/ \E c \in Callers : cool[c].on = b /\ Cooling(c)
  <2>1. /\ TypeOK /\ branch \in [Branches -> Entries] /\ owner[b] = Holder("user", b)
        /\ cool \in [Callers -> Coolings]
        /\ owner \in [Branches -> Holders]
    BY <1>1 DEF IInv, UserHolds, TypeOK, Coolings
  <2>2. ~Free(b) /\ ~Preemptible(b) /\ owner[b] # Holder("wake", b)
        /\ \A c \in Callers : owner[b] # Holder("cool", c)
    BY <1>1, <2>1, HoldersDiffer, PreemptsNoUser DEF Free
  <2>3. ASSUME NEW c \in Callers, NEW x \in Branches, Marks(c, x)
        PROVE  owner'[b] = owner[b] /\ Shown(branch'[b]) = Shown(branch[b])
    BY <2>2, <2>3 DEF Marks, Free, Shown
  <2>4. CASE UNCHANGED vars
    BY <2>4 DEF vars, Shown
  <2>5. ASSUME NEW c \in Callers, Cooling(c)
        PROVE  /\ owner'[b] = owner[b]
               /\ \/ Shown(branch'[b]) = Shown(branch[b])
                  \/ Lower(branch[b], branch'[b]) /\ cool[c].on = b
    <3>1. cool[c].on \in Branches /\ branch[cool[c].on] \in Entries
      BY <2>1 DEF Coolings
    <3>2. CASE CoolStops(c)
      BY <2>1, <3>1, <3>2, DockerKeeps DEF CoolStops, Shown
    <3>3. CASE CoolStopped(c)
      BY <2>1, <3>1, <3>3 DEF CoolStopped, Shown, Lower, Entries
    <3>4. CASE CoolEnds(c)
      BY <2>1, <2>2, <3>1, <3>4 DEF CoolEnds, Holds, Shown, Lower, Entries
    <3> QED
      BY <2>5, <3>2, <3>3, <3>4 DEF Cooling
  <2>6. ASSUME NEW t \in Ticks, Ticking(t)
        PROVE  owner'[b] = owner[b] /\ Shown(branch'[b]) = Shown(branch[b])
    <3>1. t \in Callers
      BY DEF Callers
    <3>2. CASE TickStart(t) \/ TickCount(t) \/ TickDone(t)
      BY <3>2 DEF TickStart, TickCount, TickDone, Shown
    <3>3. CASE TickIdle(t)
      <4>1. PICK x \in tick[t].todo : IF PastTTL(branch[x]) THEN MarkCold(t, x)
                                      ELSE UNCHANGED <<branch, owner, cool>>
        BY <3>3 DEF TickIdle
      <4>2. x \in Branches
        BY <2>1, <4>1 DEF TypeOK
      <4> QED
        BY <2>1, <2>3, <3>1, <4>1, <4>2, MarkColdMarks DEF Shown
    <3>4. CASE TickEvict(t)
      <4>1. PICK v \in Victims(Hot) : MarkCold(t, v)
        BY <3>4 DEF TickEvict
      <4>2. v \in Branches
        BY DEF Victims, Hot
      <4> QED
        BY <2>1, <2>3, <3>1, <4>1, <4>2, MarkColdMarks
    <3> QED
      BY <2>6, <3>2, <3>3, <3>4 DEF Ticking
  <2>7. ASSUME NEW x \in Branches, Working(x)
        PROVE  /\ owner'[b] = owner[b]
               /\ \/ Shown(branch'[b]) = Shown(branch[b])
                  \/ Lower(branch[b], branch'[b]) /\ WakeStarts(b)
    <3>1. CASE WakeStarts(x)
      BY <2>1, <3>1, DockerKeeps DEF WakeStarts, Shown
    <3>4. CASE UserActs(x)
      <4>1. x # b
        BY <1>1, <2>1, <3>4 DEF UserActs, TypeOK
      <4> QED
        BY <2>1, <3>4, <4>1, UserActsLowers DEF UserActs, Shown
    <3>2. CASE WakeEnds(x)
      BY <2>1, <2>2, <3>2 DEF WakeEnds, StillAwake, Shown
    <3>3. CASE UserEnds(x)
      <4>1. x # b
        BY <1>1, <2>1, <3>3 DEF UserEnds, TypeOK, NoRequest
      <4> QED
        BY <2>1, <3>3, <4>1 DEF UserEnds, Shown
    <3> QED
      BY <2>7, <3>1, <3>2, <3>3, <3>4 DEF Working
  <2>8. ASSUME NEW x \in Branches, WakeBegin(x)
        PROVE  owner'[b] = owner[b] /\ Shown(branch'[b]) = Shown(branch[b])
    <3>1. x # b /\ x \in Callers
      BY <2>2, <2>8 DEF WakeBegin, Callers
    <3>2. CASE /\ branch' = [branch EXCEPT ![x] = Waking(@)]
               /\ owner' = [owner EXCEPT ![x] = Holder("wake", x)]
      BY <2>1, <3>1, <3>2 DEF Shown
    <3>3. ASSUME NEW v \in Evictable(x),
                 branch' = [branch EXCEPT ![x] = Waking(@), ![v] = Attempted(v)],
                 owner' = [LeaseTo(x, v) EXCEPT ![x] = Holder("wake", x)]
          PROVE  owner'[b] = owner[b] /\ Shown(branch'[b]) = Shown(branch[b])
      <4>1. v \in Branches /\ v # x
        BY DEF Evictable, Victims, Others, Hot
      <4>2. LeaseTo(x, v) \in [Branches -> Holders]
        BY <2>1, <3>1, <4>1, AttemptTypes
      <4>3. owner'[b] = LeaseTo(x, v)[b]
        BY <3>1, <3>3, <4>2
      <4>4. branch'[b] = IF v = b THEN Attempted(v) ELSE branch[b]
        BY <2>1, <3>1, <3>3, <4>1
      <4> QED
        BY <2>1, <2>2, <3>1, <4>1, <4>3, <4>4, AttemptShows
    <3> QED
      BY <2>8, <3>2, <3>3 DEF WakeBegin
  <2>9. ASSUME NEW x \in Branches, Pin(x) \/ Touch(x) \/ GrowsOld(x) \/ Exits(x)
        PROVE  owner'[b] = owner[b] /\ Shown(branch'[b]) = Shown(branch[b])
    <3>1. ~Exits(x)
      BY <1>1, <2>1 DEF Exits, TypeOK
    <3>2. /\ owner' = owner
          /\ \/ branch' = [branch EXCEPT ![x].pinned = ~@]
             \/ \E a \in Ages : branch' = [branch EXCEPT ![x].age = a]
      BY <2>9, <3>1 DEF Pin, Touch, GrowsOld, Ages
    <3>3. branch[b] \in Entries
      BY <2>1
    <3> QED
      BY <2>1, <3>2, <3>3 DEF Shown, Entries
  <2>10. ASSUME NEW r \in Routes, NEW x \in Branches, CoolRoute(r, x)
         PROVE  owner'[b] = owner[b] /\ Shown(branch'[b]) = Shown(branch[b])
    BY <2>1, <2>3, <2>10, MarkColdMarks DEF CoolRoute, Callers
  <2>11. ASSUME NEW x \in Branches, NEW op \in {"stop", "restart", "deploy"},
                UserBegins(x, op)
         PROVE  owner'[b] = owner[b] /\ Shown(branch'[b]) = Shown(branch[b])
    <3>1. x # b
      BY <1>1, <2>11 DEF UserBegins
    <3> QED
      BY <2>1, <2>11, <3>1 DEF UserBegins, Shown
  <2>12. /\ ~Dies /\ \A c \in Callers : ~CoolThrows(c)
         /\ \A x \in Branches : ~StopThrows(x)
    <3>1. mishaps' # mishaps + 1
      BY <1>1, <2>1 DEF TypeOK
    <3> QED
      BY <3>1 DEF Dies, CoolThrows, StopThrows
  <2>13. ASSUME NEW x \in Branches, RecoverBegin(x) \/ RecoverPosts(x)
         PROVE  owner'[b] = owner[b] /\ Shown(branch'[b]) = Shown(branch[b])
    <3>1. CASE RecoverBegin(x)
      <4>1. x # b
        BY <2>2, <3>1 DEF RecoverBegin
      <4> QED
        BY <2>1, <3>1, <4>1 DEF RecoverBegin, Shown
    <3>2. CASE RecoverPosts(x)
      BY <1>1, <2>1, <3>2 DEF RecoverPosts, Shown
    <3> QED
      BY <2>13, <3>1, <3>2
  <2>14. ASSUME NEW x \in Branches, RecoverEnds(x)
         PROVE  /\ owner'[b] = owner[b]
                /\ \/ Shown(branch'[b]) = Shown(branch[b])
                   \/ Lower(branch[b], branch'[b]) /\ RecoverEnds(b)
    <3>1. branch[b] \in Entries
      BY <2>1
    <3> QED
      BY <2>1, <2>14, <3>1 DEF RecoverEnds, GivenUp, Shown, Lower, Entries
  <2> QED
    BY <1>1, <2>4, <2>5, <2>6, <2>7, <2>8, <2>9, <2>10, <2>11, <2>12, <2>13, <2>14
    DEF Next, Recovery
<1>2. IInv /\ [Next]_vars => [\A b \in Branches : Undisturbed(b)]_vars
  BY <1>1
<1> QED
  BY <1>2, InitKeeps, NextKeeps, PTL DEF Spec, UserWorkStands
=============================================================================
