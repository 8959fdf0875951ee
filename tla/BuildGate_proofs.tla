-------------------------- MODULE BuildGate_proofs --------------------------
(***************************************************************************)
(* Theorems about the build gate, for any finite set of callers and any    *)
(* positive limits.                                                        *)
(*                                                                         *)
(* The argument: the queue holds exactly the queued callers (QueueMatches),*)
(* so a caller that leaves the queue with a slot did not own one before,   *)
(* and counting Inside step by step gives the counter (SlotAccounting).    *)
(* With the counter known, every step is a move of the abstract pool.      *)
(***************************************************************************)
EXTENDS BuildGate, FiniteSetTheorems, TLAPS

IInv == TypeOK /\ SlotAccounting /\ QueueMatches /\ NoStrandedWaiter

Owning == {"granted", "building"}

-----------------------------------------------------------------------------
(* The queue. *)

\* Every set of callers the model counts is finite.
LEMMA CallersFinite ==
  ASSUME NEW S \in SUBSET Callers
  PROVE  IsFiniteSet(S) /\ Cardinality(S) \in Nat
  BY CallersAssumption, FS_Subset, FS_CardinalityType

\* Those who leave with the first k waiters were queued, hence owned no slot.
LEMMA LeavingQueued ==
  ASSUME TypeOK, QueueMatches, NEW k \in 0..Len(waiters)
  PROVE  /\ Leaving(k) \subseteq {c \in Callers : state[c] = "queued"}
         /\ Live(k) \subseteq Leaving(k)
         /\ Live(k) \cap Inside = {}
         /\ Live(0) = {}
  BY DEF TypeOK, QueueMatches, Leaving, Live, Inside

\* One more waiter is at most one more slot.
LEMMA LiveGrows ==
  ASSUME TypeOK, NEW k \in 1..Len(waiters)
  PROVE  /\ waiters[k] \in Callers
         /\ Live(k) = Live(k - 1) \cup ({waiters[k]} \ cancelled)
         /\ Cardinality(Live(k)) <= Cardinality(Live(k - 1)) + 1
<1>1. waiters[k] \in Callers
  BY DEF TypeOK
<1>2. Leaving(k) = Leaving(k - 1) \cup {waiters[k]}
  BY DEF Leaving, TypeOK
<1>3. Live(k) = Live(k - 1) \cup ({waiters[k]} \ cancelled)
  BY <1>2 DEF Live
<1>4. Live(k - 1) \in SUBSET Callers
  BY DEF Live, Leaving, TypeOK
<1>5. Cardinality(Live(k)) <= Cardinality(Live(k - 1)) + 1
  <2>1. Live(k) = Live(k - 1) \/ Live(k) = Live(k - 1) \cup {waiters[k]}
    BY <1>3
  <2>2. Cardinality(Live(k - 1)) \in Nat /\ IsFiniteSet(Live(k - 1))
    BY <1>4, CallersFinite
  <2>3. Cardinality(Live(k - 1) \cup {waiters[k]})
          = IF waiters[k] \in Live(k - 1) THEN Cardinality(Live(k - 1))
            ELSE Cardinality(Live(k - 1)) + 1
    BY <2>2, FS_AddElement
  <2>4. CASE Live(k) = Live(k - 1)
    <3>1. Cardinality(Live(k)) = Cardinality(Live(k - 1))
      BY <2>4
    <3> QED
      BY <3>1, <2>2
  <2>5. CASE Live(k) = Live(k - 1) \cup {waiters[k]}
    <3>1. Cardinality(Live(k)) = Cardinality(Live(k - 1) \cup {waiters[k]})
      BY <2>5
    <3> QED
      BY <3>1, <2>2, <2>3
  <2> QED
    BY <2>1, <2>4, <2>5
<1> QED
  BY <1>1, <1>3, <1>5

\* When the first k waiters leave, the queue still holds exactly the queued
\* callers, and the owners are those of `others` and the live ones of the k.
LEMMA DequeueKeeps ==
  ASSUME TypeOK, QueueMatches, NEW k \in 0..Len(waiters),
         NEW others \in [Callers -> States],
         \A c \in Callers : others[c] = "queued" <=> state[c] = "queued",
         Dequeue(k, others)
  PROVE  /\ waiters' \in Seq(Callers) /\ state' \in [Callers -> States]
         /\ QueueMatches'
         /\ Inside' = {c \in Callers : others[c] \in Owning} \cup Live(k)
         /\ Len(waiters') = Len(waiters) - k
         /\ \A i \in 1..(Len(waiters) - k) : waiters'[i] = waiters[i + k]
<1>1. /\ waiters' \in Seq(Callers)
      /\ Len(waiters') = Len(waiters) - k
      /\ \A i \in 1..(Len(waiters) - k) : waiters'[i] = waiters[i + k]
  BY DEF Dequeue, Rest, TypeOK
<1>2. state' \in [Callers -> States]
  BY DEF Dequeue, States
<1>3. QueueMatches'
  <2>1. \A i, j \in DOMAIN waiters' : waiters'[i] = waiters'[j] => i = j
    <3>1. TAKE i, j \in DOMAIN waiters'
    <3>2. /\ i + k \in DOMAIN waiters /\ waiters'[i] = waiters[i + k]
          /\ j + k \in DOMAIN waiters /\ waiters'[j] = waiters[j + k]
      BY <1>1, <3>1 DEF TypeOK
    <3>3. waiters[i + k] = waiters[j + k] => i + k = j + k
      BY <3>2 DEF QueueMatches
    <3>4. i \in Int /\ j \in Int /\ k \in Int
      BY <1>1, <3>1
    <3> QED
      BY <3>2, <3>3, <3>4
  <2>2. \A i \in DOMAIN waiters' :
          waiters'[i] \in Callers /\ state'[waiters'[i]] = "queued"
    <3>1. TAKE i \in DOMAIN waiters'
    <3>2. i + k \in DOMAIN waiters /\ waiters'[i] = waiters[i + k]
      BY <1>1, <3>1 DEF TypeOK
    <3>3. waiters[i + k] \notin Leaving(k)
      <4>1. SUFFICES ASSUME NEW j \in 1..k, waiters[j] = waiters[i + k]
                     PROVE  FALSE
        BY DEF Leaving
      <4>2. j \in DOMAIN waiters /\ j <= k
        BY DEF TypeOK
      <4>3. i \in Int /\ i >= 1 /\ i + k > k
        BY <1>1, <3>1
      <4> QED
        BY <3>2, <4>1, <4>2, <4>3 DEF QueueMatches
    <3> QED
      BY <3>2, <3>3 DEF Dequeue, Live, QueueMatches, TypeOK
  <2>3. \A c \in Callers : state'[c] = "queued" =>
          \E i \in DOMAIN waiters' : waiters'[i] = c
    <3>1. SUFFICES ASSUME NEW c \in Callers, state'[c] = "queued"
                   PROVE  \E i \in DOMAIN waiters' : waiters'[i] = c
      OBVIOUS
    <3>2. c \notin Leaving(k) /\ state[c] = "queued"
      BY <3>1 DEF Dequeue, Live
    <3>3. PICK j \in DOMAIN waiters : waiters[j] = c
      BY <3>2 DEF QueueMatches
    <3>4. j \in (k + 1)..Len(waiters)
      BY <3>2, <3>3 DEF Leaving, TypeOK
    <3>5. j - k \in DOMAIN waiters' /\ waiters'[j - k] = c
      BY <1>1, <3>3, <3>4 DEF TypeOK
    <3> QED
      BY <3>5
  <2> QED
    BY <2>1, <2>2, <2>3 DEF QueueMatches
<1>4. Inside' = {c \in Callers : others[c] \in Owning} \cup Live(k)
  <2>1. Leaving(k) \subseteq {c \in Callers : state[c] = "queued"}
    BY LeavingQueued
  <2> QED
    BY <2>1 DEF Dequeue, Inside, Owning, Live
<1> QED
  BY <1>1, <1>2, <1>3, <1>4

\* Taking an aborted caller out of the queue leaves the others in their order.
LEMMA SplicedKeeps ==
  ASSUME TypeOK, QueueMatches, NEW i \in DOMAIN waiters
  PROVE  /\ Spliced(i) \in Seq(Callers)
         /\ Len(Spliced(i)) = Len(waiters) - 1
         /\ \A j \in 1..(i - 1) : Spliced(i)[j] = waiters[j]
         /\ \A j \in i..(Len(waiters) - 1) : Spliced(i)[j] = waiters[j + 1]
<1> DEFINE front == SubSeq(waiters, 1, i - 1)
           back  == SubSeq(waiters, i + 1, Len(waiters))
<1>1. i \in 1..Len(waiters) /\ waiters \in Seq(Callers)
  BY DEF TypeOK
<1>2. front \in Seq(Callers) /\ Len(front) = i - 1
      /\ \A j \in 1..(i - 1) : front[j] = waiters[j]
  BY <1>1
<1>3. back \in Seq(Callers) /\ Len(back) = Len(waiters) - i
      /\ \A j \in 1..(Len(waiters) - i) : back[j] = waiters[j + i]
  BY <1>1
<1>4. Spliced(i) = front \o back
  BY DEF Spliced, RemoveAt
<1> HIDE DEF front, back
<1>5. /\ Spliced(i) \in Seq(Callers)
      /\ Len(Spliced(i)) = Len(waiters) - 1
      /\ \A j \in 1..(Len(waiters) - 1) :
           Spliced(i)[j] = IF j <= i - 1 THEN front[j] ELSE back[j - (i - 1)]
  BY <1>1, <1>2, <1>3, <1>4
<1>6. ASSUME NEW j \in i..(Len(waiters) - 1)
      PROVE  Spliced(i)[j] = waiters[j + 1]
  <2>1. j - (i - 1) \in 1..(Len(waiters) - i)
    BY <1>1
  <2>2. back[j - (i - 1)] = waiters[(j - (i - 1)) + i]
    BY <1>3, <2>1
  <2>3. (j - (i - 1)) + i = j + 1 /\ ~(j <= i - 1) /\ j \in 1..(Len(waiters) - 1)
    BY <1>1
  <2> QED
    BY <1>5, <2>2, <2>3
<1>7. ASSUME NEW j \in 1..(i - 1) PROVE Spliced(i)[j] = waiters[j]
  <2>1. j <= i - 1 /\ j \in 1..(Len(waiters) - 1)
    BY <1>1, <1>7
  <2> QED
    BY <1>2, <1>5, <1>7, <2>1
<1> QED
  BY <1>5, <1>6, <1>7

-----------------------------------------------------------------------------
(* What the steps do to the owners. *)

\* A step adds one owner, or removes one.
LEMMA CountOne ==
  ASSUME TypeOK, SlotAccounting, NEW c \in Callers
  PROVE  /\ c \notin Inside => Cardinality(Inside \cup {c}) = active + 1
         /\ c \in Inside => Cardinality(Inside \ {c}) = active - 1
<1>1. IsFiniteSet(Inside)
  BY CallersFinite DEF Inside
<1> QED
  BY <1>1, FS_AddElement, FS_RemoveElement DEF SlotAccounting

\* Fast path: the counter was below the limit.
LEMMA EnterKeeps ==
  ASSUME IInv, NEW c \in Callers, Enter(c)
  PROVE  IInv' /\ Inside' = Inside \cup {c} /\ c \notin Inside
<1>1. c \notin Inside /\ Inside' = Inside \cup {c}
  BY DEF IInv, TypeOK, Enter, Inside
<1>2. TypeOK'
  BY DEF IInv, TypeOK, Enter, States
<1>3. SlotAccounting'
  BY <1>1, CountOne DEF IInv, SlotAccounting, Enter
<1>4. QueueMatches'
  BY DEF IInv, TypeOK, QueueMatches, Enter
<1>5. NoStrandedWaiter'
  BY LimitsAssumption DEF IInv, TypeOK, NoStrandedWaiter, Enter
<1> QED
  BY <1>1, <1>2, <1>3, <1>4, <1>5 DEF IInv

\* A caller joins the queue only when every slot is owned.
LEMMA QueueKeeps ==
  ASSUME IInv, NEW c \in Callers, Queue(c)
  PROVE  /\ IInv' /\ Inside' = Inside
         /\ Len(waiters') = Len(waiters) + 1
         /\ waiters'[Len(waiters) + 1] = c
         /\ \A i \in DOMAIN waiters : i \in DOMAIN waiters' /\ waiters'[i] = waiters[i]
<1>1. /\ waiters' \in Seq(Callers) /\ Len(waiters') = Len(waiters) + 1
      /\ waiters'[Len(waiters) + 1] = c
      /\ \A i \in 1..Len(waiters) : waiters'[i] = waiters[i]
  BY DEF IInv, TypeOK, Queue
<1>2. Inside' = Inside
  BY DEF IInv, TypeOK, Queue, Inside
<1>3. TypeOK'
  BY <1>1 DEF IInv, TypeOK, Queue, States
<1>4. QueueMatches'
  <2>1. \A i \in 1..Len(waiters) : waiters[i] # c
    BY DEF IInv, TypeOK, QueueMatches, Queue
  <2>2. DOMAIN waiters' = 1..(Len(waiters) + 1) /\ Len(waiters) \in Nat
    BY <1>1 DEF IInv, TypeOK
  <2>3. \A i, j \in DOMAIN waiters' : waiters'[i] = waiters'[j] => i = j
    BY <1>1, <2>1, <2>2 DEF IInv, TypeOK, QueueMatches
  <2>4. \A i \in DOMAIN waiters' : state'[waiters'[i]] = "queued" /\ waiters'[i] \in Callers
    BY <1>1, <2>1, <2>2 DEF IInv, TypeOK, QueueMatches, Queue
  <2>5. ASSUME NEW d \in Callers, state'[d] = "queued"
        PROVE  \E i \in DOMAIN waiters' : waiters'[i] = d
    <3>1. CASE d = c
      BY <1>1, <2>2, <3>1
    <3>2. CASE d # c
      <4>1. state[d] = "queued"
        BY <2>5, <3>2 DEF IInv, TypeOK, Queue
      <4>2. PICK i \in DOMAIN waiters : waiters[i] = d
        BY <4>1 DEF IInv, QueueMatches
      <4> QED
        BY <1>1, <2>2, <4>2 DEF IInv, TypeOK
    <3> QED
      BY <3>1, <3>2
  <2> QED
    BY <2>3, <2>4, <2>5 DEF QueueMatches
<1>5. SlotAccounting' /\ NoStrandedWaiter'
  BY <1>2, LimitsAssumption
     DEF IInv, TypeOK, SlotAccounting, NoStrandedWaiter, Queue, HasRoom
<1> QED
  BY <1>1, <1>2, <1>3, <1>4, <1>5 DEF IInv, TypeOK

\* A caller that neither waits nor owns a slot changes without either.
LEMMA OutsideKeeps ==
  ASSUME IInv, NEW c \in Callers, Refuse(c) \/ Return(c)
  PROVE  IInv' /\ Inside' = Inside /\ waiters' = waiters
<1>1. Inside' = Inside /\ waiters' = waiters /\ active' = active /\ max' = max
  BY DEF IInv, TypeOK, Inside, Refuse, Return
<1>2. TypeOK'
  BY DEF IInv, TypeOK, Refuse, Return, States
<1>3. QueueMatches'
  BY DEF IInv, TypeOK, QueueMatches, Refuse, Return
<1> QED
  BY <1>1, <1>2, <1>3 DEF IInv, SlotAccounting, NoStrandedWaiter

\* The woken caller already owns its slot.
LEMMA StartKeeps ==
  ASSUME IInv, NEW c \in Callers, Start(c)
  PROVE  IInv' /\ Inside' = Inside
<1>1. Inside' = Inside
  BY DEF IInv, TypeOK, Inside, Start
<1>2. TypeOK'
  BY DEF IInv, TypeOK, Start, States
<1>3. QueueMatches'
  BY DEF IInv, TypeOK, QueueMatches, Start
<1> QED
  BY <1>1, <1>2, <1>3 DEF IInv, SlotAccounting, NoStrandedWaiter, Start

\* Over a lowered limit the slot disappears; the limit is still reached.
LEMMA ShrinkKeeps ==
  ASSUME IInv, NEW c \in Callers, Shrink(c)
  PROVE  IInv' /\ Inside' = Inside \ {c} /\ c \in Inside
<1>1. c \in Inside /\ Inside' = Inside \ {c}
  BY DEF IInv, TypeOK, Inside, Shrink, Owns, Ended
<1>2. TypeOK'
  BY LimitsAssumption DEF IInv, TypeOK, Shrink, Ended, OverLimit, States
<1>3. QueueMatches'
  BY DEF IInv, TypeOK, QueueMatches, Shrink, Owns, Ended
<1>4. SlotAccounting'
  BY <1>1, CountOne DEF IInv, SlotAccounting, Shrink
<1>5. NoStrandedWaiter'
  BY LimitsAssumption DEF IInv, TypeOK, NoStrandedWaiter, Shrink, OverLimit
<1> QED
  BY <1>1, <1>2, <1>3, <1>4, <1>5 DEF IInv

\* One owner leaves, the first live waiter takes over: the count stays.
LEMMA TransferKeeps ==
  ASSUME IInv, NEW c \in Callers, Transfer(c)
  PROVE  /\ IInv' /\ c \in Inside /\ active <= max /\ max' = max
         /\ \E k \in 1..Len(waiters) :
              /\ Dequeue(k, Ended(c))
              /\ waiters[k] \in Callers \ Inside
              /\ Inside' = (Inside \ {c}) \cup {waiters[k]}
<1>1. PICK k \in 1..Len(waiters) : FirstLive(k) /\ Dequeue(k, Ended(c))
  BY DEF Transfer
<1>2. /\ Ended(c) \in [Callers -> States]
      /\ \A d \in Callers : Ended(c)[d] = "queued" <=> state[d] = "queued"
      /\ {d \in Callers : Ended(c)[d] \in Owning} = Inside \ {c}
      /\ c \in Inside
  BY DEF IInv, TypeOK, Ended, States, Transfer, Owns, Inside, Owning
<1>3. k \in 0..Len(waiters)
  BY <1>1 DEF IInv, TypeOK
<1>4. Live(k) = {waiters[k]}
  BY <1>1, LiveGrows DEF IInv, FirstLive
<1>5. /\ waiters' \in Seq(Callers) /\ state' \in [Callers -> States]
      /\ QueueMatches'
      /\ Inside' = (Inside \ {c}) \cup Live(k)
      /\ Len(waiters') = Len(waiters) - k
  BY <1>1, <1>2, <1>3, DequeueKeeps DEF IInv
<1>6. waiters[k] \in Callers \ Inside
  BY <1>1, <1>3, <1>4, LeavingQueued, LiveGrows DEF IInv
<1>7. TypeOK' /\ active' = active /\ max' = max
  BY <1>5 DEF IInv, TypeOK, Transfer
<1>8. SlotAccounting'
  <2>1. Cardinality(Inside \ {c}) = active - 1 /\ active \in Nat
    BY <1>2, CountOne DEF IInv, TypeOK
  <2>2. IsFiniteSet(Inside \ {c})
    BY CallersFinite DEF Inside
  <2>3. waiters[k] \notin Inside \ {c}
    BY <1>6
  <2>4. Cardinality((Inside \ {c}) \cup {waiters[k]}) = Cardinality(Inside \ {c}) + 1
    BY <2>2, <2>3, FS_AddElement
  <2> QED
    BY <1>4, <1>5, <1>7, <2>1, <2>4 DEF SlotAccounting
<1>9. NoStrandedWaiter'
  BY <1>1, <1>5, <1>7 DEF IInv, TypeOK, NoStrandedWaiter
<1>10. active <= max
  BY LimitsAssumption DEF IInv, TypeOK, Transfer, OverLimit
<1> QED
  BY <1>1, <1>2, <1>4, <1>5, <1>6, <1>7, <1>8, <1>9, <1>10 DEF IInv

\* Nobody live waits: the queue is emptied and the slot given up.
LEMMA FreeKeeps ==
  ASSUME IInv, NEW c \in Callers, Free(c)
  PROVE  /\ IInv' /\ Inside' = Inside \ {c} /\ c \in Inside
         /\ Dequeue(Len(waiters), Ended(c))
<1>1. /\ Ended(c) \in [Callers -> States]
      /\ \A d \in Callers : Ended(c)[d] = "queued" <=> state[d] = "queued"
      /\ {d \in Callers : Ended(c)[d] \in Owning} = Inside \ {c}
      /\ c \in Inside
  BY DEF IInv, TypeOK, Ended, States, Free, Owns, Inside, Owning
<1>2. /\ waiters' \in Seq(Callers) /\ state' \in [Callers -> States]
      /\ QueueMatches'
      /\ Inside' = Inside \ {c}
      /\ Len(waiters') = 0
  <2>1. Len(waiters) \in 0..Len(waiters)
    BY DEF IInv, TypeOK
  <2> QED
    BY <1>1, <2>1, DequeueKeeps DEF IInv, Free
<1>3. SlotAccounting' /\ active' = active - 1
  BY <1>1, <1>2, CountOne DEF IInv, SlotAccounting, Free
<1>4. active - 1 \in Nat
  <2>1. Cardinality(Inside \ {c}) \in Nat
    BY CallersFinite DEF Inside
  <2> QED
    BY <1>1, <2>1, CountOne DEF IInv
<1>5. TypeOK'
  BY <1>2, <1>3, <1>4 DEF IInv, TypeOK, Free
<1>6. NoStrandedWaiter'
  BY <1>2 DEF NoStrandedWaiter
<1> QED
  BY <1>1, <1>2, <1>3, <1>5, <1>6 DEF IInv, Free

\* A new limit: the pump grants slots to waiters up to it, never beyond, and
\* stops early only when the queue is empty.
LEMMA SetLimitKeeps ==
  ASSUME IInv, NEW m \in Limits, SetLimit(m)
  PROVE  /\ IInv'
         /\ \E k \in 0..Len(waiters) :
              /\ Dequeue(k, state)
              /\ Live(k) \subseteq Callers /\ Live(k) \cap Inside = {}
              /\ Inside' = Inside \cup Live(k)
              /\ Live(k) # {} => active' <= max'
<1>1. PICK k \in 0..Len(waiters) :
        /\ PumpStops(k) /\ Dequeue(k, state)
        /\ active' = active + Cardinality(Live(k))
  BY DEF SetLimit
<1>2. max' = m /\ m \in Nat /\ aborted' = aborted /\ cancelled' = cancelled
  BY LimitsAssumption DEF SetLimit
<1>3. /\ state \in [Callers -> States]
      /\ {d \in Callers : state[d] \in Owning} = Inside
  BY DEF IInv, TypeOK, Inside, Owning
<1>4. /\ waiters' \in Seq(Callers) /\ state' \in [Callers -> States]
      /\ QueueMatches'
      /\ Inside' = Inside \cup Live(k)
      /\ Len(waiters') = Len(waiters) - k
  BY <1>1, <1>3, DequeueKeeps DEF IInv
<1>5. Live(k) \subseteq Callers /\ Live(k) \cap Inside = {}
  BY LeavingQueued DEF IInv
<1>6. Cardinality(Live(k)) \in Nat /\ IsFiniteSet(Live(k)) /\ IsFiniteSet(Inside)
      /\ active \in Nat
  BY <1>5, CallersFinite DEF Inside, IInv, TypeOK
<1>7. TypeOK'
  BY <1>1, <1>2, <1>4, <1>6 DEF IInv, TypeOK
<1>8. SlotAccounting'
  <2>1. Inside \cap Live(k) = {}
    BY <1>5
  <2>2. Cardinality(Inside \cup Live(k))
          = Cardinality(Inside) + Cardinality(Live(k)) - Cardinality(Inside \cap Live(k))
    BY <1>6, FS_Union
  <2>3. Cardinality(Inside \cap Live(k)) = 0
    BY <2>1, FS_EmptySet
  <2> QED
    BY <1>1, <1>4, <1>6, <2>2, <2>3 DEF IInv, SlotAccounting
<1>9. NoStrandedWaiter'
  <2>1. CASE k = Len(waiters)
    BY <1>4, <2>1 DEF NoStrandedWaiter, IInv, TypeOK
  <2>2. CASE k # Len(waiters)
    BY <1>1, <1>2, <1>6, <2>2 DEF PumpStops, NoStrandedWaiter
  <2> QED
    BY <2>1, <2>2
<1>10. ASSUME Live(k) # {} PROVE active' <= max'
  <2>1. k \in 1..Len(waiters) /\ k - 1 \in 0..(k - 1) /\ k - 1 \in 0..Len(waiters)
    BY <1>10, LeavingQueued DEF IInv, TypeOK
  <2>2. active + Cardinality(Live(k - 1)) < max'
    BY <1>1, <2>1 DEF PumpStops
  <2>3. Cardinality(Live(k)) <= Cardinality(Live(k - 1)) + 1
    BY <2>1, LiveGrows DEF IInv
  <2>4. Cardinality(Live(k - 1)) \in Nat
    BY <2>1, LeavingQueued, CallersFinite DEF IInv
  <2> QED
    BY <1>1, <1>2, <1>6, <2>2, <2>3, <2>4
<1> QED
  BY <1>1, <1>4, <1>5, <1>7, <1>8, <1>9, <1>10 DEF IInv

\* An aborted waiter leaves the queue and nobody else moves; any other aborted
\* caller keeps its place.
LEMMA AbortKeeps ==
  ASSUME IInv, NEW c \in Callers, Abort(c)
  PROVE  /\ IInv' /\ Inside' = Inside
         /\ \A d \in Callers : d # c => state'[d] = state[d]
         /\ \/ waiters' = waiters /\ state' = state
            \/ \E i \in DOMAIN waiters :
                 waiters[i] = c /\ waiters' = Spliced(i) /\ state'[c] = "rejected"
<1>1. CASE state[c] = "queued"
  <2>1. PICK i \in DOMAIN waiters : waiters[i] = c /\ waiters' = Spliced(i)
    BY <1>1 DEF Abort
  <2>2. state' = [state EXCEPT ![c] = "rejected"] /\ aborted' = aborted \cup {c}
        /\ active' = active /\ max' = max /\ cancelled' = cancelled
    BY <1>1 DEF Abort
  <2>3. /\ waiters' \in Seq(Callers) /\ Len(waiters') = Len(waiters) - 1
        /\ \A j \in 1..(i - 1) : waiters'[j] = waiters[j]
        /\ \A j \in i..(Len(waiters) - 1) : waiters'[j] = waiters[j + 1]
    BY <2>1, SplicedKeeps DEF IInv
  <2>4. i \in 1..Len(waiters) /\ Len(waiters) \in Nat
    BY <2>1 DEF IInv, TypeOK
  <2>5. TypeOK' /\ Inside' = Inside
    BY <1>1, <2>2, <2>3 DEF IInv, TypeOK, States, Inside
  <2>6. QueueMatches'
    <3>1. DOMAIN waiters' = 1..(Len(waiters) - 1)
      BY <2>3
    <3>2. \A x, y \in 1..Len(waiters) : waiters[x] = waiters[y] => x = y
      BY DEF IInv, TypeOK, QueueMatches
    <3>3. \A x \in DOMAIN waiters' : waiters'[x] \in Callers /\ state'[waiters'[x]] = "queued"
      <4>1. TAKE x \in DOMAIN waiters'
      <4>2. PICK y \in 1..Len(waiters) : y # i /\ waiters'[x] = waiters[y]
        <5>1. CASE x < i
          BY <2>3, <2>4, <3>1, <4>1, <5>1
        <5>2. CASE ~(x < i)
          BY <2>3, <2>4, <3>1, <4>1, <5>2
        <5> QED
          BY <5>1, <5>2
      <4>3. waiters[y] # c /\ state[waiters[y]] = "queued" /\ waiters[y] \in Callers
        BY <2>1, <2>4, <3>2, <4>2 DEF IInv, TypeOK, QueueMatches
      <4> QED
        BY <2>2, <4>2, <4>3 DEF IInv, TypeOK
    <3>4. ASSUME NEW d \in Callers, state'[d] = "queued"
          PROVE  \E x \in DOMAIN waiters' : waiters'[x] = d
      <4>1. state[d] = "queued" /\ d # c
        BY <2>2, <3>4 DEF IInv, TypeOK
      <4>2. PICK y \in 1..Len(waiters) : waiters[y] = d
        BY <4>1 DEF IInv, TypeOK, QueueMatches
      <4>3. CASE y < i
        <5>1. y \in 1..(i - 1) /\ y \in DOMAIN waiters'
          BY <2>4, <3>1, <4>2, <4>3
        <5> QED
          BY <2>3, <4>2, <5>1
      <4>4. CASE y > i
        <5>1. y - 1 \in i..(Len(waiters) - 1) /\ y - 1 \in DOMAIN waiters'
              /\ (y - 1) + 1 = y
          BY <2>4, <3>1, <4>2, <4>4
        <5>2. waiters'[y - 1] = waiters[(y - 1) + 1]
          BY <2>3, <5>1
        <5> QED
          BY <4>2, <5>1, <5>2
      <4> QED
        BY <2>1, <2>4, <4>1, <4>2, <4>3, <4>4
    <3>5. \A x, y \in DOMAIN waiters' : waiters'[x] = waiters'[y] => x = y
      <4>1. TAKE x, y \in DOMAIN waiters'
      <4> DEFINE at(z) == IF z < i THEN z ELSE z + 1
      <4>2. ASSUME NEW z \in DOMAIN waiters'
            PROVE  at(z) \in 1..Len(waiters) /\ waiters'[z] = waiters[at(z)]
        BY <2>3, <2>4, <3>1, <4>2
      <4>3. waiters'[x] = waiters'[y] => at(x) = at(y)
        BY <3>2, <4>1, <4>2
      <4>4. x \in Nat /\ y \in Nat /\ i \in Nat
        BY <2>4, <3>1, <4>1
      <4> QED
        BY <4>3, <4>4
    <3> QED
      BY <3>3, <3>4, <3>5 DEF QueueMatches
  <2>7. SlotAccounting' /\ NoStrandedWaiter'
    BY <2>2, <2>3, <2>4, <2>5 DEF IInv, TypeOK, SlotAccounting, NoStrandedWaiter
  <2> QED
    BY <2>1, <2>2, <2>5, <2>6, <2>7 DEF IInv, TypeOK
<1>2. CASE state[c] # "queued"
  BY <1>2 DEF IInv, TypeOK, SlotAccounting, QueueMatches, NoStrandedWaiter,
              Inside, Abort
<1> QED
  BY <1>1, <1>2

\* The gate is not told of a cancellation, and a step that changes none of its
\* variables changes nothing.
LEMMA CancelKeeps ==
  ASSUME IInv, (\E S \in SUBSET Callers : Cancel(S)) \/ UNCHANGED vars
  PROVE  IInv' /\ Inside' = Inside /\ waiters' = waiters /\ state' = state /\ max' = max
<1>1. /\ active' = active /\ waiters' = waiters /\ state' = state
      /\ aborted' = aborted /\ max' = max
      /\ cancelled' \subseteq Callers
  BY DEF IInv, TypeOK, Cancel, vars
<1>2. TypeOK'
  BY <1>1 DEF IInv, TypeOK
<1>3. Inside' = Inside /\ QueueMatches' /\ NoStrandedWaiter'
  BY <1>1 DEF IInv, QueueMatches, NoStrandedWaiter, Inside
<1> QED
  BY <1>1, <1>2, <1>3 DEF IInv, SlotAccounting

-----------------------------------------------------------------------------
(* The theorems. *)

\* The gate starts empty.
LEMMA InitInvariant == Init => IInv
<1> SUFFICES ASSUME Init PROVE IInv
  OBVIOUS
<1>1. TypeOK /\ QueueMatches /\ NoStrandedWaiter
  BY DEF Init, TypeOK, QueueMatches, NoStrandedWaiter, States
<1>2. Inside = {}
  BY DEF Init, Inside
<1> QED
  BY <1>1, <1>2, FS_EmptySet DEF IInv, SlotAccounting, Init

\* Every step keeps the invariant, one lemma per action.
LEMMA StepInvariant == IInv /\ [Next]_vars => IInv'
<1> SUFFICES ASSUME IInv, [Next]_vars PROVE IInv'
  OBVIOUS
<1>1. CASE \E c \in Callers : Caller(c)
  <2>1. PICK c \in Callers : Caller(c)
    BY <1>1
  <2> QED
    BY <2>1, EnterKeeps, QueueKeeps, OutsideKeeps, StartKeeps, ShrinkKeeps,
       TransferKeeps, FreeKeeps, AbortKeeps DEF Caller
<1>2. CASE \E S \in SUBSET Callers : Cancel(S)
  BY <1>2, CancelKeeps
<1>3. CASE \E m \in Limits : SetLimit(m)
  BY <1>3, SetLimitKeeps
<1>4. CASE UNCHANGED vars
  BY <1>4, CancelKeeps
<1> QED
  BY <1>1, <1>2, <1>3, <1>4 DEF Next

\* The inductive invariant holds in every reachable state.
THEOREM InductiveInvariant == Spec => []IInv
  BY InitInvariant, StepInvariant, PTL DEF Spec

\* Type correctness of the gate: in particular the slot counter never goes
\* below zero.
THEOREM TypeCorrect == Spec => []TypeOK
<1>1. IInv => TypeOK
  BY DEF IInv
<1> QED
  BY <1>1, InductiveInvariant, PTL

\* The counter of the gate counts the builds that own a slot: none is lost or
\* counted twice by fast path, transfer, pump, lowered limit or withdrawal.
THEOREM SlotsAccounted == Spec => []SlotAccounting
<1>1. IInv => SlotAccounting
  BY DEF IInv
<1> QED
  BY <1>1, InductiveInvariant, PTL

\* The queue holds each queued caller once and nobody else.
THEOREM QueueConsistent == Spec => []QueueMatches
<1>1. IInv => QueueMatches
  BY DEF IInv
<1> QED
  BY <1>1, InductiveInvariant, PTL

\* Nobody waits while a slot is free, so a release is to come that wakes it.
THEOREM NobodyStranded == Spec => []NoStrandedWaiter
<1>1. IInv => NoStrandedWaiter
  BY DEF IInv
<1> QED
  BY <1>1, InductiveInvariant, PTL

\* The pool counts as the gate does.
LEMMA SameCardinality == \A S : Pool!Cardinality(S) = Cardinality(S)
  BY DEF Pool!Cardinality, Cardinality

\* A step lets newcomers in only up to the limit in force after the step: it is
\* a move of the abstract pool, or leaves the pool alone.
LEMMA StepMoves ==
  ASSUME IInv, [Next]_vars
  PROVE  [Pool!Next]_(Pool!vars)
<1> USE DEF Pool!vars
<1>1. TypeOK' /\ SlotAccounting' /\ TypeOK /\ SlotAccounting
  BY StepInvariant DEF IInv
<1>2. ASSUME NEW out \in SUBSET Callers, NEW in \in SUBSET Callers,
             out \subseteq Inside, in \cap Inside = {},
             Inside' = (Inside \ out) \cup in,
             in # {} => active' <= max'
      PROVE  Pool!Next
  <2>1. max' \in Limits /\ Cardinality(Inside') = active'
    BY <1>1 DEF TypeOK, SlotAccounting
  <2>2. Pool!Move(out, in)
    BY <1>2, <2>1, SameCardinality DEF Pool!Move
  <2> QED
    BY <2>2 DEF Pool!Next
<1>3. ASSUME NEW c \in Callers, Caller(c) PROVE [Pool!Next]_(Pool!vars)
  <2>1. CASE Enter(c)
    <3>1. Inside' = (Inside \ {}) \cup {c} /\ c \notin Inside
      BY <2>1, EnterKeeps
    <3>2. active' <= max'
      <4>1. active \in Nat /\ max \in Nat
        BY <1>1, LimitsAssumption DEF TypeOK
      <4>2. active' = active + 1 /\ max' = max /\ active < max
        BY <2>1 DEF Enter, HasRoom
      <4> QED
        BY <4>1, <4>2
    <3>3. {} \in SUBSET Callers /\ {c} \in SUBSET Callers /\ {} \subseteq Inside
          /\ {c} \cap Inside = {}
      BY <3>1
    <3> QED
      BY <1>2, <3>1, <3>2, <3>3
  <2>2. CASE Shrink(c) \/ Free(c)
    <3>1. Inside' = (Inside \ {c}) \cup {} /\ c \in Inside
      BY <2>2, ShrinkKeeps, FreeKeeps
    <3>2. {} \in SUBSET Callers /\ {c} \in SUBSET Callers /\ {c} \subseteq Inside
          /\ {} \cap Inside = {}
      BY <3>1
    <3> QED
      BY <1>2, <3>1, <3>2
  <2>3. CASE Transfer(c)
    <3>1. c \in Inside /\ active <= max /\ max' = max /\ active' = active
      BY <2>3, TransferKeeps DEF Transfer
    <3>2. PICK k \in 1..Len(waiters) :
            /\ waiters[k] \in Callers \ Inside
            /\ Inside' = (Inside \ {c}) \cup {waiters[k]}
      BY <2>3, TransferKeeps
    <3>3. {waiters[k]} \in SUBSET Callers /\ {c} \in SUBSET Callers
          /\ {c} \subseteq Inside /\ {waiters[k]} \cap Inside = {}
      BY <3>1, <3>2
    <3> QED
      BY <1>2, <3>1, <3>2, <3>3
  <2>4. CASE Refuse(c) \/ Queue(c) \/ Start(c) \/ Abort(c) \/ Return(c)
    <3>1. Inside' = Inside
      BY <2>4, OutsideKeeps, QueueKeeps, StartKeeps, AbortKeeps
    <3>2. max' = max
      BY <2>4 DEF Refuse, Queue, Start, Abort, Return
    <3> QED
      BY <3>1, <3>2
  <2> QED
    BY <1>3, <2>1, <2>2, <2>3, <2>4 DEF Caller
<1>4. ASSUME NEW m \in Limits, SetLimit(m) PROVE Pool!Next
  <2>1. PICK k \in 0..Len(waiters) :
          /\ Live(k) \subseteq Callers /\ Live(k) \cap Inside = {}
          /\ Inside' = Inside \cup Live(k)
          /\ Live(k) # {} => active' <= max'
    BY <1>4, SetLimitKeeps
  <2>2. {} \in SUBSET Callers /\ Live(k) \in SUBSET Callers
        /\ {} \subseteq Inside /\ Inside' = (Inside \ {}) \cup Live(k)
    BY <2>1
  <2> QED
    BY <1>2, <2>1, <2>2
<1>5. CASE (\E S \in SUBSET Callers : Cancel(S)) \/ UNCHANGED vars
  BY <1>5, CancelKeeps
<1> QED
  BY <1>3, <1>4, <1>5 DEF Next

\* Refinement: the gate implements the pool.  Whoever is let in respects the
\* limit in force, also after it was lowered under running builds.
THEOREM GateImplementsPool == Spec => PoolPromise
<1>1. Init => Pool!Init
  BY DEF Init, Pool!Init, Inside
<1>2. IInv /\ [Next]_vars => [Pool!Next]_(Pool!vars)
  BY StepMoves
<1> QED
  BY <1>1, <1>2, InductiveInvariant, PTL DEF Spec, Pool!Spec, PoolPromise
-----------------------------------------------------------------------------
(* Action properties. *)

\* Those who leave the queue are granted a slot only while still wanted.
LEMMA StepZombies ==
  ASSUME IInv, [Next]_vars, NEW c \in cancelled, state[c] = "queued"
  PROVE  state'[c] \in {"queued", "rejected"}
<1>1. c \in Callers
  BY DEF IInv, TypeOK
<1>2. ASSUME NEW k \in 0..Len(waiters), NEW others, Dequeue(k, others),
             others[c] = "queued"
      PROVE  state'[c] \in {"queued", "rejected"}
  BY <1>1, <1>2 DEF Dequeue, Live
<1>3. ASSUME NEW d \in Callers, Caller(d)
      PROVE  state'[c] \in {"queued", "rejected"}
  <2>1. CASE Transfer(d)
    <3>1. PICK k \in 0..Len(waiters) : Dequeue(k, Ended(d))
      BY <2>1 DEF Transfer, IInv, TypeOK
    <3>2. Ended(d)[c] = "queued"
      BY <1>1, <2>1 DEF Transfer, Owns, Ended, IInv, TypeOK
    <3> QED
      BY <1>2, <3>1, <3>2
  <2>2. CASE Free(d)
    <3>1. Len(waiters) \in 0..Len(waiters) /\ Dequeue(Len(waiters), Ended(d))
      BY <2>2 DEF Free, IInv, TypeOK
    <3>2. Ended(d)[c] = "queued"
      BY <1>1, <2>2 DEF Free, Owns, Ended, IInv, TypeOK
    <3> QED
      BY <1>2, <3>1, <3>2
  <2>3. CASE Refuse(d) \/ Enter(d) \/ Queue(d) \/ Start(d) \/ Shrink(d)
             \/ Abort(d) \/ Return(d)
    BY <1>1, <2>3 DEF Refuse, Enter, Queue, Start, Shrink, Owns, Ended, Abort,
                      Return, IInv, TypeOK
  <2> QED
    BY <1>3, <2>1, <2>2, <2>3 DEF Caller
<1>4. ASSUME NEW m \in Limits, SetLimit(m)
      PROVE  state'[c] \in {"queued", "rejected"}
  BY <1>2, <1>4 DEF SetLimit
<1>5. CASE (\E S \in SUBSET Callers : Cancel(S)) \/ UNCHANGED vars
  BY <1>5, CancelKeeps
<1> QED
  BY <1>3, <1>4, <1>5 DEF Next

\* A waiter superseded in the queue never consumes a slot.
THEOREM NoZombieBuilds == Spec => ZombiesNeverBuild
<1>1. IInv /\ [Next]_vars =>
        [\A c \in cancelled :
           state[c] = "queued" => state'[c] \in {"queued", "rejected"}]_vars
  BY StepZombies
<1> QED
  BY <1>1, InductiveInvariant, PTL DEF Spec, ZombiesNeverBuild

\* Whoever stays behind a waiter that does not leave does not leave either.
LEMMA DequeueOrder ==
  ASSUME TypeOK, QueueMatches, NEW k \in 0..Len(waiters),
         NEW others \in [Callers -> States],
         \A e \in Callers : others[e] = "queued" <=> state[e] = "queued",
         Dequeue(k, others),
         NEW c \in Callers, NEW d \in Callers,
         state'[c] = "queued", Before(c, d)
  PROVE  state'[d] = "queued" /\ Before(c, d)'
<1>1. /\ QueueMatches'
      /\ waiters' \in Seq(Callers)
      /\ Len(waiters') = Len(waiters) - k
      /\ \A i \in 1..(Len(waiters) - k) : waiters'[i] = waiters[i + k]
  BY DequeueKeeps
<1>2. PICK i, j \in 1..Len(waiters) : i < j /\ waiters[i] = c /\ waiters[j] = d
  BY DEF Before, TypeOK
<1>3. i > k
  BY <1>2 DEF Dequeue, Live, Leaving, TypeOK
<1>4. /\ i - k \in 1..(Len(waiters) - k) /\ j - k \in 1..(Len(waiters) - k)
      /\ (i - k) + k = i /\ (j - k) + k = j /\ i - k < j - k
  BY <1>2, <1>3 DEF TypeOK
<1>5. waiters'[i - k] = c /\ waiters'[j - k] = d
      /\ i - k \in DOMAIN waiters' /\ j - k \in DOMAIN waiters'
  BY <1>1, <1>2, <1>4
<1> QED
  BY <1>1, <1>4, <1>5 DEF Before, QueueMatches

\* While c waits, nobody behind it or new gets past it.
LEMMA StepOrder ==
  ASSUME IInv, [Next]_vars,
         NEW c \in Callers, NEW d \in Callers, c # d,
         state[c] = "queued", state'[c] = "queued",
         Before(c, d) \/ state[d] = "idle"
  PROVE  /\ state'[d] \notin {"granted", "building"}
         /\ state'[d] = "queued" => Before(c, d)'
<1>1. TypeOK /\ QueueMatches /\ state \in [Callers -> States]
  BY DEF IInv, TypeOK
<1>2. PICK p \in DOMAIN waiters : waiters[p] = c
  BY <1>1 DEF QueueMatches
<1>3. waiters # <<>> /\ active >= max
  BY <1>2 DEF IInv, NoStrandedWaiter
<1>4. Before(c, d) => state[d] = "queued"
  BY <1>1 DEF Before, QueueMatches
<1>5. ASSUME NEW k \in 0..Len(waiters), NEW others \in [Callers -> States],
             \A e \in Callers : others[e] = "queued" <=> state[e] = "queued",
             state[d] = "idle" => others[d] = "idle",
             Dequeue(k, others)
      PROVE  /\ state'[d] \notin {"granted", "building"}
             /\ state'[d] = "queued" => Before(c, d)'
  <2>1. CASE Before(c, d)
    BY <1>1, <1>5, <2>1, DequeueOrder
  <2>2. CASE state[d] = "idle"
    <3>1. d \notin Leaving(k)
      BY <1>1, <2>2, LeavingQueued
    <3> QED
      BY <1>5, <2>2, <3>1 DEF Dequeue, Live
  <2> QED
    BY <2>1, <2>2
<1>6. CASE state' = state /\ waiters' = waiters
  BY <1>4, <1>6 DEF Before
<1>7. ASSUME NEW e \in Callers, Caller(e)
      PROVE  /\ state'[d] \notin {"granted", "building"}
             /\ state'[d] = "queued" => Before(c, d)'
  <2>1. CASE Transfer(e) \/ Free(e)
    <3>1. PICK k \in 0..Len(waiters) : Dequeue(k, Ended(e))
      BY <1>1, <2>1 DEF Transfer, Free, TypeOK
    <3>2. /\ Ended(e) \in [Callers -> States]
          /\ \A f \in Callers : Ended(e)[f] = "queued" <=> state[f] = "queued"
          /\ state[d] = "idle" => Ended(e)[d] = "idle"
      BY <1>1, <2>1 DEF Transfer, Free, Owns, Ended, States
    <3> QED
      BY <1>5, <3>1, <3>2
  <2>2. CASE Enter(e)
    BY <1>3, <2>2, LimitsAssumption DEF Enter, HasRoom, IInv, TypeOK
  <2>3. CASE Queue(e)
    <3>1. /\ Len(waiters') = Len(waiters) + 1 /\ waiters' \in Seq(Callers)
          /\ waiters'[Len(waiters) + 1] = e
          /\ \A i \in DOMAIN waiters : i \in DOMAIN waiters' /\ waiters'[i] = waiters[i]
      BY <2>3, QueueKeeps DEF IInv, TypeOK
    <3>2. Len(waiters) + 1 \in DOMAIN waiters' /\ p < Len(waiters) + 1
      BY <1>1, <1>2, <3>1 DEF TypeOK
    <3>3. Before(c, e)'
      BY <1>2, <3>1, <3>2 DEF Before
    <3>4. Before(c, d) => Before(c, d)'
      BY <3>1 DEF Before
    <3>5. state'[d] = IF d = e THEN "queued" ELSE state[d]
      BY <1>1, <2>3 DEF Queue
    <3> QED
      BY <1>4, <3>3, <3>4, <3>5
  <2>4. CASE Refuse(e) \/ Start(e) \/ Shrink(e) \/ Return(e)
    <3>1. state'[d] = "queued" => state[d] = "queued"
      BY <1>1, <2>4 DEF Refuse, Start, Shrink, Owns, Ended, Return
    <3>2. state'[d] \notin {"granted", "building"}
      BY <1>1, <1>4, <2>4 DEF Refuse, Start, Shrink, Owns, Ended, Return
    <3>3. waiters' = waiters
      BY <2>4 DEF Refuse, Start, Shrink, Return
    <3> QED
      BY <3>1, <3>2, <3>3 DEF Before
  <2>5. CASE Abort(e)
    <3>1. CASE waiters' = waiters /\ state' = state
      BY <1>6, <3>1
    <3>2. ASSUME NEW i \in DOMAIN waiters, waiters[i] = e, waiters' = Spliced(i),
                 state'[e] = "rejected",
                 \A f \in Callers : f # e => state'[f] = state[f]
          PROVE  /\ state'[d] \notin {"granted", "building"}
                 /\ state'[d] = "queued" => Before(c, d)'
      <4>1. state'[d] \notin {"granted", "building"}
            /\ (state'[d] = "queued" => d # e /\ Before(c, d))
        BY <1>4, <3>2
      <4>2. SUFFICES ASSUME d # e, Before(c, d) PROVE Before(c, d)'
        BY <4>1
      <4>3. PICK x, y \in 1..Len(waiters) : x < y /\ waiters[x] = c /\ waiters[y] = d
        BY <1>1, <4>2 DEF Before, TypeOK
      <4>4. c # e /\ x # i /\ y # i /\ i \in 1..Len(waiters) /\ Len(waiters) \in Nat
        BY <1>1, <3>2, <4>2, <4>3 DEF TypeOK
      <4> DEFINE to(z) == IF z < i THEN z ELSE z - 1
      <4>5. ASSUME NEW z \in 1..Len(waiters), z # i
            PROVE  to(z) \in DOMAIN waiters' /\ waiters'[to(z)] = waiters[z]
        <5>1. /\ waiters' \in Seq(Callers) /\ Len(waiters') = Len(waiters) - 1
              /\ \A j \in 1..(i - 1) : waiters'[j] = waiters[j]
              /\ \A j \in i..(Len(waiters) - 1) : waiters'[j] = waiters[j + 1]
          BY <1>1, <3>2, SplicedKeeps
        <5>2. DOMAIN waiters' = 1..(Len(waiters) - 1)
          BY <5>1, <4>4
        <5>3. CASE z < i
          BY <4>4, <4>5, <5>1, <5>2, <5>3
        <5>4. CASE z > i
          <6>1. z - 1 \in i..(Len(waiters) - 1) /\ (z - 1) + 1 = z
            BY <4>4, <4>5, <5>4
          <6>2. waiters'[z - 1] = waiters[(z - 1) + 1]
            BY <5>1, <6>1
          <6> QED
            BY <4>4, <5>2, <5>4, <6>1, <6>2
        <5> QED
          BY <4>4, <4>5, <5>3, <5>4
      <4>6. to(x) < to(y)
        BY <4>3, <4>4
      <4>7. to(x) \in DOMAIN waiters' /\ waiters'[to(x)] = c
        BY <4>3, <4>4, <4>5
      <4>8. to(y) \in DOMAIN waiters' /\ waiters'[to(y)] = d
        BY <4>3, <4>4, <4>5
      <4> HIDE DEF to
      <4> QED
        BY <4>6, <4>7, <4>8 DEF Before
    <3> QED
      BY <2>5, <3>1, <3>2, AbortKeeps
  <2> QED
    BY <1>7, <2>1, <2>2, <2>3, <2>4, <2>5 DEF Caller
<1>8. ASSUME NEW m \in Limits, SetLimit(m)
      PROVE  /\ state'[d] \notin {"granted", "building"}
             /\ state'[d] = "queued" => Before(c, d)'
  BY <1>1, <1>5, <1>8 DEF SetLimit
<1>9. CASE (\E S \in SUBSET Callers : Cancel(S)) \/ UNCHANGED vars
  BY <1>6, <1>9, CancelKeeps
<1> QED
  BY <1>7, <1>8, <1>9 DEF Next

\* First to queue, first served, whatever the operator and the owners do.
THEOREM QueueIsFair == Spec => FirstComeFirstServed
<1>1. IInv /\ [Next]_vars =>
        [\A c, d \in Callers :
           /\ c # d /\ state[c] = "queued" /\ state'[c] = "queued"
           /\ Before(c, d) \/ state[d] = "idle"
           => /\ state'[d] \notin {"granted", "building"}
              /\ state'[d] = "queued" => Before(c, d)']_vars
  BY StepOrder
<1> QED
  BY <1>1, InductiveInvariant, PTL DEF Spec, FirstComeFirstServed

=============================================================================
