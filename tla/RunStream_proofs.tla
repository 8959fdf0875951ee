--------------------------- MODULE RunStream_proofs ---------------------------
(***************************************************************************)
(* Proofs about the event stream of a run, for any number of runs, any     *)
(* ring and any number of broken connections: its type, that no event is   *)
(* sent twice, and that a client that was not warned misses none.          *)
(*                                                                         *)
(* The ledger is only looked at through what one of its steps may do to    *)
(* the watched run (LedgerMove): begin it, delete it, or treat it lawfully *)
(* (Respects of DeploymentRuns_proofs).                                    *)
(***************************************************************************)
EXTENDS RunStream, DeploymentRuns_proofs, WellFoundedInduction,
        FiniteSetTheorems

USE WatchedAssumption

-----------------------------------------------------------------------------
(* The ends of a set of numbers. *)

\* A set with a greatest number has it as its newest.
LEMMA NewestIs ==
    ASSUME NEW S \in SUBSET Nat, NEW m \in S, \A n \in S : n <= m
    PROVE  Newest(S) = m
<1>1. \A x \in S : (\A n \in S : n <= x) => x = m
  BY DEF Newest
<1>2. Newest(S) \in S /\ \A n \in S : n <= Newest(S)
  BY DEF Newest
<1> QED
  BY <1>1, <1>2

\* Every set of numbers in flight has an oldest one: of the intervals 0..n with
\* n in the set, one contains no other.
LEMMA OldestIs ==
    ASSUME NEW S \in SUBSET Nat, S # {}
    PROVE  Oldest(S) \in S /\ \A n \in S : Oldest(S) <= n
<1> DEFINE upto == {0..n : n \in S}
<1>1. upto \subseteq FiniteSubsetsOf(Nat) /\ upto # {}
  <2>1. \A n \in S : IsFiniteSet(0..n) /\ 0..n \subseteq Nat
    BY FS_Interval
  <2> QED
    BY <2>1 DEF FiniteSubsetsOf
<1>2. PICK T \in upto : \A U \in upto : ~(<<U, T>> \in StrictSubsetOrdering(Nat))
  BY <1>1, FS_StrictSubsetOrderingWellFounded, WFMin
<1>3. PICK x \in S : T = 0..x
  BY <1>2
<1>4. ASSUME NEW y \in S PROVE x <= y
  <2> SUFFICES ASSUME y < x PROVE FALSE
    OBVIOUS
  <2>1. 0..y \subseteq 0..x /\ x \in 0..x /\ x \notin 0..y
    BY Z3
  <2>2. <<0..y, 0..x>> \in StrictSubsetOrdering(Nat)
    BY <2>1 DEF StrictSubsetOrdering
  <2> QED
    BY <1>2, <1>3, <2>2
<1> QED
  BY <1>4 DEF Oldest

\* The events beyond a cursor end with the last one of the run.
LEMMA NewestEvent ==
    ASSUME watched \in Run, NEW after \in Nat, EventsAfter(after) # {}
    PROVE  /\ Newest(EventsAfter(after)) = watched.seq
           /\ watched.seq > after
<1>1. watched.first \in Nat /\ watched.seq \in Nat
  BY DEF Run
<1>2. watched.seq \in EventsAfter(after) /\ EventsAfter(after) \in SUBSET Nat
      /\ \A n \in EventsAfter(after) : n <= watched.seq
  BY <1>1 DEF EventsAfter
<1> QED
  BY <1>1, <1>2, NewestIs DEF EventsAfter

-----------------------------------------------------------------------------
(* The invariant. *)

\* What is in flight is newer than what was received; there is a last event
\* received; the cursor is beyond both; nothing outlives its connection.
Ahead ==
    /\ \A f \in flight, s \in seen : f > s
    /\ conn \in {"open", "ended"} => \A n \in seen \cup flight : n <= afterSeq
    /\ conn \in {"closed", "finished"} => flight = {}
    /\ seen # {} => \E m \in seen : \A n \in seen : n <= m

\* Nobody follows a run that has not begun.
Unstarted == handler[Watched] = "idle" => conn = "closed" /\ seen = {}

\* A client that was not warned has every event up to the last one received,
\* and on a connection every event up to the cursor is received or under way;
\* the stream ends where the run does.
Whole ==
    crashes = 0 /\ ~warned =>
      /\ watched.status # "none" => Trimmed(watched) /\ LastEventId <= watched.seq
      /\ seen = 1..LastEventId
      /\ conn \in {"open", "ended"} =>
           /\ seen \cup flight = 1..afterSeq
           /\ watched.status # "none" => afterSeq <= watched.seq
      /\ conn = "ended" /\ watched.status # "none" =>
           watched.status \in Final /\ afterSeq = watched.seq

StreamInv == StreamTypeOK /\ IInv /\ Ahead /\ Unstarted /\ Whole

\* The last event received is what the name says.
LEMMA LastReceived ==
    ASSUME seen \subseteq Nat, seen # {} => \E m \in seen : \A n \in seen : n <= m
    PROVE  /\ LastEventId \in Nat
           /\ \A n \in seen : n <= LastEventId
           /\ seen # {} => LastEventId \in seen
           /\ seen = {} => LastEventId = 0
<1>1. CASE seen = {}
  BY <1>1 DEF LastEventId
<1>2. CASE seen # {}
  <2>1. PICK m \in seen : \A n \in seen : n <= m
    BY <1>2
  <2>2. LastEventId = m
    BY <1>2, <2>1, NewestIs DEF LastEventId
  <2> QED
    BY <1>2, <2>1, <2>2
<1> QED
  BY <1>1, <1>2

LEMMA StreamInitInvariant == StreamInit => StreamInv
<1> SUFFICES ASSUME StreamInit
             PROVE  StreamInv
  OBVIOUS
<1>1. IInv
  BY InitInvariant DEF StreamInit
<1>2. StreamTypeOK /\ Ahead /\ Unstarted
  BY <1>1 DEF StreamInit, StreamTypeOK, IInv, Ahead, Unstarted
<1>3. watched.status = "none" /\ LastEventId = 0 /\ seen = 1..0 /\ conn = "closed"
  BY ConstantRuns DEF StreamInit, Init, watched, LastEventId
<1>4. Whole
  BY <1>3 DEF Whole
<1> QED
  BY <1>1, <1>2, <1>4 DEF StreamInv

-----------------------------------------------------------------------------
(* Steps of the ledger. *)

\* What they may do to the watched run.
LedgerMove ==
    /\ IInv'
    /\ crashes' = crashes
    /\ handler'[Watched] = "idle" => handler[Watched] = "idle"
    /\ \/ handler[Watched] = "idle" /\ watched' = NewRun
       \/ watched' = Absent
       \/ Respects(watched, watched')

LEMMA LedgerMoves ==
    ASSUME IInv, LedgerStep \/ PrunedByOthers
    PROVE  LedgerMove
<1>0. watched \in Run /\ Respects(watched, watched)
  BY SameRun DEF IInv, TypeOK, watched
<1>1. CASE \E r \in Runs : Begin(r)
  <2> PICK r \in Runs : Begin(r)
    BY <1>1
  <2> DEFINE begun == [ledger EXCEPT ![r] = NewRun]
  <2>1. begun \in [Runs -> Run] /\ begun[r] = NewRun
        /\ \A q \in Runs \ {r} : begun[q] = ledger[q]
    BY ConstantRuns DEF IInv, TypeOK
  <2>2. ledger' = Pruned(begun) /\ handler[r] = "idle" /\ crashes' = crashes
        /\ handler' = [handler EXCEPT ![r] = "beginning"]
    BY DEF Begin, Goto
  <2> HIDE DEF begun
  <2>3. \A q \in Runs : ledger'[q] \in {begun[q], Absent}
    BY <2>1, <2>2, PrunedRuns
  <2>4. IInv' /\ (handler'[Watched] = "idle" => handler[Watched] = "idle")
    BY <2>2, BeginInvariant DEF IInv, TypeOK
  <2> QED
    BY <1>0, <2>1, <2>2, <2>3, <2>4 DEF LedgerMove, watched
<1>2. CASE \E r \in Runs : Handle(r)
  <2> PICK r \in Runs : Handle(r)
    BY <1>2
  <2>1. PICK new \in Run, phase \in Phases : HandlerMove(r, new, phase)
    BY HandleMoves DEF IInv
  <2>2. IInv' /\ crashes' = crashes
    BY <2>1, HandleInvariant DEF HandlerMove
  <2>3. handler'[Watched] = "idle" => handler[Watched] = "idle"
    BY <2>1 DEF HandlerMove, IInv, TypeOK
  <2>4. Respects(watched, watched')
    BY <1>0, <2>1 DEF HandlerMove, IInv, TypeOK, watched
  <2> QED
    BY <2>2, <2>3, <2>4 DEF LedgerMove
<1>3. CASE \E r \in Runs : Age(r)
  <2> PICK r \in Runs : Age(r)
    BY <1>3
  <2>1. Respects(watched, Older(watched))
    <3>1. Older(watched) \in Run /\ Older(watched).seq = watched.seq
          /\ Older(watched).first = watched.first
          /\ (watched.status \notin InFlight => Older(watched) = watched)
      BY <1>0 DEF Older, Run, Fresh, Quiet, Stale
    <3> QED
      BY <1>0, <3>1 DEF Respects, Trimmed, Run
  <2>2. watched' \in {watched, Older(watched)} /\ handler' = handler /\ crashes' = crashes
    BY DEF Age, watched, IInv, TypeOK
  <2> QED
    BY <1>0, <2>1, <2>2, AgeInvariant DEF LedgerMove
<1>4. CASE \E r \in Runs : Persist(r)
  BY <1>0, <1>4, PersistInvariant DEF LedgerMove, Persist, watched
<1>5. CASE Reap
  <2>1. Respects(watched, watched') /\ handler' = handler /\ crashes' = crashes
    BY <1>5, ReapEffect DEF IInv, watched
  <2> QED
    BY <1>5, <2>1, ReapInvariant DEF LedgerMove
<1>6. CASE PrunedByOthers
  <2>1. /\ ledger' = [ledger EXCEPT ![Watched] = Absent]
        /\ saved' = saved /\ handler' = handler /\ crashes' = crashes
    BY <1>6 DEF PrunedByOthers, Update
  <2>2. watched' = Absent
    BY <2>1 DEF watched, IInv, TypeOK
  <2>3. TypeOK' /\ IdleAbsent'
    BY <2>1, ConstantRuns DEF IInv, TypeOK, IdleAbsent
  <2>4. DurableBeforeWork'
    BY <2>1, ConstantRuns, StatusKinds DEF IInv, TypeOK, DurableBeforeWork, Active
  <2> QED
    BY <2>1, <2>2, <2>3, <2>4 DEF LedgerMove, IInv
<1> QED
  BY <1>1, <1>2, <1>3, <1>4, <1>5, <1>6 DEF LedgerStep, Background

LEMMA LedgerKeepsStream ==
    ASSUME StreamInv, LedgerStep \/ PrunedByOthers
    PROVE  StreamInv'
<1>1. LedgerMove
  BY LedgerMoves DEF StreamInv
<1>2. conn' = conn /\ afterSeq' = afterSeq /\ flight' = flight /\ seen' = seen
      /\ warned' = warned
  BY DEF LedgerStep, PrunedByOthers, streamVars
<1>3. LastEventId' = LastEventId
  BY <1>2 DEF LastEventId
<1>4. StreamTypeOK' /\ IInv' /\ Ahead' /\ Unstarted'
  BY <1>1, <1>2 DEF StreamInv, StreamTypeOK, LedgerMove, IInv, Ahead, Unstarted
<1>5. Whole'
  <2>0. watched \in Run /\ LastEventId \in Nat /\ afterSeq \in Nat
    BY LastReceived DEF StreamInv, StreamTypeOK, TypeOK, Ahead, watched
  <2>1. CASE handler[Watched] = "idle" /\ watched' = NewRun
    <3>1. conn = "closed" /\ LastEventId = 0
      BY <2>1 DEF StreamInv, Unstarted, LastEventId
    <3>2. watched'.seq = 1 /\ Trimmed(watched)'
      BY <2>1, BoundsAssumption DEF NewRun, Trimmed
    <3> QED
      BY <1>1, <1>2, <1>3, <3>1, <3>2 DEF StreamInv, Whole, LedgerMove
  <2>2. CASE watched' = Absent
    BY <1>1, <1>2, <1>3, <2>2, ConstantRuns DEF StreamInv, Whole, LedgerMove
  <2>3. CASE Respects(watched, watched')
    <3>1. watched.seq \in Nat /\ watched'.seq \in Nat /\ watched'.seq >= watched.seq
          /\ (Trimmed(watched) => Trimmed(watched)')
      BY <2>0, <2>3 DEF Respects, Run, Trimmed
    <3>2. watched.status = "none" => watched' = watched
      BY <2>3, StatusKinds DEF Respects
    <3>3. watched.status \in Final => watched' = watched
      BY <2>3, StatusKinds DEF Respects
    <3> QED
      BY <1>1, <1>2, <1>3, <2>0, <3>1, <3>2, <3>3 DEF StreamInv, Whole, LedgerMove
  <2> QED
    BY <1>1, <2>1, <2>2, <2>3 DEF LedgerMove
<1> QED
  BY <1>4, <1>5 DEF StreamInv

-----------------------------------------------------------------------------
(* Steps of the stream. *)

\* Steps that leave the ledger alone keep its invariant.
LEMMA LedgerUntouched == IInv /\ UNCHANGED vars => IInv'
BY DEF vars, IInv, TypeOK, IdleAbsent, DurableBeforeWork, Active

\* What one emission does to the cursor and to what is in flight.
LEMMA Emission ==
    ASSUME watched \in Run, NEW after \in Nat, NEW pending \in SUBSET Nat,
           Emit(after, pending)
    PROVE  /\ afterSeq' \in Nat /\ afterSeq' >= after
           /\ flight' \subseteq Nat
           /\ \A f \in flight' : f \in pending \/ (f > after /\ f <= afterSeq')
           /\ conn' = IF watched.status \in Final THEN "ended" ELSE "open"
           /\ Trimmed(watched) /\ after <= watched.seq /\ after + 1 >= watched.first =>
                /\ afterSeq' = watched.seq
                /\ flight' = pending \cup ((after + 1)..watched.seq)
<1> DEFINE events == EventsAfter(after)
<1>0. watched.first \in Nat /\ watched.seq \in Nat
  BY DEF Run
<1>1. /\ afterSeq' = IF events = {} THEN after ELSE Newest(events)
      /\ flight' = pending \cup events
      /\ conn' = IF watched.status \in Final THEN "ended" ELSE "open"
  BY DEF Emit
<1>2. events \subseteq Nat /\ \A n \in events : n > after /\ n <= watched.seq
  BY <1>0 DEF EventsAfter
<1>3. events # {} => Newest(events) = watched.seq /\ watched.seq > after
  BY NewestEvent
<1>4. ASSUME after <= watched.seq, after + 1 >= watched.first
      PROVE  /\ events = (after + 1)..watched.seq
             /\ events = {} => after = watched.seq
  <2>1. events = (after + 1)..watched.seq
    BY <1>0, <1>4 DEF EventsAfter
  <2> QED
    BY <1>0, <1>4, <2>1
<1> HIDE DEF events
<1>5. afterSeq' \in Nat /\ afterSeq' >= after /\ flight' \subseteq Nat
  BY <1>0, <1>1, <1>2, <1>3
<1>6. \A f \in flight' : f \in pending \/ (f > after /\ f <= afterSeq')
  BY <1>0, <1>1, <1>2, <1>3
<1> QED
  BY <1>0, <1>1, <1>3, <1>4, <1>5, <1>6

LEMMA ConnectInvariant ==
    ASSUME StreamInv, Connect
    PROVE  StreamInv'
<1>0. watched \in Run /\ watched.seq \in Nat /\ watched.first \in Nat
  BY DEF StreamInv, StreamTypeOK, TypeOK, watched, Run
<1>1. /\ LastEventId \in Nat /\ \A n \in seen : n <= LastEventId
      /\ seen' = seen /\ LastEventId' = LastEventId
  BY LastReceived DEF StreamInv, StreamTypeOK, Ahead, Connect, LastEventId
<1>2. /\ watched' = watched /\ crashes' = crashes /\ handler' = handler
      /\ UNCHANGED vars
      /\ watched.status # "none" /\ Emit(LastEventId, {})
      /\ warned' = (warned \/ LastEventId < watched.first - 1)
  BY DEF Connect, vars, watched, Cursor, Truncated
<1>3. /\ afterSeq' \in Nat /\ afterSeq' >= LastEventId /\ flight' \subseteq Nat
      /\ \A f \in flight' : f > LastEventId /\ f <= afterSeq'
      /\ conn' = IF watched.status \in Final THEN "ended" ELSE "open"
      /\ Trimmed(watched) /\ LastEventId <= watched.seq
         /\ LastEventId + 1 >= watched.first =>
           /\ afterSeq' = watched.seq
           /\ flight' = (LastEventId + 1)..watched.seq
  <2>1. {} \in SUBSET Nat /\ \A S : {} \cup S = S
    OBVIOUS
  <2> QED
    BY <1>0, <1>1, <1>2, <2>1, Emission, Zenon
<1>4. IInv'
  BY <1>2, LedgerUntouched DEF StreamInv
<1>5. StreamTypeOK'
  BY <1>1, <1>2, <1>3, <1>4 DEF StreamInv, StreamTypeOK, IInv
<1>6. Ahead'
  <2>1. \A f \in flight', s \in seen' : f > s
    BY <1>1, <1>3 DEF StreamInv, StreamTypeOK
  <2>2. \A n \in seen' \cup flight' : n <= afterSeq'
    BY <1>1, <1>3 DEF StreamInv, StreamTypeOK
  <2> QED
    BY <1>1, <1>3, <2>1, <2>2 DEF StreamInv, Ahead
<1>7. Unstarted'
  BY <1>2, ConstantRuns DEF StreamInv, IInv, IdleAbsent, Unstarted, watched
<1>8. Whole'
  <2> SUFFICES ASSUME crashes = 0, ~warned, LastEventId >= watched.first - 1
               PROVE  /\ Trimmed(watched) /\ LastEventId <= watched.seq
                      /\ seen = 1..LastEventId
                      /\ seen \cup flight' = 1..afterSeq'
                      /\ afterSeq' = watched.seq
                      /\ conn' = "ended" => watched.status \in Final
    <3>1. ~warned' => ~warned /\ ~(LastEventId < watched.first - 1)
      BY <1>2
    <3>2. ~(LastEventId < watched.first - 1) => LastEventId >= watched.first - 1
      BY <1>0, <1>1
    <3>3. afterSeq' = watched.seq => afterSeq' <= watched.seq
      BY <1>0
    <3> QED
      BY <1>1, <1>2, <3>1, <3>2, <3>3 DEF Whole, Trimmed
  <2>1. Trimmed(watched) /\ LastEventId <= watched.seq /\ seen = 1..LastEventId
    BY <1>2 DEF StreamInv, Whole
  <2>2. afterSeq' = watched.seq /\ flight' = (LastEventId + 1)..watched.seq
    BY <1>0, <1>1, <1>3, <2>1
  <2>3. seen \cup flight' = 1..watched.seq
    BY <1>0, <1>1, <2>1, <2>2
  <2> QED
    BY <1>3, <2>1, <2>2, <2>3
<1> QED
  BY <1>4, <1>5, <1>6, <1>7, <1>8 DEF StreamInv

LEMMA PollInvariant ==
    ASSUME StreamInv, Poll
    PROVE  StreamInv'
<1>0. /\ watched \in Run /\ watched.seq \in Nat /\ watched.first \in Nat
      /\ afterSeq \in Nat /\ flight \in SUBSET Nat /\ seen \in SUBSET Nat
  BY DEF StreamInv, StreamTypeOK, TypeOK, watched, Run
<1>1. seen' = seen /\ LastEventId' = LastEventId /\ conn = "open"
  BY DEF Poll, LastEventId
<1>2. /\ watched' = watched /\ crashes' = crashes /\ handler' = handler
      /\ UNCHANGED vars
      /\ watched.status # "none" /\ Emit(afterSeq, flight)
      /\ warned' = (warned \/ watched.seq > afterSeq + Ring)
  BY DEF Poll, vars, watched
<1>3. /\ afterSeq' \in Nat /\ afterSeq' >= afterSeq /\ flight' \subseteq Nat
      /\ \A f \in flight' : f \in flight \/ (f > afterSeq /\ f <= afterSeq')
      /\ conn' = IF watched.status \in Final THEN "ended" ELSE "open"
      /\ Trimmed(watched) /\ afterSeq <= watched.seq
         /\ afterSeq + 1 >= watched.first =>
           /\ afterSeq' = watched.seq
           /\ flight' = flight \cup ((afterSeq + 1)..watched.seq)
  BY <1>0, <1>2, Emission
<1>4. IInv'
  BY <1>2, LedgerUntouched DEF StreamInv
<1>5. StreamTypeOK'
  BY <1>1, <1>2, <1>3, <1>4 DEF StreamInv, StreamTypeOK, IInv
<1>6. Ahead'
  <2>0. /\ \A f \in flight, s \in seen : f > s
        /\ \A n \in seen \cup flight : n <= afterSeq
    BY <1>1 DEF StreamInv, Ahead
  <2>1. \A f \in flight', s \in seen' : f > s
    BY <1>0, <1>1, <1>3, <2>0
  <2>2. \A n \in seen' \cup flight' : n <= afterSeq'
    BY <1>0, <1>1, <1>3, <2>0
  <2> QED
    BY <1>1, <1>3, <2>1, <2>2 DEF StreamInv, Ahead
<1>7. Unstarted'
  BY <1>1, <1>2 DEF StreamInv, Unstarted
<1>8. Whole'
  <2> SUFFICES ASSUME crashes = 0, ~warned, watched.seq <= afterSeq + Ring
               PROVE  /\ Trimmed(watched) /\ LastEventId <= watched.seq
                      /\ seen = 1..LastEventId
                      /\ seen \cup flight' = 1..afterSeq'
                      /\ afterSeq' = watched.seq
                      /\ conn' = "ended" => watched.status \in Final
    <3>1. ~warned' => ~warned /\ ~(watched.seq > afterSeq + Ring)
      BY <1>2
    <3>2. ~(watched.seq > afterSeq + Ring) => watched.seq <= afterSeq + Ring
      BY <1>0, BoundsAssumption
    <3>3. afterSeq' = watched.seq => afterSeq' <= watched.seq
      BY <1>0
    <3> QED
      BY <1>1, <1>2, <3>1, <3>2, <3>3 DEF Whole, Trimmed
  <2>1. /\ Trimmed(watched) /\ LastEventId <= watched.seq /\ seen = 1..LastEventId
        /\ seen \cup flight = 1..afterSeq /\ afterSeq <= watched.seq
    BY <1>1, <1>2 DEF StreamInv, Whole
  <2>2. afterSeq + 1 >= watched.first
    BY <1>0, <2>1, BoundsAssumption DEF Trimmed
  <2>3. afterSeq' = watched.seq
        /\ flight' = flight \cup ((afterSeq + 1)..watched.seq)
    BY <1>3, <2>1, <2>2
  <2>4. seen \cup flight' = (1..afterSeq) \cup ((afterSeq + 1)..watched.seq)
    BY <2>1, <2>3
  <2>5. (1..afterSeq) \cup ((afterSeq + 1)..watched.seq) = 1..watched.seq
    BY <1>0, <2>1
  <2> QED
    BY <1>3, <2>1, <2>3, <2>4, <2>5
<1> QED
  BY <1>4, <1>5, <1>6, <1>7, <1>8 DEF StreamInv

LEMMA ReceiveInvariant ==
    ASSUME StreamInv, Receive
    PROVE  StreamInv'
<1> DEFINE old == Oldest(flight)
<1>0. afterSeq \in Nat /\ flight \in SUBSET Nat /\ seen \in SUBSET Nat
  BY DEF StreamInv, StreamTypeOK
<1>1. old \in flight /\ \A n \in flight : old <= n
  BY <1>0, OldestIs DEF Receive
<1>2. /\ seen' = seen \cup {old} /\ flight' = flight \ {old}
      /\ UNCHANGED <<vars, conn, afterSeq, warned>>
      /\ watched' = watched /\ crashes' = crashes /\ handler' = handler
  BY DEF Receive, vars, watched
<1> HIDE DEF old
<1>3. /\ conn \in {"open", "ended"} /\ \A s \in seen : old > s
      /\ \A n \in seen \cup flight : n <= afterSeq
  BY <1>1 DEF StreamInv, StreamTypeOK, Ahead
<1>4. \A n \in seen' : n <= old
  BY <1>0, <1>1, <1>2, <1>3
<1>5. LastEventId' = old
  <2>1. Newest(seen') = old
    BY <1>0, <1>1, <1>2, <1>4, NewestIs
  <2> QED
    BY <1>2, <2>1 DEF LastEventId
<1>6. IInv'
  BY <1>2, LedgerUntouched DEF StreamInv
<1>7. StreamTypeOK'
  BY <1>0, <1>1, <1>2, <1>6 DEF StreamInv, StreamTypeOK, IInv
<1>8. Ahead'
  <2>1. \A f \in flight', s \in seen' : f > s
    BY <1>0, <1>1, <1>2, <1>4
  <2>2. \A n \in seen' \cup flight' : n <= afterSeq'
    BY <1>1, <1>2, <1>3
  <2> QED
    BY <1>2, <1>3, <1>4, <2>1, <2>2 DEF Ahead
<1>9. Unstarted'
  BY <1>2, <1>3 DEF StreamInv, Unstarted
<1>10. Whole'
  <2> SUFFICES ASSUME crashes = 0, ~warned
               PROVE  /\ watched.status # "none" => Trimmed(watched) /\ old <= watched.seq
                      /\ seen' = 1..old
                      /\ seen' \cup flight' = 1..afterSeq
    BY <1>2, <1>3, <1>5 DEF Whole, StreamInv, Trimmed
  <2>1. /\ watched.status # "none" => Trimmed(watched) /\ afterSeq <= watched.seq
        /\ seen \cup flight = 1..afterSeq
    BY <1>3 DEF StreamInv, Whole
  <2>2. seen' \cup flight' = 1..afterSeq
    BY <1>1, <1>2, <2>1
  <2>3. seen' = 1..old
    <3>1. \A k \in 1..old : k \in seen'
      BY <1>0, <1>1, <1>2, <1>3, <2>1
    <3>2. \A k \in seen' : k \in 1..old
      BY <1>0, <1>1, <1>2, <1>4, <2>1, <2>2
    <3> QED
      BY <3>1, <3>2
  <2>4. watched \in Run
    BY DEF StreamInv, StreamTypeOK, TypeOK, watched
  <2> QED
    BY <1>0, <1>1, <1>3, <2>1, <2>2, <2>3, <2>4 DEF Run
<1> QED
  BY <1>6, <1>7, <1>8, <1>9, <1>10 DEF StreamInv

\* The client has read "done", and nothing is under way any more.
LEMMA FinishInvariant ==
    ASSUME StreamInv, Finish
    PROVE  StreamInv'
<1>1. /\ UNCHANGED vars /\ watched' = watched /\ LastEventId' = LastEventId
      /\ conn = "ended" /\ conn' = "finished" /\ flight = {}
      /\ UNCHANGED <<crashes, handler, afterSeq, flight, seen, warned>>
  BY DEF Finish, vars, watched, LastEventId
<1>2. IInv'
  BY <1>1, LedgerUntouched DEF StreamInv
<1>3. StreamTypeOK' /\ Ahead' /\ Unstarted'
  BY <1>1, <1>2 DEF StreamInv, StreamTypeOK, IInv, Ahead, Unstarted
<1>4. Whole'
  BY <1>1 DEF StreamInv, Whole, Trimmed
<1> QED
  BY <1>2, <1>3, <1>4 DEF StreamInv

\* A connection that is gone leaves the client with what it received: all of it
\* older than what was under way.
LEMMA BrokenInvariant ==
    ASSUME StreamInv, conn' = "closed", flight' = {},
           UNCHANGED <<vars, afterSeq, seen, warned>>
    PROVE  StreamInv'
<1>1. /\ UNCHANGED vars /\ watched' = watched /\ LastEventId' = LastEventId
      /\ crashes' = crashes /\ handler' = handler
  BY DEF vars, watched, LastEventId
<1>2. IInv'
  BY <1>1, LedgerUntouched DEF StreamInv
<1>3. StreamTypeOK' /\ Ahead' /\ Unstarted'
  BY <1>1, <1>2 DEF StreamInv, StreamTypeOK, IInv, Ahead, Unstarted
<1>4. Whole'
  BY <1>1 DEF StreamInv, Whole, Trimmed
<1> QED
  BY <1>2, <1>3, <1>4 DEF StreamInv

\* After a death of the process only the weaker parts are claimed.
LEMMA CrashBreaksInvariant ==
    ASSUME StreamInv, CrashBreaks
    PROVE  StreamInv'
<1>1. Restart /\ crashes' \in Nat /\ crashes' # 0
  BY DEF CrashBreaks, Crash, StreamInv, StreamTypeOK, TypeOK
<1>2. IInv'
  BY <1>1, RestartInvariant DEF StreamInv
<1>3. /\ seen' = seen /\ afterSeq' = afterSeq /\ warned' = warned
      /\ \/ conn = "finished" /\ conn' = conn /\ flight' = flight
         \/ conn' = "closed" /\ flight' = {}
  BY DEF CrashBreaks, streamVars
<1>4. StreamTypeOK' /\ Ahead'
  BY <1>2, <1>3 DEF StreamInv, StreamTypeOK, IInv, Ahead
<1>5. handler'[Watched] = "idle" => handler[Watched] = "idle"
  BY <1>1 DEF Restart
<1>6. Unstarted' /\ Whole'
  BY <1>1, <1>3, <1>5 DEF StreamInv, Unstarted, Whole
<1> QED
  BY <1>2, <1>4, <1>6 DEF StreamInv

LEMMA StreamNextInvariant == StreamInv /\ [StreamNext]_allVars => StreamInv'
<1> SUFFICES ASSUME StreamInv, [StreamNext]_allVars
             PROVE  StreamInv'
  OBVIOUS
<1>1. CASE LedgerStep \/ PrunedByOthers
  BY <1>1, LedgerKeepsStream
<1>2. CASE Connect
  BY <1>2, ConnectInvariant
<1>3. CASE Poll
  BY <1>3, PollInvariant
<1>4. CASE PollFails
  BY <1>4, BrokenInvariant DEF PollFails
<1>5. CASE Receive
  BY <1>5, ReceiveInvariant
<1>6. CASE Finish
  BY <1>6, FinishInvariant
<1>7. CASE Drop
  BY <1>7, BrokenInvariant DEF Drop
<1>8. CASE CrashBreaks
  BY <1>8, CrashBreaksInvariant
<1>9. CASE UNCHANGED allVars
  <2>1. UNCHANGED vars /\ UNCHANGED streamVars
    BY <1>9 DEF allVars
  <2>2. IInv' /\ watched' = watched /\ LastEventId' = LastEventId
        /\ crashes' = crashes /\ handler' = handler
    BY <2>1, LedgerUntouched DEF StreamInv, vars, streamVars, watched, LastEventId
  <2>3. StreamTypeOK' /\ Ahead' /\ Unstarted'
    BY <2>1, <2>2 DEF streamVars, StreamInv, StreamTypeOK, IInv, Ahead, Unstarted
  <2>4. Whole'
    BY <2>1, <2>2 DEF streamVars, StreamInv, Whole, Trimmed
  <2> QED
    BY <2>2, <2>3, <2>4 DEF StreamInv
<1> QED
  BY <1>1, <1>2, <1>3, <1>4, <1>5, <1>6, <1>7, <1>8, <1>9 DEF StreamNext, Stream

-----------------------------------------------------------------------------
(* The theorems. *)

THEOREM StreamInvariantHolds == StreamSpec => []StreamInv
BY StreamInitInvariant, StreamNextInvariant, PTL DEF StreamSpec

\* Ledger, connection and client keep their types.
THEOREM StreamTypeCorrect == StreamSpec => []StreamTypeOK
<1>1. StreamInv => StreamTypeOK
  BY DEF StreamInv
<1> QED
  BY <1>1, StreamInvariantHolds, PTL

\* While the stream is followed, too, work is only done for durable runs.
THEOREM FollowedWorkIsDurable == StreamSpec => []DurableBeforeWork
<1>1. StreamInv => DurableBeforeWork
  BY DEF StreamInv, IInv
<1> QED
  BY <1>1, StreamInvariantHolds, PTL

\* The server never sends a client an event it has received already, crashes and
\* broken connections included.
THEOREM NothingIsSentTwice == StreamSpec => []NoDuplicates
<1>1. StreamInv => NoDuplicates
  BY DEF StreamInv, StreamTypeOK, Ahead, NoDuplicates
<1> QED
  BY <1>1, StreamInvariantHolds, PTL

\* As long as the process lives, a client that was never warned has received
\* every event of the run when its stream ends.
THEOREM NothingIsOmitted == StreamSpec => NoSilentOmission
<1> DEFINE Complete == Finishes /\ crashes = 0 /\ ~warned => seen = 1..watched.seq
<1>1. StreamInv /\ [StreamNext]_allVars => [Complete]_allVars
  <2> SUFFICES ASSUME StreamInv, StreamNext, Finishes, crashes = 0, ~warned
               PROVE  seen = 1..watched.seq
    OBVIOUS
  <2>1. Finish
    BY DEF StreamNext, Stream, Finishes, Connect, Poll, PollFails, Receive, Drop, Emit,
           LedgerStep, PrunedByOthers, CrashBreaks, streamVars
  <2>2. watched.status # "none"
    BY DEF Finishes
  <2> QED
    BY <2>1, <2>2 DEF Finish, StreamInv, Whole
<1> QED
  BY <1>1, StreamInvariantHolds, PTL DEF StreamSpec, NoSilentOmission

-----------------------------------------------------------------------------
(* What is promised of the ledger. *)

LEMMA StreamShows ==
    ASSUME TypeOK, StreamNext
    PROVE  [Book!Next]_(Book!vars)
<1>1. CASE Stream
  <2>1. UNCHANGED vars
    BY <1>1 DEF Stream, Connect, Poll, PollFails, Receive, Finish, Drop
  <2> QED
    BY <2>1, StillShows
<1>2. CASE LedgerStep
  BY <1>2, RunsShow DEF LedgerStep, Book!Next
<1>3. CASE CrashBreaks
  BY <1>3, RestartShows DEF CrashBreaks, Crash
<1>4. CASE PrunedByOthers
  <2>1. /\ ledger[Watched].status \in Final
        /\ \A r \in Runs : ledger'[r] = IF r = Watched THEN Absent ELSE ledger[r]
        /\ saved' = saved /\ handler' = handler
    BY <1>4 DEF PrunedByOthers, Update, watched, TypeOK
  <2>2. /\ Record'[Watched] = Book!Gone
        /\ \A r \in Runs \ {Watched} : Record'[r] = Record[r]
    BY <2>1 DEF Record, Entry, State, Absent, InFlight, Book!Gone
  <2>3. Record[Watched].state \in Book!Verdicts
    BY <2>1, EntryShows DEF Record, TypeOK, Final, Book!Verdicts
  <2>4. Durable' = Durable /\ Stages' = Stages
    BY <2>1 DEF Durable, Stages
  <2> QED
    BY <2>2, <2>3, <2>4 DEF Book!Forgotten, Book!Forget, Book!Live, Book!Next
<1> QED
  BY <1>1, <1>2, <1>3, <1>4 DEF StreamNext

\* Clients that follow a run, runs of the project that push it out and deaths of
\* the process under them take nothing from the promise.
THEOREM StreamKeepsPromise == StreamSpec => BookPromise
<1>1. StreamInit => Book!Init
  BY InitShows DEF StreamInit
<1>2. StreamTypeOK => TypeOK
  BY DEF StreamTypeOK
<1>3. UNCHANGED allVars => UNCHANGED Book!vars
  BY StillShows DEF allVars, vars
<1>4. StreamTypeOK /\ [StreamNext]_allVars => [Book!Next]_(Book!vars)
  BY <1>2, <1>3, StreamShows
<1> QED
  BY <1>1, <1>4, StreamTypeCorrect, PTL DEF StreamSpec, BookPromise, Book!Spec
=============================================================================
