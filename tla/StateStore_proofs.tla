-------------------------- MODULE StateStore_proofs --------------------------
(***************************************************************************)
(* Theorems about the write-behind store, for any documents, contents and  *)
(* number of collections.                                                  *)
(*                                                                         *)
(* The argument follows a document down the pipeline: what it will contain *)
(* once the write in flight is done (LatestW), and once the queued write   *)
(* is done too (Latest).  Whatever is saved and no longer dirty is the     *)
(* latest of its document, unless a failed write has asked for a full      *)
(* snapshot; and what counts as persisted is already in the cache.         *)
(***************************************************************************)
EXTENDS StoreHistory, TLAPS

LatestW(d) ==
    IF writing # None /\ writing.image[d] # Keep THEN writing.image[d]
    ELSE persistedJson[d]

Latest(d) ==
    IF pendingWrite # None /\ pendingWrite.image[d] # Keep
    THEN pendingWrite.image[d] ELSE LatestW(d)

Newest ==
    IF pendingWrite # None THEN pendingWrite.generation ELSE writing.generation

\* How the generations and flags relate.
Order ==
    /\ persistedGeneration <= writeGeneration
    /\ flushed <= persistedGeneration
    /\ writing # None => /\ persistedGeneration <= writing.generation
                         /\ writing.generation <= writeGeneration
                         /\ collection > 0
    /\ pendingWrite # None => /\ writing # None
                              /\ writing.generation <= pendingWrite.generation
                              /\ pendingWrite.generation <= writeGeneration
    /\ needFullResync => writing = None
    /\ dirty => writeGeneration > 0
    /\ ~dirty => ~dirtyAll /\ dirtyDocs = {}

\* Somebody will take care of what is not written.
Upkeep ==
    /\ snapshotScheduled => immediates > 0
    /\ dirty /\ writing = None => snapshotScheduled
    /\ ~dirty /\ writing # None => Newest = writeGeneration
    /\ ~dirty /\ writing = None =>
          \/ writeGeneration <= persistedGeneration
          \/ /\ writeGeneration <= failedGeneration
             /\ lastWriteError /\ needFullResync
    /\ WaitersHaveAWriter

\* What the images, the cache and the database have to do with each other.
Server ==
    /\ pendingWrite # None /\ pendingWrite.full =>
          \A d \in Docs : pendingWrite.image[d] # Keep
    /\ writing # None =>
          \A d \in Docs : CollectionOf[d] < collection /\ writing.image[d] # Keep
                            => persistedJson[d] = writing.image[d]
    /\ writing = None => applied = {}
    /\ \A d \in applied : /\ d \in Ops
                          /\ db[d] = writing.image[d]
    /\ \A d \in Docs \ (applied \cup doubtful) : db[d] = persistedJson[d]

\* Where the content of each document is to be found.
Accounted ==
    /\ \A d \in Docs : stamp[d] <= persistedGeneration =>
          /\ persistedJson[d] = live[d]
          /\ LatestW(d) = live[d] /\ Latest(d) = live[d]
    /\ writing # None => \A d \in Docs : stamp[d] <= writing.generation =>
          LatestW(d) = live[d] /\ Latest(d) = live[d]
    /\ pendingWrite # None =>
          \A d \in Docs : stamp[d] <= pendingWrite.generation =>
              Latest(d) = live[d]
    /\ ~needFullResync /\ ~dirtyAll =>
          \A d \in Docs \ dirtyDocs : Latest(d) = live[d]

IInv == TypeOK /\ Order /\ Upkeep /\ Server /\ Accounted

USE DocsAssumption, ContentsAssumption, BoundsAssumption, NoneAssumption
USE DEF DocsAssumption, ContentsAssumption, BoundsAssumption, NoneAssumption

-----------------------------------------------------------------------------
\* The store starts, and restarts, with nothing to do.
LEMMA InitIInv == Init => IInv
<1> SUFFICES ASSUME Init PROVE IInv
  OBVIOUS
<1>1. TypeOK
  <2>1. stamp \in [Docs -> Generations]
    BY DEF Init, NeverSaved, Generations
  <2>2. /\ live \in [Docs -> Contents] /\ persistedJson \in [Docs -> Contents]
        /\ db \in [Docs -> Contents]
    BY DEF Init
  <2>3. /\ collection \in 0..(Collections + 1) /\ immediates \in Nat
        /\ writeGeneration \in Generations /\ persistedGeneration \in Generations
        /\ failedGeneration \in Generations /\ flushed \in Generations
    BY DEF Init, Generations
  <2> QED
    BY <2>1, <2>2, <2>3 DEF Init, TypeOK
<1>2. Order /\ Upkeep
  BY DEF Init, Order, Upkeep, WaitersHaveAWriter
<1>3. Server /\ Accounted
  BY DEF Init, Server, Accounted, Latest, LatestW
<1> QED
  BY <1>1, <1>2, <1>3 DEF IInv

\* What a snapshot is: every document as it is now, or left alone because
\* nothing but the write in flight and the cache has to say anything of it.
LEMMA SnapshotFits ==
  ASSUME IInv, dirty
  PROVE  /\ Snapshot \in Writes
         /\ Snapshot.generation = writeGeneration
         /\ Snapshot.full => \A d \in Docs : Snapshot.image[d] # Keep
         /\ \A d \in Docs :
              \/ Snapshot.image[d] = live[d]
              \/ /\ Snapshot.image[d] = Keep
                 /\ pendingWrite = None \/ pendingWrite.image[d] = Keep
                 /\ LatestW(d) = live[d]
<1>1. writeGeneration \in 1..MaxSaves /\ live \in [Docs -> Contents]
  BY DEF IInv, TypeOK, Order, Generations
<1>2. CASE UseFull
  BY <1>1, <1>2 DEF Snapshot, Full, Writes, Images, Contents
<1>3. CASE ~UseFull
  <2>1. /\ ~dirtyAll /\ ~needFullResync
        /\ \A d \in Docs \ dirtyDocs : Latest(d) = live[d]
    BY <1>3 DEF UseFull, IInv, Accounted
  <2>2. \A d \in Docs : Partial(dirtyDocs)[d] \in {live[d], Keep}
    BY DEF Partial
  <2>3. \A d \in dirtyDocs : d \in Docs => Partial(dirtyDocs)[d] = live[d]
    BY DEF Partial
  <2>4. Partial(dirtyDocs) \in Images
    BY <1>1 DEF Partial, Images
  <2>5. CASE pendingWrite = None
    <3>1. /\ Snapshot.image = Partial(dirtyDocs) /\ ~Snapshot.full
          /\ Snapshot.generation = writeGeneration /\ Snapshot \in Writes
      BY <1>1, <1>3, <2>4, <2>5 DEF Snapshot, Writes
    <3>2. \A d \in Docs : Latest(d) = LatestW(d)
      BY <2>5 DEF Latest
    <3> QED
      BY <2>1, <2>2, <2>3, <2>5, <3>1, <3>2
  <2>6. CASE pendingWrite # None
    <3> DEFINE a == pendingWrite.image
               b == Partial(dirtyDocs)
    <3>1. a \in Images
      BY <2>6 DEF IInv, TypeOK, Writes
    <3>2. /\ Snapshot.image = Merged(a, b) /\ ~Snapshot.full
          /\ Snapshot.generation = writeGeneration
      BY <1>3, <2>6 DEF Snapshot
    <3>3. Merged(a, b) \in Images
      BY <2>4, <3>1 DEF Merged, Images
    <3>4. Snapshot \in Writes
      BY <1>1, <1>3, <2>6, <3>3 DEF Snapshot, Writes
    <3>5. ASSUME NEW d \in Docs
          PROVE  \/ Merged(a, b)[d] = live[d]
                 \/ Merged(a, b)[d] = Keep /\ a[d] = Keep /\ LatestW(d) = live[d]
      <4>1. CASE b[d] # Keep
        BY <2>2, <4>1 DEF Merged
      <4>2. CASE b[d] = Keep /\ a[d] = Keep
        <5>1. d \notin dirtyDocs
          BY <1>1, <2>3, <4>2 DEF Contents
        <5>2. Latest(d) = LatestW(d)
          BY <4>2 DEF Latest
        <5> QED
          BY <2>1, <4>2, <5>1, <5>2 DEF Merged
      <4>3. CASE b[d] = Keep /\ a[d] # Keep
        <5>1. d \notin dirtyDocs /\ live[d] = a[d]
          BY <1>1, <2>1, <2>3, <2>6, <4>3 DEF Contents, Latest
        <5>2. ASSUME NEW e \in Docs, CollectionOf[e] = CollectionOf[d],
                     b[e] # Keep, a[d] = Absent
              PROVE  FALSE
          <6>1. CollectionOf[d] \in KindsOf(dirtyDocs)
            BY <5>2 DEF Partial, KindsOf
          <6> QED
            BY <4>3, <5>1, <5>2, <6>1 DEF Partial
        <5> QED
          BY <4>3, <5>1, <5>2 DEF Merged
      <4> QED
        BY <4>1, <4>2, <4>3
    <3> QED
      BY <2>6, <3>2, <3>4, <3>5
  <2> QED
    BY <2>5, <2>6
<1> QED
  BY <1>2, <1>3
-----------------------------------------------------------------------------
\* Taking the snapshot: afterwards the latest of every document is in the
\* pipeline.
LEMMA TakeSnapshotKeeps ==
  ASSUME IInv, dirty, TakeSnapshot,
         UNCHANGED <<live, stamp, stored, tally>>,
         flushed' <= persistedGeneration
  PROVE  /\ /\ pendingWrite' \in Writes \cup {None}
            /\ writing' \in Writes \cup {None}
            /\ collection' \in 0..(Collections + 1) /\ applied' \subseteq Docs
            /\ needFullResync' \in BOOLEAN
         /\ Order' /\ Server' /\ Accounted'
         /\ writing' # None /\ Newest' = writeGeneration
<1> DEFINE n == Snapshot
<1>1. /\ n \in Writes /\ n # None
      /\ n.generation = writeGeneration
      /\ n.full => \A d \in Docs : n.image[d] # Keep
      /\ \A d \in Docs :
           \/ n.image[d] = live[d]
           \/ /\ n.image[d] = Keep
              /\ pendingWrite = None \/ pendingWrite.image[d] = Keep
              /\ LatestW(d) = live[d]
  BY SnapshotFits
<1>0. Enqueue(n)
  BY DEF TakeSnapshot
<1> HIDE DEF n
<1>2. /\ ~dirty' /\ ~dirtyAll' /\ dirtyDocs' = {}
      /\ live' = live /\ stamp' = stamp /\ persistedJson' = persistedJson
      /\ db' = db /\ doubtful' = doubtful
      /\ writeGeneration' = writeGeneration
      /\ persistedGeneration' = persistedGeneration
      /\ needFullResync' = (needFullResync /\ ~UseFull)
  BY DEF TakeSnapshot, stored, tally
<1>3. /\ live \in [Docs -> Contents] /\ writeGeneration > 0
      /\ writeGeneration \in Nat /\ persistedGeneration \in Nat
      /\ persistedGeneration <= writeGeneration
      /\ stamp \in [Docs -> Nat]
  BY DEF IInv, TypeOK, Order, Generations
<1>4. ~needFullResync'
  BY <1>2 DEF UseFull
<1>5. CASE writing = None /\ Start(n, persistedJson)
  <2>1. /\ writing' = n /\ pendingWrite' = None /\ applied' = {}
        /\ collection' \in 1..(Collections + 1)
        /\ \A k \in 1..(collection' - 1) : Due(n, persistedJson, k) = {}
    <3>1. 0 + 1 = 1
      OBVIOUS
    <3> QED
      BY <1>5, <3>1 DEF Start, Proceed
  <2>2. pendingWrite = None /\ applied = {}
    BY <1>5 DEF IInv, Order, Server
  <2>3. Order'
    BY <1>1, <1>2, <1>3, <1>4, <2>1 DEF Order, IInv
  <2>4. \A d \in Docs : CollectionOf[d] < collection' /\ n.image[d] # Keep
                          => persistedJson[d] = n.image[d]
    <3>1. SUFFICES ASSUME NEW d \in Docs, CollectionOf[d] < collection',
                          n.image[d] # Keep
                   PROVE  persistedJson[d] = n.image[d]
      OBVIOUS
    <3>2. CollectionOf[d] \in 1..(collection' - 1)
      BY <2>1, <3>1
    <3> QED
      BY <2>1, <3>1, <3>2 DEF Due
  <2>5. Server'
    BY <1>2, <2>1, <2>2, <2>4 DEF IInv, Server
  <2>6. \A d \in Docs : LatestW(d)' = live[d] /\ Latest(d)' = live[d]
    <3>1. TAKE d \in Docs
    <3>2. LatestW(d) = persistedJson[d]
      BY <1>5 DEF LatestW
    <3>3. live[d] # Keep
      BY <1>3 DEF Contents
    <3> QED
      BY <1>1, <1>2, <2>1, <2>2, <3>2, <3>3 DEF LatestW, Latest
  <2>7. Accounted'
    BY <1>2, <2>1, <2>6 DEF IInv, Accounted
  <2>8. needFullResync' \in BOOLEAN
    BY <1>2 DEF IInv, TypeOK
  <2>9. collection' \in 0..(Collections + 1)
    BY <2>1
  <2> QED
    BY <1>1, <2>1, <2>3, <2>5, <2>7, <2>8, <2>9 DEF Newest
<1>6. CASE writing # None /\ pendingWrite' = n
           /\ UNCHANGED <<writing, collection, applied>>
  <2>1. Order'
    BY <1>1, <1>2, <1>3, <1>4, <1>6 DEF Order, IInv, TypeOK, Writes
  <2>2. Server'
    BY <1>1, <1>2, <1>6 DEF IInv, Server, Ops, Due
  <2>3. \A d \in Docs : LatestW(d)' = LatestW(d)
    BY <1>2, <1>6 DEF LatestW
  <2>4. \A d \in Docs : Latest(d)' = live[d]
    <3>1. TAKE d \in Docs
    <3>2. live[d] # Keep
      BY <1>3 DEF Contents
    <3> QED
      BY <1>1, <1>6, <2>3, <3>2 DEF Latest
  <2>5. Accounted'
    BY <1>2, <1>6, <2>3, <2>4 DEF IInv, Accounted
  <2>6. needFullResync' \in BOOLEAN
    BY <1>2 DEF IInv, TypeOK
  <2>7. writing' # None /\ Newest' = writeGeneration
    BY <1>1, <1>6 DEF Newest
  <2>8. /\ writing' \in Writes \cup {None} /\ applied' \subseteq Docs
        /\ collection' \in 0..(Collections + 1)
    BY <1>6 DEF IInv, TypeOK
  <2> QED
    BY <1>1, <1>6, <2>1, <2>2, <2>5, <2>6, <2>7, <2>8
<1> QED
  BY <1>0, <1>5, <1>6 DEF Enqueue

\* A save: the changed document is dirty, the others are where they were.
LEMMA SaveKeeps ==
  ASSUME IInv, NEW d \in Docs, NEW c \in Contents, Save(d, c)
  PROVE  IInv'
<1>1. /\ writeGeneration' = writeGeneration + 1 /\ dirty'
      /\ live' = [live EXCEPT ![d] = c]
      /\ stamp' = IF c = live[d] THEN stamp
                  ELSE [stamp EXCEPT ![d] = writeGeneration + 1]
      /\ pendingWrite' = pendingWrite /\ writing' = writing
      /\ collection' = collection /\ applied' = applied
      /\ needFullResync' = needFullResync
      /\ persistedGeneration' = persistedGeneration /\ flushed' = flushed
      /\ failedGeneration' = failedGeneration
      /\ lastWriteError' = lastWriteError /\ waiters' = waiters
      /\ persistedJson' = persistedJson /\ db' = db /\ doubtful' = doubtful
  BY DEF Save, writer, stored
<1>2. \/ dirtyAll'
      \/ /\ dirtyAll' = dirtyAll /\ dirtyDocs' = dirtyDocs /\ dirtyAll
      \/ /\ dirtyAll' = dirtyAll /\ dirtyDocs \subseteq dirtyDocs'
         /\ d \in dirtyDocs'
  BY DEF Save, Hints
<1>3. dirtyAll' \in BOOLEAN /\ dirtyDocs' \subseteq Docs
  BY DEF Save, Hints, IInv, TypeOK
<1>4. /\ snapshotScheduled' \in BOOLEAN /\ immediates' \in Nat
      /\ snapshotScheduled' => immediates' > 0
      /\ writing = None => snapshotScheduled'
  <2>1. /\ snapshotScheduled \in BOOLEAN /\ immediates \in Nat
        /\ immediates + 1 \in Nat /\ immediates + 1 > 0
        /\ snapshotScheduled => immediates > 0
    BY DEF IInv, TypeOK, Upkeep
  <2>2. Schedule(writing # None)
    BY DEF Save
  <2>3. CASE snapshotScheduled \/ writing # None
    BY <2>1, <2>2, <2>3 DEF Schedule
  <2>4. CASE ~(snapshotScheduled \/ writing # None)
    BY <2>1, <2>2, <2>4 DEF Schedule
  <2> QED
    BY <2>3, <2>4
<1>5. writeGeneration \in Nat /\ writeGeneration + 1 \in Generations
  BY DEF Save, IInv, TypeOK, Generations
<1>6. TypeOK'
  <2>1. live' \in [Docs -> Contents] /\ stamp' \in [Docs -> Generations]
    BY <1>1, <1>5 DEF IInv, TypeOK
  <2> QED
    BY <1>1, <1>3, <1>4, <1>5, <2>1 DEF IInv, TypeOK
<1>7. Order'
  BY <1>1, <1>5 DEF IInv, Order, TypeOK, Generations, Writes
<1>8. Upkeep'
  BY <1>1, <1>4 DEF IInv, Upkeep, WaitersHaveAWriter
<1>9. Server'
  BY <1>1 DEF IInv, Server, Ops, Due
<1>10. Accounted'
  <2>1. \A e \in Docs : LatestW(e)' = LatestW(e) /\ Latest(e)' = Latest(e)
    BY <1>1 DEF LatestW, Latest
  <2>2. \A e \in Docs : e # d => live'[e] = live[e] /\ stamp'[e] = stamp[e]
    BY <1>1 DEF IInv, TypeOK
  <2>3. \/ live'[d] = live[d] /\ stamp'[d] = stamp[d]
        \/ stamp'[d] = writeGeneration + 1
    BY <1>1 DEF IInv, TypeOK
  <2>4. /\ ~(writeGeneration + 1 <= persistedGeneration)
        /\ writing # None => ~(writeGeneration + 1 <= writing.generation)
        /\ pendingWrite # None =>
              ~(writeGeneration + 1 <= pendingWrite.generation)
    BY <1>5 DEF IInv, Order, TypeOK, Generations, Writes
  <2>5. ASSUME ~needFullResync, ~dirtyAll', NEW e \in Docs \ dirtyDocs'
        PROVE  Latest(e) = live[e] /\ e # d
    BY <1>2, <2>5 DEF IInv, Accounted, TypeOK
  <2> QED
    BY <1>1, <2>1, <2>2, <2>3, <2>4, <2>5 DEF IInv, Accounted
<1> QED
  BY <1>6, <1>7, <1>8, <1>9, <1>10 DEF IInv

-----------------------------------------------------------------------------
\* Whoever waits, waits for a generation that has been given out.
LEMMA WaitersBelow ==
  ASSUME IInv, NEW g \in waiters
  PROVE  g <= writeGeneration /\ g \in 1..MaxSaves
<1>1. g \in 1..MaxSaves /\ writeGeneration \in Nat
  BY DEF IInv, TypeOK, Generations
<1>2. writing # None => writing.generation \in Nat
  BY DEF IInv, TypeOK, Writes
<1>3. pendingWrite # None => pendingWrite.generation \in Nat
  BY DEF IInv, TypeOK, Writes
<1> QED
  BY <1>1, <1>2, <1>3 DEF IInv, Upkeep, WaitersHaveAWriter, Order

\* A step that takes the snapshot, in the event loop or in flush().
LEMMA SnapshotStepKeeps ==
  ASSUME IInv, dirty, TakeSnapshot,
         UNCHANGED <<live, stamp, stored, tally>>,
         flushed' \in Generations, flushed' <= persistedGeneration,
         immediates' \in Nat,
         waiters' \subseteq waiters \cup {writeGeneration}
  PROVE  IInv'
<1>1. /\ pendingWrite' \in Writes \cup {None}
      /\ writing' \in Writes \cup {None}
      /\ collection' \in 0..(Collections + 1) /\ applied' \subseteq Docs
      /\ needFullResync' \in BOOLEAN
      /\ Order' /\ Server' /\ Accounted'
      /\ writing' # None /\ Newest' = writeGeneration
  BY TakeSnapshotKeeps
<1>2. /\ ~dirty' /\ ~dirtyAll' /\ dirtyDocs' = {} /\ ~snapshotScheduled'
      /\ dirty' \in BOOLEAN /\ dirtyAll' \in BOOLEAN
      /\ snapshotScheduled' \in BOOLEAN
      /\ writeGeneration' = writeGeneration
  BY DEF TakeSnapshot, tally
<1>3. \A g \in waiters' : g \in 1..MaxSaves /\ g <= writeGeneration
  <2>1. writeGeneration \in 1..MaxSaves
    BY DEF IInv, TypeOK, Order, Generations
  <2> QED
    BY <2>1, WaitersBelow
<1>4. TypeOK'
  BY <1>1, <1>2, <1>3 DEF IInv, TypeOK, stored, tally
<1>5. Upkeep'
  BY <1>1, <1>2, <1>3 DEF Upkeep, WaitersHaveAWriter, Newest
<1> QED
  BY <1>1, <1>4, <1>5 DEF IInv

\* Nothing to take: the images and generations are as they were.
LEMMA RestKeeps ==
  ASSUME IInv, UNCHANGED <<live, writer, stamp, stored, tally>>,
         UNCHANGED <<dirty, dirtyAll, dirtyDocs>>,
         flushed' <= persistedGeneration
  PROVE  Order' /\ Server' /\ Accounted'
<1>1. Order'
  BY DEF IInv, Order, writer, tally
<1>2. Server'
  BY DEF IInv, Server, Ops, Due, writer, stored
<1>3. Accounted'
  BY DEF IInv, Accounted, Latest, LatestW, writer, stored, tally
<1> QED
  BY <1>1, <1>2, <1>3

LEMMA TickKeeps == IInv /\ Tick => IInv'
<1> SUFFICES ASSUME IInv, Tick PROVE IInv'
  OBVIOUS
<1>1. /\ immediates' \in Nat
      /\ UNCHANGED <<live, stamp, stored, tally>>
      /\ flushed' = flushed /\ waiters' = waiters
  BY DEF Tick, IInv, TypeOK
<1>2. flushed' \in Generations /\ flushed' <= persistedGeneration
  BY <1>1 DEF IInv, TypeOK, Order
<1>3. CASE dirty
  <2>1. TakeSnapshot
    BY <1>3 DEF Tick
  <2> QED
    BY <1>1, <1>2, <1>3, <2>1, SnapshotStepKeeps
<1>4. CASE ~dirty
  <2>1. /\ snapshotScheduled' = FALSE
        /\ UNCHANGED <<dirty, dirtyAll, dirtyDocs>> /\ UNCHANGED writer
    BY <1>4 DEF Tick
  <2>2. Order' /\ Server' /\ Accounted'
    BY <1>1, <1>2, <2>1, RestKeeps
  <2>3. TypeOK'
    BY <1>1, <1>2, <2>1 DEF IInv, TypeOK, writer, stored, tally
  <2>4. Upkeep'
    BY <1>1, <1>4, <2>1
    DEF IInv, Upkeep, WaitersHaveAWriter, Newest, writer, tally
  <2> QED
    BY <2>2, <2>3, <2>4 DEF IInv
<1> QED
  BY <1>3, <1>4

\* A flush(): whoever is told to wait waits for the newest write.
LEMMA FlushKeeps == IInv /\ Flush => IInv'
<1> SUFFICES ASSUME IInv, Flush PROVE IInv'
  OBVIOUS
<1>1. /\ immediates' = immediates /\ immediates' \in Nat
      /\ UNCHANGED <<live, stamp, stored, tally>>
      /\ waiters' \subseteq waiters \cup {writeGeneration}
  BY DEF Flush, Target, IInv, TypeOK
<1>2. flushed' \in Generations /\ flushed' <= persistedGeneration
  BY DEF Flush, Target, Later, IInv, TypeOK, Order
<1>3. CASE dirty
  <2>1. TakeSnapshot
    BY <1>3 DEF Flush, TakesSnapshot
  <2> QED
    BY <1>1, <1>2, <1>3, <2>1, SnapshotStepKeeps
<1>4. CASE ~dirty
  <2>1. /\ UNCHANGED snapshotScheduled
        /\ UNCHANGED <<dirty, dirtyAll, dirtyDocs>> /\ UNCHANGED writer
    BY <1>4 DEF Flush, TakesSnapshot
  <2>2. Order' /\ Server' /\ Accounted'
    BY <1>1, <1>2, <2>1, RestKeeps
  <2>3. /\ writeGeneration \in Nat /\ persistedGeneration \in Nat
        /\ waiters \subseteq 1..MaxSaves /\ writeGeneration \in Generations
    BY DEF IInv, TypeOK, Generations
  <2>4. writeGeneration \in waiters' \ waiters =>
          /\ writing # None /\ Newest = writeGeneration /\ writeGeneration > 0
    BY <1>4, <2>3 DEF Flush, Target, IInv, Upkeep
  <2>5. waiters' \subseteq 1..MaxSaves
    BY <1>1, <2>3, <2>4 DEF Generations
  <2>6. TypeOK'
    BY <1>1, <1>2, <2>1, <2>5 DEF IInv, TypeOK, writer, stored, tally
  <2>7. WaitersHaveAWriter'
    BY <1>1, <2>1, <2>3, <2>4
    DEF IInv, Upkeep, WaitersHaveAWriter, Newest, writer
  <2>8. Upkeep'
    BY <1>1, <1>4, <2>1, <2>7 DEF IInv, Upkeep, Newest, writer, tally
  <2> QED
    BY <2>2, <2>6, <2>8 DEF IInv
<1> QED
  BY <1>3, <1>4

-----------------------------------------------------------------------------
\* What the writer passes over is as the image wants it.
LEMMA ProceedFits ==
  ASSUME NEW w \in Writes, NEW json, NEW c \in 0..Collections,
         Proceed(w, json, c)
  PROVE  /\ collection' \in 0..(Collections + 1) /\ collection' > 0
         /\ \A d \in Docs : CollectionOf[d] \in (c + 1)..(collection' - 1)
                /\ w.image[d] # Keep => json[d] = w.image[d]
<1>1. collection' \in (c + 1)..(Collections + 1)
  BY DEF Proceed
<1>2. \A k \in (c + 1)..(collection' - 1) : Due(w, json, k) = {}
  BY DEF Proceed
<1>3. ASSUME NEW d \in Docs, CollectionOf[d] \in (c + 1)..(collection' - 1),
             w.image[d] # Keep
      PROVE  json[d] = w.image[d]
  BY <1>2, <1>3 DEF Due
<1> QED
  BY <1>1, <1>3

\* The server applies an operation: the document is on its way to the image.
LEMMA ApplyKeeps ==
  ASSUME IInv, NEW d \in Docs, Apply(d)
  PROVE  IInv'
<1>1. /\ writing # None /\ d \in Ops /\ d \notin applied
      /\ db' = [db EXCEPT ![d] = writing.image[d]]
      /\ applied' = applied \cup {d}
      /\ UNCHANGED <<live, work, pendingWrite, writing, collection,
                     needFullResync, tally, persistedJson, doubtful, waiters,
                     stamp, flushed>>
  BY DEF Apply
<1>2. writing \in Writes
  BY <1>1 DEF IInv, TypeOK
<1>3. writing.image[d] \in Contents
  BY <1>1, <1>2 DEF Ops, Due, Writes, Images
<1>4. TypeOK'
  <2>1. db' \in [Docs -> Contents] /\ applied' \subseteq Docs
    BY <1>1, <1>3 DEF IInv, TypeOK
  <2> QED
    BY <1>1, <2>1 DEF IInv, TypeOK, work, tally
<1>5. Order'
  BY <1>1 DEF IInv, Order, work, tally
<1>6. Upkeep'
  BY <1>1 DEF IInv, Upkeep, WaitersHaveAWriter, Newest, work, tally
<1>7. Server'
  <2>1. Ops' = Ops
    BY <1>1 DEF Ops, Due
  <2>2. \A e \in applied' : e \in Ops' /\ db'[e] = writing'.image[e]
    BY <1>1, <2>1 DEF IInv, Server, TypeOK
  <2>3. \A e \in Docs \ (applied' \cup doubtful') : db'[e] = persistedJson'[e]
    BY <1>1 DEF IInv, Server, TypeOK
  <2> QED
    BY <1>1, <2>2, <2>3 DEF IInv, Server
<1>8. Accounted'
  BY <1>1 DEF IInv, Accounted, Latest, LatestW, work, tally
<1> QED
  BY <1>4, <1>5, <1>6, <1>7, <1>8 DEF IInv

\* A bulkWrite is acknowledged: the cache follows the database.
LEMMA AcknowledgeKeeps == IInv /\ Acknowledge => IInv'
<1> SUFFICES ASSUME IInv, Acknowledge PROVE IInv'
  OBVIOUS
<1>1. /\ writing # None /\ applied = Ops /\ applied' = {}
      /\ persistedJson' = [d \in Docs |-> IF d \in Ops THEN writing.image[d]
                                          ELSE persistedJson[d]]
      /\ doubtful' = doubtful \ Ops
      /\ Proceed(writing, persistedJson', collection)
      /\ UNCHANGED <<live, work, pendingWrite, writing, needFullResync, tally,
                     db, waiters, stamp, flushed>>
  BY DEF Acknowledge
<1>2. /\ writing \in Writes /\ collection \in 0..Collections
      /\ collection > 0
  BY <1>1 DEF Acknowledge, IInv, TypeOK, Order
<1>3. /\ collection' \in 0..(Collections + 1) /\ collection' > 0
      /\ \A d \in Docs : CollectionOf[d] \in (collection + 1)..(collection' - 1)
            /\ writing.image[d] # Keep => persistedJson'[d] = writing.image[d]
  BY <1>1, <1>2, ProceedFits
<1>4. \A d \in Docs : d \in Ops <=> /\ CollectionOf[d] = collection
                                   /\ writing.image[d] # Keep
                                   /\ writing.image[d] # persistedJson[d]
  BY DEF Ops, Due
<1>5. persistedJson' \in [Docs -> Contents]
  <2>1. \A d \in Docs : d \in Ops => writing.image[d] \in Contents
    BY <1>2, <1>4 DEF Writes, Images
  <2>2. persistedJson \in [Docs -> Contents]
    BY DEF IInv, TypeOK
  <2> QED
    BY <1>1, <2>1, <2>2
<1>6. TypeOK'
  BY <1>1, <1>3, <1>5 DEF IInv, TypeOK, work, tally
<1>7. Order'
  BY <1>1, <1>3 DEF IInv, Order, work, tally
<1>8. Upkeep'
  BY <1>1 DEF IInv, Upkeep, WaitersHaveAWriter, Newest, work, tally
<1>9. \A d \in Docs : CollectionOf[d] < collection' /\ writing.image[d] # Keep
                         => persistedJson'[d] = writing.image[d]
  <2>1. SUFFICES ASSUME NEW d \in Docs, CollectionOf[d] < collection',
                        writing.image[d] # Keep
                 PROVE  persistedJson'[d] = writing.image[d]
    OBVIOUS
  <2>2. CASE CollectionOf[d] < collection
    BY <1>1, <1>4, <2>1, <2>2 DEF IInv, Server
  <2>3. CASE CollectionOf[d] = collection
    BY <1>1, <1>4, <2>1, <2>3
  <2>4. CASE CollectionOf[d] > collection
    BY <1>2, <1>3, <2>1, <2>4
  <2> QED
    BY <1>2, <2>2, <2>3, <2>4
<1>10. Server'
  <2>1. \A d \in Docs \ doubtful' : db'[d] = persistedJson'[d]
    BY <1>1 DEF IInv, Server
  <2> QED
    BY <1>1, <1>9, <2>1 DEF IInv, Server
<1>11. Accounted'
  <2>1. \A d \in Docs : LatestW(d)' = LatestW(d) /\ Latest(d)' = Latest(d)
    BY <1>1, <1>4 DEF LatestW, Latest
  <2>2. \A d \in Docs : persistedJson'[d] \in {LatestW(d), persistedJson[d]}
    BY <1>1, <1>4 DEF LatestW
  <2> QED
    BY <1>1, <2>1, <2>2 DEF IInv, Accounted, work, tally
<1> QED
  BY <1>6, <1>7, <1>8, <1>10, <1>11 DEF IInv

-----------------------------------------------------------------------------
\* The writer starts on `w`: nothing it passes over is left to do.
LEMMA StartFits ==
  ASSUME NEW w \in Writes, NEW json, Start(w, json)
  PROVE  /\ writing' = w /\ pendingWrite' = None /\ applied' = {}
         /\ collection' \in 0..(Collections + 1) /\ collection' > 0
         /\ \A d \in Docs : CollectionOf[d] < collection' /\ w.image[d] # Keep
                               => json[d] = w.image[d]
<1>1. 0 \in 0..Collections /\ Proceed(w, json, 0)
  BY DEF Start
<1>2. /\ collection' \in 0..(Collections + 1) /\ collection' > 0
      /\ \A d \in Docs : CollectionOf[d] \in (0 + 1)..(collection' - 1)
            /\ w.image[d] # Keep => json[d] = w.image[d]
  BY <1>1, ProceedFits
<1>3. \A d \in Docs : CollectionOf[d] < collection'
         => CollectionOf[d] \in (0 + 1)..(collection' - 1)
  BY <1>2
<1> QED
  BY <1>2, <1>3 DEF Start

\* The last part of a write: the writer is idle, and what was saved meanwhile
\* is in the hands of the event loop.
LEMMA IdleKeeps ==
  ASSUME IInv, Reschedule
  PROVE  /\ snapshotScheduled' \in BOOLEAN /\ immediates' \in Nat
         /\ snapshotScheduled' => immediates' > 0
         /\ dirty => snapshotScheduled'
<1>1. /\ snapshotScheduled \in BOOLEAN /\ immediates \in Nat
      /\ immediates + 1 \in Nat /\ immediates + 1 > 0
      /\ snapshotScheduled => immediates > 0
  BY DEF IInv, TypeOK, Upkeep
<1>2. CASE snapshotScheduled \/ ~dirty
  BY <1>1, <1>2 DEF Reschedule, Schedule
<1>3. CASE ~(snapshotScheduled \/ ~dirty)
  BY <1>1, <1>3 DEF Reschedule, Schedule
<1> QED
  BY <1>2, <1>3

\* A write is complete: the cache holds its image.
LEMMA PersistedKeeps == IInv /\ Persisted => IInv'
<1> SUFFICES ASSUME IInv, Persisted PROVE IInv'
  OBVIOUS
<1>1. /\ writing # None /\ collection = Collections + 1
      /\ persistedGeneration' = writing.generation
      /\ lastWriteError' = FALSE /\ waiters' = waiters \ Served
      /\ flushed' \in {flushed} \cup Served
      /\ Continue(pendingWrite)
      /\ UNCHANGED <<live, dirty, dirtyAll, dirtyDocs, needFullResync,
                     writeGeneration, failedGeneration, stored, stamp>>
  BY DEF Persisted
<1>2. /\ writing \in Writes /\ writing.generation \in 1..MaxSaves
      /\ pendingWrite # None =>
            pendingWrite \in Writes /\ pendingWrite.generation \in 1..MaxSaves
      /\ persistedGeneration \in Nat /\ writeGeneration \in Nat
      /\ flushed \in Nat /\ flushed <= writing.generation
      /\ \A d \in Docs : stamp[d] \in Nat
      /\ waiters \subseteq 1..MaxSaves
  BY <1>1 DEF IInv, TypeOK, Order, Generations, Writes
<1>3. \A d \in Docs : persistedJson[d] = LatestW(d)
  <2>1. \A d \in Docs : CollectionOf[d] < collection
    BY <1>1
  <2> QED
    BY <1>1, <2>1 DEF IInv, Server, LatestW
<1>4. applied = {}
  <2>1. \A d \in Docs : d \notin Ops
    BY <1>1 DEF Ops, Due
  <2> QED
    BY <1>1, <2>1 DEF IInv, Server, TypeOK
<1>5. /\ flushed' \in Generations /\ flushed' <= writing.generation
      /\ persistedGeneration' \in Generations
      /\ waiters' \subseteq 1..MaxSaves
  <2>1. flushed' \in Generations /\ flushed' <= writing.generation
    BY <1>1, <1>2 DEF Served, Generations
  <2>2. persistedGeneration' \in Generations
    <3>1. \A g \in 1..MaxSaves : g \in 0..MaxSaves
      OBVIOUS
    <3> QED
      BY <1>1, <1>2, <3>1 DEF Generations
  <2>3. waiters' \subseteq waiters
    BY <1>1
  <2> QED
    BY <1>2, <2>1, <2>2, <2>3
<1>6. \A d \in Docs :
         /\ stamp[d] <= writing.generation =>
               persistedJson[d] = live[d] /\ Latest(d) = live[d]
         /\ stamp[d] <= persistedGeneration => stamp[d] <= writing.generation
  BY <1>1, <1>2, <1>3 DEF IInv, Accounted, Order
<1>7. ~needFullResync
  BY <1>1 DEF IInv, Order
<1>8. CASE pendingWrite # None
  <2>1. Start(pendingWrite, persistedJson)
        /\ UNCHANGED <<snapshotScheduled, immediates>>
    BY <1>1, <1>8 DEF Continue
  <2>2. /\ writing' = pendingWrite /\ pendingWrite' = None /\ applied' = {}
        /\ collection' \in 0..(Collections + 1) /\ collection' > 0
        /\ \A d \in Docs : CollectionOf[d] < collection'
              /\ pendingWrite.image[d] # Keep
                => persistedJson[d] = pendingWrite.image[d]
    BY <1>2, <1>8, <2>1, StartFits
  <2>3. TypeOK'
    BY <1>1, <1>2, <1>5, <1>8, <2>1, <2>2 DEF IInv, TypeOK, stored
  <2>4. Order'
    BY <1>1, <1>2, <1>5, <1>7, <1>8, <2>2 DEF IInv, Order
  <2>5. Upkeep'
    <3>1. WaitersHaveAWriter'
      BY <1>1, <1>2, <1>8, <2>2
      DEF IInv, Upkeep, WaitersHaveAWriter, Served
    <3> QED
      BY <1>1, <1>8, <2>1, <2>2, <3>1 DEF IInv, Upkeep, Newest
  <2>6. Server'
    BY <1>1, <1>4, <2>2 DEF IInv, Server, stored
  <2>7. \A d \in Docs : LatestW(d)' = Latest(d) /\ Latest(d)' = Latest(d)
    BY <1>1, <1>3, <1>8, <2>2 DEF Latest, LatestW, stored
  <2>8. Accounted'
    BY <1>1, <1>6, <1>7, <1>8, <2>2, <2>7 DEF IInv, Accounted, stored
  <2> QED
    BY <2>3, <2>4, <2>5, <2>6, <2>8 DEF IInv
<1>9. CASE pendingWrite = None
  <2>1. /\ writing' = None /\ pendingWrite' = None
        /\ collection' = 0 /\ applied' = {} /\ Reschedule
    BY <1>1, <1>9 DEF Continue
  <2>2. /\ snapshotScheduled' \in BOOLEAN /\ immediates' \in Nat
        /\ snapshotScheduled' => immediates' > 0
        /\ dirty => snapshotScheduled'
    BY <2>1, IdleKeeps
  <2>3. TypeOK'
    <3>1. collection' \in 0..(Collections + 1)
      BY <2>1
    <3> QED
      BY <1>1, <1>5, <2>1, <2>2, <3>1 DEF IInv, TypeOK, stored
  <2>4. Order'
    BY <1>1, <1>5, <2>1 DEF IInv, Order
  <2>5. Upkeep'
    <3>1. waiters' = {}
      BY <1>1, <1>9 DEF IInv, Upkeep, WaitersHaveAWriter, Served
    <3>2. ~dirty => writeGeneration <= writing.generation
      BY <1>1, <1>2, <1>9 DEF IInv, Upkeep, Newest
    <3> QED
      BY <1>1, <2>1, <2>2, <3>1, <3>2 DEF Upkeep, WaitersHaveAWriter
  <2>6. Server'
    BY <1>1, <1>4, <2>1 DEF IInv, Server, stored
  <2>7. \A d \in Docs : /\ LatestW(d)' = persistedJson[d]
                       /\ Latest(d)' = persistedJson[d]
                       /\ Latest(d) = persistedJson[d]
    BY <1>1, <1>3, <1>9, <2>1 DEF Latest, LatestW, stored
  <2>8. Accounted'
    BY <1>1, <1>6, <1>7, <2>1, <2>7 DEF IInv, Accounted, stored
  <2> QED
    BY <2>3, <2>4, <2>5, <2>6, <2>8 DEF IInv
<1> QED
  BY <1>8, <1>9

\* A bulkWrite fails: the queued write becomes, or was, one of everything;
\* with none queued the next snapshot will be.
LEMMA FailKeeps == IInv /\ Fail => IInv'
<1> SUFFICES ASSUME IInv, Fail PROVE IInv'
  OBVIOUS
<1>1. /\ writing # None
      /\ failedGeneration' = Later(failedGeneration, writing.generation)
      /\ lastWriteError' = TRUE
      /\ needFullResync' = (pendingWrite = None)
      /\ doubtful' = doubtful \cup applied
      /\ waiters' = {}
      /\ Continue(Upgraded)
      /\ UNCHANGED <<live, dirty, dirtyAll, dirtyDocs, writeGeneration,
                     persistedGeneration, persistedJson, db, stamp, flushed>>
  BY DEF Fail, Rejected
<1>2. /\ writing \in Writes /\ writing.generation \in 1..MaxSaves
      /\ persistedGeneration \in Nat /\ writeGeneration \in Nat
      /\ failedGeneration \in 0..MaxSaves
      /\ \A d \in Docs : stamp[d] \in Nat
      /\ live \in [Docs -> Contents]
  BY <1>1 DEF IInv, TypeOK, Generations, Writes
<1>3. /\ failedGeneration' \in Generations
      /\ writing.generation <= failedGeneration'
  BY <1>1, <1>2 DEF Later, Generations
<1>4. ~needFullResync
  BY <1>1 DEF IInv, Order
<1>5. \A d \in Docs \ doubtful' : db'[d] = persistedJson'[d]
  BY <1>1 DEF IInv, Server
<1>6. doubtful' \subseteq Docs /\ needFullResync' \in BOOLEAN
  BY <1>1 DEF IInv, TypeOK
<1>7. CASE pendingWrite # None
  <2> DEFINE w == Upgraded
  <2>1. /\ pendingWrite \in Writes
        /\ pendingWrite.generation \in 1..MaxSaves
        /\ pendingWrite.full \in BOOLEAN
    BY <1>7 DEF IInv, TypeOK, Writes
  <2>2. /\ w \in Writes /\ w # None
        /\ w.generation = pendingWrite.generation
        /\ \A d \in Docs : w.image[d] # Keep
        /\ \A d \in Docs : \/ w.image[d] = live[d]
                           \/ w = pendingWrite
    <3>1. CASE pendingWrite.full
      BY <1>7, <2>1, <3>1 DEF Upgraded, IInv, Server
    <3>2. CASE ~pendingWrite.full
      <4>1. w = [generation |-> pendingWrite.generation, full |-> TRUE,
                 image |-> live]
        BY <1>7, <3>2 DEF Upgraded, Full
      <4>2. live \in Images /\ \A d \in Docs : live[d] # Keep
        BY <1>2 DEF Images, Contents
      <4>3. w \in Writes
        BY <2>1, <4>1, <4>2 DEF Writes
      <4> QED
        BY <4>1, <4>2, <4>3
    <3> QED
      BY <3>1, <3>2
  <2>3. Start(w, persistedJson)
        /\ UNCHANGED <<snapshotScheduled, immediates>>
    BY <1>1, <2>2 DEF Continue
  <2> HIDE DEF w
  <2>4. /\ writing' = w /\ pendingWrite' = None /\ applied' = {}
        /\ collection' \in 0..(Collections + 1) /\ collection' > 0
        /\ \A d \in Docs : CollectionOf[d] < collection'
              /\ w.image[d] # Keep => persistedJson[d] = w.image[d]
    BY <2>2, <2>3, StartFits
  <2>5. \A d \in Docs : Latest(d) = live[d] => w.image[d] = live[d]
    BY <1>7, <2>2 DEF Latest
  <2>6. \A d \in Docs : LatestW(d)' = w.image[d] /\ Latest(d)' = w.image[d]
    BY <2>2, <2>4 DEF Latest, LatestW
  <2>7. /\ persistedGeneration <= pendingWrite.generation
        /\ pendingWrite.generation <= writeGeneration
    BY <1>1, <1>2, <1>7, <2>1 DEF IInv, Order
  <2>8. TypeOK'
    BY <1>1, <1>3, <1>6, <2>2, <2>3, <2>4 DEF IInv, TypeOK
  <2>9. Order'
    BY <1>1, <1>7, <2>2, <2>4, <2>7 DEF IInv, Order
  <2>10. Upkeep'
    BY <1>1, <1>7, <2>2, <2>3, <2>4
    DEF IInv, Upkeep, Newest, WaitersHaveAWriter
  <2>11. Server'
    BY <1>1, <1>5, <2>2, <2>4 DEF Server
  <2>12. Accounted'
    <3>1. /\ \A d \in Docs : stamp[d] <= pendingWrite.generation
                              => Latest(d) = live[d]
          /\ \A d \in Docs : stamp[d] <= persistedGeneration
                => persistedJson[d] = live[d] /\ Latest(d) = live[d]
          /\ ~dirtyAll => \A d \in Docs \ dirtyDocs : Latest(d) = live[d]
      BY <1>4, <1>7 DEF IInv, Accounted
    <3> QED
      BY <1>1, <2>2, <2>4, <2>5, <2>6, <3>1 DEF Accounted
  <2> QED
    BY <2>8, <2>9, <2>10, <2>11, <2>12 DEF IInv
<1>8. CASE pendingWrite = None
  <2>1. /\ writing' = None /\ pendingWrite' = None
        /\ collection' = 0 /\ applied' = {} /\ Reschedule
    BY <1>1, <1>8 DEF Continue, Upgraded
  <2>2. /\ snapshotScheduled' \in BOOLEAN /\ immediates' \in Nat
        /\ snapshotScheduled' => immediates' > 0
        /\ dirty => snapshotScheduled'
    BY <2>1, IdleKeeps
  <2>3. TypeOK'
    <3>1. collection' \in 0..(Collections + 1)
      BY <2>1
    <3> QED
      BY <1>1, <1>3, <1>6, <2>1, <2>2, <3>1 DEF IInv, TypeOK
  <2>4. Order'
    BY <1>1, <2>1 DEF IInv, Order
  <2>5. Upkeep'
    <3>1. ~dirty => writeGeneration <= failedGeneration'
      BY <1>1, <1>2, <1>3, <1>8 DEF IInv, Upkeep, Newest
    <3> QED
      BY <1>1, <1>8, <2>1, <2>2, <3>1 DEF Upkeep, WaitersHaveAWriter
  <2>6. Server'
    BY <1>1, <1>5, <2>1 DEF Server
  <2>7. \A d \in Docs : /\ LatestW(d)' = persistedJson[d]
                       /\ Latest(d)' = persistedJson[d]
    BY <1>1, <2>1 DEF Latest, LatestW
  <2>8. Accounted'
    BY <1>1, <1>8, <2>1, <2>7 DEF IInv, Accounted
  <2> QED
    BY <2>3, <2>4, <2>5, <2>6, <2>8 DEF IInv
<1> QED
  BY <1>7, <1>8

\* A crash: the new process starts from the database.
LEMMA CrashKeeps == IInv /\ Crash => IInv'
<1>1. IInv /\ Crash => Init'
  BY DEF IInv, TypeOK, Crash, Init, NeverSaved
<1> QED
  BY <1>1, InitIInv, PTL
-----------------------------------------------------------------------------
\* The invariant is inductive.
LEMMA NextIInv == IInv /\ [Next]_vars => IInv'
<1> SUFFICES ASSUME IInv, [Next]_vars PROVE IInv'
  OBVIOUS
<1>1. ASSUME NEW d \in Docs, NEW c \in Contents, Save(d, c) PROVE IInv'
  BY <1>1, SaveKeeps
<1>2. CASE Tick
  BY <1>2, TickKeeps
<1>3. CASE Flush
  BY <1>3, FlushKeeps
<1>4. ASSUME NEW d \in Docs, Apply(d) PROVE IInv'
  BY <1>4, ApplyKeeps
<1>5. CASE Acknowledge
  BY <1>5, AcknowledgeKeeps
<1>6. CASE Persisted
  BY <1>6, PersistedKeeps
<1>7. CASE Fail
  BY <1>7, FailKeeps
<1>8. CASE Crash
  BY <1>8, CrashKeeps
<1>9. CASE UNCHANGED vars
  <2>1. /\ UNCHANGED <<live, dirty, dirtyAll, dirtyDocs, snapshotScheduled,
                       immediates, pendingWrite, writing, collection, applied>>
        /\ UNCHANGED <<needFullResync, writeGeneration, persistedGeneration,
                       failedGeneration, lastWriteError, persistedJson, db,
                       doubtful, waiters, stamp, flushed>>
    BY <1>9 DEF vars, work, writer, tally, stored
  <2>2. TypeOK' /\ Order' /\ Upkeep'
    BY <2>1 DEF IInv, TypeOK, Order, Upkeep, Newest, WaitersHaveAWriter
  <2>3. Server' /\ Accounted'
    BY <2>1 DEF IInv, Server, Accounted, Ops, Due, Latest, LatestW
  <2> QED
    BY <2>2, <2>3 DEF IInv
<1> QED
  BY <1>1, <1>2, <1>3, <1>4, <1>5, <1>6, <1>7, <1>8, <1>9 DEF Next, Write

LEMMA Inductive == Spec => []IInv
  BY InitIInv, NextIInv, PTL DEF Spec

\* The variables of the store keep their types.
THEOREM StoreTypeCorrect == Spec => []TypeOK
<1>1. IInv => TypeOK
  BY DEF IInv
<1> QED
  BY <1>1, Inductive, PTL

\* What counts as persisted is in the database, whatever writes were merged,
\* dropped, retried or lost, but for documents a failed write has changed.
LEMMA DurableStep == IInv => PersistedIsDurable
<1> SUFFICES ASSUME IInv, NEW d \in Docs \ doubtful,
                    stamp[d] <= persistedGeneration
             PROVE  db[d] = live[d]
  BY DEF PersistedIsDurable
<1>1. persistedJson[d] = live[d] /\ LatestW(d) = live[d]
  BY DEF IInv, Accounted
<1>2. CASE d \in applied
  <2>1. d \in Ops /\ writing # None /\ db[d] = writing.image[d]
    BY <1>2 DEF IInv, Server
  <2> QED
    BY <1>1, <2>1 DEF Ops, Due, LatestW
<1>3. CASE d \notin applied
  BY <1>1, <1>3 DEF IInv, Server
<1> QED
  BY <1>2, <1>3

THEOREM PersistedMeansDurable == Spec => []PersistedIsDurable
BY DurableStep, Inductive, PTL

\* Whoever waits in flush() has a write on the way that will answer.
THEOREM WaitersServed == Spec => []WaitersHaveAWriter
<1>1. IInv => WaitersHaveAWriter
  BY DEF IInv, Upkeep
<1> QED
  BY <1>1, Inductive, PTL

\* No save is forgotten.
THEOREM NothingForgotten == Spec => []NoSaveForgotten
<1>1. IInv => NoSaveForgotten
  BY DEF IInv, Upkeep, NoSaveForgotten, TypeOK
<1> QED
  BY <1>1, Inductive, PTL

\* A restart finds what a flush() had confirmed.
THEOREM FlushedDataSurvives == Spec => FlushedSurvives
<1>1. ASSUME IInv, [Next]_vars, NEW d \in Docs \ doubtful,
             writeGeneration' < writeGeneration, stamp[d] <= flushed
      PROVE  live'[d] = live[d]
  <2>1. writeGeneration \in Nat /\ persistedGeneration \in Nat
        /\ flushed \in Nat /\ stamp[d] \in Nat
    BY <1>1 DEF IInv, TypeOK, Generations
  <2>2. Crash
    <3>1. ASSUME NEW e \in Docs, NEW c \in Contents, Save(e, c) PROVE FALSE
      BY <1>1, <2>1, <3>1 DEF Save
    <3>2. CASE Tick \/ Flush \/ Write \/ UNCHANGED vars
      <4>1. writeGeneration' = writeGeneration
        BY <3>2 DEF Tick, Flush, Write, Apply, Acknowledge, Persisted, Fail,
                    vars, tally
      <4> QED
        BY <1>1, <2>1, <4>1
    <3> QED
      BY <1>1, <3>1, <3>2 DEF Next
  <2>3. stamp[d] <= persistedGeneration
    BY <1>1, <2>1 DEF IInv, Order
  <2>4. db[d] = live[d]
    BY <1>1, <2>3, DurableStep DEF PersistedIsDurable
  <2> QED
    BY <2>2, <2>4 DEF Crash
<1>2. IInv /\ [Next]_vars =>
        [\A d \in Docs \ doubtful :
           writeGeneration' < writeGeneration /\ stamp[d] <= flushed
             => live'[d] = live[d]]_vars
  BY <1>1
<1> QED
  BY <1>2, Inductive, PTL DEF Spec, FlushedSurvives

-----------------------------------------------------------------------------
(* The store implements the promise of DurableStore.                       *)

\* Content `x` of document `d` is that of a version not older than `g`.
Recalls(g, d, x) == \E h \in 0..writeGeneration : g <= h /\ versions[h][d] = x

\* Each stage of the pipeline holds, of every document, a version no older
\* than the generation it stands for: the write in flight may carry a newer
\* clone than its number says, never an older one.
Traced ==
    /\ versions \in [0..writeGeneration -> [Docs -> Contents]]
    /\ versions[writeGeneration] = live
    /\ \A d \in Docs : Recalls(persistedGeneration, d, persistedJson[d])
    /\ writing # None =>
          \A d \in Docs : Recalls(writing.generation, d, LatestW(d))
    /\ pendingWrite # None =>
          \A d \in Docs : Recalls(pendingWrite.generation, d, Latest(d))

LEMMA NumbersFit ==
  ASSUME IInv
  PROVE  /\ writeGeneration \in Nat /\ writeGeneration \in 0..writeGeneration
         /\ persistedGeneration \in Nat /\ flushed \in Nat
         /\ writing # None => /\ writing \in Writes
                              /\ writing.generation \in Nat
         /\ pendingWrite # None => /\ pendingWrite \in Writes
                                   /\ pendingWrite.generation \in Nat
BY DEF IInv, TypeOK, Generations, Writes

\* A step that saves nothing adds no version.
LEMMA SameVersions ==
  ASSUME IInv, Traced, Recorded,
         writeGeneration' = writeGeneration, live' = live
  PROVE  versions' = versions
<1>1. \A g \in 0..writeGeneration :
         g < writeGeneration \/ versions[g] = live'
  BY NumbersFit DEF Traced
<1>2. versions' = [g \in 0..writeGeneration |-> versions[g]]
  BY <1>1 DEF Recorded
<1> QED
  BY <1>2 DEF Traced

\* A save leaves what is in the pipeline as it was, and is a version more.
LEMMA SaveTraces ==
  ASSUME IInv, IInv', Traced, Recorded, NEW d \in Docs, NEW c \in Contents,
         Save(d, c)
  PROVE  Traced' /\ \A g \in 0..writeGeneration : versions'[g] = versions[g]
<1>1. /\ writeGeneration' = writeGeneration + 1
      /\ pendingWrite' = pendingWrite /\ writing' = writing
      /\ persistedGeneration' = persistedGeneration
      /\ persistedJson' = persistedJson
  BY DEF Save, writer, stored
<1>2. /\ \A g \in 0..writeGeneration : versions'[g] = versions[g]
      /\ versions'[writeGeneration'] = live'
      /\ \A g \in 0..writeGeneration : g \in 0..writeGeneration'
  BY <1>1, NumbersFit DEF Recorded
<1>3. versions' \in [0..writeGeneration' -> [Docs -> Contents]]
  <2>1. live' \in [Docs -> Contents]
    BY DEF IInv, TypeOK
  <2>2. \A g \in 0..writeGeneration' :
           g < writeGeneration' => versions[g] \in [Docs -> Contents]
    BY <1>1, NumbersFit DEF Traced
  <2> QED
    BY <2>1, <2>2 DEF Recorded
<1>4. ASSUME NEW g \in Nat, NEW e \in Docs, NEW x, Recalls(g, e, x)
      PROVE  \E h \in 0..writeGeneration' : g <= h /\ versions'[h][e] = x
  BY <1>2, <1>4 DEF Recalls
<1>5. \A e \in Docs : LatestW(e)' = LatestW(e) /\ Latest(e)' = Latest(e)
  BY <1>1 DEF LatestW, Latest
<1>6. \A e \in Docs :
         \E h \in 0..writeGeneration' :
            persistedGeneration <= h /\ versions'[h][e] = persistedJson[e]
  BY <1>4, NumbersFit DEF Traced
<1>7. writing # None => \A e \in Docs :
         \E h \in 0..writeGeneration' :
            writing.generation <= h /\ versions'[h][e] = LatestW(e)
  BY <1>4, NumbersFit DEF Traced
<1>8. pendingWrite # None => \A e \in Docs :
         \E h \in 0..writeGeneration' :
            pendingWrite.generation <= h /\ versions'[h][e] = Latest(e)
  BY <1>4, NumbersFit DEF Traced
<1>9. \A e \in Docs : Recalls(persistedGeneration, e, persistedJson[e])'
  BY <1>1, <1>6 DEF Recalls
<1>10. (writing # None =>
          \A e \in Docs : Recalls(writing.generation, e, LatestW(e)))'
  BY <1>1, <1>5, <1>7 DEF Recalls
<1>11. (pendingWrite # None =>
          \A e \in Docs : Recalls(pendingWrite.generation, e, Latest(e)))'
  BY <1>1, <1>5, <1>8 DEF Recalls
<1> QED
  BY <1>2, <1>3, <1>9, <1>10, <1>11 DEF Traced

\* A snapshot is of the newest version of every document.
LEMMA SnapshotTraces ==
  ASSUME IInv, IInv', Traced, dirty, TakeSnapshot,
         UNCHANGED <<live, stamp, stored, tally, versions>>
  PROVE  Traced'
<1>1. /\ persistedJson' = persistedJson
      /\ writeGeneration' = writeGeneration
      /\ persistedGeneration' = persistedGeneration
      /\ live' = live /\ versions' = versions
      /\ ~dirty' /\ ~dirtyAll' /\ dirtyDocs' = {}
  BY DEF stored, tally, TakeSnapshot
<1>2. Snapshot.generation = writeGeneration /\ Snapshot # None
  BY SnapshotFits
<1>3. Enqueue(Snapshot)
  BY DEF TakeSnapshot
<1> DEFINE n == Snapshot
<1> HIDE DEF n
<1>4. writing' # None
  BY <1>2, <1>3 DEF Enqueue, Start, n
<1>5. \A d \in Docs : Latest(d)' = live[d]
  BY <1>1, <1>4 DEF IInv, Accounted, Order
<1>6. CASE writing = None /\ Start(n, persistedJson)
  <2>1. writing' = n /\ pendingWrite' = None
    BY <1>6 DEF Start
  <2>2. \A d \in Docs : LatestW(d)' = live[d]
    BY <1>5, <2>1 DEF Latest
  <2> QED
    BY <1>1, <1>2, <2>1, <2>2, NumbersFit DEF Traced, Recalls, n
<1>7. CASE writing # None /\ pendingWrite' = n /\ writing' = writing
  <2>1. \A d \in Docs : LatestW(d)' = LatestW(d)
    BY <1>1, <1>7 DEF LatestW
  <2> QED
    BY <1>1, <1>2, <1>5, <1>7, <2>1, NumbersFit DEF Traced, Recalls, n
<1> QED
  BY <1>3, <1>6, <1>7 DEF Enqueue, n

\* The server moves: what is on the way does not change.
LEMMA ServerTraces ==
  ASSUME IInv, Traced, (\E d \in Docs : Apply(d)) \/ Acknowledge,
         UNCHANGED versions
  PROVE  Traced'
<1>1. /\ writing # None /\ writing' = writing /\ pendingWrite' = pendingWrite
      /\ live' = live /\ writeGeneration' = writeGeneration
      /\ persistedGeneration' = persistedGeneration
      /\ \/ persistedJson' = persistedJson
         \/ persistedJson' = [d \in Docs |-> IF d \in Ops THEN writing.image[d]
                                             ELSE persistedJson[d]]
  BY DEF Apply, Acknowledge, tally
<1>2. \A d \in Docs : d \in Ops => writing.image[d] # Keep
  BY DEF Ops, Due
<1>3. \A d \in Docs : LatestW(d)' = LatestW(d) /\ Latest(d)' = Latest(d)
  BY <1>1, <1>2 DEF LatestW, Latest
<1>4. \A d \in Docs : persistedJson'[d] \in {LatestW(d), persistedJson[d]}
  BY <1>1, <1>2 DEF LatestW
<1>5. /\ persistedGeneration <= writing.generation
      /\ writing.generation \in Nat /\ persistedGeneration \in Nat
      /\ writeGeneration \in Nat
  BY <1>1, NumbersFit DEF IInv, Order
<1>6. \A d \in Docs : Recalls(persistedGeneration, d, LatestW(d))
  BY <1>1, <1>5 DEF Traced, Recalls
<1>7. \A d \in Docs : Recalls(persistedGeneration, d, persistedJson'[d])
  BY <1>4, <1>6 DEF Traced
<1> QED
  BY <1>1, <1>3, <1>7 DEF Traced, Recalls

\* A write is complete: what was on the way with it is what is believed to be
\* in the database.
LEMMA PersistedTraces ==
  ASSUME IInv, Traced, Persisted, UNCHANGED versions
  PROVE  Traced'
<1>1. /\ writing # None /\ collection = Collections + 1
      /\ persistedGeneration' = writing.generation
      /\ persistedJson' = persistedJson /\ live' = live
      /\ writeGeneration' = writeGeneration
      /\ Continue(pendingWrite)
  BY DEF Persisted, stored
<1>2. \A d \in Docs : persistedJson[d] = LatestW(d)
  <2>1. \A d \in Docs : CollectionOf[d] < collection
    BY <1>1
  <2> QED
    BY <1>1, <2>1 DEF IInv, Server, LatestW
<1>3. \A d \in Docs : Recalls(persistedGeneration', d, persistedJson[d])
  BY <1>1, <1>2 DEF Traced
<1>4. CASE pendingWrite # None
  <2>1. writing' = pendingWrite /\ pendingWrite' = None
    BY <1>1, <1>4 DEF Continue, Start
  <2>2. \A d \in Docs : LatestW(d)' = Latest(d)
    BY <1>1, <1>2, <1>4, <2>1 DEF Latest, LatestW
  <2> QED
    BY <1>1, <1>3, <1>4, <2>1, <2>2 DEF Traced, Recalls
<1>5. CASE pendingWrite = None
  <2>1. writing' = None /\ pendingWrite' = None
    BY <1>1, <1>5 DEF Continue
  <2> QED
    BY <1>1, <1>3, <2>1 DEF Traced, Recalls
<1> QED
  BY <1>4, <1>5

\* A write fails: the next one has every document, as it was queued or as it
\* is now.
LEMMA FailTraces ==
  ASSUME IInv, Traced, Fail, UNCHANGED versions
  PROVE  Traced'
<1>1. /\ persistedGeneration' = persistedGeneration
      /\ persistedJson' = persistedJson /\ live' = live
      /\ writeGeneration' = writeGeneration
      /\ Continue(Upgraded)
  BY DEF Fail
<1>2. CASE pendingWrite # None
  <2> DEFINE w == Upgraded
  <2>1. /\ w # None /\ w.generation = pendingWrite.generation
        /\ \A d \in Docs : /\ w.image[d] # Keep
                          /\ w.image[d] \in {live[d], Latest(d)}
    <3>1. CASE pendingWrite.full
      <4>1. w = pendingWrite /\ \A d \in Docs : pendingWrite.image[d] # Keep
        BY <1>2, <3>1 DEF Upgraded, IInv, Server
      <4> QED
        BY <1>2, <4>1 DEF Latest
    <3>2. CASE ~pendingWrite.full
      <4>1. w = [generation |-> pendingWrite.generation, full |-> TRUE,
                 image |-> live]
        BY <1>2, <3>2 DEF Upgraded, Full
      <4>2. live \in Images /\ \A d \in Docs : live[d] # Keep
        BY DEF IInv, TypeOK, Images, Contents
      <4>3. pendingWrite.generation \in 1..MaxSaves
        BY <1>2 DEF IInv, TypeOK, Writes
      <4>4. w \in Writes
        BY <4>1, <4>2, <4>3 DEF Writes
      <4> QED
        BY <4>1, <4>2, <4>4
    <3> QED
      BY <3>1, <3>2
  <2>2. writing' = w /\ pendingWrite' = None
    BY <1>1, <2>1 DEF Continue, Start
  <2> HIDE DEF w
  <2>3. \A d \in Docs : LatestW(d)' \in {live[d], Latest(d)}
    BY <2>1, <2>2 DEF LatestW
  <2>4. /\ pendingWrite.generation <= writeGeneration
        /\ writeGeneration \in 0..writeGeneration
    BY <1>2, NumbersFit DEF IInv, Order
  <2>5. \A d \in Docs : Recalls(pendingWrite.generation, d, live[d])
    BY <2>4 DEF Traced, Recalls
  <2>6. \A d \in Docs : Recalls(pendingWrite.generation, d, LatestW(d)')
    BY <1>2, <2>3, <2>5 DEF Traced
  <2> QED
    BY <1>1, <2>1, <2>2, <2>6 DEF Traced, Recalls
<1>3. CASE pendingWrite = None
  <2>1. writing' = None /\ pendingWrite' = None
    BY <1>1, <1>3 DEF Continue, Upgraded
  <2> QED
    BY <1>1, <2>1 DEF Traced, Recalls
<1> QED
  BY <1>2, <1>3

\* A start: one version, and it is in the database.
LEMMA StartTraces ==
  ASSUME IInv, Init, versions = [g \in {0} |-> live]
  PROVE  Traced
<1>1. /\ writeGeneration = 0 /\ persistedGeneration = 0
      /\ persistedJson = live /\ writing = None /\ pendingWrite = None
      /\ 0..0 = {0}
  BY DEF Init
<1>2. versions \in [0..writeGeneration -> [Docs -> Contents]]
  BY <1>1 DEF IInv, TypeOK
<1> QED
  BY <1>1, <1>2 DEF Traced, Recalls

LEMMA CrashStarts ==
  ASSUME IInv, Crash, Recorded
  PROVE  Init' /\ versions' = [g \in {0} |-> live']
<1>1. Init'
  BY DEF IInv, TypeOK, Crash, Init, NeverSaved
<1>2. writeGeneration' = 0 /\ 0..0 = {0}
  BY DEF Crash
<1>3. versions' = [g \in {0} |-> IF g < 0 THEN versions[g] ELSE live']
  BY <1>2 DEF Recorded
<1>4. \A g \in {0} : ~(g < 0)
  OBVIOUS
<1> QED
  BY <1>1, <1>3, <1>4

-----------------------------------------------------------------------------
\* The record of versions is one of a run of the store.
LEMMA HistoryIsSpec == HistorySpec => Spec
<1>1. HistoryInit => Init
  BY DEF HistoryInit
<1>2. [HistoryNext]_historyVars => [Next]_vars
  BY DEF HistoryNext, historyVars
<1> QED
  BY <1>1, <1>2, PTL DEF HistorySpec, Spec

\* A step without a version: all but saves and crashes.
LEMMA NextTraces ==
  ASSUME IInv, IInv', Traced, [HistoryNext]_historyVars
  PROVE  Traced'
<1>1. CASE HistoryNext
  <2>1. ASSUME NEW d \in Docs, NEW c \in Contents, Save(d, c) PROVE Traced'
    BY <1>1, <2>1, SaveTraces DEF HistoryNext
  <2>2. CASE Crash
    <3>1. Init' /\ versions' = [g \in {0} |-> live']
      BY <1>1, <2>2, CrashStarts DEF HistoryNext
    <3>2. (IInv /\ Init /\ versions = [g \in {0} |-> live] => Traced)'
      BY StartTraces, PTL
    <3> QED
      BY <3>1, <3>2
  <2>3. CASE Tick \/ Flush
    <3>1. UNCHANGED <<live, stamp, stored, tally>>
      BY <2>3 DEF Tick, Flush
    <3>2. versions' = versions
      BY <1>1, <3>1, SameVersions DEF tally, HistoryNext
    <3>3. CASE dirty
      <4>1. TakeSnapshot
        BY <2>3, <3>3 DEF Tick, Flush, TakesSnapshot
      <4> QED
        BY <3>1, <3>2, <3>3, <4>1, SnapshotTraces
    <3>4. CASE ~dirty
      <4>1. UNCHANGED writer
        BY <2>3, <3>4 DEF Tick, Flush, TakesSnapshot
      <4> QED
        BY <3>1, <3>2, <4>1
        DEF Traced, Recalls, Latest, LatestW, writer, stored, tally
    <3> QED
      BY <3>3, <3>4
  <2>4. CASE Write
    <3>1. live' = live /\ writeGeneration' = writeGeneration
      BY <2>4 DEF Write, Apply, Acknowledge, Persisted, Fail, tally
    <3>2. versions' = versions
      BY <1>1, <3>1, SameVersions DEF HistoryNext
    <3> QED
      BY <2>4, <3>2, ServerTraces, PersistedTraces, FailTraces DEF Write
  <2> QED
    BY <1>1, <2>1, <2>2, <2>3, <2>4 DEF HistoryNext, Next
<1>2. CASE UNCHANGED historyVars
  <2>1. UNCHANGED <<live, pendingWrite, writing, writeGeneration,
                    persistedGeneration, persistedJson, versions>>
    BY <1>2 DEF historyVars, vars, writer, tally, stored
  <2> QED
    BY <2>1 DEF Traced, Recalls, Latest, LatestW
<1> QED
  BY <1>1, <1>2

\* What a restart would find is no older than the last confirmed flush.
LEMMA DiskFaithful ==
  ASSUME IInv, Traced
  PROVE  Promised!Faithful
<1>1. /\ flushed <= persistedGeneration
      /\ writing # None => persistedGeneration <= writing.generation
  BY DEF IInv, Order
<1>2. ASSUME NEW d \in Docs, d \notin doubtful
      PROVE  Recalls(flushed, d, db[d])
  <2>1. \/ Recalls(persistedGeneration, d, db[d])
        \/ writing # None /\ Recalls(writing.generation, d, db[d])
    <3>1. CASE d \in applied
      <4>1. d \in Ops /\ writing # None /\ db[d] = writing.image[d]
        BY <3>1 DEF IInv, Server
      <4>2. db[d] = LatestW(d)
        BY <4>1 DEF Ops, Due, LatestW
      <4> QED
        BY <4>1, <4>2 DEF Traced
    <3>2. CASE d \notin applied
      <4>1. db[d] = persistedJson[d]
        BY <1>2, <3>2 DEF IInv, Server
      <4> QED
        BY <4>1 DEF Traced
    <3> QED
      BY <3>1, <3>2
  <2> QED
    BY <1>1, <2>1, NumbersFit DEF Recalls
<1> QED
  BY <1>2 DEF Promised!Faithful, Recalls

\* Every step of the store is one that the promise allows.
LEMMA StepPromised ==
  ASSUME IInv, IInv', Traced, Traced', [HistoryNext]_historyVars
  PROVE  [Promised!Next]_(Promised!vars)
<1>1. Promised!Faithful'
  BY DiskFaithful, PTL
<1>2. CASE HistoryNext
  <2>1. ASSUME NEW d \in Docs, NEW c \in Contents, Save(d, c)
        PROVE  Promised!Save
    BY <1>2, <2>1, SaveTraces DEF HistoryNext, Promised!Save, Save, stored
  <2>2. ASSUME Crash PROVE Promised!Restart
    <3>1. Init' /\ versions' = [g \in {0} |-> live'] /\ db' = db
      BY <1>2, <2>2, CrashStarts DEF HistoryNext, Crash
    <3> QED
      BY <3>1 DEF Init, Promised!Restart, Promised!Started
  <2>3. CASE Tick \/ Flush \/ Write
    <3>1. live' = live /\ writeGeneration' = writeGeneration
      BY <2>3 DEF Tick, Flush, Write, Apply, Acknowledge, Persisted, Fail,
                  tally
    <3>2. versions' = versions
      BY <1>2, <3>1, SameVersions DEF HistoryNext
    <3>3. Tick => UNCHANGED Promised!vars
      BY <3>2 DEF Tick, tally, stored, Promised!vars
    <3>4. ASSUME Flush \/ Persisted PROVE Promised!Confirm
      <4>1. db' = db /\ doubtful' = doubtful
        BY <3>4 DEF Flush, Persisted, stored
      <4>2. flushed' \in Nat /\ flushed <= flushed'
            /\ flushed' <= writeGeneration
        <5>1. flushed' <= writeGeneration' /\ flushed' \in Nat
          BY NumbersFit DEF IInv, Order, TypeOK, Generations
        <5>2. flushed <= flushed'
          BY <3>4, NumbersFit DEF Flush, Persisted, Later, Target
        <5> QED
          BY <3>1, <5>1, <5>2
      <4> QED
        BY <1>1, <3>1, <3>2, <4>1, <4>2, NumbersFit DEF Promised!Confirm
    <3>5. ASSUME (\E d \in Docs : Apply(d)) \/ Acknowledge
          PROVE  Promised!Write
      <4>1. flushed' = flushed /\ doubtful' \subseteq doubtful
        BY <3>5 DEF Apply, Acknowledge
      <4> QED
        BY <1>1, <3>1, <3>2, <4>1 DEF Promised!Write
    <3>6. ASSUME Fail PROVE Promised!Doubt
      <4>1. /\ flushed' = flushed /\ db' = db /\ doubtful \subseteq doubtful'
            /\ doubtful' \subseteq Docs
        BY <3>6 DEF Fail, IInv, TypeOK
      <4> QED
        BY <3>1, <3>2, <4>1 DEF Promised!Doubt
    <3> QED
      <4>1. (\E d \in Docs : Apply(d)) \/ Acknowledge \/ Persisted \/ Fail
               \/ Tick \/ Flush
        BY <2>3 DEF Write
      <4> QED
        BY <3>3, <3>4, <3>5, <3>6, <4>1 DEF Promised!Next
  <2> QED
    BY <1>2, <2>1, <2>2, <2>3 DEF HistoryNext, Next, Promised!Next
<1>3. CASE UNCHANGED historyVars
  BY <1>3 DEF historyVars, vars, stored, tally, Promised!vars
<1> QED
  BY <1>2, <1>3

\* The record and the store never part.
LEMMA AlwaysTraced == HistorySpec => []Traced
<1>1. IInv /\ HistoryInit => Traced
  BY StartTraces DEF HistoryInit
<1>2. IInv /\ IInv' /\ Traced /\ [HistoryNext]_historyVars => Traced'
  BY NextTraces
<1> QED
  BY <1>1, <1>2, Inductive, HistoryIsSpec, PTL DEF HistorySpec

\* At any moment, in the middle of a write, of a merge, after a failure, what a
\* restart would find of a document that is not in doubt is one of the versions
\* saved, not older than the last flush that was confirmed.
THEOREM DiskAlwaysFaithful == HistorySpec => []Promised!Faithful
<1>1. IInv /\ Traced => Promised!Faithful
  BY DiskFaithful
<1> QED
  BY <1>1, AlwaysTraced, Inductive, HistoryIsSpec, PTL

\* The store keeps the promise: merged, dropped, retried, half written or
\* lost, a restart finds every document as it was at the last confirmed flush
\* or later, unless a failed write has left it in doubt.
THEOREM StoreImplementsPromise == HistorySpec => StorePromise
<1>1. HistoryInit => Promised!Init
  BY DEF HistoryInit, Init, Promised!Init, Promised!Started
<1>2. IInv /\ IInv' /\ Traced /\ Traced' /\ [HistoryNext]_historyVars =>
         [Promised!Next]_(Promised!vars)
  BY StepPromised
<1> QED
  BY <1>1, <1>2, AlwaysTraced, Inductive, HistoryIsSpec, PTL
  DEF HistorySpec, StorePromise, Promised!Spec
=============================================================================
