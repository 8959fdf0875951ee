----------------------------- MODULE StateStore -----------------------------
(***************************************************************************)
(* The write-behind store that keeps the whole CDS state in MongoDB:       *)
(* cds/src/infra/state-store/mongo-split-store.ts, the default backend.    *)
(*                                                                         *)
(* save() only notes what changed.  One snapshot per turn of the event     *)
(* loop clones it, whole or limited to what the callers' hints name, and a *)
(* single writer brings the collections up to date one bulkWrite after     *)
(* the other, against a cache of what it believes the database holds.      *)
(* flush() waits until everything saved so far has been written.           *)
(*                                                                         *)
(* JavaScript runs to completion, so an action is the code between two     *)
(* awaits.  The server applies a bulkWrite one operation at a time and may *)
(* fail, or fail to answer, after any of them; the process may crash at    *)
(* any step.  A document is a member of Docs, its content a member of      *)
(* Values or Absent.                                                       *)
(***************************************************************************)
EXTENDS Integers

CONSTANTS
    Docs,        \* documents, of all collections
    Collections, \* how many collections there are, in the order of writing
    CollectionOf,\* the collection of each document
    Values,      \* what a document may contain
    Absent,      \* the content of a document that does not exist
    Keep,        \* in an image: exists, but was not cloned
    None,        \* no write
    MaxSaves     \* bound: saves of one process

ASSUME DocsAssumption ==
    /\ Collections \in Nat
    /\ CollectionOf \in [Docs -> 1..Collections]
ASSUME ContentsAssumption ==
    /\ Absent \notin Values /\ Keep \notin Values
    /\ Absent # Keep
ASSUME BoundsAssumption == MaxSaves \in Nat

Contents == Values \cup {Absent}
Images   == [Docs -> Contents \cup {Keep}]
Writes   == [generation : 1..MaxSaves, full : BOOLEAN, image : Images]
ASSUME NoneAssumption == None \notin Writes

VARIABLES
    live,        \* the state the services share and mutate in place
    dirty,       \* dirtyState # null: saved since the last snapshot
    dirtyAll,    \* one of those saves came without a hint
    dirtyDocs,   \* dirtyKinds and dirtyIds: the documents the hints name
    snapshotScheduled,
    immediates,  \* takeSnapshot() callbacks waiting in the event loop
    pendingWrite,
    writing,     \* the write in flight (writeInFlight), or None
    collection,  \* the collection it has come to
    applied,     \* the operations of its bulkWrite the server has applied
    writeGeneration,
    persistedGeneration,
    failedGeneration,
    lastWriteError,
    needFullResync,
    persistedJson, \* what the writer believes the database contains
    db,          \* what it does contain
    waiters,     \* flushWaiters: the generations callers of flush() wait for
    stamp,       \* history: the save that last changed each document
    flushed,     \* history: the highest generation a flush() promised
    doubtful     \* history: documents a failed write changed all the same

work   == <<dirty, dirtyAll, dirtyDocs, snapshotScheduled, immediates>>
writer == <<pendingWrite, writing, collection, applied, needFullResync>>
tally  == <<writeGeneration, persistedGeneration, failedGeneration,
            lastWriteError>>
stored == <<persistedJson, db, doubtful>>
vars == <<live, work, writer, tally, stored, waiters, stamp, flushed>>

NeverSaved == [d \in Docs |-> 0]

Later(g, h) == IF g <= h THEN h ELSE g

-----------------------------------------------------------------------------
(* Snapshots.                                                              *)

\* A partial snapshot: the clones of what the hints name.  Of a kind they
\* name, the other documents are known to exist (the id set) and no more.
KindsOf(S) == {CollectionOf[d] : d \in S}
Partial(S) ==
    [d \in Docs |-> IF d \in S \/ (CollectionOf[d] \in KindsOf(S)
                                   /\ live[d] = Absent)
                    THEN live[d] ELSE Keep]

\* Mutant: the queued partial is replaced instead of merged.
NewestOnly(a, b) == b

\* A partial snapshot is laid over one that is still queued.  A clone stays
\* unless the newer id set lacks the document; one that was gone and exists
\* again is left alone.
Merged(a, b) ==
    [d \in Docs |->
        IF b[d] # Keep THEN b[d]
        ELSE IF a[d] = Absent /\ \E e \in Docs :
                    CollectionOf[e] = CollectionOf[d] /\ b[e] # Keep
             THEN Keep
             ELSE a[d]]

UseFull ==
    \/ dirtyAll
    \/ needFullResync
    \/ pendingWrite # None /\ pendingWrite.full

Full(generation) == [generation |-> generation, full |-> TRUE, image |-> live]

Snapshot ==
    IF UseFull THEN Full(writeGeneration)
    ELSE [generation |-> writeGeneration, full |-> FALSE,
          image |-> IF pendingWrite = None THEN Partial(dirtyDocs)
                    ELSE Merged(pendingWrite.image, Partial(dirtyDocs))]

\* syncCollection() for collection `c` of write `w`: what differs from the
\* cache `json`, deletions included.
Due(w, json, c) ==
    {d \in Docs : CollectionOf[d] = c /\ w.image[d] \notin {Keep, json[d]}}

\* The writer goes from collection `c` on to the next with something to do,
\* past the last if there is none: the others cost no round trip.
Proceed(w, json, c) ==
    /\ collection' \in (c + 1)..(Collections + 1)
    /\ \A k \in (c + 1)..(collection' - 1) : Due(w, json, k) = {}
    /\ collection' <= Collections => Due(w, json, collection') # {}

Start(w, json) ==
    /\ writing' = w /\ pendingWrite' = None /\ applied' = {}
    /\ Proceed(w, json, 0)

\* drainWrites() with `w` queued: a writer that is idle starts on it.
Enqueue(w) ==
    \/ writing = None /\ Start(w, persistedJson)
    \/ /\ writing # None
       /\ pendingWrite' = w
       /\ UNCHANGED <<writing, collection, applied>>

\* takeSnapshot() with something to take.
TakeSnapshot ==
    /\ dirty' = FALSE /\ dirtyAll' = FALSE /\ dirtyDocs' = {}
    /\ snapshotScheduled' = FALSE
    /\ needFullResync' = (needFullResync /\ ~UseFull)
    /\ Enqueue(Snapshot)

-----------------------------------------------------------------------------
(* Saving.                                                                 *)

\* What a save with a hint names: the document, or its whole kind.
Hints(d) == {{d}, {e \in Docs : CollectionOf[e] = CollectionOf[d]}}

\* scheduleSnapshot(), called when something is dirty.
Schedule(busy) ==
    IF snapshotScheduled \/ busy
    THEN UNCHANGED <<snapshotScheduled, immediates>>
    ELSE snapshotScheduled' = TRUE /\ immediates' = immediates + 1

\* A service changes document `d` and saves: without a hint, or with a hint
\* that covers the change.  Bound: a hinted save that changes nothing is left
\* out; it only makes the snapshot clone what is already written.
Save(d, c) ==
    /\ writeGeneration < MaxSaves
    /\ live' = [live EXCEPT ![d] = c]
    /\ stamp' = IF c = live[d] THEN stamp
                ELSE [stamp EXCEPT ![d] = writeGeneration + 1]
    /\ writeGeneration' = writeGeneration + 1
    /\ dirty' = TRUE
    /\ \/ dirtyAll' = TRUE /\ UNCHANGED dirtyDocs
       \/ \E S \in Hints(d) :
             /\ c # live[d]
             /\ dirtyDocs' = IF dirtyAll THEN dirtyDocs ELSE dirtyDocs \cup S
             /\ UNCHANGED dirtyAll
    /\ Schedule(writing # None)
    /\ UNCHANGED <<writer, persistedGeneration, failedGeneration,
                   lastWriteError, stored, waiters, flushed>>

\* The event loop runs a takeSnapshot() callback; a flush() may have taken
\* the snapshot before it.
Tick ==
    /\ immediates > 0
    /\ immediates' = immediates - 1
    /\ IF dirty THEN TakeSnapshot
       ELSE /\ snapshotScheduled' = FALSE
            /\ UNCHANGED <<dirty, dirtyAll, dirtyDocs, writer>>
    /\ UNCHANGED <<live, tally, stored, waiters, stamp, flushed>>

-----------------------------------------------------------------------------
(* Flushing.                                                               *)

\* Mutant: flush() waits for the save after the last.
TargetAfter == writeGeneration + 1

TakesSnapshot == dirty
Target == writeGeneration

Flush ==
    /\ IF TakesSnapshot THEN TakeSnapshot
       ELSE UNCHANGED <<dirty, dirtyAll, dirtyDocs, snapshotScheduled, writer>>
    /\ \/ /\ Target <= persistedGeneration
          /\ flushed' = Later(flushed, Target)
          /\ UNCHANGED waiters
       \/ /\ Target > persistedGeneration
          /\ ~(Target <= failedGeneration /\ lastWriteError)
          /\ waiters' = waiters \cup {Target}
          /\ UNCHANGED flushed
       \/ /\ Target > persistedGeneration
          /\ Target <= failedGeneration /\ lastWriteError
          /\ UNCHANGED <<waiters, flushed>>
    /\ UNCHANGED <<live, immediates, tally, stored, stamp>>

-----------------------------------------------------------------------------
(* The writer.                                                             *)

\* The operations of the bulkWrite that is in flight.
Ops == Due(writing, persistedJson, collection)

\* The server applies one operation of the bulkWrite.
Apply(d) ==
    /\ writing # None /\ collection <= Collections
    /\ d \in Ops \ applied
    /\ db' = [db EXCEPT ![d] = writing.image[d]]
    /\ applied' = applied \cup {d}
    /\ UNCHANGED <<live, work, pendingWrite, writing, collection,
                   needFullResync, tally, persistedJson, doubtful, waiters,
                   stamp, flushed>>

\* The bulkWrite has resolved: the cache follows.
Acknowledge ==
    /\ writing # None /\ collection <= Collections
    /\ applied = Ops
    /\ persistedJson' = [d \in Docs |-> IF d \in Ops THEN writing.image[d]
                                        ELSE persistedJson[d]]
    /\ doubtful' = doubtful \ Ops
    /\ Proceed(writing, persistedJson', collection)
    /\ applied' = {}
    /\ UNCHANGED <<live, work, pendingWrite, writing, needFullResync, tally,
                   db, waiters, stamp, flushed>>

\* Mutants: what was saved meanwhile waits for another save; a failed write
\* leaves the callers of flush() waiting; a queued partial stays one.
NoReschedule   == UNCHANGED <<snapshotScheduled, immediates>>
NobodyRejected == UNCHANGED waiters
StillPartial   == pendingWrite

\* The writer is idle: scheduleSnapshot() for what was saved meanwhile.
Reschedule == Schedule(~dirty)

\* The finally block: on with what is queued, or with what was saved since.
Continue(queued) ==
    \/ /\ queued # None
       /\ Start(queued, persistedJson)
       /\ UNCHANGED <<snapshotScheduled, immediates>>
    \/ /\ queued = None
       /\ writing' = None /\ pendingWrite' = None
       /\ collection' = 0 /\ applied' = {}
       /\ Reschedule

\* Every collection is written: resolveFlushWaiters().
Served == {g \in waiters : g <= writing.generation}

Persisted ==
    /\ writing # None /\ collection = Collections + 1
    /\ persistedGeneration' = writing.generation
    /\ lastWriteError' = FALSE
    /\ waiters' = waiters \ Served
    /\ flushed' \in {flushed} \cup Served
    /\ \A g \in {flushed} \cup Served : g <= flushed'
    /\ Continue(pendingWrite)
    /\ UNCHANGED <<live, dirty, dirtyAll, dirtyDocs, needFullResync,
                   writeGeneration, failedGeneration, stored, stamp>>

\* A queued partial does not hold what the failed write did: it becomes a
\* full snapshot of the state as it is now.
Upgraded ==
    IF pendingWrite = None THEN None
    ELSE IF pendingWrite.full THEN pendingWrite
    ELSE Full(pendingWrite.generation)

\* rejectFlushWaiters(): all of them.
Rejected == waiters' = {}

\* The bulkWrite rejects, after any part of it was applied; the answer to a
\* complete one may be lost.
Fail ==
    /\ writing # None /\ collection <= Collections
    /\ failedGeneration' = Later(failedGeneration, writing.generation)
    /\ lastWriteError' = TRUE
    /\ needFullResync' = (pendingWrite = None)
    /\ doubtful' = doubtful \cup applied
    /\ Rejected
    /\ Continue(Upgraded)
    /\ UNCHANGED <<live, dirty, dirtyAll, dirtyDocs, writeGeneration,
                   persistedGeneration, persistedJson, db, stamp, flushed>>

-----------------------------------------------------------------------------
(* The process.                                                            *)

\* init(): the state is what the database holds, and so is the cache.
Init ==
    /\ db \in [Docs -> Contents]
    /\ live = db /\ persistedJson = db
    /\ dirty = FALSE /\ dirtyAll = FALSE /\ dirtyDocs = {}
    /\ snapshotScheduled = FALSE /\ immediates = 0
    /\ pendingWrite = None /\ writing = None /\ collection = 0
    /\ applied = {} /\ needFullResync = FALSE
    /\ writeGeneration = 0 /\ persistedGeneration = 0
    /\ failedGeneration = 0 /\ lastWriteError = FALSE
    /\ waiters = {}
    /\ stamp = NeverSaved /\ flushed = 0 /\ doubtful = {}

\* The process dies and a new one runs init().
Crash ==
    /\ live' = db /\ persistedJson' = db
    /\ dirty' = FALSE /\ dirtyAll' = FALSE /\ dirtyDocs' = {}
    /\ snapshotScheduled' = FALSE /\ immediates' = 0
    /\ pendingWrite' = None /\ writing' = None /\ collection' = 0
    /\ applied' = {} /\ needFullResync' = FALSE
    /\ writeGeneration' = 0 /\ persistedGeneration' = 0
    /\ failedGeneration' = 0 /\ lastWriteError' = FALSE
    /\ waiters' = {}
    /\ stamp' = NeverSaved /\ flushed' = 0 /\ doubtful' = {}
    /\ UNCHANGED db

Write == (\E d \in Docs : Apply(d)) \/ Acknowledge \/ Persisted \/ Fail

Next ==
    \/ \E d \in Docs, c \in Contents : Save(d, c)
    \/ Tick
    \/ Flush
    \/ Write
    \/ Crash

Spec == Init /\ [][Next]_vars

\* The event loop runs its callbacks, and the server answers or fails.
FairSpec == Spec /\ WF_vars(Tick) /\ WF_vars(Write)

-----------------------------------------------------------------------------
(* Properties.                                                             *)

Generations == 0..MaxSaves

\* The type invariant of the store.
TypeOK ==
    /\ live \in [Docs -> Contents] /\ persistedJson \in [Docs -> Contents]
    /\ db \in [Docs -> Contents]
    /\ dirty \in BOOLEAN /\ dirtyAll \in BOOLEAN /\ dirtyDocs \subseteq Docs
    /\ snapshotScheduled \in BOOLEAN /\ immediates \in Nat
    /\ pendingWrite \in Writes \cup {None} /\ writing \in Writes \cup {None}
    /\ collection \in 0..(Collections + 1) /\ applied \subseteq Docs
    /\ writeGeneration \in Generations /\ persistedGeneration \in Generations
    /\ failedGeneration \in Generations /\ lastWriteError \in BOOLEAN
    /\ needFullResync \in BOOLEAN
    /\ waiters \subseteq 1..MaxSaves
    /\ stamp \in [Docs -> Generations] /\ flushed \in Generations
    /\ doubtful \subseteq Docs

\* What the writer counts as persisted is in the database: a document whose
\* last change was saved no later than persistedGeneration has its content
\* there, whatever was merged, dropped or retried in between (drainWrites,
\* its catch block and takeSnapshot).  Excepted are the documents a failed
\* bulkWrite changed all the same: see AcknowledgedSurvives.
PersistedIsDurable ==
    \A d \in Docs \ doubtful :
        stamp[d] <= persistedGeneration => db[d] = live[d]

\* Whoever waits in flush() waits for a write that is in flight or queued
\* behind it, so an answer is on its way (flush, drainWrites).
WaitersHaveAWriter ==
    \A g \in waiters :
        \/ writing # None /\ g <= writing.generation
        \/ writing # None /\ pendingWrite # None /\ g <= pendingWrite.generation

\* A restart finds what a flush() had confirmed before the crash, again but
\* for the documents a failed bulkWrite left in doubt (flush, init).
FlushedSurvives ==
    [][\A d \in Docs \ doubtful :
          writeGeneration' < writeGeneration /\ stamp[d] <= flushed => live'[d] = live[d]]_vars

\* A bulkWrite that fails leaves the cache equal to what the database really
\* contains, so that the next full snapshot repairs whatever is missing and a
\* confirmed flush() is safe without exception: what the comments at
\* mongo-split-store.ts:495 and :1037 say.
AcknowledgedSurvives ==
    \A d \in Docs : stamp[d] <= flushed => db[d] = live[d]

\* No save is forgotten: until it is written, or a write that included it has
\* failed and left its error to the next flush(), the writer is busy or a
\* callback is waiting that will take the snapshot (scheduleSnapshot, the
\* finally block of drainWrites).
NoSaveForgotten ==
    \/ writeGeneration <= persistedGeneration
    \/ writeGeneration <= failedGeneration /\ lastWriteError /\ needFullResync
    \/ writing # None
    \/ dirty /\ snapshotScheduled /\ immediates > 0

\* Every flush() is answered.
FlushSettles == \A g \in 1..MaxSaves : g \in waiters ~> g \notin waiters
=============================================================================
