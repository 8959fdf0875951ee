------------------------------ MODULE RunStream ------------------------------
(***************************************************************************)
(* A client that follows a deployment run over server-sent events: GET     *)
(* /deployment-runs/:id/stream (cds/src/routes/deployment-runs.ts).  The   *)
(* server polls the ledger and sends what is newer than its cursor; the    *)
(* connection may break with events in flight; the client comes back with  *)
(* the number of the last event it received.                               *)
(***************************************************************************)
EXTENDS DeploymentRuns

CONSTANT Watched   \* the run the client follows

ASSUME WatchedAssumption == Watched \in Runs

VARIABLES
    conn,       \* "closed", "open", "ended" (the server sent "done") or
                \* "finished" (the client has read it)
    afterSeq,   \* the server's cursor on this connection
    flight,     \* numbers of the events sent and not yet received
    seen,       \* numbers of the events received
    warned      \* events were skipped and the client was told ("truncated"),
                \* or the ring turned over between two polls

streamVars == <<conn, afterSeq, flight, seen, warned>>
allVars    == <<vars, streamVars>>

StreamTypeOK ==
    /\ TypeOK
    /\ conn \in {"closed", "open", "ended", "finished"}
    /\ afterSeq \in Nat /\ flight \subseteq Nat /\ seen \subseteq Nat
    /\ warned \in BOOLEAN

StreamInit ==
    /\ Init
    /\ conn = "closed" /\ afterSeq = 0 /\ flight = {} /\ seen = {}
    /\ warned = FALSE

watched == ledger[Watched]

Newest(S) == CHOOSE n \in S : \A m \in S : m <= n
Oldest(S) == CHOOSE n \in S : \A m \in S : n <= m

\* The Last-Event-ID header of the next request.
LastEventId == IF seen = {} THEN 0 ELSE Newest(seen)

\* Mutant: the event under the cursor is sent again.
EventsFrom(after) == {n \in watched.first..watched.seq : n >= after}

\* getEventsAfter(): what the ring still holds beyond the cursor.
EventsAfter(after) == {n \in watched.first..watched.seq : n > after}

\* Mutant: resuming where the broken connection stood.
ServerCursor == afterSeq

Truncated(after) == after < watched.first - 1

Cursor == LastEventId

\* emitPending(): the events, and "done" once the run is final.
Emit(after, pending) ==
    LET events == EventsAfter(after)
    IN  /\ afterSeq' = IF events = {} THEN after ELSE Newest(events)
        /\ flight' = pending \cup events
        /\ conn' = IF watched.status \in Final THEN "ended" ELSE "open"

\* The snapshot of the first emission says whether the cursor is too old.
Connect ==
    /\ conn = "closed" /\ watched.status # "none"
    /\ Emit(Cursor, {})
    /\ warned' = (warned \/ Truncated(Cursor))
    /\ UNCHANGED <<vars, seen>>

\* Every 500 ms.  Later emissions carry no flag: a ring that turned over since
\* the last poll goes unnoticed.
Poll ==
    /\ conn = "open" /\ watched.status # "none"
    /\ EventsAfter(afterSeq) # {} \/ watched.status \in Final
    /\ Emit(afterSeq, flight)
    /\ warned' = (warned \/ watched.seq > afterSeq + Ring)
    /\ UNCHANGED <<vars, seen>>

\* The run was pruned, or lost by a restart: the poll throws, the stream ends.
PollFails ==
    /\ conn = "open" /\ watched.status = "none"
    /\ conn' = "closed" /\ flight' = {}
    /\ UNCHANGED <<vars, afterSeq, seen, warned>>

Receive ==
    /\ flight # {}
    /\ seen' = seen \cup {Oldest(flight)}
    /\ flight' = flight \ {Oldest(flight)}
    /\ UNCHANGED <<vars, conn, afterSeq, warned>>

Finish ==
    /\ conn = "ended" /\ flight = {}
    /\ conn' = "finished"
    /\ UNCHANGED <<vars, afterSeq, flight, seen, warned>>

\* The connection breaks; what was in flight is lost.
Drop ==
    /\ conn \in {"open", "ended"}
    /\ conn' = "closed" /\ flight' = {}
    /\ UNCHANGED <<vars, afterSeq, seen, warned>>

Stream == Connect \/ Poll \/ PollFails \/ Receive \/ Finish \/ Drop

\* A death of the process breaks the connection as well.
CrashBreaks ==
    /\ Crash
    /\ IF conn = "finished" THEN UNCHANGED streamVars
       ELSE /\ conn' = "closed" /\ flight' = {}
            /\ UNCHANGED <<afterSeq, seen, warned>>

\* Runs of the project that are not modelled push the watched one out.
PrunedByOthers ==
    /\ watched.status \in Final
    /\ Update(Watched, Absent)
    /\ UNCHANGED <<saved, handler, crashes, streamVars>>

LedgerStep ==
    /\ \/ \E r \in Runs : Begin(r) \/ Handle(r) \/ Background(r)
       \/ Reap
    /\ UNCHANGED streamVars

StreamNext == Stream \/ LedgerStep \/ PrunedByOthers \/ CrashBreaks

StreamSpec == StreamInit /\ [][StreamNext]_allVars

FairStreamSpec ==
    /\ StreamSpec
    /\ WF_allVars(Reap /\ UNCHANGED streamVars)
    /\ \A r \in Runs : WF_allVars(Age(r) /\ UNCHANGED streamVars)

-----------------------------------------------------------------------------
(* Properties. *)

\* The client has read "done" and the run is still in the ledger.
Finishes == conn # "finished" /\ conn' = "finished" /\ watched.status # "none"

\* "afterSeq: no duplicates, no omissions": as long as the process lives, a
\* client that was never warned has received every event of the run when its
\* stream ends, however often the connection broke in between.
NoSilentOmission ==
    [][Finishes /\ crashes = 0 /\ ~warned => seen = 1..watched.seq]_allVars

\* The server never sends a client an event it has received already.
NoDuplicates == flight \cap seen = {}

\* "After a restart of CDS [...] status and increments can be recovered by runId
\* + seq": a client that was never warned and reads "done" has received the
\* event that closed the run, and none that the ledger does not know.
ResumeAcrossRestarts ==
    [][Finishes /\ ~warned => watched.seq \in seen /\ LastEventId = watched.seq]_allVars

=============================================================================
