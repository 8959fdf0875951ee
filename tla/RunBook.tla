------------------------------ MODULE RunBook ------------------------------
(***************************************************************************)
(* What the ledger of deployment runs promises to those who read it, the   *)
(* client that follows a run, the console, the operator after a restart:   *)
(* nobody works on a run that a restart would not find; what a run says    *)
(* changes only together with the number of its last event, so that who    *)
(* knows the number knows the run; a verdict is given once, a success only *)
(* by the handler that has reported it; and what a restart forgets is what *)
(* was not durable, nothing else.  How events, heartbeats, the reaper and  *)
(* write-behind bring this about is left to the detailed specification.    *)
(***************************************************************************)
EXTENDS Naturals

CONSTANT Runs

VARIABLES
    record,   \* what the ledger says of each run: a state and its last event
    durable,  \* what a restart would make it say
    stage     \* of the handler of each run

vars == <<record, durable, stage>>

Verdicts == {"running", "failed", "cancelled"}

\* The verdicts a handler may give when it leaves.
MayGive == [asking    |-> {"cancelled"},
            working   |-> {"cancelled", "failed"},
            reporting |-> {"running", "failed"}]

Gone  == [state |-> "none", last |-> 0]
First == [state |-> "open", last |-> 1]

Undecided(entry) == entry.state \in {"open", "built"}

\* There are further events.
Longer(old, new) == new.last \in Nat /\ new.last > old.last

\* An undecided run gets further events; a built one does not become unbuilt.
Continues(old, new) ==
    \/ new = old
    \/ /\ Undecided(old) /\ Undecided(new)
       /\ Longer(old, new)
       /\ old.state = "built" => new.state = "built"

\* The verdict is the last event of the run.
Decided(old, new, verdict) ==
    Undecided(old) /\ new.state = verdict /\ Longer(old, new)

Forgotten(old, new) == old.state \in Verdicts /\ new = Gone

Init ==
    /\ record = [r \in Runs |-> Gone] /\ durable = [r \in Runs |-> Gone]
    /\ stage = [r \in Runs |-> "idle"]

\* Only the run of one handler changes.
Own(r) == record' = [record EXCEPT ![r] = record'[r]] /\ UNCHANGED durable

Goes(r, from, to) == stage[r] = from /\ stage' = [stage EXCEPT ![r] = to]

\* A run begins; old ones may be forgotten to make room for it.
Begin(r) ==
    /\ Goes(r, "idle", "asking")
    /\ record'[r] = First
    /\ \A q \in Runs \ {r} : record'[q] = record[q] \/ Forgotten(record[q], record'[q])
    /\ UNCHANGED durable

\* Work begins once a restart would find the run.
Engage(r) ==
    /\ durable[r].state # "none"
    /\ Goes(r, "asking", "working")
    /\ Continues(record[r], record'[r]) /\ Own(r)

Work(r) ==
    /\ stage[r] = "working" /\ UNCHANGED stage
    /\ Continues(record[r], record'[r]) /\ Own(r)

\* The outcome is reported once a restart would not forget that all is built.
Report(r) ==
    /\ durable[r].state # "open"
    /\ Goes(r, "working", "reporting")
    /\ UNCHANGED <<record, durable>>

\* The handler leaves, with a verdict unless there is one or it dies silently.
Leave(r) ==
    /\ \E from \in DOMAIN MayGive :
         /\ Goes(r, from, "gone")
         /\ \/ record'[r] = record[r]
            \/ \E v \in MayGive[from] : Decided(record[r], record'[r], v)
    /\ Own(r)

\* Runs that gave no sign of life have failed, whatever their handlers do.
Expire ==
    /\ \A r \in Runs : \/ record'[r] = record[r]
                       \/ Decided(record[r], record'[r], "failed")
    /\ UNCHANGED <<durable, stage>>

Save ==
    /\ \A r \in Runs : durable'[r] \in {durable[r], record[r]}
    /\ UNCHANGED <<record, stage>>

Forget ==
    /\ \A r \in Runs : record'[r] = record[r] \/ Forgotten(record[r], record'[r])
    /\ UNCHANGED <<durable, stage>>

Restart ==
    /\ record' = durable
    /\ stage' = [r \in Runs |-> IF stage[r] = "idle" THEN "idle" ELSE "gone"]
    /\ UNCHANGED durable

\* The process lives on.
Live ==
    \/ \E r \in Runs : Begin(r) \/ Engage(r) \/ Work(r) \/ Report(r) \/ Leave(r)
    \/ Expire \/ Save \/ Forget

Next == Live \/ Restart

Spec == Init /\ [][Next]_vars

-----------------------------------------------------------------------------
(* What a reader may conclude. *)

\* As long as the process lives, who knows the number of the last event of a run
\* knows what the run says: this is why a stream can be resumed by number.
NumbersTell ==
    [][Live => \A r \in Runs :
         record'[r].last = record[r].last => record'[r] = record[r]]_vars

\* As long as the process lives, the first verdict stands until it is forgotten.
VerdictsStand ==
    [][Live => \A r \in Runs :
         record[r].state \in Verdicts => record'[r] \in {record[r], Gone}]_vars

\* A restart finds every undecided run that somebody works on.
WorkIsDurable ==
    \A r \in Runs :
      stage[r] \in {"working", "reporting"} /\ Undecided(record[r])
      => durable[r].state # "none"
=============================================================================
