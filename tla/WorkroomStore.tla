--------------------------- MODULE WorkroomStore ---------------------------
(***************************************************************************)
(* What the runtime keeps of one Task (workroom) between restarts: the     *)
(* cursor, the bounded ledger of processed events and the bounded table of *)
(* failures, with the mutators of sdk/node/src/workrooms.ts.  An event is  *)
(* its sequence number; its envelope id, the key of both tables, is        *)
(* unique to it.  Both tables list their keys oldest first, the order in   *)
(* which the code prunes them.                                             *)
(***************************************************************************)
EXTENDS Naturals, Sequences, SequencesExt

CONSTANTS
    Events,            \* length of the Task's log
    MaxProcessed,      \* MAX_PROCESSED_WORKROOM_EVENTS
    MaxFailures,       \* MAX_WORKROOM_EVENT_FAILURES
    MaxEventFailures   \* maxEventFailures, the attempts before quarantine

ASSUME StoreAssumption ==
    /\ Events \in Nat
    /\ {MaxProcessed, MaxFailures, MaxEventFailures} \subseteq Nat \ {0}

Log == 1 .. Events

FailureRecords == [id : Log, attempts : Nat, status : {"retrying", "quarantined"}]

States == [cursor : 0 .. Events, processed : Seq(Log), failures : Seq(FailureRecords)]

\* Both tables are bounded and have no key twice.
WellFormed(s) ==
    /\ Len(s.processed) <= MaxProcessed /\ Len(s.failures) <= MaxFailures
    /\ IsInjective(s.processed)
    /\ \A i, j \in DOMAIN s.failures : s.failures[i].id = s.failures[j].id => i = j

EmptyState == [cursor |-> 0, processed |-> <<>>, failures |-> <<>>]

Processed(s, e) == Contains(s.processed, e)

\* The keys of the table of failures.
FailureRecorded(s, e) == \E i \in DOMAIN s.failures : s.failures[i].id = e

Attempts(s, e) ==
    IF FailureRecorded(s, e)
    THEN s.failures[CHOOSE i \in DOMAIN s.failures : s.failures[i].id = e].attempts
    ELSE 0

Youngest(keys, max) ==
    IF Len(keys) <= max THEN keys ELSE SubSeq(keys, Len(keys) - max + 1, Len(keys))

\* pruneRuntimeEventState.
Pruned(s) == [s EXCEPT !.processed = Youngest(@, MaxProcessed),
                       !.failures = Youngest(@, MaxFailures)]

\* The cursor goes to e wherever it was, and e is processed.
Advanced(s, e) ==
    [s EXCEPT !.cursor = e, !.processed = IF Processed(s, e) THEN @ ELSE Append(@, e)]

\* Mutation: the table is cleared.
ClearFailures(s, e) == [s EXCEPT !.failures = <<>>]

ClearEventFailure(s, e) ==
    IF FailureRecorded(s, e)
    THEN [s EXCEPT !.failures = RemoveAt(@, CHOOSE i \in DOMAIN @ : @[i].id = e)]
    ELSE s

\* The record of e moves to the young end of the table.
Refiled(s, e, attempts, status) ==
    [ClearEventFailure(s, e) EXCEPT
        !.failures = Append(@, [id |-> e, attempts |-> attempts, status |-> status])]

\* Mutation: an event that is in the ledger is not committed again.
CommitOnce(s, e) == IF Processed(s, e) THEN s ELSE Pruned(Advanced(s, e))

CommitEventCursor(s, e) == Pruned(Advanced(s, e))

QuarantineLegacyEvent(s, e) == Pruned(Advanced(Refiled(s, e, 0, "quarantined"), e))

\* Mutation: one attempt too few.
QuarantinesEarly(s, e) == Attempts(s, e) + 2 >= MaxEventFailures

\* One more failure of e is the last one tolerated.
Quarantines(s, e) == Attempts(s, e) + 1 >= MaxEventFailures

RecordEventFailure(s, e) ==
    LET attempts == Attempts(s, e) + 1
    IN  IF Quarantines(s, e)
        THEN Pruned(Advanced(Refiled(s, e, attempts, "quarantined"), e))
        ELSE Pruned(Refiled(s, e, attempts, "retrying"))
=============================================================================
