--------------------------- MODULE WorkroomEvents ---------------------------
(***************************************************************************)
(* Autonomous polling of one Task (WorkroomClient.poll and watch in        *)
(* sdk/node/src/workrooms.ts).  Each member of Pollers calls poll() again  *)
(* and again; they overlap when a gateway or an MCP server answers two     *)
(* requests at once.  An action is the code one poll runs between two      *)
(* awaits.  The mutations of the runtime state go through the chain of     *)
(* AgentRuntime, which saves and swaps them one by one: here such a step   *)
(* is one action, at any time after the poll asked for it.                 *)
(*                                                                         *)
(* The relay, which is not part of the repository, is a growing log read   *)
(* page by page.  The membership role of the runtime is fixed, so that     *)
(* "directed to this runtime" is a property of the event.                  *)
(***************************************************************************)
EXTENDS WorkroomStore

CONSTANTS
    Pollers,       \* callers of poll()
    Directed,      \* events whose routing is directed to this runtime
    Legacy,        \* audit-only events of older formats
    Broken,        \* events that never verify or decrypt
    Malformed,     \* events whose membership snapshot contradicts itself
    PageSize,      \* the limit of a page
    Collecting,    \* the handler of a gateway or MCP request: it collects
    MaxCrashes, MaxAborts,                   \* bounds on faults
    MaxSaveFails, MaxFails, MaxGlitches,     \* ... saves, handlers, decryptions
    MaxFaults                                \* ... of all kinds together

ASSUME EventsAssumption ==
    /\ Directed \cup Legacy \cup Broken \cup Malformed \subseteq Log
    /\ Legacy \cap (Directed \cup Broken) = {}
ASSUME BoundsAssumption ==
    /\ IsFiniteSet(Pollers) /\ PageSize \in Nat \ {0} /\ Collecting \in BOOLEAN
    /\ {MaxCrashes, MaxAborts, MaxSaveFails, MaxFails, MaxGlitches, MaxFaults} \subseteq Nat

VARIABLES
    disk,          \* this Task's part of the state file
    mem,           \* ... and of this.runtimeState
    poll,          \* how far each poll() is
    batch,         \* events a collecting poll() has for its caller
    published,     \* relay: length of the log so far
    handled,       \* history: events whose handler returned
    committed,     \* history: events whose commit was saved after handling
    failures,      \* history: how often an event did not verify or decrypt
    quarantined,   \* history: events whose quarantine reached the state file
    received,      \* history: events a caller got from its request
    overlapped,    \* history: whether a poll began while another was in progress
    faults         \* counters of the bounded faults

clientVars == <<disk, mem, poll, batch>>
history == <<handled, committed, failures, quarantined, received, overlapped>>
vars == <<clientVars, published, history, faults>>

MutationStages == {"quarantining", "failing", "clearing", "committing"}
Stages == {"idle", "reading", "next", "handling"} \cup MutationStages
NoFaults == [crash |-> 0, abort |-> 0, save |-> 0, fail |-> 0, glitch |-> 0]
NoPoll == [at |-> "idle", cursor |-> 0, left |-> <<>>, more |-> FALSE]

TypeOK ==
    /\ {disk, mem} \subseteq {s \in States : WellFormed(s)}
    /\ poll \in [Pollers -> [at : Stages, cursor : 0 .. Events, left : Seq(Log), more : BOOLEAN]]
    /\ batch \in [Pollers -> SUBSET Log]
    /\ published \in 0 .. Events
    /\ UNION {handled, committed, quarantined, received} \subseteq Log
    /\ overlapped \in BOOLEAN
    /\ failures \in [Log -> Nat]
    /\ faults \in [DOMAIN NoFaults -> Nat]

-----------------------------------------------------------------------------

Fault(kind, max) ==
    /\ faults[kind] < max
    /\ faults.crash + faults.abort + faults.save + faults.fail + faults.glitch < MaxFaults
    /\ faults' = [faults EXCEPT ![kind] = @ + 1]

\* The record the poll is at.
Record(p) == Head(poll[p].left)

Goes(p, stage) == poll' = [poll EXCEPT ![p].at = stage]

\* poll() rejects: what it collected goes with it.
Rejects(p) ==
    /\ poll' = [poll EXCEPT ![p] = NoPoll]
    /\ batch' = [batch EXCEPT ![p] = {}]
    /\ UNCHANGED received

\* poll() resolves: its caller gets what it collected.
Resolves(p) ==
    /\ poll' = [poll EXCEPT ![p] = NoPoll]
    /\ batch' = [batch EXCEPT ![p] = {}]
    /\ received' = received \cup batch[p]

\* On to the next record, the next page, or the end.
StepsOn(p) ==
    IF Len(poll[p].left) > 1
    THEN /\ poll' = [poll EXCEPT ![p] =
                       [@ EXCEPT !.at = "next", !.cursor = Record(p), !.left = Tail(poll[p].left)]]
         /\ UNCHANGED <<batch, received>>
    ELSE IF poll[p].more
    THEN /\ poll' = [poll EXCEPT ![p] = [NoPoll EXCEPT !.at = "reading", !.cursor = Record(p)]]
         /\ UNCHANGED <<batch, received>>
    ELSE Resolves(p)

\* The relay appends an event.
Publish ==
    /\ published < Events
    /\ published' = published + 1
    /\ UNCHANGED <<clientVars, history, faults>>

Crash ==
    /\ Fault("crash", MaxCrashes)
    /\ mem' = disk
    /\ poll' = [p \in Pollers |-> NoPoll] /\ batch' = [p \in Pollers |-> {}]
    /\ UNCHANGED <<disk, published, history>>

\* poll() starts at the durable cursor.
PollStart(p) ==
    /\ poll[p].at = "idle"
    /\ poll' = [poll EXCEPT ![p] = [NoPoll EXCEPT !.at = "reading", !.cursor = mem.cursor]]
    /\ overlapped' = (overlapped \/ \E q \in Pollers : poll[q].at # "idle")
    /\ UNCHANGED <<disk, mem, batch, published, handled, committed, failures, quarantined, received, faults>>

\* readRawEventPage: the sequences after a cursor, and whether more follow.
PageAfter(cursor) ==
    LET last == IF published <= cursor + PageSize THEN published ELSE cursor + PageSize
    IN  [seqs |-> [i \in 1 .. last - cursor |-> cursor + i], more |-> last < published]

\* exactEventMembershipSnapshot throws for a record of the page.
Contradicts(page) == \E i \in DOMAIN page.seqs : page.seqs[i] \in Malformed

\* The page, and the workroom's detail if it has work in it.  A malformed
\* snapshot anywhere in the page makes poll() reject before it looks at a
\* record, and is not counted as a failure of its event.
ReadPage(p) ==
    /\ poll[p].at = "reading"
    /\ LET page == PageAfter(poll[p].cursor)
       IN  IF page.seqs = <<>> THEN Resolves(p)
           ELSE IF Contradicts(page) THEN Rejects(p)
           ELSE /\ poll' = [poll EXCEPT ![p] =
                              [@ EXCEPT !.at = "next", !.left = page.seqs, !.more = page.more]]
                /\ UNCHANGED <<batch, received>>
    /\ UNCHANGED <<disk, mem, published, handled, committed, failures, quarantined, overlapped, faults>>

\* A request fails after its retries, or the caller aborts.
Aborts(p) ==
    /\ poll[p].at \in {"reading", "next"}
    /\ Fault("abort", MaxAborts)
    /\ Rejects(p)
    /\ UNCHANGED <<disk, mem, published, handled, committed, failures, quarantined, overlapped>>

\* A legacy event is quarantined unless it was before.
MeetsLegacy(p) ==
    /\ poll[p].at = "next" /\ Record(p) \in Legacy
    /\ Goes(p, IF Processed(mem, Record(p)) THEN "committing" ELSE "quarantining")
    /\ UNCHANGED <<disk, mem, batch, published, history, faults>>

\* decryptEvent rejects: the event is bad, or fetching its actor's keys failed.
DecryptFails(p) ==
    /\ poll[p].at = "next" /\ Record(p) \notin Legacy
    /\ IF Record(p) \in Broken THEN UNCHANGED faults ELSE Fault("glitch", MaxGlitches)
    /\ failures' = [failures EXCEPT ![Record(p)] = @ + 1]
    /\ Goes(p, "failing")
    /\ UNCHANGED <<disk, mem, batch, published, handled, committed, quarantined, received, overlapped>>

\* Mutation: the ledger is not looked at.
DispatchUnchecked(s, e) == IF e \in Directed THEN "handling" ELSE "committing"

\* The handler is for directed events that were not processed before.
Dispatch(s, e) ==
    IF e \in Directed /\ ~Processed(s, e) THEN "handling" ELSE "committing"

Decrypts(p) ==
    /\ poll[p].at = "next" /\ Record(p) \notin Legacy \cup Broken
    /\ Goes(p, IF FailureRecorded(mem, Record(p)) THEN "clearing" ELSE Dispatch(mem, Record(p)))
    /\ UNCHANGED <<disk, mem, batch, published, history, faults>>

HandlerReturns(p) ==
    /\ poll[p].at = "handling"
    /\ handled' = handled \cup {Record(p)}
    /\ batch' = IF Collecting THEN [batch EXCEPT ![p] = @ \cup {Record(p)}] ELSE batch
    /\ Goes(p, "committing")
    /\ UNCHANGED <<disk, mem, published, committed, failures, quarantined, received, overlapped, faults>>

HandlerThrows(p) ==
    /\ poll[p].at = "handling" /\ ~Collecting
    /\ Fault("fail", MaxFails)
    /\ Rejects(p)
    /\ UNCHANGED <<disk, mem, published, handled, committed, failures, quarantined, overlapped>>

\* What the poll asks the chain to do to the state.
Mutated(p, s) ==
    CASE poll[p].at = "quarantining" -> QuarantineLegacyEvent(s, Record(p))
      [] poll[p].at = "failing"      -> RecordEventFailure(s, Record(p))
      [] poll[p].at = "clearing"     -> ClearEventFailure(s, Record(p))
      [] poll[p].at = "committing"   -> CommitEventCursor(s, Record(p))

Saved(p) ==
    /\ mem' = Mutated(p, mem) /\ disk' = mem'
    /\ UNCHANGED <<published, handled, failures, overlapped, faults>>

Committed(p) ==
    /\ poll[p].at = "committing"
    /\ Saved(p)
    /\ committed' = committed \cup ({Record(p)} \cap handled)
    /\ StepsOn(p)
    /\ UNCHANGED quarantined

\* The mutation makes the record a dead letter.
IsQuarantine(p) ==
    \/ poll[p].at = "quarantining"
    \/ poll[p].at = "failing" /\ Quarantines(mem, Record(p))

Quarantined(p) ==
    /\ IsQuarantine(p)
    /\ Saved(p)
    /\ quarantined' = quarantined \cup {Record(p)}
    /\ StepsOn(p)
    /\ UNCHANGED committed

\* The failure is recorded and poll() rejects with it.
FailureCounted(p) ==
    /\ poll[p].at = "failing" /\ ~IsQuarantine(p)
    /\ Saved(p)
    /\ Rejects(p)
    /\ UNCHANGED <<committed, quarantined>>

FailureCleared(p) ==
    /\ poll[p].at = "clearing"
    /\ Saved(p)
    /\ Goes(p, Dispatch(mem', Record(p)))
    /\ UNCHANGED <<batch, committed, quarantined, received>>

\* store.save() rejects, before its rename or after it.
SaveFails(p, renamed) ==
    /\ poll[p].at \in MutationStages
    /\ Fault("save", MaxSaveFails)
    /\ disk' = IF renamed THEN Mutated(p, mem) ELSE disk
    /\ quarantined' = IF renamed /\ IsQuarantine(p) THEN quarantined \cup {Record(p)} ELSE quarantined
    /\ Rejects(p)
    /\ UNCHANGED <<mem, published, handled, committed, failures, overlapped>>

Saves(p) == Committed(p) \/ Quarantined(p) \/ FailureCounted(p) \/ FailureCleared(p)

PollStep(p) ==
    \/ PollStart(p) \/ ReadPage(p) \/ Aborts(p)
    \/ MeetsLegacy(p) \/ DecryptFails(p) \/ Decrypts(p)
    \/ HandlerReturns(p) \/ HandlerThrows(p)
    \/ Saves(p) \/ \E renamed \in BOOLEAN : SaveFails(p, renamed)

Init ==
    /\ disk = EmptyState /\ mem = EmptyState
    /\ poll = [p \in Pollers |-> NoPoll] /\ batch = [p \in Pollers |-> {}]
    /\ published = 0
    /\ handled = {} /\ committed = {} /\ quarantined = {} /\ received = {}
    /\ failures = [e \in Log |-> 0]
    /\ overlapped = FALSE
    /\ faults = NoFaults

Next == Publish \/ Crash \/ \E p \in Pollers : PollStep(p)

Spec == Init /\ [][Next]_vars

-----------------------------------------------------------------------------
(* Safety.                                                                 *)

\* Nothing but the handler or the operator takes these from the table of failures.
Unsettled(e) == e \in Directed \cup Broken \cup Legacy /\ e \notin handled

\* The cursor never passes work: whatever polls overlap, fail or crash, an
\* event at or below it was handled, was not for this runtime, or is a dead
\* letter whose quarantine was saved (poll commits after the handler).
\* A dead letter that the cursor passed and that was never handled stays visible
\* in the table of failures unless more than MaxFailures events failed
\* (sdk/node/README.md:113 "inspect retained dead letters with
\* listQuarantinedEvents()"), as long as no two polls of the Task have overlapped.
NothingSkipped ==
    /\ \A e \in Directed : e <= disk.cursor => e \in handled \cup quarantined
    /\ ~overlapped /\ Cardinality({e \in Log : e \in quarantined \/ failures[e] > 0}) <= MaxFailures
        => \A e \in quarantined : Unsettled(e) /\ e <= disk.cursor => FailureRecorded(disk, e)

\* No event of a current format becomes a dead letter before it failed
\* maxEventFailures times, however the failures are spread over restarts and
\* over overlapping polls, and handler exceptions do not count
\* (sdk/node/README.md:113).
QuarantineIsEarned ==
    /\ TypeOK
    /\ \A e \in quarantined \ Legacy : failures[e] >= MaxEventFailures

\* Once an event's handling is committed no poll starts its handler again:
\* the cursor covers what the ledger forgets, the ledger what the cursor of an
\* older poll uncovers.
CommittedIsNotHandledAgain ==
    [][\A p \in Pollers :
          poll[p].at # "handling" /\ poll'[p].at = "handling" => Record(p)' \notin committed]_poll

\* integrations/mcp/src/server.ts:229 "Durably receive": an event that a
\* collecting poll committed is on its way to a caller or was received.
CommittedIsReceived ==
    Collecting =>
        committed \subseteq received \cup UNION {batch[p] : p \in Pollers}

-----------------------------------------------------------------------------
(* Liveness: every caller polls again (watch, the polling loops of the     *)
(* integrations), requests and handlers end, saves succeed some day.       *)

Fairness ==
    \A p \in Pollers :
        /\ WF_vars(PollStart(p)) /\ WF_vars(ReadPage(p))
        /\ WF_vars(MeetsLegacy(p) \/ Decrypts(p))
        /\ WF_vars(poll[p].at = "next" /\ Record(p) \in Broken /\ DecryptFails(p))
        /\ WF_vars(HandlerReturns(p)) /\ WF_vars(Saves(p))

FairSpec == Spec /\ Fairness

\* No event that fails to decrypt, whose handler throws finitely often or whose
\* commit is lost to a crash or a failing save holds the Task up for ever: the
\* cursor passes everything the relay appended, but for a malformed snapshot and
\* the events before it that can share a page with it.
EveryEventIsPassed ==
    \A e \in Log :
        (\A m \in Malformed : e + PageSize <= m) => (published >= e ~> mem.cursor >= e)
=============================================================================
