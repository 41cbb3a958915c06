---------------------------- MODULE AgentRuntime ----------------------------
(***************************************************************************)
(* Direct messaging of one agent runtime (sdk/node/src/agent.ts) against   *)
(* the relay.  The runtime is one event loop: an action is the code one    *)
(* task runs between two awaits that really wait (network, disk, handler), *)
(* and actions of different tasks interleave.  State mutations go through  *)
(* a single chain (mutateRuntimeState): the head is saved to disk, then    *)
(* swapped into memory, then the task that asked for it continues.         *)
(*                                                                         *)
(* The relay is not part of the repository.  It is modelled from the       *)
(* frames the runtime exchanges with it: it pushes every undelivered       *)
(* message on each connection, forgets one when it is acknowledged, and    *)
(* sends a receipt for every envelope it took until that is acknowledged.  *)
(* Channels are sets of frames, so frames also overtake each other; a      *)
(* broken connection loses everything in flight.                           *)
(***************************************************************************)
EXTENDS AgentStore

CONSTANTS
    Poison,        \* messages whose processing fails every time
    Reads,         \* messages the application calls markRead() on
    MaxQueue,      \* bound on the pending mutations
    QuietRestart,  \* start() after stop() waits until nothing is in progress
    MaxCrashes, MaxStops, MaxDrops, MaxRepeats,   \* bounds on faults
    MaxSaveFails, MaxFails                        \* ... failed saves, handlers

ASSUME PoisonAssumption == Poison \subseteq Incoming /\ Reads \subseteq Incoming
ASSUME BoundsAssumption ==
    /\ {MaxQueue, MaxCrashes, MaxStops, MaxDrops, MaxRepeats} \subseteq Nat
    /\ {MaxSaveFails, MaxFails} \subseteq Nat
    /\ QuietRestart \in BOOLEAN

VARIABLES
    disk,       \* the runtime state file
    phase,      \* dead process, first start(), running, stop()ped, start() again
    loaded,     \* what a start() in progress read from the state file
    mem,        \* this.runtimeState
    queue,      \* the chain of pending mutations (this.stateMutation)
    saved,      \* the head of the chain is on disk and not yet in memory
    work,       \* processingIncoming: how far each message's processing is
    sends,      \* how far each send() is
    drain,      \* inboxDrain: its position and the messages it has left
    timer,      \* inboxRetryTimer is set
    conn,       \* this.connected
    sent,       \* sentThisConnection
    toRelay, toAgent,           \* frames in flight
    mailbox,    \* relay: messages it holds for this agent
    pushed,     \* relay: what it pushed on this connection
    got,        \* relay: envelopes it took from this agent
    owed,       \* relay: envelopes whose receipt is not acknowledged
    handled,    \* history: messages whose handler returned normally
    early,      \* history: messages marked by id before their completion was on its way
    faults      \* counters of the bounded faults

procVars == <<mem, queue, saved, work, sends, drain, timer, sent>>
relayVars == <<mailbox, pushed, got, owed>>
vars == <<disk, phase, loaded, procVars, conn, toRelay, toAgent, relayVars, handled, early, faults>>

Ack(m, state) == [kind |-> "ACK", id |-> m, state |-> state]
AckReceived(m) == [kind |-> "ACK_RECEIVED", id |-> m]
Message(m) == [kind |-> "MESSAGE", id |-> m]
Deliver(e) == [kind |-> "DELIVER", id |-> e]
Receipt(e) == [kind |-> "RECEIPT", id |-> e]
ReceiptAck(e) == [kind |-> "RECEIPT_ACK", id |-> e]

ToRelayFrames ==
    [kind : {"ACK"}, id : Incoming, state : {"DELIVERED", "READ"}]
      \cup [kind : {"DELIVER", "RECEIPT_ACK"}, id : Envelopes]
ToAgentFrames ==
    [kind : {"MESSAGE", "ACK_RECEIVED"}, id : Incoming]
      \cup [kind : {"RECEIPT"}, id : Envelopes]

WorkStages == {"idle", "fetching", "mirroring", "handling", "completing"}
SendStages == {"idle", "queueing", "copying", "returned", "failed"}
DrainStages == {"off", "next", "queued", "joined"}
Phases == {"dead", "starting", "running", "stopped", "reloading"}
NoFaults == [crash |-> 0, stop |-> 0, drop |-> 0, repeat |-> 0, save |-> 0, fail |-> 0]

TypeOK ==
    /\ {disk, mem, loaded} \subseteq {s \in States : WellFormed(s)}
    /\ phase \in Phases /\ saved \in BOOLEAN /\ timer \in BOOLEAN /\ conn \in BOOLEAN
    /\ queue \in Seq(Mutations)
    /\ work \in [Incoming -> WorkStages]
    /\ handled \subseteq Incoming /\ early \subseteq Incoming
    /\ sends \in [Sends -> SendStages]
    /\ drain \in [at : DrainStages, left : Seq(Incoming)]
    /\ sent \subseteq Envelopes
    /\ toRelay \subseteq ToRelayFrames /\ toAgent \subseteq ToAgentFrames
    /\ mailbox \subseteq Incoming /\ pushed \subseteq Incoming \cup Envelopes
    /\ got \subseteq Envelopes /\ owed \subseteq Envelopes
    /\ faults \in [DOMAIN NoFaults -> Nat]

-----------------------------------------------------------------------------
(* The pieces handlers are made of.                                        *)

Idle == [x \in Incoming |-> "idle"]
NoDrain == [at |-> "off", left |-> <<>>]

Fault(kind, max) ==
    /\ faults[kind] < max
    /\ faults' = [faults EXCEPT ![kind] = @ + 1]

Room == Len(queue) < MaxQueue

Enqueue(mu) == queue' = Append(queue, mu)

\* scheduleInboxRetry, given the inbox at that moment.
RetryScheduled(state) ==
    timer' = (timer \/ (phase # "stopped" /\ state.inbox # <<>>))

\* drainInbox on a connected agent, the snapshot it works through.
Draining(left) == IF left = <<>> THEN NoDrain ELSE [at |-> "next", left |-> left]

DrainStarted(state) ==
    drain' = IF drain.at = "off" THEN Draining(state.inbox) ELSE drain

\* Mutation: envelopes count as sent without being sent.
OutboxSkipped(state) ==
    /\ sent' = (IF conn THEN sent \cup state.outbox ELSE sent)
    /\ UNCHANGED toRelay

\* drainOutbox: DELIVER whatever this connection has not carried yet.
OutboxDrained(state) ==
    IF conn
    THEN /\ toRelay' = toRelay \cup {Deliver(e) : e \in state.outbox \ sent}
         /\ sent' = sent \cup state.outbox
    ELSE UNCHANGED <<toRelay, sent>>

\* The drain waits on the processing of m, its own or one it joined.
DrainAwaits(m) == drain.at = "joined" /\ Head(drain.left) = m

\* Processing of m is over: forget the promise, wake the drain.
WorkEnds(m) == work' = [work EXCEPT ![m] = "idle"]
DrainGoesOn(m) == drain' = IF DrainAwaits(m) THEN Draining(Tail(drain.left)) ELSE drain
DrainGivesUp(m) == drain' = IF DrainAwaits(m) THEN NoDrain ELSE drain

\* Mutation: no retry is scheduled.
WorkGivenUp(m, state) == WorkEnds(m) /\ DrainGivesUp(m) /\ UNCHANGED timer

\* processIncomingMessage threw.
WorkFails(m, state) == WorkEnds(m) /\ DrainGivesUp(m) /\ RetryScheduled(state)

\* Process m unless its processing is already under way.
WorkJoined(m) == work' = [work EXCEPT ![m] = IF @ = "idle" THEN "fetching" ELSE @]

-----------------------------------------------------------------------------
(* Process, connection and relay.                                          *)

InProgress ==
    \/ queue # <<>> \/ drain.at # "off"
    \/ \E m \in Incoming : work[m] # "idle"
    \/ \E o \in Sends : sends[o] \in {"queueing", "copying"}

\* start() reads the state file, in a new process or after stop().
Start ==
    /\ \/ phase = "dead" /\ phase' = "starting"
       \/ phase = "stopped" /\ phase' = "reloading" /\ (QuietRestart => ~InProgress)
    /\ loaded' = disk
    /\ UNCHANGED <<disk, procVars, conn, toRelay, toAgent, relayVars, handled, early, faults>>

\* ... and makes it the runtime state, whatever this.runtimeState is by now.
StartLoaded ==
    /\ phase \in {"starting", "reloading"}
    /\ phase' = "running"
    /\ mem' = loaded /\ loaded' = EmptyState
    /\ UNCHANGED <<disk, queue, saved, work, sends, drain, timer, sent, conn,
                   toRelay, toAgent, relayVars, handled, early, faults>>

\* stop(): the socket closes and the timer goes; tasks in progress go on.
Stop ==
    /\ phase = "running"
    /\ Fault("stop", MaxStops)
    /\ phase' = "stopped"
    /\ conn' = FALSE /\ toRelay' = {} /\ toAgent' = {}
    /\ timer' = FALSE
    /\ UNCHANGED <<disk, loaded, mem, queue, saved, work, sends, drain, sent,
                   relayVars, handled, early>>

\* The process dies between any two steps; a send() in progress never returns.
Crash ==
    /\ phase # "dead"
    /\ Fault("crash", MaxCrashes)
    /\ phase' = "dead" /\ loaded' = EmptyState
    /\ conn' = FALSE /\ toRelay' = {} /\ toAgent' = {}
    /\ mem' = EmptyState /\ queue' = <<>> /\ saved' = FALSE
    /\ work' = Idle /\ drain' = NoDrain /\ timer' = FALSE /\ sent' = {}
    /\ sends' = [o \in Sends |-> IF sends[o] \in {"queueing", "copying"} THEN "failed" ELSE sends[o]]
    /\ UNCHANGED <<disk, relayVars, handled, early>>

\* connect() up to READY: both queues are drained on the new connection.
Connect ==
    /\ phase = "running" /\ ~conn
    /\ conn' = TRUE
    /\ toRelay' = {Deliver(e) : e \in mem.outbox}
    /\ sent' = mem.outbox
    /\ pushed' = {}
    /\ DrainStarted(mem)
    /\ UNCHANGED <<disk, phase, loaded, mem, queue, saved, work, sends, timer, toAgent,
                   mailbox, got, owed, handled, early, faults>>

\* The socket closes under the runtime.
Drop ==
    /\ conn
    /\ Fault("drop", MaxDrops)
    /\ conn' = FALSE /\ toRelay' = {} /\ toAgent' = {}
    /\ UNCHANGED <<disk, phase, loaded, procVars, relayVars, handled, early>>

RelayUnchanged == UNCHANGED <<disk, phase, loaded, procVars, conn, handled, early>>

\* The relay pushes what it holds, once per connection.
RelayPush(m) ==
    /\ conn /\ m \in mailbox \ pushed
    /\ pushed' = pushed \cup {m}
    /\ toAgent' = toAgent \cup {Message(m)}
    /\ RelayUnchanged /\ UNCHANGED <<toRelay, mailbox, got, owed, faults>>

\* ... or again, without a new connection.
RelayRepeat(m) ==
    /\ conn /\ m \in mailbox \cap pushed
    /\ Fault("repeat", MaxRepeats)
    /\ toAgent' = toAgent \cup {Message(m)}
    /\ RelayUnchanged /\ UNCHANGED <<toRelay, relayVars>>

RelayTakesAck(m, state) ==
    /\ Ack(m, state) \in toRelay
    /\ toRelay' = toRelay \ {Ack(m, state)}
    /\ mailbox' = mailbox \ {m}
    /\ toAgent' = toAgent \cup {AckReceived(m)}
    /\ RelayUnchanged /\ UNCHANGED <<pushed, got, owed, faults>>

RelayTakesEnvelope(e) ==
    /\ Deliver(e) \in toRelay
    /\ toRelay' = toRelay \ {Deliver(e)}
    /\ got' = got \cup {e} /\ owed' = owed \cup {e} /\ pushed' = pushed \ {e}
    /\ RelayUnchanged /\ UNCHANGED <<toAgent, mailbox, faults>>

RelayReceipt(e) ==
    /\ conn /\ e \in owed \ pushed
    /\ pushed' = pushed \cup {e}
    /\ toAgent' = toAgent \cup {Receipt(e)}
    /\ RelayUnchanged /\ UNCHANGED <<toRelay, mailbox, got, owed, faults>>

RelayTakesReceiptAck(e) ==
    /\ ReceiptAck(e) \in toRelay
    /\ toRelay' = toRelay \ {ReceiptAck(e)}
    /\ owed' = owed \ {e}
    /\ RelayUnchanged /\ UNCHANGED <<toAgent, mailbox, pushed, got, faults>>

Relay ==
    \/ \E m \in Incoming : RelayPush(m) \/ RelayRepeat(m)
    \/ \E m \in Incoming, state \in {"DELIVERED", "READ"} : RelayTakesAck(m, state)
    \/ \E e \in Envelopes : RelayTakesEnvelope(e) \/ RelayReceipt(e) \/ RelayTakesReceiptAck(e)

-----------------------------------------------------------------------------
(* Frames from the relay, and the inbox drain.                             *)

Received(frame) ==
    /\ frame \in toAgent
    /\ toAgent' = toAgent \ {frame}

FrameUnchanged == UNCHANGED <<disk, phase, loaded, mem, saved, sends, conn, sent,
                              relayVars, handled, early, faults>>

\* A MESSAGE whose completion is in the ledger is acknowledged again.
ReceiveConfirmed(m) ==
    /\ Received(Message(m))
    /\ Processed(mem, m)
    /\ toRelay' = toRelay \cup {Ack(m, Confirmed(mem, m))}
    /\ RetryScheduled(mem)
    /\ FrameUnchanged /\ UNCHANGED <<queue, work, drain>>

\* Mutation: what is staged already is acknowledged as if it were processed.
ReceiveStagedAcks(m) ==
    /\ Received(Message(m))
    /\ ~Processed(mem, m) /\ Staged(mem, m)
    /\ toRelay' = toRelay \cup {Ack(m, "DELIVERED")}
    /\ FrameUnchanged /\ UNCHANGED <<queue, work, drain, timer>>

\* One that is staged already starts, or joins, the processing of m.
ReceiveStaged(m) ==
    /\ Received(Message(m))
    /\ ~Processed(mem, m) /\ Staged(mem, m)
    /\ WorkJoined(m)
    /\ FrameUnchanged /\ UNCHANGED <<queue, drain, timer, toRelay>>

\* A new one is staged first.
ReceiveNew(m) ==
    /\ Room /\ Received(Message(m))
    /\ ~Processed(mem, m) /\ ~Staged(mem, m)
    /\ Enqueue(Mutation("remember", m, "frame"))
    /\ FrameUnchanged /\ UNCHANGED <<work, drain, timer, toRelay>>

ReceiveAckReceived(m) ==
    /\ Room /\ Received(AckReceived(m))
    /\ IF Staged(mem, m) THEN Enqueue(Mutation("forget", m, "agent")) ELSE UNCHANGED queue
    /\ FrameUnchanged /\ UNCHANGED <<work, drain, timer, toRelay>>

ReceiveReceipt(e) ==
    /\ Room /\ Received(Receipt(e))
    /\ IF e \in mem.outbox
       THEN Enqueue(Mutation("remove", e, "agent")) /\ UNCHANGED toRelay
       ELSE toRelay' = toRelay \cup {ReceiptAck(e)} /\ UNCHANGED queue
    /\ FrameUnchanged /\ UNCHANGED <<work, drain, timer>>

\* The retry timer runs drainInbox, which reschedules itself when offline.
TimerFires ==
    /\ timer
    /\ IF conn \/ drain.at # "off"
       THEN timer' = FALSE /\ DrainStarted(mem)
       ELSE timer' = (mem.inbox # <<>>) /\ UNCHANGED drain
    /\ UNCHANGED <<disk, phase, loaded, mem, queue, saved, work, sends, conn, sent,
                   toRelay, toAgent, relayVars, handled, early, faults>>

\* The drain hands the next message of its snapshot to handleFrame.
DrainConfirmed ==
    /\ drain.at = "next" /\ Processed(mem, Head(drain.left))
    /\ RetryScheduled(mem)
    /\ IF conn
       THEN /\ toRelay' = toRelay \cup {Ack(Head(drain.left), Confirmed(mem, Head(drain.left)))}
            /\ drain' = Draining(Tail(drain.left))
       ELSE drain' = NoDrain /\ UNCHANGED toRelay
    /\ FrameUnchanged /\ UNCHANGED <<queue, work, toAgent>>

\* Mutation: the drain does not look at the ledger.
DrainUnchecked ==
    /\ drain.at = "next" /\ Staged(mem, Head(drain.left))
    /\ WorkJoined(Head(drain.left))
    /\ drain' = [drain EXCEPT !.at = "joined"]
    /\ FrameUnchanged /\ UNCHANGED <<queue, timer, toRelay, toAgent>>

DrainStaged ==
    /\ drain.at = "next"
    /\ ~Processed(mem, Head(drain.left)) /\ Staged(mem, Head(drain.left))
    /\ WorkJoined(Head(drain.left))
    /\ drain' = [drain EXCEPT !.at = "joined"]
    /\ FrameUnchanged /\ UNCHANGED <<queue, timer, toRelay, toAgent>>

\* It was confirmed by the relay, and pruned from the ledger, meanwhile.
DrainForgotten ==
    /\ Room /\ drain.at = "next"
    /\ ~Processed(mem, Head(drain.left)) /\ ~Staged(mem, Head(drain.left))
    /\ Enqueue(Mutation("remember", Head(drain.left), "drain"))
    /\ drain' = [drain EXCEPT !.at = "queued"]
    /\ FrameUnchanged /\ UNCHANGED <<work, timer, toRelay, toAgent>>

Receive ==
    \/ \E m \in Incoming : \/ ReceiveConfirmed(m) \/ ReceiveStaged(m) \/ ReceiveNew(m)
                           \/ ReceiveAckReceived(m)
    \/ \E e \in Envelopes : ReceiveReceipt(e)

DrainStep == DrainConfirmed \/ DrainStaged \/ DrainForgotten

-----------------------------------------------------------------------------
(* Processing one message, and the application's calls.                    *)

AppUnchanged == UNCHANGED <<disk, phase, loaded, mem, saved, conn, sent, toRelay, toAgent, relayVars>>

\* Mutation: the handler does not wait for the activity copy.
FetchHandlesFirst(m) ==
    /\ Room /\ m \notin Poison
    /\ work[m] = "fetching"
    /\ work' = [work EXCEPT ![m] = "handling"]
    /\ IF m \in Mirrored THEN Enqueue(Mutation("queue", Copy(m), "agent")) ELSE UNCHANGED queue
    /\ AppUnchanged /\ UNCHANGED <<sends, drain, timer, handled, early, faults>>

\* Sender keys fetched and the text decrypted: the activity copy comes
\* before the handler.
FetchSucceeds(m) ==
    /\ Room /\ m \notin Poison
    /\ work[m] = "fetching"
    /\ IF m \in Mirrored
       THEN /\ Enqueue(Mutation("queue", Copy(m), "agent"))
            /\ work' = [work EXCEPT ![m] = "mirroring"]
       ELSE work' = [work EXCEPT ![m] = "handling"] /\ UNCHANGED queue
    /\ AppUnchanged /\ UNCHANGED <<sends, drain, timer, handled, early, faults>>

\* A request fails, the text does not decrypt, or the handler throws.
Throws(m) ==
    /\ work[m] \in {"fetching", "handling"}
    /\ IF m \in Poison THEN UNCHANGED faults ELSE Fault("fail", MaxFails)
    /\ WorkFails(m, mem)
    /\ AppUnchanged /\ UNCHANGED <<queue, sends, handled, early>>

\* The handler returns, having called markRead() (state READ) or not.
HandlerReturns(m, state) ==
    /\ Room
    /\ work[m] = "handling" /\ (state = "READ" => m \in Reads)
    /\ work' = [work EXCEPT ![m] = "completing"]
    /\ Enqueue(Mutation("complete", m, state))
    /\ handled' = handled \cup {m}
    /\ AppUnchanged /\ UNCHANGED <<sends, drain, timer, early, faults>>

\* The application calls an agent that has been started.
CallsAllowed == phase \in {"running", "stopped"} \/ (phase = "reloading" /\ ~QuietRestart)

\* What the ledger has, or will have when the chain is done.
Completing(m) ==
    Processed(mem, m) \/ \E i \in 1 .. Len(queue) : queue[i].op = "complete" /\ queue[i].id = m

\* markRead() after the handler returned, or markMessageRead() with an id the
\* application kept, over restarts too.
MarkRead(m) ==
    /\ Room /\ CallsAllowed /\ m \in Reads \cap handled /\ ~ (Processed(mem, m) /\ m \in mem.read)
    /\ Enqueue(Mutation("markRead", m, "READ"))
    /\ early' = IF Completing(m) THEN early ELSE early \cup {m}
    /\ AppUnchanged /\ UNCHANGED <<work, sends, drain, timer, handled, faults>>

\* Mutation: send() does not wait for the state file.
SendUnsaved(o) ==
    /\ Room /\ CallsAllowed /\ sends[o] = "idle"
    /\ sends' = [sends EXCEPT ![o] = "returned"]
    /\ Enqueue(Mutation("queue", o, "agent"))
    /\ AppUnchanged /\ UNCHANGED <<work, drain, timer, handled, early, faults>>

\* send() up to queueEnvelope: the recipient is authorized, the envelope made.
Send(o) ==
    /\ Room /\ CallsAllowed /\ sends[o] = "idle"
    /\ sends' = [sends EXCEPT ![o] = "queueing"]
    /\ Enqueue(Mutation("queue", o, "agent"))
    /\ AppUnchanged /\ UNCHANGED <<work, drain, timer, handled, early, faults>>

Application ==
    \/ \E m \in Incoming : FetchSucceeds(m) \/ Throws(m) \/ MarkRead(m)
    \/ \E m \in Incoming, state \in {"DELIVERED", "READ"} : HandlerReturns(m, state)
    \/ \E o \in Sends : Send(o)

-----------------------------------------------------------------------------
(* The mutation chain: save, then swap and continue.                       *)

\* Mutation: memory shows the change before the file has it.
SaveMemoryFirst ==
    /\ queue # <<>> /\ ~saved
    /\ mem' = Apply(mem, Head(queue))
    /\ saved' = TRUE
    /\ UNCHANGED <<disk, phase, loaded, queue, work, sends, drain, timer, sent, conn,
                   toRelay, toAgent, relayVars, handled, early, faults>>

Save ==
    /\ queue # <<>> /\ ~saved
    /\ disk' = Apply(mem, Head(queue))
    /\ saved' = TRUE
    /\ UNCHANGED <<phase, loaded, mem, queue, work, sends, drain, timer, sent, conn,
                   toRelay, toAgent, relayVars, handled, early, faults>>

\* Swap the head in; the continuation may append one more mutation.
Swapped(next) ==
    /\ saved
    /\ mem' = disk /\ saved' = FALSE
    /\ queue' = Tail(queue) \o next

SwapUnchanged == UNCHANGED <<disk, phase, loaded, conn, toAgent, relayVars, handled, early, faults>>

\* queueEnvelope returns to sendEnvelope, or to mirrorActivity, of a send.
SwapSent(o, e) ==
    /\ Head(queue) = Mutation("queue", e, "agent")
    /\ e \in {o, Copy(o)}
    /\ OutboxDrained(disk)
    /\ LET copies == e = o /\ o \in Mirrored
       IN  /\ Swapped(IF copies THEN <<Mutation("queue", Copy(o), "agent")>> ELSE <<>>)
           /\ sends' = [sends EXCEPT ![o] = IF copies THEN "copying" ELSE "returned"]
    /\ SwapUnchanged /\ UNCHANGED <<work, drain, timer>>

\* The supervisor's copy of m is queued: the handler runs.
SwapCopied(m) ==
    /\ Head(queue) = Mutation("queue", Copy(m), "agent")
    /\ Swapped(<<>>)
    /\ OutboxDrained(disk)
    /\ work' = [work EXCEPT ![m] = "handling"]
    /\ SwapUnchanged /\ UNCHANGED <<sends, drain, timer>>

SwapRemoved(e) ==
    /\ Head(queue) = Mutation("remove", e, "agent")
    /\ Swapped(<<>>)
    /\ sent' = sent \ {e}
    /\ IF conn
       THEN toRelay' = toRelay \cup {ReceiptAck(e)} /\ UNCHANGED timer
       ELSE RetryScheduled(disk) /\ UNCHANGED toRelay
    /\ SwapUnchanged /\ UNCHANGED <<work, sends, drain>>

\* A drain that waited for this mutation now waits for the processing.
DrainJoins(by) ==
    drain' = IF by = "drain" /\ drain.at = "queued" THEN [drain EXCEPT !.at = "joined"] ELSE drain

\* Mutation: a message is acknowledged once it is staged.
SwapRememberedAcks(m, by) ==
    /\ Head(queue) = Mutation("remember", m, by)
    /\ Swapped(<<>>)
    /\ WorkJoined(m)
    /\ DrainJoins(by)
    /\ toRelay' = IF conn THEN toRelay \cup {Ack(m, "DELIVERED")} ELSE toRelay
    /\ SwapUnchanged /\ UNCHANGED <<sends, timer, sent>>

SwapRemembered(m, by) ==
    /\ Head(queue) = Mutation("remember", m, by)
    /\ Swapped(<<>>)
    /\ WorkJoined(m)
    /\ DrainJoins(by)
    /\ SwapUnchanged /\ UNCHANGED <<sends, timer, sent, toRelay>>

\* The completion is durable: acknowledge, or fail because we are offline.
SwapCompleted(m, state) ==
    /\ Head(queue) = Mutation("complete", m, state)
    /\ Swapped(<<>>)
    /\ WorkEnds(m)
    /\ RetryScheduled(disk)
    /\ IF conn
       THEN toRelay' = toRelay \cup {Ack(m, state)} /\ DrainGoesOn(m)
       ELSE UNCHANGED toRelay /\ DrainGivesUp(m)
    /\ SwapUnchanged /\ UNCHANGED <<sends, sent>>

SwapMarkedRead(m) ==
    /\ Head(queue) = Mutation("markRead", m, "READ")
    /\ Swapped(<<>>)
    /\ IF conn
       THEN toRelay' = toRelay \cup {Ack(m, "READ")} /\ RetryScheduled(disk)
       ELSE UNCHANGED <<toRelay, timer>>
    /\ SwapUnchanged /\ UNCHANGED <<work, sends, drain, sent>>

SwapForgotten(m) ==
    /\ Head(queue) = Mutation("forget", m, "agent")
    /\ Swapped(<<>>)
    /\ timer' = (timer /\ disk.inbox # <<>>)
    /\ SwapUnchanged /\ UNCHANGED <<work, sends, drain, sent, toRelay>>

Swap ==
    /\ saved
    /\ \/ \E o \in Sends, e \in Envelopes : SwapSent(o, e)
       \/ \E e \in Envelopes : SwapRemoved(e)
       \/ \E m \in Incoming, by \in {"frame", "drain"} : SwapRemembered(m, by)
       \/ \E m \in Incoming, state \in {"DELIVERED", "READ"} : SwapCompleted(m, state)
       \/ \E m \in Incoming : SwapCopied(m) \/ SwapMarkedRead(m) \/ SwapForgotten(m)

\* Who learns that its mutation was not saved.
SaveRejected(mu) ==
    LET asking == {o \in Sends : mu.id \in {o, Copy(o)}}
    IN  CASE mu.op = "queue" /\ asking # {} ->
                /\ sends' = [o \in Sends |-> IF o \in asking THEN "failed" ELSE sends[o]]
                /\ UNCHANGED <<work, drain, timer>>
          [] mu.op = "queue" /\ asking = {} ->
                WorkFails(CHOOSE m \in Incoming : mu.id = Copy(m), mem) /\ UNCHANGED sends
          [] mu.op = "complete" -> WorkFails(mu.id, mem) /\ UNCHANGED sends
          [] mu.op = "remember" /\ mu.by = "drain" ->
                drain' = NoDrain /\ RetryScheduled(mem) /\ UNCHANGED <<work, sends>>
          [] mu.op = "markRead" -> UNCHANGED <<work, drain, timer, sends>>
          [] OTHER -> RetryScheduled(mem) /\ UNCHANGED <<work, drain, sends>>

\* store.save() rejects: before its rename, or after it (the last chmod).
SaveFails(renamed) ==
    /\ queue # <<>> /\ ~saved
    /\ Fault("save", MaxSaveFails)
    /\ disk' = IF renamed THEN Apply(mem, Head(queue)) ELSE disk
    /\ queue' = Tail(queue)
    /\ SaveRejected(Head(queue))
    /\ UNCHANGED <<phase, loaded, mem, saved, sent, conn, toRelay, toAgent, relayVars,
                   handled, early>>

Store == Save \/ Swap \/ \E renamed \in BOOLEAN : SaveFails(renamed)

-----------------------------------------------------------------------------

Init ==
    /\ disk = EmptyState /\ mem = EmptyState
    /\ phase = "dead" /\ loaded = EmptyState /\ conn = FALSE
    /\ queue = <<>> /\ saved = FALSE
    /\ work = Idle /\ drain = NoDrain /\ timer = FALSE /\ sent = {}
    /\ sends = [o \in Sends |-> "idle"]
    /\ toRelay = {} /\ toAgent = {}
    /\ mailbox = Incoming /\ pushed = {} /\ got = {} /\ owed = {}
    /\ handled = {} /\ early = {}
    /\ faults = NoFaults

Next == Start \/ StartLoaded \/ Stop \/ Crash \/ Connect \/ Drop \/ Relay \/ Receive \/ TimerFires \/ DrainStep
          \/ Application \/ Store

Spec == Init /\ [][Next]_vars

-----------------------------------------------------------------------------
(* Safety.                                                                 *)

\* What the relay has, or the state file will send it on some connection.
Custody(e) == e \in disk.outbox \/ e \in got

\* An envelope whose send() returned is never lost: whatever crashes, saves
\* and receipts come between, it is in the state file or at the relay
\* (queueEnvelope, removeFromOutbox).
AcceptedIsKept == \A o \in Sends : sends[o] = "returned" => Custody(o)

\* The supervisor's copy is safe before the handler sees the message, and for
\* good: a handled message was never hidden from its supervisor
\* (mirrorActivity before messageHandler in processIncomingMessage).
CopyPrecedesHandler ==
    \A m \in Mirrored \cap Incoming :
        m \in handled \/ work[m] \in {"handling", "completing"} => Custody(Copy(m))

\* An acknowledgement, in flight or taken by the relay, vouches for a handler
\* that returned normally: the relay discards no message for less, through
\* every crash, redelivery and failed save (completeIncoming before the ACK).
AckedWasHandled ==
    \A m \in Incoming :
        m \notin mailbox \/ (\E state \in {"DELIVERED", "READ"} : Ack(m, state) \in toRelay)
          => m \in handled

\* No two mutations are interleaved: memory shows a change only when the file
\* has it, so nothing the runtime decides on is undone by a restart: not an entry
\* of the ledger or its READ, by which handleFrame and the drain acknowledge
\* without the handler, not a staged message, not an envelope.  What the file may
\* lack of memory's outbox is at the relay, of its inbox what the relay has
\* discarded, and of its ledger the oldest entry, if the file is ahead by a
\* newer one that pruned it (mutateRuntimeState).
MemoryIsDurable ==
    phase = "running" =>
             /\ mem.outbox \subseteq disk.outbox \cup got
             /\ \A m \in Incoming : Staged(mem, m) /\ m \in mailbox => Staged(disk, m)
             /\ \A m \in Incoming : Processed(mem, m) =>
                    \/ Processed(disk, m) /\ (m \in mem.read => m \in disk.read)
                    \/ /\ Head(mem.ledger) = m /\ Len(disk.ledger) = MaxProcessed
                       /\ ~Processed(mem, Last(disk.ledger))

\* What the runtime has staged is not written out of the state file before the
\* relay has discarded it: one of the two has it at every moment, also when
\* the process dies next (forgetIncoming).
StagedUntilConfirmed ==
    [][\A m \in Incoming : Staged(mem, m) /\ ~Staged(disk', m) => m \notin mailbox]_disk

\* sdk/node/README.md:155: outgoing envelopes are "removed only after their
\* correlated server receipt": the file never loses one the relay has not, but
\* for one that only a failed save put there and that memory does not have.
RemovedOnlyAfterReceipt ==
    [][\A e \in Envelopes : e \in disk.outbox /\ e \notin disk'.outbox =>
        e \in got \/ (faults.save # 0 /\ e \notin mem.outbox)]_disk

\* The ledger is heeded, as long as every save succeeded: the handler is not
\* started for a message whose completion is in it, whatever duplicates are in
\* flight (the check in handleFrame comes before an await; the mutation chain is
\* what makes it still true afterwards), and while it says READ, no ACK of the
\* lesser state DELIVERED is sent, whichever of markRead(), the handler's return
\* and a redelivery comes first. Not so for a message marked by its id before its
\* completion was on its way (early): it may be at work again while it is marked.
LedgerIsHeeded ==
    [][faults.save = 0 => \A m \in Incoming \ early :
          /\ work[m] # "handling" /\ work'[m] = "handling" => ~Processed(mem, m)
          /\ Ack(m, "DELIVERED") \in toRelay' \ toRelay => m \notin mem.read]_<<work, toRelay>>

\* The runtime implements the promise of Delivery.
Promised ==
    {o \in Sends : sends[o] = "returned"} \cup {Copy(m) : m \in Mirrored \cap handled}

Promise == INSTANCE Delivery WITH
    Messages <- Incoming, Outgoing <- Envelopes,
    waiting <- mailbox, promised <- Promised, kept <- disk.outbox, relayed <- got

ImplementsDelivery == Promise!Spec

-----------------------------------------------------------------------------
(* Liveness.  The event loop runs what can run, a closed socket is reopened *)
(* (scheduleReconnect), the process is restarted, requests and handlers     *)
(* end, and the relay works.  Faults are bounded, so they stop some day.    *)

Fairness ==
    /\ WF_vars(Start) /\ WF_vars(StartLoaded) /\ WF_vars(Connect)
    /\ WF_vars(TimerFires) /\ WF_vars(DrainStep)
    /\ WF_vars(Save) /\ WF_vars(Swap)
    /\ \A m \in Incoming :
        /\ WF_vars(RelayPush(m))
        /\ WF_vars(RelayTakesAck(m, "DELIVERED")) /\ WF_vars(RelayTakesAck(m, "READ"))
        /\ WF_vars(ReceiveConfirmed(m) \/ ReceiveStaged(m) \/ ReceiveNew(m))
        /\ WF_vars(ReceiveAckReceived(m))
        /\ WF_vars(FetchSucceeds(m))
        /\ WF_vars(HandlerReturns(m, "DELIVERED") \/ HandlerReturns(m, "READ"))
        /\ WF_vars(m \in Poison /\ Throws(m))
    /\ \A e \in Envelopes :
        /\ WF_vars(RelayTakesEnvelope(e)) /\ WF_vars(RelayReceipt(e))
        /\ WF_vars(RelayTakesReceiptAck(e)) /\ WF_vars(ReceiveReceipt(e))

FairSpec == Spec /\ Fairness

\* Every message that can be handled at all is handled and acknowledged, and
\* every accepted envelope is receipted and leaves the state file.
EveryMessageIsAcknowledged ==
    \A m \in Incoming \ Poison : m \in mailbox ~> m \notin mailbox /\ m \in handled
EveryEnvelopeIsReceipted ==
    \A o \in Sends : sends[o] = "returned" ~> o \notin disk.outbox
=============================================================================
