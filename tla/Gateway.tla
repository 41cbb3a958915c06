------------------------------ MODULE Gateway ------------------------------
(***************************************************************************)
(* The gateway's durable inbox, its HTTP consumers and its webhook         *)
(* (integrations/gateway/src/inbox.ts and gateway.ts).  The SDK below it   *)
(* keeps a message staged until the handler has returned and its           *)
(* completion is saved (module AgentRuntime); it calls the handler again   *)
(* when the handler threw, the completion failed or the process died.      *)
(*                                                                         *)
(* Mutations of the inbox form a chain: each one clones the records,       *)
(* changes the clone, saves it (written, then renamed over the file) and   *)
(* only then swaps it into memory.                                         *)
(***************************************************************************)
EXTENDS Integers, FiniteSets, SequencesExt

CONSTANTS
    Messages,
    Consumers,      \* HTTP clients that poll and acknowledge (mode=explicit)
    Legacy,         \* the ones among them that use the destructive poll
    Capacity,       \* inboxCapacity
    Limit,          \* the limit parameter of a poll
    Answered,       \* messages the webhook may answer; it takes the others in without a reply
    Retries,        \* webhookRetries
    MaxFaults       \* bound on faults: crashes, stops, failed saves and completions

ASSUME GatewayAssumption ==
    /\ Legacy \subseteq Consumers /\ Answered \subseteq Messages
    /\ {Capacity, Limit, Retries} \subseteq Nat \ {0} /\ MaxFaults \in Nat

VARIABLES
    phase,          \* of start() and stop()
    initialized,    \* whether this process has read the inbox file
    file,           \* the records of the inbox file, oldest first
    queued,         \* ... of memory
    live,           \* message objects kept for replies, oldest first
    chain,          \* mutations that wait for their turn; the head may be saving
    saving,         \* the records the head saves: <<records>>, or <<>>
    sdk,            \* what the SDK knows of each message
    request,        \* the poll or acknowledgement each consumer waits for
    seen,           \* events a consumer received and has not acknowledged
    hooks,          \* webhook deliveries in progress
    gone,           \* history: messages a poll or an acknowledgement removed from the file
    owed,           \* history: deliveries that began, minus replies a send() accepted
    faults          \* how many faults occurred

inbox == <<file, queued, chain, saving>>
history == <<gone, owed>>
vars == <<phase, initialized, inbox, live, sdk, request, seen, hooks, history, faults>>

Ops ==
    [kind : {"push"}, m : Messages] \cup [kind : {"ack"}, m : Messages, c : Consumers]
        \cup [kind : {"take"}, c : Consumers]
Fault == faults < MaxFaults /\ faults' = faults + 1

TypeOK ==
    /\ phase \in {"down", "starting", "up", "closing"} /\ initialized \in BOOLEAN
    /\ \A records \in {file, queued, live} : records \in Seq(Messages) /\ IsInjective(records)
    /\ Len(file) <= Capacity /\ Len(queued) <= Capacity
    /\ chain \in Seq(Ops)
    /\ saving # <<>> => chain # <<>> /\ saving[1] \in Seq(Messages)
    /\ sdk \in [Messages -> {"staged", "pushing", "returned", "done"}]
    /\ request \in [Consumers -> {"none", "waiting", "mutating"}]
    /\ seen \in [Consumers -> SUBSET Messages]
    /\ hooks \subseteq [m : Answered, id : Nat, left : 1 .. Retries]
    /\ gone \subseteq Messages
    /\ owed \in [Messages -> Int]
    /\ faults \in 0 .. MaxFaults

-----------------------------------------------------------------------------
\* The mutators of push(), take() and ack().

Holds(records, m) == m \in Range(records)

Refused(op, records) == op.kind = "push" /\ ~Holds(records, op.m) /\ Len(records) >= Capacity

\* The entry of m is spliced out, or there is none.
Without(records, m) ==
    IF Holds(records, m)
    THEN RemoveAt(records, CHOOSE i \in DOMAIN records : records[i] = m) ELSE records

Applied(op, records) ==
    CASE op.kind = "push" -> IF Holds(records, op.m) THEN records ELSE Append(records, op.m)
      [] op.kind = "ack" -> Without(records, op.m)
      [] op.kind = "take" -> SubSeq(records, Limit + 1, Len(records))

\* The oldest entries of the live map go when it holds more than 2 * capacity.
Evicted(objects) ==
    IF Len(objects) > 2 * Capacity
    THEN SubSeq(objects, Len(objects) - 2 * Capacity + 1, Len(objects)) ELSE objects

Page(records) == SubSeq(records, 1, IF Limit < Len(records) THEN Limit ELSE Len(records))

-----------------------------------------------------------------------------
\* The gateway's message handler: push(), then the webhook.

\* Tells deliveries in progress apart.
FreshId == CHOOSE n \in 0 .. Cardinality(hooks) : \A h \in hooks : h.id # n

\* What follows a push that succeeded: the handler fires the webhook and returns.
Pushed(m) ==
    /\ sdk' = [sdk EXCEPT ![m] = "returned"]
    /\ IF m \in Answered
       THEN /\ hooks' = hooks \cup {[m |-> m, id |-> FreshId, left |-> Retries]}
            /\ owed' = [owed EXCEPT ![m] = @ + 1]
       ELSE UNCHANGED <<hooks, owed>>

\* Mutant: a message whose object is known is taken for queued.
KnownIsQueued(m) ==
    /\ phase # "down" /\ sdk[m] = "staged"
    /\ live' = IF Holds(live, m) THEN live ELSE Append(live, m)
    /\ IF Holds(live, m)
       THEN Pushed(m) /\ UNCHANGED inbox
       ELSE /\ chain' = Append(chain, [kind |-> "push", m |-> m])
            /\ sdk' = [sdk EXCEPT ![m] = "pushing"]
            /\ UNCHANGED <<file, queued, saving, hooks, owed>>
    /\ UNCHANGED <<phase, initialized, request, seen, gone, faults>>

\* The SDK calls the handler.  An event that is queued already is not pushed again.
Receive(m) ==
    /\ phase # "down" /\ sdk[m] = "staged"
    /\ live' = IF Holds(live, m) THEN live ELSE Append(live, m)
    /\ IF Holds(queued, m)
       THEN Pushed(m) /\ UNCHANGED inbox
       ELSE /\ chain' = Append(chain, [kind |-> "push", m |-> m])
            /\ sdk' = [sdk EXCEPT ![m] = "pushing"]
            /\ UNCHANGED <<file, queued, saving, hooks, owed>>
    /\ UNCHANGED <<phase, initialized, request, seen, gone, faults>>

\* The SDK saves that the message was handled, or cannot.
Complete(m) ==
    /\ sdk[m] = "returned"
    /\ \/ sdk' = [sdk EXCEPT ![m] = "done"] /\ UNCHANGED faults
       \/ Fault /\ sdk' = [sdk EXCEPT ![m] = "staged"]
    /\ UNCHANGED <<phase, initialized, inbox, live, request, seen, hooks, history>>

-----------------------------------------------------------------------------
\* The chain of mutations.

\* Mutant: a mutation that failed stays at the head (the chain is not caught).
StuckChain(op) ==
    /\ chain' = chain /\ saving' = <<>>
    /\ UNCHANGED <<sdk, request>>

\* The caller of the mutation at the head sees it rejected: the handler throws, or the
\* request is answered with an error.
Rejected(op) ==
    /\ chain' = Tail(chain) /\ saving' = <<>>
    /\ IF op.kind = "push"
       THEN sdk' = [sdk EXCEPT ![op.m] = "staged"] /\ UNCHANGED request
       ELSE request' = [request EXCEPT ![op.c] = "none"] /\ UNCHANGED sdk

\* The head clones the records and runs its mutator.
Turn ==
    /\ chain # <<>> /\ saving = <<>>
    /\ LET op == Head(chain) IN
       IF Refused(op, queued)
       THEN Rejected(op)
       ELSE saving' = <<Applied(op, queued)>> /\ UNCHANGED <<chain, sdk, request>>
    /\ UNCHANGED <<phase, initialized, file, queued, live, seen, hooks, history, faults>>

\* save() renames the new file over the old one.  What a poll or an acknowledgement took
\* out is gone.  (Only a failure or a crash can be told from a rename and a swap in one
\* step: nothing else reads the file.)
Renamed ==
    /\ file' = saving[1]
    /\ gone' = IF Head(chain).kind = "push" THEN gone ELSE gone \cup (Range(queued) \ Range(saving[1]))

\* save() rejects, before or after its rename.
SaveFails ==
    /\ saving # <<>> /\ Fault
    /\ Rejected(Head(chain))
    /\ Renamed \/ UNCHANGED <<file, gone>>
    /\ UNCHANGED <<phase, initialized, queued, live, seen, hooks, owed>>

\* The mutation is done: memory is swapped, and its caller goes on.
Settle ==
    /\ saving # <<>> /\ Renamed
    /\ queued' = saving[1] /\ saving' = <<>> /\ chain' = Tail(chain)
    /\ LET op == Head(chain) IN
       CASE op.kind = "push" ->
              /\ Pushed(op.m) /\ live' = Evicted(live)
              /\ UNCHANGED <<request, seen>>
         [] op.kind = "take" ->
              \* the records are gone, whether or not the answer reaches its caller
              /\ request' = [request EXCEPT ![op.c] = "none"]
              /\ UNCHANGED <<sdk, live, seen, hooks, owed>>
         [] op.kind = "ack" ->
              /\ live' = IF Holds(queued, op.m) THEN Without(live, op.m) ELSE live
              /\ request' = [request EXCEPT ![op.c] = "none"]
              /\ \/ seen' = [seen EXCEPT ![op.c] = @ \ {op.m}]
                 \/ Holds(queued, op.m) /\ UNCHANGED seen   \* the answer is lost: it will be repeated
              /\ UNCHANGED <<sdk, hooks, owed>>
    /\ UNCHANGED <<phase, initialized, faults>>

-----------------------------------------------------------------------------
\* HTTP consumers.

\* GET /v1/events after waitForEvent(): take() or peek().
Answer(c) ==
    IF c \in Legacy
    THEN /\ chain' = Append(chain, [kind |-> "take", c |-> c])
         /\ request' = [request EXCEPT ![c] = "mutating"]
         /\ UNCHANGED seen
    ELSE /\ seen' = [seen EXCEPT ![c] = @ \cup Range(Page(queued))]
         /\ request' = [request EXCEPT ![c] = "none"]
         /\ UNCHANGED chain

Poll(c) ==
    /\ phase = "up" /\ request[c] = "none" /\ (c \in Legacy \/ seen[c] = {})
    /\ IF queued = <<>>
       THEN request' = [request EXCEPT ![c] = "waiting"] /\ UNCHANGED <<chain, seen>>
       ELSE Answer(c)
    /\ UNCHANGED <<phase, initialized, file, queued, live, saving, sdk, hooks, history, faults>>

\* A push or the timer ends the wait.
Wake(c) ==
    /\ request[c] = "waiting"
    /\ Answer(c)
    /\ UNCHANGED <<phase, initialized, file, queued, live, saving, sdk, hooks, history, faults>>

\* POST /v1/messages/{id}/ack of an event the consumer has processed.
Ack(c, m) ==
    /\ phase = "up" /\ request[c] = "none" /\ c \notin Legacy /\ m \in seen[c]
    /\ chain' = Append(chain, [kind |-> "ack", m |-> m, c |-> c])
    /\ request' = [request EXCEPT ![c] = "mutating"]
    /\ UNCHANGED <<phase, initialized, file, queued, live, saving, sdk, seen, hooks, history, faults>>

-----------------------------------------------------------------------------
\* The webhook.

\* Mutant: the loop goes on after a delivery that succeeded.
NoReturn(h) ==
    /\ h \in hooks
    /\ hooks' = (hooks \ {h}) \cup {[h EXCEPT !.left = @ - 1] : n \in 2 .. h.left}
    /\ owed' = [owed EXCEPT ![h.m] = @ - 1]
    /\ UNCHANGED <<phase, initialized, inbox, live, sdk, request, seen, gone, faults>>

\* One POST: no reply is asked for, or it is sent, or something throws -- the request, a
\* status, markRead(), or the send(), which may have queued the reply all the same -- and
\* another attempt follows while some are left.
Attempt(h) ==
    /\ h \in hooks
    /\ \/ hooks' = hooks \ {h} /\ UNCHANGED owed
       \/ hooks' = hooks \ {h} /\ owed' = [owed EXCEPT ![h.m] = @ - 1]
       \/ /\ hooks' = (hooks \ {h}) \cup {[h EXCEPT !.left = @ - 1] : n \in 2 .. h.left}
          /\ UNCHANGED owed
    /\ UNCHANGED <<phase, initialized, inbox, live, sdk, request, seen, gone, faults>>

-----------------------------------------------------------------------------
\* start(), stop() and the death of the process.

Start ==
    /\ phase = "down" /\ phase' = "starting"
    /\ initialized' = TRUE
    /\ queued' = IF initialized THEN queued ELSE file
    /\ UNCHANGED <<file, live, chain, saving, sdk, request, seen, hooks, history, faults>>

\* The server listens, or cannot and the agent is stopped.
Listen ==
    /\ phase = "starting"
    /\ \/ phase' = "up" /\ UNCHANGED faults
       \/ phase' = "down" /\ Fault
    /\ UNCHANGED <<initialized, inbox, live, sdk, request, seen, hooks, history>>

\* stop() refuses new requests, waits for those in progress, and stops the agent.
Close ==
    /\ phase = "up" /\ Fault /\ phase' = "closing"
    /\ UNCHANGED <<initialized, inbox, live, sdk, request, seen, hooks, history>>

Closed ==
    /\ phase = "closing" /\ \A c \in Consumers : request[c] = "none"
    /\ phase' = "down"
    /\ UNCHANGED <<initialized, inbox, live, sdk, request, seen, hooks, history, faults>>

Crash ==
    /\ Fault
    /\ phase' = "down" /\ initialized' = FALSE
    /\ queued' = <<>> /\ live' = <<>> /\ chain' = <<>> /\ saving' = <<>> /\ hooks' = {}
    /\ sdk' = [m \in Messages |-> IF sdk[m] \in {"pushing", "returned"} THEN "staged" ELSE sdk[m]]
    /\ request' = [c \in Consumers |-> "none"]
    /\ \/ saving # <<>> /\ Renamed
       \/ UNCHANGED <<file, gone>>
    /\ UNCHANGED <<seen, owed>>

-----------------------------------------------------------------------------

Init ==
    /\ phase = "down" /\ initialized = FALSE
    /\ file = <<>> /\ queued = <<>> /\ live = <<>> /\ chain = <<>> /\ saving = <<>>
    /\ sdk = [m \in Messages |-> "staged"]
    /\ request = [c \in Consumers |-> "none"] /\ seen = [c \in Consumers |-> {}]
    /\ hooks = {} /\ gone = {}
    /\ owed = [m \in Messages |-> 0]
    /\ faults = 0

Deliver(m) == Receive(m) \/ Complete(m)
Mutate == Turn \/ Settle
Consume(c) == Poll(c) \/ Wake(c) \/ \E m \in Messages : Ack(c, m)

Next ==
    \/ \E m \in Messages : Deliver(m)
    \/ Mutate \/ SaveFails
    \/ \E c \in Consumers : Consume(c)
    \/ \E h \in hooks : Attempt(h)
    \/ Start \/ Listen \/ Close \/ Closed \/ Crash

Spec == Init /\ [][Next]_vars

\* The event loop, the SDK, which redelivers, a consumer that polls and acknowledges, and
\* a gateway that is started again.
FairSpec ==
    /\ Spec
    /\ \A m \in Messages : WF_vars(Deliver(m))
    /\ WF_vars(Mutate)
    /\ \A c \in Consumers : WF_vars(Consume(c))
    /\ WF_vars(Start \/ Listen \/ Closed)

-----------------------------------------------------------------------------
\* Properties.

(* What the SDK acknowledged, or a consumer has seen, is kept until a poll or an
   acknowledgement removed it: in the file, whatever save fails and whenever the process
   dies, and while the gateway runs in memory, where replies and later polls find it
   ("the same event remains visible across polls and gateway restarts until its
   actions.ack URL succeeds", integrations/gateway/README.md:112). *)
HeldUntilConsumed ==
    /\ TypeOK
    /\ \A m \in Messages \ gone : sdk[m] = "done" \/ (\E c \in Consumers : m \in seen[c]) =>
         Holds(file, m) /\ (initialized => Holds(queued, m))

(* The webhook's answer is sent at most once for each time the handler ran through,
   however deliveries overlap and are repeated; only a send() that rejects although it
   queued the reply adds one (applyWebhookResponse inside the retry loop of
   deliverWebhook). *)
WebhookAnswersOnce == \A m \in Messages : owed[m] >= 0

(* A full inbox recovers: every message is taken over and consumed in the end, although
   push() refuses it while the inbox is full and the SDK has to bring it again. *)
EveryEventIsConsumed == \A m \in Messages : <>(m \in gone)
=============================================================================
