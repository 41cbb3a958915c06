----------------------------- MODULE AgentStore -----------------------------
(***************************************************************************)
(* The runtime state an agent keeps between restarts, as the direct        *)
(* messaging code of sdk/node/src/agent.ts sees it, and the mutators it     *)
(* hands to mutateRuntimeState.  Envelopes are abstract: a peer's message  *)
(* is a member of Incoming, a message of the application a member of       *)
(* Sends, and the encrypted activity copy of x for the supervisor is       *)
(* Copy(x), whose id the code derives from x alone.                        *)
(***************************************************************************)
EXTENDS Naturals, Sequences, SequencesExt

CONSTANTS
    Incoming,      \* messages peers send to this agent
    Sends,         \* messages the application sends through this agent
    Mirrored,      \* messages of either kind copied to the supervisor
    MaxProcessed   \* MAX_PROCESSED_INCOMING, the bound of the ledger

ASSUME IdsAssumption == Incoming \cap Sends = {}
ASSUME MirroredAssumption == Mirrored \subseteq Incoming \cup Sends
ASSUME MaxProcessedAssumption == MaxProcessed \in Nat \ {0}

Copy(x) == <<"activity", x>>

\* The id of a copy is a hash of its own kind: no message has it.
ASSUME CopiesAssumption == {Copy(x) : x \in Incoming \cup Sends} \cap (Incoming \cup Sends) = {}

Envelopes == Sends \cup {Copy(x) : x \in Mirrored}

\* READ is recorded for keys of the ledger only, which has at most MaxProcessed;
\* no message is in the inbox twice.
WellFormed(s) ==
    /\ \A i, j \in 1 .. Len(s.inbox) : s.inbox[i] = s.inbox[j] => i = j
    /\ Len(s.ledger) <= MaxProcessed
    /\ s.read \subseteq ToSet(s.ledger)

States == [outbox : SUBSET Envelopes, inbox : Seq(Incoming),
           ledger : Seq(Incoming), read : SUBSET Incoming]

EmptyState == [outbox |-> {}, inbox |-> <<>>, ledger |-> <<>>, read |-> {}]

\* processedIncoming[m] is set; the ledger lists its keys, oldest first.
Processed(s, m) == Contains(s.ledger, m)

Staged(s, m) == Contains(s.inbox, m)

\* processedIncoming[m]: the state a redelivery is acknowledged with.
Confirmed(s, m) == IF m \in s.read THEN "READ" ELSE "DELIVERED"

\* Mutation: the outbox has room for one envelope.
QueueOnlyEnvelope(s, e) == [s EXCEPT !.outbox = {e}]

QueueEnvelope(s, e) == [s EXCEPT !.outbox = @ \cup {e}]

RemoveFromOutbox(s, e) == [s EXCEPT !.outbox = @ \ {e}]

\* Mutation: what the mutator was queued for is not checked again when it runs.
RememberAgain(s, m) == [s EXCEPT !.inbox = Append(@, m)]

RememberIncoming(s, m) ==
    IF Staged(s, m) THEN s ELSE [s EXCEPT !.inbox = Append(@, m)]

ForgetIncoming(s, m) ==
    IF Staged(s, m)
    THEN [s EXCEPT !.inbox = RemoveAt(@, CHOOSE i \in DOMAIN @ : @[i] = m)]
    ELSE s

\* The youngest MaxProcessed keys of the ledger.
Pruned(ledger) ==
    IF Len(ledger) <= MaxProcessed THEN ledger
    ELSE SubSeq(ledger, Len(ledger) - MaxProcessed + 1, Len(ledger))

\* Mutation: a completed message leaves the inbox at once.
CompleteAndForget(s, m, state) ==
    LET keys == Pruned(IF Processed(s, m) THEN s.ledger ELSE Append(s.ledger, m))
    IN  [ForgetIncoming(s, m) EXCEPT !.ledger = keys, !.read = @ \cap ToSet(keys)]

\* READ is never replaced by DELIVERED; a new key joins at the young end.
CompleteIncoming(s, m, state) ==
    LET keys == Pruned(IF Processed(s, m) THEN s.ledger ELSE Append(s.ledger, m))
        read == IF state = "READ" THEN s.read \cup {m} ELSE s.read
    IN  [s EXCEPT !.ledger = keys, !.read = read \cap ToSet(keys)]

\* What mutateRuntimeState may be asked to do, and on whose behalf ("by").
Mutations ==
    [op : {"queue", "remove"}, id : Envelopes, by : {"agent"}]
      \cup [op : {"remember"}, id : Incoming, by : {"frame", "drain"}]
      \cup [op : {"complete", "markRead"}, id : Incoming, by : {"DELIVERED", "READ"}]
      \cup [op : {"forget"}, id : Incoming, by : {"agent"}]

Mutation(op, id, by) == [op |-> op, id |-> id, by |-> by]

Apply(s, mu) ==
    CASE mu.op = "queue"    -> QueueEnvelope(s, mu.id)
      [] mu.op = "remove"   -> RemoveFromOutbox(s, mu.id)
      [] mu.op = "remember" -> RememberIncoming(s, mu.id)
      [] mu.op = "forget"   -> ForgetIncoming(s, mu.id)
      [] OTHER              -> CompleteIncoming(s, mu.id, mu.by)
=============================================================================
