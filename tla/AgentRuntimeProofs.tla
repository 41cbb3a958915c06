------------------------- MODULE AgentRuntimeProofs -------------------------
(***************************************************************************)
(* What the mutators of AgentStore keep and change; the type correctness   *)
(* of the agent runtime; and that the relay discards a message only when   *)
(* it was handled; all for every set of messages, every bound of the       *)
(* ledger and any number of faults.                                        *)
(*                                                                         *)
(* Then, provided that start() after stop() waits for what is in progress  *)
(* (QuietRestart): no accepted envelope is lost, the supervisor's copy of  *)
(* a message is safe before its handler runs, memory never runs ahead of   *)
(* the state file, the runtime implements Delivery, and the ledger is      *)
(* heeded while it has room.  One invariant follows an envelope through    *)
(* memory, the state file, a pending mutation and the relay; another one a *)
(* message through the pending mutations and its processing.               *)
(***************************************************************************)
EXTENDS AgentRuntime, SequenceTheorems, FiniteSetTheorems, TLAPS

\* The bounded ledger never exceeds its bound and invents no key.
LEMMA PrunedProperties ==
    ASSUME NEW ledger \in Seq(Incoming)
    PROVE  /\ Pruned(ledger) \in Seq(Incoming)
           /\ Len(Pruned(ledger)) <= MaxProcessed
           /\ ToSet(Pruned(ledger)) \subseteq ToSet(ledger)
<1>1. CASE Len(ledger) <= MaxProcessed
  BY <1>1 DEF Pruned
<1>2. CASE ~ (Len(ledger) <= MaxProcessed)
  <2> DEFINE from == Len(ledger) - MaxProcessed + 1
  <2>1. /\ Pruned(ledger) = SubSeq(ledger, from, Len(ledger))
        /\ from \in Int /\ Len(ledger) \in Int /\ from >= 1
        /\ \A i \in from .. Len(ledger) : ledger[i] \in Incoming
    BY <1>2, MaxProcessedAssumption, LenProperties, ElementOfSeq DEF Pruned
  <2>2. /\ Pruned(ledger) \in Seq(Incoming)
        /\ Len(Pruned(ledger)) = MaxProcessed
        /\ \A i \in 1 .. MaxProcessed : Pruned(ledger)[i] = ledger[from + i - 1]
    BY <2>1, <1>2, SubSeqProperties, MaxProcessedAssumption
  <2>3. \A i \in DOMAIN Pruned(ledger) :
            from + i - 1 \in DOMAIN ledger /\ Pruned(ledger)[i] = ledger[from + i - 1]
    BY <2>2, <2>1, LenProperties, MaxProcessedAssumption
  <2> QED BY <2>2, <2>3, MaxProcessedAssumption DEF ToSet
<1> QED BY <1>1, <1>2

\* A key that completeIncoming leaves in the ledger was there, or is its own.
LEMMA CompleteProperties ==
    ASSUME NEW s \in States, WellFormed(s), NEW m \in Incoming, NEW state
    PROVE  LET t == CompleteIncoming(s, m, state)
           IN  /\ t \in States /\ WellFormed(t)
               /\ t.outbox = s.outbox /\ t.inbox = s.inbox
               /\ \A x : Processed(t, x) => x = m \/ Processed(s, x)
<1> DEFINE t == CompleteIncoming(s, m, state)
           ledger == IF Processed(s, m) THEN s.ledger ELSE Append(s.ledger, m)
<1>1. s.ledger \in Seq(Incoming) /\ s.read \subseteq Incoming
  BY DEF States
<1>2. ledger \in Seq(Incoming) /\ ToSet(ledger) \subseteq ToSet(s.ledger) \cup {m}
  BY <1>1, AppendProperties, LenProperties DEF ToSet
<1> DEFINE keys == Pruned(ledger)
           read == (IF state = "READ" THEN s.read \cup {m} ELSE s.read) \cap ToSet(keys)
<1>3. t = [s EXCEPT !.ledger = keys, !.read = read]
  BY DEF CompleteIncoming
<1>6. /\ keys \in Seq(Incoming) /\ Len(keys) <= MaxProcessed
      /\ ToSet(keys) \subseteq ToSet(ledger)
  BY <1>2, PrunedProperties
<1>7. read \subseteq Incoming /\ read \subseteq ToSet(keys)
  BY <1>1
<1> HIDE DEF t, ledger, keys, read
<1>4. t \in States /\ WellFormed(t) /\ t.ledger = keys /\ t.outbox = s.outbox /\ t.inbox = s.inbox
  BY <1>3, <1>6, <1>7 DEF States, WellFormed
<1>5. ASSUME NEW x, Processed(t, x) PROVE x = m \/ Processed(s, x)
  <2>3. x \in ToSet(keys)
    BY <1>4, <1>5, <1>6, LenProperties DEF Processed, Contains, ToSet
  <2>1. x \in ToSet(ledger)
    BY <2>3, <1>6
  <2> QED BY <2>1, <1>1, <1>2, LenProperties DEF Processed, Contains, ToSet
<1> QED BY <1>4, <1>5 DEF t

LEMMA RememberProperties ==
    ASSUME NEW s \in States, WellFormed(s), NEW m \in Incoming
    PROVE  LET t == RememberIncoming(s, m)
           IN  /\ t \in States /\ WellFormed(t)
               /\ t.outbox = s.outbox /\ t.ledger = s.ledger
               /\ \A x : Staged(s, x) => Staged(t, x)
<1>1. CASE Staged(s, m)
  BY <1>1 DEF RememberIncoming
<1>2. CASE ~Staged(s, m)
  <2> DEFINE t == RememberIncoming(s, m)
  <2>1. t = [s EXCEPT !.inbox = Append(s.inbox, m)]
    BY <1>2 DEF RememberIncoming
  <2>2. s.inbox \in Seq(Incoming)
    BY DEF States
  <2>3. /\ Append(s.inbox, m) \in Seq(Incoming) /\ Len(Append(s.inbox, m)) = Len(s.inbox) + 1
        /\ \A i \in 1 .. Len(s.inbox) : Append(s.inbox, m)[i] = s.inbox[i]
    BY <2>2, AppendProperties
  <2> HIDE DEF t
  <2>4. /\ t \in States /\ t.inbox = Append(s.inbox, m)
        /\ t.outbox = s.outbox /\ t.ledger = s.ledger /\ t.read = s.read
    BY <2>1, <2>3 DEF States
  <2>6. Len(s.inbox) \in Nat /\ \A i \in 1 .. Len(s.inbox) : s.inbox[i] # m
    BY <2>2, <1>2, LenProperties DEF Staged, Contains
  <2>7. Append(s.inbox, m)[Len(s.inbox) + 1] = m
    BY <2>2, AppendProperties
  <2>8. ASSUME NEW i \in 1 .. Len(s.inbox) + 1, NEW j \in 1 .. Len(s.inbox) + 1,
               Append(s.inbox, m)[i] = Append(s.inbox, m)[j]
        PROVE  i = j
    BY <2>3, <2>6, <2>7, <2>8 DEF WellFormed
  <2>9. WellFormed(t)
    BY <2>3, <2>4, <2>8 DEF WellFormed
  <2>5. \A x : Staged(s, x) => Staged(t, x)
    BY <2>2, <2>3, <2>4, LenProperties DEF Staged, Contains
  <2> QED BY <2>4, <2>5, <2>9 DEF t
<1> QED BY <1>1, <1>2

LEMMA ForgetProperties ==
    ASSUME NEW s \in States, WellFormed(s), NEW m \in Incoming
    PROVE  LET t == ForgetIncoming(s, m)
           IN  /\ t \in States /\ WellFormed(t)
               /\ t.outbox = s.outbox /\ t.ledger = s.ledger
               /\ \A x : Staged(s, x) => x = m \/ Staged(t, x)
<1>1. CASE ~Staged(s, m)
  BY <1>1 DEF ForgetIncoming
<1>2. CASE Staged(s, m)
  <2> DEFINE i == CHOOSE i \in DOMAIN s.inbox : s.inbox[i] = m
             rest == RemoveAt(s.inbox, i)
  <2>1. s.inbox \in Seq(Incoming) /\ i \in 1 .. Len(s.inbox) /\ s.inbox[i] = m
    BY <1>2, LenProperties DEF States, Staged, Contains
  <2>2. ForgetIncoming(s, m) = [s EXCEPT !.inbox = rest]
    BY <1>2 DEF ForgetIncoming
  <2> HIDE DEF i
  <2> DEFINE before == SubSeq(s.inbox, 1, i - 1)
             after == SubSeq(s.inbox, i + 1, Len(s.inbox))
  <2>3. /\ before \in Seq(Incoming) /\ Len(before) = i - 1
        /\ \A j \in 1 .. i - 1 : before[j] = s.inbox[j]
    BY <2>1, SubSeqProperties, ElementOfSeq
  <2>4. /\ after \in Seq(Incoming) /\ Len(after) = Len(s.inbox) - i
        /\ \A j \in 1 .. Len(s.inbox) - i : after[j] = s.inbox[i + j]
    BY <2>1, SubSeqProperties, ElementOfSeq, LenProperties
  <2>5. rest = before \o after
    BY DEF RemoveAt
  <2> HIDE DEF rest, before, after
  <2>6. /\ rest \in Seq(Incoming) /\ Len(rest) = Len(s.inbox) - 1
        /\ \A j \in 1 .. Len(s.inbox) : j < i => rest[j] = s.inbox[j]
        /\ \A j \in 1 .. Len(s.inbox) : j > i => rest[j - 1] = s.inbox[j]
    <3> DEFINE n == Len(s.inbox)
    <3>1. /\ rest \in Seq(Incoming) /\ Len(rest) = Len(before) + Len(after)
          /\ \A j \in 1 .. Len(before) + Len(after) :
                rest[j] = IF j <= Len(before) THEN before[j] ELSE after[j - Len(before)]
      BY <2>3, <2>4, <2>5, ConcatProperties
    <3>2. n \in Nat /\ i \in 1 .. n
      BY <2>1, LenProperties
    <3> HIDE DEF n
    <3>3. Len(before) = i - 1 /\ Len(after) = n - i
      BY <2>3, <2>4 DEF n
    <3>4. \A j \in 1 .. n - 1 : rest[j] = IF j <= i - 1 THEN before[j] ELSE after[j - (i - 1)]
      BY <3>1, <3>2, <3>3
    <3>5. ASSUME NEW j \in 1 .. n, j < i PROVE rest[j] = s.inbox[j]
      <4>1. j \in 1 .. n - 1 /\ j \in 1 .. i - 1 /\ j <= i - 1
        BY <3>2, <3>5
      <4> QED BY <4>1, <3>4, <2>3
    <3>6. ASSUME NEW j \in 1 .. n, j > i PROVE rest[j - 1] = s.inbox[j]
      <4>1. /\ j - 1 \in 1 .. n - 1 /\ ~(j - 1 <= i - 1)
            /\ (j - 1) - (i - 1) = j - i /\ j - i \in 1 .. n - i /\ i + (j - i) = j
        BY <3>2, <3>6
      <4>2. rest[j - 1] = after[j - i]
        BY <4>1, <3>4
      <4>3. after[j - i] = s.inbox[i + (j - i)]
        BY <4>1, <2>4 DEF n
      <4> QED BY <4>1, <4>2, <4>3
    <3>7. Len(rest) = n - 1
      BY <3>1, <3>2, <3>3
    <3> QED BY <3>1, <3>5, <3>6, <3>7 DEF n
  <2>7. ASSUME NEW j \in 1 .. Len(s.inbox), s.inbox[j] # m
        PROVE  \E k \in 1 .. Len(rest) : rest[k] = s.inbox[j]
    <3>1. CASE j < i
      BY <2>1, <2>6, <3>1
    <3>2. CASE j > i
      <4>1. j - 1 \in 1 .. Len(rest) /\ rest[j - 1] = s.inbox[j]
        BY <2>1, <2>6, <3>2
      <4> QED BY <4>1
    <3> QED BY <2>1, <2>7, <3>1, <3>2
  <2> DEFINE t == ForgetIncoming(s, m)
  <2>10. ASSUME NEW j \in 1 .. Len(rest)
         PROVE  \E k \in 1 .. Len(s.inbox) :
                    /\ rest[j] = s.inbox[k]
                    /\ k = IF j < i THEN j ELSE j + 1
    <3>0. Len(s.inbox) \in Nat /\ i \in Nat
      BY <2>1, LenProperties
    <3>1. CASE j < i
      BY <3>0, <3>1, <2>1, <2>6
    <3>2. CASE ~(j < i)
      <4>1. j + 1 \in 1 .. Len(s.inbox) /\ j + 1 > i /\ (j + 1) - 1 = j
        BY <3>0, <3>2, <2>6
      <4> QED BY <4>1, <3>2, <2>6
    <3> QED BY <3>1, <3>2
  <2>11. ASSUME NEW j \in 1 .. Len(rest), NEW k \in 1 .. Len(rest), rest[j] = rest[k]
         PROVE  j = k
    <3>1. PICK a \in 1 .. Len(s.inbox) :
              rest[j] = s.inbox[a] /\ a = IF j < i THEN j ELSE j + 1
      BY <2>10
    <3>2. PICK b \in 1 .. Len(s.inbox) :
              rest[k] = s.inbox[b] /\ b = IF k < i THEN k ELSE k + 1
      BY <2>10
    <3>3. a = b
      BY <3>1, <3>2, <2>11 DEF WellFormed
    <3>4. j \in Nat /\ k \in Nat /\ i \in Nat
      BY <2>1, <2>6, LenProperties
    <3> QED BY <3>1, <3>2, <3>3, <3>4
  <2>8. /\ t \in States /\ WellFormed(t) /\ t.inbox = rest
        /\ t.outbox = s.outbox /\ t.ledger = s.ledger
    BY <2>2, <2>6, <2>11 DEF States, WellFormed
  <2>9. \A x : Staged(s, x) => x = m \/ Staged(t, x)
    BY <2>7, <2>8 DEF Staged, Contains
  <2> QED BY <2>8, <2>9
<1> QED BY <1>1, <1>2

\* What any mutation does to the outbox and the ledger of a well-formed state.
LEMMA ApplyProperties ==
    ASSUME NEW s \in States, WellFormed(s), NEW mu \in Mutations
    PROVE  LET t == Apply(s, mu)
           IN  /\ t \in States /\ WellFormed(t)
               /\ mu.op = "queue" => t.outbox = s.outbox \cup {mu.id}
               /\ mu.op = "remove" => t.outbox = s.outbox \ {mu.id}
               /\ mu.op \notin {"queue", "remove"} => t.outbox = s.outbox
               /\ \A x : Staged(s, x) => Staged(t, x) \/ (mu.op = "forget" /\ mu.id = x)
               /\ \A x : Processed(t, x) =>
                    \/ Processed(s, x)
                    \/ mu.op \in {"complete", "markRead"} /\ mu.id = x
<1>1. CASE mu.op = "queue"
  <2>1. mu.id \in Envelopes
    BY <1>1 DEF Mutations
  <2>2. Apply(s, mu) = QueueEnvelope(s, mu.id)
    BY <1>1 DEF Apply
  <2> QED BY <1>1, <2>1, <2>2 DEF QueueEnvelope, States, WellFormed, Processed, Staged
<1>2. CASE mu.op = "remove"
  <2>1. Apply(s, mu) = RemoveFromOutbox(s, mu.id)
    BY <1>2 DEF Apply
  <2> QED BY <1>2, <2>1 DEF RemoveFromOutbox, States, WellFormed, Processed, Staged
<1>3. CASE mu.op = "remember"
  <2>1. mu.id \in Incoming /\ Apply(s, mu) = RememberIncoming(s, mu.id)
    BY <1>3 DEF Apply, Mutations
  <2> QED BY <1>3, <2>1, RememberProperties DEF Processed
<1>4. CASE mu.op = "forget"
  <2>1. mu.id \in Incoming /\ Apply(s, mu) = ForgetIncoming(s, mu.id)
    BY <1>4 DEF Apply, Mutations
  <2> QED BY <1>4, <2>1, ForgetProperties DEF Processed
<1>5. CASE mu.op \in {"complete", "markRead"}
  <2>1. mu.id \in Incoming /\ Apply(s, mu) = CompleteIncoming(s, mu.id, mu.by)
    BY <1>5 DEF Apply, Mutations
  <2> QED BY <1>5, <2>1, CompleteProperties DEF Staged
<1> QED BY <1>1, <1>2, <1>3, <1>4, <1>5 DEF Mutations

\* t has the entries of s's ledger, each with its READ, but for the oldest one if a
\* newer one pruned it.
LedgerKept(s, t) ==
    \A x \in Incoming : Processed(s, x) =>
        \/ Processed(t, x) /\ (x \in s.read => x \in t.read)
        \/ /\ Head(s.ledger) = x /\ Len(t.ledger) = MaxProcessed
           /\ ~Processed(s, Last(t.ledger))

LEMMA CompleteKeepsLedger ==
    ASSUME NEW s \in States, WellFormed(s), NEW m \in Incoming, NEW state
    PROVE  LedgerKept(s, CompleteIncoming(s, m, state))
<1> DEFINE t == CompleteIncoming(s, m, state)
           n == Len(s.ledger)
           longer == Append(s.ledger, m)
           ledger == IF Processed(s, m) THEN s.ledger ELSE longer
           keys == Pruned(ledger)
           read == (IF state = "READ" THEN s.read \cup {m} ELSE s.read) \cap ToSet(keys)
<1>1. s.ledger \in Seq(Incoming) /\ n \in Nat /\ n <= MaxProcessed /\ MaxProcessed \in Nat \ {0}
  BY LenProperties, MaxProcessedAssumption DEF States, WellFormed
<1>2. /\ longer \in Seq(Incoming) /\ Len(longer) = n + 1
      /\ \A i \in 1 .. n : longer[i] = s.ledger[i]
      /\ longer[n + 1] = m
  BY <1>1, AppendProperties
<1>3. t = [s EXCEPT !.ledger = keys, !.read = read]
  BY DEF CompleteIncoming
<1>4. keys \in Seq(Incoming) /\ Len(keys) \in Nat
  BY <1>1, <1>2, PrunedProperties, LenProperties
<1>5. s.read \cap ToSet(keys) \subseteq read
  OBVIOUS
<1> HIDE DEF read
<1>6. t.ledger = keys /\ t.read = read
  BY <1>3 DEF States
<1> HIDE DEF t, keys
<1>7. ASSUME NEW x, NEW i \in 1 .. Len(keys), keys[i] = x
      PROVE  Processed(t, x) /\ (x \in s.read => x \in t.read)
  <2>1. x \in ToSet(keys)
    BY <1>4, <1>7, LenProperties DEF ToSet
  <2> QED BY <2>1, <1>5, <1>6, <1>7 DEF Processed, Contains
<1>8. CASE Processed(s, m) \/ n < MaxProcessed
  <2>1. keys = ledger /\ \A i \in 1 .. n : ledger[i] = s.ledger[i] /\ i \in 1 .. Len(ledger)
    BY <1>1, <1>2, <1>8 DEF Pruned, keys
  <2>2. ASSUME NEW x, NEW i \in 1 .. n, s.ledger[i] = x
        PROVE  Processed(t, x) /\ (x \in s.read => x \in t.read)
    BY <2>1, <2>2, <1>7
  <2> QED BY <2>2 DEF LedgerKept, Processed, Contains, t
<1>9. CASE ~Processed(s, m) /\ n = MaxProcessed
  <2>1. keys = SubSeq(longer, 2, n + 1)
    BY <1>1, <1>2, <1>9 DEF Pruned, keys
  <2>2. \A i \in 2 .. n + 1 : longer[i] \in Incoming
    BY <1>1, <1>2, ElementOfSeq
  <2>3. Len(keys) = n /\ \A i \in 1 .. n : keys[i] = longer[i + 1]
    BY <2>1, <2>2, <1>1, SubSeqProperties
  <2>4. Len(keys) = MaxProcessed /\ ~Processed(s, Last(keys))
    BY <2>3, <1>1, <1>2, <1>9 DEF Last
  <2>5. ASSUME NEW x, NEW i \in 1 .. n, s.ledger[i] = x, i # 1
        PROVE  Processed(t, x) /\ (x \in s.read => x \in t.read)
    <3>1. i - 1 \in 1 .. n /\ i - 1 \in 1 .. Len(keys) /\ keys[i - 1] = x
      BY <2>3, <2>5, <1>1, <1>2
    <3> QED BY <3>1, <1>7
  <2>6. ASSUME NEW x \in Incoming, Processed(s, x)
        PROVE  \/ Processed(t, x) /\ (x \in s.read => x \in t.read)
               \/ /\ Head(s.ledger) = x /\ Len(t.ledger) = MaxProcessed
                  /\ ~Processed(s, Last(t.ledger))
    <3>1. PICK i \in 1 .. n : s.ledger[i] = x
      BY <2>6 DEF Processed, Contains
    <3>2. CASE i = 1
      <4>1. Head(s.ledger) = x
        BY <1>1, <3>1, <3>2
      <4> QED BY <4>1, <2>4, <1>6
    <3> QED BY <3>1, <3>2, <2>5
  <2> QED BY <2>6 DEF LedgerKept, t
<1> QED BY <1>1, <1>8, <1>9

LEMMA ApplyKeepsLedger ==
    ASSUME NEW s \in States, WellFormed(s), NEW mu \in Mutations
    PROVE  LedgerKept(s, Apply(s, mu))
<1>1. CASE mu.op \in {"complete", "markRead"}
  <2>1. mu.id \in Incoming /\ Apply(s, mu) = CompleteIncoming(s, mu.id, mu.by)
    BY <1>1 DEF Apply, Mutations
  <2> QED BY <2>1, CompleteKeepsLedger
<1>2. CASE mu.op \in {"queue", "remove", "remember", "forget"}
  <2>1. Apply(s, mu).ledger = s.ledger /\ Apply(s, mu).read = s.read
    BY <1>2 DEF Apply, QueueEnvelope, RemoveFromOutbox, RememberIncoming, ForgetIncoming, States
  <2> QED BY <2>1 DEF LedgerKept, Processed
<1> QED BY <1>1, <1>2 DEF Mutations

-----------------------------------------------------------------------------
(* Pieces of the runtime state.                                            *)

\* TypeOK, and what makes Head(queue) and Head(drain.left) meaningful.
Typed ==
    /\ TypeOK
    /\ saved => queue # <<>>
    /\ drain.at # "off" => drain.left # <<>>

LEMMA MutationTypes ==
    /\ \A e \in Envelopes : /\ Mutation("queue", e, "agent") \in Mutations
                            /\ Mutation("remove", e, "agent") \in Mutations
    /\ \A m \in Incoming : /\ \A by \in {"frame", "drain"} : Mutation("remember", m, by) \in Mutations
                           /\ \A by \in {"DELIVERED", "READ"} : Mutation("complete", m, by) \in Mutations
                           /\ Mutation("markRead", m, "READ") \in Mutations
                           /\ Mutation("forget", m, "agent") \in Mutations
BY DEF Mutation, Mutations

LEMMA FrameTypes ==
    /\ \A m \in Incoming : /\ \A st \in {"DELIVERED", "READ"} : Ack(m, st) \in ToRelayFrames
                           /\ Message(m) \in ToAgentFrames /\ AckReceived(m) \in ToAgentFrames
    /\ \A e \in Envelopes : /\ Deliver(e) \in ToRelayFrames /\ ReceiptAck(e) \in ToRelayFrames
                            /\ Receipt(e) \in ToAgentFrames
BY DEF Ack, Message, AckReceived, Deliver, ReceiptAck, Receipt, ToRelayFrames, ToAgentFrames

LEMMA EnvelopeTypes ==
    /\ Sends \subseteq Envelopes
    /\ \A x \in Mirrored : Copy(x) \in Envelopes
BY DEF Envelopes

\* The chain grows at its end.
LEMMA EnqueueType ==
    ASSUME NEW S, queue \in Seq(S), NEW mu \in S, Enqueue(mu)
    PROVE  queue' \in Seq(S) /\ queue' # <<>> /\ (queue # <<>> => Head(queue') = Head(queue))
BY AppendProperties, HeadTailAppend DEF Enqueue

\* ... and shrinks at its head, which may append one mutation.
LEMMA SwappedType ==
    ASSUME NEW S, queue \in Seq(S), queue # <<>>, NEW next \in Seq(S), Swapped(next)
    PROVE  queue' \in Seq(S)
<1>1. Tail(queue) \in Seq(S)
  BY HeadTailProperties
<1> QED BY <1>1, ConcatProperties DEF Swapped

LEMMA EmptyStateType == EmptyState \in States /\ WellFormed(EmptyState)
BY MaxProcessedAssumption DEF EmptyState, States, WellFormed, ToSet

LEMMA ElementsMakeSeq ==
    ASSUME NEW S, NEW T, NEW q \in Seq(S), \A i \in 1 .. Len(q) : q[i] \in T
    PROVE  q \in Seq(T)
<1>1. Len(q) \in Nat /\ q \in [1 .. Len(q) -> T]
  BY LenProperties
<1> QED BY <1>1

\* A snapshot a drain works through.
LEMMA DrainingType ==
    ASSUME NEW left \in Seq(Incoming)
    PROVE  /\ Draining(left) \in [at : DrainStages, left : Seq(Incoming)]
           /\ Draining(left).at # "off" => Draining(left).left # <<>>
BY EmptySeq DEF Draining, NoDrain, DrainStages

-----------------------------------------------------------------------------
(* Type correctness.                                                       *)

LEMMA TypedInit == Init => Typed
<1> SUFFICES ASSUME Init PROVE Typed
  OBVIOUS
<1>1. EmptyState \in States /\ WellFormed(EmptyState)
  BY EmptyStateType
<1>2. faults \in [DOMAIN NoFaults -> Nat]
  BY DEF Init, NoFaults
<1> QED BY <1>1, <1>2, EmptySeq DEF Init, Typed, TypeOK, Phases, NoDrain, DrainStages, Idle, WorkStages, SendStages

LEMMA FaultType ==
    ASSUME TypeOK, NEW kind \in DOMAIN NoFaults, NEW max, Fault(kind, max)
    PROVE  faults' \in [DOMAIN NoFaults -> Nat]
BY DEF TypeOK, Fault

\* The store keeps the state file well formed.
LEMMA ApplyTypes ==
    ASSUME Typed, queue # <<>>
    PROVE  /\ Head(queue) \in Mutations
           /\ Apply(mem, Head(queue)) \in {s \in States : WellFormed(s)}
BY HeadTailProperties, ApplyProperties DEF Typed, TypeOK

LEMMA TypedRelay == Typed /\ Relay => Typed'
<1> SUFFICES ASSUME Typed, Relay PROVE Typed'
  OBVIOUS
<1> USE FrameTypes DEF Typed, TypeOK, RelayUnchanged, procVars, relayVars
<1>1. ASSUME NEW m \in Incoming, RelayPush(m) PROVE Typed'
  BY <1>1 DEF RelayPush
<1>2. ASSUME NEW m \in Incoming, RelayRepeat(m) PROVE Typed'
  BY <1>2, FaultType DEF RelayRepeat, NoFaults
<1>3. ASSUME NEW m \in Incoming, NEW st \in {"DELIVERED", "READ"}, RelayTakesAck(m, st) PROVE Typed'
  BY <1>3 DEF RelayTakesAck
<1>4. ASSUME NEW e \in Envelopes, RelayTakesEnvelope(e) PROVE Typed'
  BY <1>4 DEF RelayTakesEnvelope
<1>5. ASSUME NEW e \in Envelopes, RelayReceipt(e) PROVE Typed'
  BY <1>5 DEF RelayReceipt
<1>6. ASSUME NEW e \in Envelopes, RelayTakesReceiptAck(e) PROVE Typed'
  BY <1>6 DEF RelayTakesReceiptAck
<1> QED BY <1>1, <1>2, <1>3, <1>4, <1>5, <1>6 DEF Relay

LEMMA TypedProcess ==
    Typed /\ (Start \/ StartLoaded \/ Stop \/ Crash \/ Connect \/ Drop) => Typed'
<1> SUFFICES ASSUME Typed, Start \/ StartLoaded \/ Stop \/ Crash \/ Connect \/ Drop PROVE Typed'
  OBVIOUS
<1> USE DEF Typed, TypeOK, procVars, relayVars, Phases
<1>1. CASE Start
  BY <1>1 DEF Start
<1>2. CASE StartLoaded
  BY <1>2, EmptyStateType DEF StartLoaded
<1>3. CASE Stop
  BY <1>3, FaultType DEF Stop, NoFaults
<1>4. CASE Crash
  <2>1. faults' \in [DOMAIN NoFaults -> Nat]
    BY <1>4, FaultType DEF Crash, NoFaults
  <2> QED BY <1>4, <2>1, EmptyStateType, EmptySeq DEF Crash, Idle, WorkStages, SendStages, NoDrain, DrainStages
<1>5. CASE Connect
  <2>1. /\ drain' \in [at : DrainStages, left : Seq(Incoming)]
        /\ drain'.at # "off" => drain'.left # <<>>
    BY <1>5, DrainingType DEF Connect, DrainStarted, States
  <2>2. mem.outbox \subseteq Envelopes
    BY DEF States
  <2> QED BY <1>5, <2>1, <2>2, FrameTypes DEF Connect
<1>6. CASE Drop
  BY <1>6, FaultType DEF Drop, NoFaults
<1> QED BY <1>1, <1>2, <1>3, <1>4, <1>5, <1>6

LEMMA TypedReceive == Typed /\ (Receive \/ TimerFires \/ DrainStep) => Typed'
<1> SUFFICES ASSUME Typed, Receive \/ TimerFires \/ DrainStep PROVE Typed'
  OBVIOUS
<1> USE FrameTypes, MutationTypes
        DEF Typed, TypeOK, FrameUnchanged, relayVars, Received, RetryScheduled, WorkJoined, WorkStages
<1>a. \A m \in Incoming : Confirmed(mem, m) \in {"DELIVERED", "READ"}
  BY DEF Confirmed
<1>b. ASSUME NEW mu \in Mutations, Enqueue(mu) PROVE queue' \in Seq(Mutations) /\ queue' # <<>>
  BY <1>b, EnqueueType
<1>1. ASSUME NEW m \in Incoming, ReceiveConfirmed(m) PROVE Typed'
  BY <1>1, <1>a DEF ReceiveConfirmed
<1>2. ASSUME NEW m \in Incoming, ReceiveStaged(m) PROVE Typed'
  BY <1>2 DEF ReceiveStaged
<1>3. ASSUME NEW m \in Incoming, ReceiveNew(m) PROVE Typed'
  BY <1>3, <1>b DEF ReceiveNew
<1>4. ASSUME NEW m \in Incoming, ReceiveAckReceived(m) PROVE Typed'
  BY <1>4, <1>b DEF ReceiveAckReceived
<1>5. ASSUME NEW e \in Envelopes, ReceiveReceipt(e) PROVE Typed'
  BY <1>5, <1>b DEF ReceiveReceipt
<1>6. CASE TimerFires
  <2>1. /\ drain' \in [at : DrainStages, left : Seq(Incoming)]
        /\ drain'.at # "off" => drain'.left # <<>>
    BY <1>6, DrainingType DEF TimerFires, DrainStarted, States
  <2> QED BY <1>6, <2>1 DEF TimerFires
<1>7. CASE DrainConfirmed
  <2>1. Head(drain.left) \in Incoming /\ Tail(drain.left) \in Seq(Incoming)
    BY <1>7, HeadTailProperties DEF DrainConfirmed
  <2>2. /\ drain' \in [at : DrainStages, left : Seq(Incoming)]
        /\ drain'.at # "off" => drain'.left # <<>>
    <3>1. CASE conn
      BY <1>7, <2>1, <3>1, DrainingType DEF DrainConfirmed
    <3>2. CASE ~conn
      <4>1. drain' = NoDrain
        BY <1>7, <3>2 DEF DrainConfirmed
      <4> QED BY <4>1, EmptySeq DEF NoDrain, DrainStages
    <3> QED BY <3>1, <3>2
  <2>3. toRelay' \subseteq toRelay \cup {Ack(m, Confirmed(mem, m)) : m \in {Head(drain.left)}}
    BY <1>7 DEF DrainConfirmed
  <2>4. /\ UNCHANGED <<queue, work, toAgent>> /\ FrameUnchanged /\ RetryScheduled(mem)
    BY <1>7 DEF DrainConfirmed
  <2> QED BY <2>1, <2>2, <2>3, <2>4, <1>a
<1>8. CASE DrainStaged
  <2>1. Head(drain.left) \in Incoming
    BY <1>8, HeadTailProperties DEF DrainStaged
  <2> QED BY <1>8, <2>1 DEF DrainStaged, DrainStages
<1>9. CASE DrainForgotten
  <2>1. Head(drain.left) \in Incoming
    BY <1>9, HeadTailProperties DEF DrainForgotten
  <2> QED BY <1>9, <2>1, <1>b DEF DrainForgotten, DrainStages
<1> QED BY <1>1, <1>2, <1>3, <1>4, <1>5, <1>6, <1>7, <1>8, <1>9 DEF Receive, DrainStep

\* The processing of a message ends, for the drain too.
LEMMA DrainEndsType ==
    ASSUME Typed, NEW m, DrainGivesUp(m) \/ DrainGoesOn(m)
    PROVE  /\ drain' \in [at : DrainStages, left : Seq(Incoming)]
           /\ drain'.at # "off" => drain'.left # <<>>
<1>1. CASE drain' = drain
  BY <1>1 DEF Typed, TypeOK
<1>2. CASE drain' = NoDrain
  BY <1>2, EmptySeq DEF NoDrain, DrainStages
<1>3. CASE DrainAwaits(m) /\ drain' = Draining(Tail(drain.left))
  <2>1. Tail(drain.left) \in Seq(Incoming)
    BY <1>3, HeadTailProperties DEF Typed, TypeOK, DrainAwaits
  <2> QED BY <1>3, <2>1, DrainingType
<1> QED BY <1>1, <1>2, <1>3 DEF DrainGivesUp, DrainGoesOn

LEMMA RetryType == ASSUME Typed, NEW s, RetryScheduled(s) PROVE timer' \in BOOLEAN
BY DEF RetryScheduled, Typed, TypeOK

LEMMA OutboxDrainedType ==
    ASSUME Typed, OutboxDrained(disk)
    PROVE  toRelay' \subseteq ToRelayFrames /\ sent' \subseteq Envelopes
<1>1. disk.outbox \subseteq Envelopes
  BY DEF Typed, TypeOK, States
<1> QED BY <1>1, FrameTypes DEF OutboxDrained, Typed, TypeOK

LEMMA TypedApplication == Typed /\ Application => Typed'
<1> SUFFICES ASSUME Typed, Application PROVE Typed'
  OBVIOUS
<1> USE MutationTypes, EnvelopeTypes DEF Typed, TypeOK, AppUnchanged, relayVars, WorkStages, SendStages
<1>b. ASSUME NEW mu \in Mutations, Enqueue(mu) PROVE queue' \in Seq(Mutations) /\ queue' # <<>>
  BY <1>b, EnqueueType
<1>1. ASSUME NEW m \in Incoming, FetchSucceeds(m) PROVE Typed'
  BY <1>1, <1>b DEF FetchSucceeds
<1>2. ASSUME NEW m \in Incoming, Throws(m) PROVE Typed'
  <2>1. faults' \in [DOMAIN NoFaults -> Nat]
    BY <1>2, FaultType DEF Throws, NoFaults
  <2> QED BY <1>2, <2>1, DrainEndsType DEF Throws, WorkFails, WorkEnds, RetryScheduled
<1>3. ASSUME NEW m \in Incoming, NEW st \in {"DELIVERED", "READ"}, HandlerReturns(m, st) PROVE Typed'
  BY <1>3, <1>b DEF HandlerReturns
<1>4. ASSUME NEW m \in Incoming, MarkRead(m) PROVE Typed'
  BY <1>4, <1>b DEF MarkRead
<1>5. ASSUME NEW o \in Sends, Send(o) PROVE Typed'
  BY <1>5, <1>b DEF Send
<1> QED BY <1>1, <1>2, <1>3, <1>4, <1>5 DEF Application

LEMMA TypedSwap == Typed /\ Swap => Typed'
<1> SUFFICES ASSUME Typed, Swap PROVE Typed'
  OBVIOUS
<1>1. <<>> \in Seq(Mutations) /\ \A mu \in Mutations : <<mu>> \in Seq(Mutations)
  OBVIOUS
<1>2. ASSUME NEW next \in Seq(Mutations), Swapped(next)
      PROVE  queue' \in Seq(Mutations) /\ mem' \in {s \in States : WellFormed(s)} /\ saved' = FALSE
  BY <1>2, SwappedType DEF Swapped, Typed, TypeOK
<1>3. ASSUME NEW o \in Sends, NEW e \in Envelopes, SwapSent(o, e) PROVE Typed'
  <2>1. /\ queue' \in Seq(Mutations) /\ mem' \in {s \in States : WellFormed(s)} /\ saved' = FALSE
        /\ sends' \in [Sends -> SendStages]
    BY <1>1, <1>2, <1>3, MutationTypes, EnvelopeTypes DEF SwapSent, Typed, TypeOK, SendStages
  <2>2. toRelay' \subseteq ToRelayFrames /\ sent' \subseteq Envelopes
    BY <1>3, OutboxDrainedType DEF SwapSent
  <2> QED BY <1>3, <2>1, <2>2 DEF SwapSent, Typed, TypeOK, SwapUnchanged, relayVars
<1>4. ASSUME NEW e \in Envelopes, SwapRemoved(e) PROVE Typed'
  <2>1. queue' \in Seq(Mutations) /\ mem' \in {s \in States : WellFormed(s)} /\ saved' = FALSE
    BY <1>1, <1>2, <1>4 DEF SwapRemoved
  <2>2. timer' \in BOOLEAN
    BY <1>4, RetryType DEF SwapRemoved, Typed, TypeOK
  <2>3. toRelay' \subseteq ToRelayFrames
    BY <1>4, FrameTypes DEF SwapRemoved, Typed, TypeOK
  <2> QED BY <1>4, <2>1, <2>2, <2>3 DEF SwapRemoved, Typed, TypeOK, SwapUnchanged, relayVars
<1>5. ASSUME NEW m \in Incoming, NEW by \in {"frame", "drain"}, SwapRemembered(m, by) PROVE Typed'
  <2>1. queue' \in Seq(Mutations) /\ mem' \in {s \in States : WellFormed(s)} /\ saved' = FALSE
    BY <1>1, <1>2, <1>5 DEF SwapRemembered
  <2> QED BY <1>5, <2>1 DEF SwapRemembered, WorkJoined, DrainJoins, DrainStages, WorkStages,
                            Typed, TypeOK, SwapUnchanged, relayVars
<1>6. ASSUME NEW m \in Incoming, NEW st \in {"DELIVERED", "READ"}, SwapCompleted(m, st) PROVE Typed'
  <2>1. queue' \in Seq(Mutations) /\ mem' \in {s \in States : WellFormed(s)} /\ saved' = FALSE
    BY <1>1, <1>2, <1>6 DEF SwapCompleted
  <2>2. /\ drain' \in [at : DrainStages, left : Seq(Incoming)]
        /\ drain'.at # "off" => drain'.left # <<>>
    BY <1>6, DrainEndsType DEF SwapCompleted
  <2>3. timer' \in BOOLEAN /\ work' \in [Incoming -> WorkStages]
    BY <1>6, RetryType DEF SwapCompleted, WorkEnds, WorkStages, Typed, TypeOK
  <2>4. toRelay' \subseteq ToRelayFrames
    BY <1>6, FrameTypes DEF SwapCompleted, Typed, TypeOK
  <2> QED BY <1>6, <2>1, <2>2, <2>3, <2>4 DEF SwapCompleted, Typed, TypeOK, SwapUnchanged, relayVars
<1>7. ASSUME NEW m \in Incoming, SwapCopied(m) PROVE Typed'
  <2>1. queue' \in Seq(Mutations) /\ mem' \in {s \in States : WellFormed(s)} /\ saved' = FALSE
    BY <1>1, <1>2, <1>7 DEF SwapCopied
  <2>2. toRelay' \subseteq ToRelayFrames /\ sent' \subseteq Envelopes
    BY <1>7, OutboxDrainedType DEF SwapCopied
  <2> QED BY <1>7, <2>1, <2>2 DEF SwapCopied, WorkStages, Typed, TypeOK, SwapUnchanged, relayVars
<1>8. ASSUME NEW m \in Incoming, SwapMarkedRead(m) PROVE Typed'
  <2>1. queue' \in Seq(Mutations) /\ mem' \in {s \in States : WellFormed(s)} /\ saved' = FALSE
    BY <1>1, <1>2, <1>8 DEF SwapMarkedRead
  <2>2. timer' \in BOOLEAN
    BY <1>8, RetryType DEF SwapMarkedRead, Typed, TypeOK
  <2>3. toRelay' \subseteq ToRelayFrames
    BY <1>8, FrameTypes DEF SwapMarkedRead, Typed, TypeOK
  <2> QED BY <1>8, <2>1, <2>2, <2>3 DEF SwapMarkedRead, Typed, TypeOK, SwapUnchanged, relayVars
<1>9. ASSUME NEW m \in Incoming, SwapForgotten(m) PROVE Typed'
  <2>1. queue' \in Seq(Mutations) /\ mem' \in {s \in States : WellFormed(s)} /\ saved' = FALSE
    BY <1>1, <1>2, <1>9 DEF SwapForgotten
  <2> QED BY <1>9, <2>1 DEF SwapForgotten, Typed, TypeOK, SwapUnchanged, relayVars
<1> QED BY <1>3, <1>4, <1>5, <1>6, <1>7, <1>8, <1>9 DEF Swap

\* Whoever asked for a mutation that was not saved goes on in some stage.
LEMMA SaveRejectedType ==
    ASSUME Typed, NEW mu, SaveRejected(mu)
    PROVE  /\ drain' \in [at : DrainStages, left : Seq(Incoming)]
           /\ drain'.at # "off" => drain'.left # <<>>
           /\ work' \in [Incoming -> WorkStages] /\ sends' \in [Sends -> SendStages]
           /\ timer' \in BOOLEAN
<1>1. ASSUME NEW m, WorkFails(m, mem)
      PROVE  /\ drain' \in [at : DrainStages, left : Seq(Incoming)]
             /\ drain'.at # "off" => drain'.left # <<>>
             /\ work' \in [Incoming -> WorkStages] /\ timer' \in BOOLEAN
  BY <1>1, DrainEndsType, RetryType DEF WorkFails, WorkEnds, WorkStages, Typed, TypeOK
<1> DEFINE asking == {o \in Sends : mu.id \in {o, Copy(o)}}
<1>2. CASE mu.op = "queue" /\ asking # {}
  <2>1. /\ sends' = [o \in Sends |-> IF o \in asking THEN "failed" ELSE sends[o]]
        /\ UNCHANGED <<work, drain, timer>>
    BY <1>2 DEF SaveRejected
  <2> QED BY <2>1 DEF Typed, TypeOK, SendStages
<1>3. CASE mu.op = "queue" /\ asking = {}
  BY <1>1, <1>3 DEF SaveRejected, Typed, TypeOK
<1>5. CASE mu.op = "complete"
  BY <1>1, <1>5 DEF SaveRejected, Typed, TypeOK
<1>6. CASE mu.op = "remember" /\ mu.by = "drain"
  <2>1. drain' = NoDrain /\ timer' \in BOOLEAN /\ UNCHANGED <<work, sends>>
    BY <1>6, RetryType DEF SaveRejected
  <2> QED BY <2>1, EmptySeq DEF NoDrain, DrainStages, Typed, TypeOK
<1>7. CASE mu.op = "markRead"
  BY <1>7 DEF SaveRejected, Typed, TypeOK
<1>8. CASE mu.op \notin {"queue", "complete", "markRead"} /\ ~(mu.op = "remember" /\ mu.by = "drain")
  BY <1>8, RetryType DEF SaveRejected, Typed, TypeOK
<1> QED BY <1>2, <1>3, <1>5, <1>6, <1>7, <1>8

LEMMA TypedStore == Typed /\ Store => Typed'
<1> SUFFICES ASSUME Typed, Store PROVE Typed'
  OBVIOUS
<1>1. CASE Save
  BY <1>1, ApplyTypes DEF Save, Typed, TypeOK, relayVars
<1>2. CASE Swap
  BY <1>2, TypedSwap
<1>3. ASSUME NEW renamed \in BOOLEAN, SaveFails(renamed) PROVE Typed'
  <2>1. faults' \in [DOMAIN NoFaults -> Nat]
    BY <1>3, FaultType DEF SaveFails, NoFaults, Typed
  <2>2. queue' \in Seq(Mutations) /\ disk' \in {s \in States : WellFormed(s)}
    BY <1>3, ApplyTypes, HeadTailProperties DEF SaveFails, Typed, TypeOK
  <2>3. SaveRejected(Head(queue))
    BY <1>3 DEF SaveFails
  <2> QED BY <1>3, <2>1, <2>2, <2>3, SaveRejectedType DEF SaveFails, Typed, TypeOK, relayVars
<1> QED BY <1>1, <1>2, <1>3 DEF Store

LEMMA TypedStep == Typed /\ [Next]_vars => Typed'
<1> SUFFICES ASSUME Typed, [Next]_vars PROVE Typed'
  OBVIOUS
<1>1. CASE UNCHANGED vars
  BY <1>1 DEF vars, procVars, relayVars, Typed, TypeOK
<1>2. CASE Next
  BY <1>2, TypedProcess, TypedRelay, TypedReceive, TypedApplication, TypedStore DEF Next
<1> QED BY <1>1, <1>2

\* Type correctness of every behaviour.
THEOREM TypeCorrectness == Spec => []TypeOK
<1>1. Spec => []Typed
  BY TypedInit, TypedStep, PTL DEF Spec
<1>2. Typed => TypeOK
  BY DEF Typed
<1> QED BY <1>1, <1>2, PTL

-----------------------------------------------------------------------------
(* AckedWasHandled alone is not inductive, for an acknowledgement is sent  *)
(* on the word of the ledger, or of a pending completion.                  *)

\* The mutations that may be pending: a completion follows its handler, and a
\* message is forgotten after the relay discarded it.
Vouched ==
    {mu \in Mutations : /\ mu.op \in {"complete", "markRead"} => mu.id \in handled
                        /\ mu.op = "forget" => mu.id \notin mailbox}

LedgersVouch ==
    \A s \in {disk, mem, loaded} : \A m \in Incoming : Processed(s, m) => m \in handled

HandledInv ==
    /\ Typed
    /\ AckedWasHandled
    /\ \A m \in Incoming : AckReceived(m) \in toAgent => m \notin mailbox
    /\ LedgersVouch
    /\ queue \in Seq(Vouched)

LEMMA FramesDiffer ==
    /\ \A m, n, a, b : Ack(m, a) = Ack(n, b) <=> m = n /\ a = b
    /\ \A m, a, e : Ack(m, a) # Deliver(e) /\ Ack(m, a) # ReceiptAck(e)
    /\ \A m, n : AckReceived(m) = AckReceived(n) <=> m = n
    /\ \A m, n : AckReceived(m) # Message(n) /\ AckReceived(m) # Receipt(n)
BY DEF Ack, Deliver, ReceiptAck, AckReceived, Message, Receipt

\* Handlers never unreturn, and the relay takes no message back: what was
\* vouched for stays so.
LEMMA VouchedGrows ==
    ASSUME handled \subseteq handled', mailbox' \subseteq mailbox, NEW q \in Seq(Vouched)
    PROVE  q \in Seq(Vouched')
<1>1. \A i \in 1 .. Len(q) : q[i] \in Vouched'
  <2>1. \A i \in 1 .. Len(q) : q[i] \in Vouched
    BY ElementOfSeq
  <2> QED BY <2>1 DEF Vouched
<1> QED BY <1>1, ElementsMakeSeq

LEMMA HandledInit == Init => HandledInv
<1> SUFFICES ASSUME Init PROVE HandledInv
  OBVIOUS
<1>1. \A m \in Incoming : ~Processed(EmptyState, m)
  BY DEF Processed, Contains, EmptyState
<1>2. /\ queue \in Seq(Vouched) /\ LedgersVouch
  BY <1>1, EmptySeq DEF Init, LedgersVouch
<1>3. AckedWasHandled
  BY DEF Init, AckedWasHandled
<1> QED BY <1>2, <1>3, TypedInit DEF Init, HandledInv

\* An action that acknowledges only what it may, and queues only what it may.
LEMMA HandledGrows ==
    ASSUME HandledInv, Typed', handled \subseteq handled',
           \A m \in mailbox \ mailbox' : m \in handled,
           \A m \in Incoming, st \in {"DELIVERED", "READ"} :
                Ack(m, st) \in toRelay' \ toRelay => m \in handled'
    PROVE  AckedWasHandled'
BY DEF HandledInv, AckedWasHandled, Typed, TypeOK

LEMMA EnqueueVouched ==
    ASSUME HandledInv, handled \subseteq handled', mailbox' \subseteq mailbox,
           NEW mu \in Mutations, Enqueue(mu),
           mu.op \in {"complete", "markRead"} => mu.id \in handled',
           mu.op = "forget" => mu.id \notin mailbox'
    PROVE  queue' \in Seq(Vouched')
<1>1. queue \in Seq(Vouched')
  BY VouchedGrows DEF HandledInv
<1>2. mu \in Vouched'
  BY DEF Vouched
<1> QED BY <1>1, <1>2, EnqueueType

LEMMA HandledProcess ==
    HandledInv /\ Typed' /\ (Start \/ StartLoaded \/ Stop \/ Crash \/ Connect \/ Drop) => HandledInv'
<1> SUFFICES ASSUME HandledInv, Typed', Start \/ StartLoaded \/ Stop \/ Crash \/ Connect \/ Drop
             PROVE  HandledInv'
  OBVIOUS
<1>1. \A m \in Incoming : ~Processed(EmptyState, m)
  BY DEF Processed, Contains, EmptyState
<1>2. handled' = handled /\ mailbox' = mailbox
  BY DEF Start, StartLoaded, Stop, Crash, Connect, Drop, relayVars
<1>3. Vouched' = Vouched
  BY <1>2 DEF Vouched
<1>4. AckedWasHandled'
  <2>1. \A m, st : Ack(m, st) \in toRelay' => Ack(m, st) \in toRelay
    BY FramesDiffer DEF Start, StartLoaded, Stop, Crash, Connect, Drop
  <2> QED BY <2>1, <1>2 DEF HandledInv, AckedWasHandled
<1>5. LedgersVouch'
  BY <1>1, <1>2 DEF HandledInv, LedgersVouch, Start, StartLoaded, Stop, Crash, Connect, Drop, procVars
<1>6. queue' \in Seq(Vouched')
  BY <1>3, EmptySeq DEF HandledInv, Start, StartLoaded, Stop, Crash, Connect, Drop, procVars
<1>7. toAgent' \subseteq toAgent
  BY DEF Start, StartLoaded, Stop, Crash, Connect, Drop
<1> QED BY <1>2, <1>4, <1>5, <1>6, <1>7 DEF HandledInv

LEMMA HandledRelay == HandledInv /\ Typed' /\ Relay => HandledInv'
<1> SUFFICES ASSUME HandledInv, Typed', Relay PROVE HandledInv'
  OBVIOUS
<1>1. UNCHANGED <<disk, mem, loaded, queue, handled>>
  BY DEF Relay, RelayPush, RelayRepeat, RelayTakesAck, RelayTakesEnvelope, RelayReceipt,
         RelayTakesReceiptAck, RelayUnchanged, procVars
<1>2. toRelay' \subseteq toRelay
  BY DEF Relay, RelayPush, RelayRepeat, RelayTakesAck, RelayTakesEnvelope, RelayReceipt, RelayTakesReceiptAck
<1>3. \A m \in mailbox \ mailbox' : m \in handled
  BY DEF Relay, RelayPush, RelayRepeat, RelayTakesAck, RelayTakesEnvelope, RelayReceipt,
         RelayTakesReceiptAck, relayVars, HandledInv, AckedWasHandled
<1>4. mailbox' \subseteq mailbox
  BY DEF Relay, RelayPush, RelayRepeat, RelayTakesAck, RelayTakesEnvelope, RelayReceipt,
         RelayTakesReceiptAck, relayVars
<1>5. queue' \in Seq(Vouched')
  BY <1>1, <1>4, VouchedGrows DEF HandledInv
<1>6. \A m \in Incoming : AckReceived(m) \in toAgent' => m \notin mailbox'
  BY <1>4, FramesDiffer DEF Relay, RelayPush, RelayRepeat, RelayTakesAck, RelayTakesEnvelope, RelayReceipt,
         RelayTakesReceiptAck, HandledInv
<1> QED BY <1>1, <1>2, <1>3, <1>5, <1>6, HandledGrows DEF HandledInv, LedgersVouch

LEMMA HandledReceive == HandledInv /\ Typed' /\ (Receive \/ TimerFires \/ DrainStep) => HandledInv'
<1> SUFFICES ASSUME HandledInv, Typed', Receive \/ TimerFires \/ DrainStep PROVE HandledInv'
  OBVIOUS
<1>1. UNCHANGED <<disk, mem, loaded, handled, mailbox>>
  BY DEF Receive, ReceiveConfirmed, ReceiveStaged, ReceiveNew, ReceiveAckReceived, ReceiveReceipt,
         TimerFires, DrainStep, DrainConfirmed, DrainStaged, DrainForgotten, FrameUnchanged, relayVars
<1>2. ASSUME NEW m \in Incoming, NEW st \in {"DELIVERED", "READ"}, Ack(m, st) \in toRelay' \ toRelay
      PROVE  m \in handled
  <2>1. ASSUME NEW n \in Incoming, ReceiveConfirmed(n) PROVE m \in handled
    BY <1>2, <2>1, FramesDiffer DEF ReceiveConfirmed, HandledInv, LedgersVouch
  <2>2. CASE DrainConfirmed
    <3>1. Head(drain.left) \in Incoming
      BY <2>2, HeadTailProperties DEF DrainConfirmed, HandledInv, Typed, TypeOK
    <3> QED BY <1>2, <2>2, <3>1, FramesDiffer DEF DrainConfirmed, HandledInv, LedgersVouch
  <2>3. ASSUME NEW e \in Envelopes, ReceiveReceipt(e) PROVE m \in handled
    BY <1>2, <2>3, FramesDiffer DEF ReceiveReceipt
  <2> QED BY <1>2, <2>1, <2>2, <2>3
          DEF Receive, ReceiveStaged, ReceiveNew, ReceiveAckReceived, TimerFires,
              DrainStep, DrainStaged, DrainForgotten
<1>3. queue' \in Seq(Vouched')
  <2>1. CASE UNCHANGED queue
    BY <1>1, <2>1, VouchedGrows DEF HandledInv
  <2>2. ASSUME NEW mu \in Mutations, Enqueue(mu), mu.op \notin {"complete", "markRead"},
               mu.op = "forget" => mu.id \notin mailbox
        PROVE  queue' \in Seq(Vouched')
    BY <1>1, <2>2, EnqueueVouched
  <2>3. ASSUME NEW m \in Incoming, ReceiveNew(m) \/ ReceiveAckReceived(m) PROVE queue' \in Seq(Vouched')
    BY <2>1, <2>2, <2>3, MutationTypes DEF ReceiveNew, ReceiveAckReceived, Mutation, Received, HandledInv
  <2>4. ASSUME NEW e \in Envelopes, ReceiveReceipt(e) PROVE queue' \in Seq(Vouched')
    BY <2>1, <2>2, <2>4, MutationTypes DEF ReceiveReceipt, Mutation
  <2>5. CASE DrainForgotten
    <3>1. Head(drain.left) \in Incoming
      BY <2>5, HeadTailProperties DEF DrainForgotten, HandledInv, Typed, TypeOK
    <3> QED BY <2>2, <2>5, <3>1, MutationTypes DEF DrainForgotten, Mutation
  <2> QED BY <2>1, <2>3, <2>4, <2>5
          DEF Receive, ReceiveConfirmed, ReceiveStaged, TimerFires, DrainStep, DrainConfirmed, DrainStaged
<1>4. toAgent' \subseteq toAgent
  BY DEF Receive, ReceiveConfirmed, ReceiveStaged, ReceiveNew, ReceiveAckReceived, ReceiveReceipt,
         TimerFires, DrainStep, DrainConfirmed, DrainStaged, DrainForgotten, Received
<1> QED BY <1>1, <1>2, <1>3, <1>4, HandledGrows DEF HandledInv, LedgersVouch

LEMMA HandledApplication == HandledInv /\ Typed' /\ Application => HandledInv'
<1> SUFFICES ASSUME HandledInv, Typed', Application PROVE HandledInv'
  OBVIOUS
<1>1. UNCHANGED <<disk, mem, loaded, mailbox, toRelay, toAgent>> /\ handled \subseteq handled'
  BY DEF Application, FetchSucceeds, Throws, HandlerReturns, MarkRead, Send, AppUnchanged, relayVars
<1>2. queue' \in Seq(Vouched')
  <2>1. CASE UNCHANGED queue
    BY <1>1, <2>1, VouchedGrows DEF HandledInv
  <2>2. ASSUME NEW mu \in Mutations, Enqueue(mu), mu.op # "forget",
               mu.op \in {"complete", "markRead"} => mu.id \in handled'
        PROVE  queue' \in Seq(Vouched')
    BY <1>1, <2>2, EnqueueVouched
  <2>3. ASSUME NEW m \in Incoming, FetchSucceeds(m) PROVE queue' \in Seq(Vouched')
    BY <2>1, <2>2, <2>3, MutationTypes, EnvelopeTypes DEF FetchSucceeds, Mutation
  <2>4. ASSUME NEW m \in Incoming, NEW st \in {"DELIVERED", "READ"}, HandlerReturns(m, st)
        PROVE  queue' \in Seq(Vouched')
    BY <2>2, <2>4, MutationTypes DEF HandlerReturns, Mutation
  <2>5. ASSUME NEW m \in Incoming, MarkRead(m) PROVE queue' \in Seq(Vouched')
    BY <1>1, <2>2, <2>5, MutationTypes DEF MarkRead, Mutation, HandledInv
  <2>6. ASSUME NEW o \in Sends, Send(o) PROVE queue' \in Seq(Vouched')
    BY <2>2, <2>6, MutationTypes, EnvelopeTypes DEF Send, Mutation
  <2> QED BY <2>1, <2>3, <2>4, <2>5, <2>6 DEF Application, Throws
<1> QED BY <1>1, <1>2, HandledGrows DEF HandledInv, LedgersVouch

LEMMA HandledStore == HandledInv /\ Typed' /\ Store => HandledInv'
<1> SUFFICES ASSUME HandledInv, Typed', Store PROVE HandledInv'
  OBVIOUS
<1>1. UNCHANGED <<loaded, handled, mailbox, toAgent>>
  BY DEF Store, Save, SaveFails, Swap, SwapSent, SwapCopied, SwapRemoved, SwapRemembered, SwapCompleted,
         SwapMarkedRead, SwapForgotten, SwapUnchanged, relayVars
<1>2. queue # <<>> => Head(queue) \in Vouched
  BY HeadTailProperties DEF HandledInv
<1>3. ASSUME queue # <<>>, NEW m \in Incoming, Processed(Apply(mem, Head(queue)), m)
      PROVE  m \in handled
  BY <1>2, <1>3, ApplyProperties DEF HandledInv, LedgersVouch, Typed, TypeOK, Vouched
<1>4. LedgersVouch'
  <2>1. CASE Save
    BY <1>1, <1>3, <2>1 DEF HandledInv, LedgersVouch, Save
  <2>2. CASE Swap
    <3>1. mem' = disk /\ disk' = disk
      BY <2>2 DEF Swap, SwapSent, SwapCopied, SwapRemoved, SwapRemembered, SwapCompleted,
                  SwapMarkedRead, SwapForgotten, Swapped, SwapUnchanged
    <3> QED BY <1>1, <3>1 DEF HandledInv, LedgersVouch
  <2>3. ASSUME NEW renamed \in BOOLEAN, SaveFails(renamed) PROVE LedgersVouch'
    BY <1>1, <1>3, <2>3 DEF HandledInv, LedgersVouch, SaveFails
  <2> QED BY <2>1, <2>2, <2>3 DEF Store
<1>5. queue' \in Seq(Vouched')
  <2>1. Vouched' = Vouched
    BY <1>1 DEF Vouched
  <2>2. queue \in Seq(Vouched) /\ (queue # <<>> => Tail(queue) \in Seq(Vouched))
    BY HeadTailProperties DEF HandledInv
  <2>3. ASSUME NEW next \in Seq(Vouched), Swapped(next) PROVE queue' \in Seq(Vouched)
    BY <2>3, SwappedType DEF HandledInv, Typed, Swapped
  <2>4. \A e \in Envelopes : <<Mutation("queue", e, "agent")>> \in Seq(Vouched)
    <3>1. \A e \in Envelopes : Mutation("queue", e, "agent") \in Vouched
      BY MutationTypes DEF Vouched, Mutation
    <3> QED BY <3>1
  <2>5. ASSUME Swap PROVE queue' \in Seq(Vouched)
    <3>1. ASSUME NEW o \in Sends, NEW e \in Envelopes, SwapSent(o, e) PROVE queue' \in Seq(Vouched)
      <4>1. PICK next \in {<<>>, <<Mutation("queue", Copy(o), "agent")>>} :
                Swapped(next) /\ (next # <<>> => o \in Mirrored)
        BY <3>1 DEF SwapSent
      <4> QED BY <4>1, <2>3, <2>4, EmptySeq, EnvelopeTypes
    <3> QED BY <2>3, <2>5, <3>1, EmptySeq
            DEF Swap, SwapCopied, SwapRemoved, SwapRemembered, SwapCompleted, SwapMarkedRead, SwapForgotten
  <2> QED BY <2>1, <2>2, <2>5 DEF Store, Save, SaveFails
<1>6. ASSUME NEW m \in Incoming, NEW st \in {"DELIVERED", "READ"}, Ack(m, st) \in toRelay' \ toRelay
      PROVE  m \in handled
  <2>1. ASSUME NEW n \in Incoming, NEW by \in {"DELIVERED", "READ"}, SwapCompleted(n, by) PROVE m \in handled
    <3>1. queue # <<>> /\ Head(queue).op = "complete" /\ Head(queue).id = n
      BY <2>1 DEF SwapCompleted, Swapped, Mutation, HandledInv, Typed
    <3> QED BY <1>2, <1>6, <2>1, <3>1, FramesDiffer DEF SwapCompleted, Vouched
  <2>2. ASSUME NEW n \in Incoming, SwapMarkedRead(n) PROVE m \in handled
    <3>1. queue # <<>> /\ Head(queue).op = "markRead" /\ Head(queue).id = n
      BY <2>2 DEF SwapMarkedRead, Swapped, Mutation, HandledInv, Typed
    <3> QED BY <1>2, <1>6, <2>2, <3>1, FramesDiffer DEF SwapMarkedRead, Vouched
  <2>3. ASSUME OutboxDrained(disk) PROVE m \in handled
    BY <1>6, <2>3, FramesDiffer DEF OutboxDrained
  <2>4. ASSUME NEW e \in Envelopes, SwapRemoved(e) PROVE m \in handled
    BY <1>6, <2>4, FramesDiffer DEF SwapRemoved
  <2> QED BY <1>6, <2>1, <2>2, <2>3, <2>4
          DEF Store, Save, SaveFails, Swap, SwapSent, SwapCopied, SwapRemembered, SwapForgotten
<1> QED BY <1>1, <1>4, <1>5, <1>6, HandledGrows DEF HandledInv

LEMMA HandledStep == HandledInv /\ [Next]_vars => HandledInv'
<1> SUFFICES ASSUME HandledInv, [Next]_vars PROVE HandledInv'
  OBVIOUS
<1>1. Typed'
  BY TypedStep DEF HandledInv
<1>2. CASE UNCHANGED vars
  BY <1>1, <1>2 DEF vars, procVars, relayVars, HandledInv, AckedWasHandled, LedgersVouch, Vouched
<1>3. CASE Next
  BY <1>1, <1>3, HandledProcess, HandledRelay, HandledReceive, HandledApplication, HandledStore DEF Next
<1> QED BY <1>2, <1>3

LEMMA HandledAlways == Spec => []HandledInv
BY HandledInit, HandledStep, PTL DEF Spec

\* The relay discards no message whose handler has not returned, whatever
\* crashes, is repeated or fails to be saved (completeIncoming before the ACK).
THEOREM AcknowledgedWasHandled == Spec => []AckedWasHandled
<1>1. HandledInv => AckedWasHandled
  BY DEF HandledInv
<1> QED BY <1>1, HandledAlways, PTL

\* The file is written by a save, complete or failing after its rename.
LEMMA FileWrites ==
    ASSUME Next, disk' # disk
    PROVE  /\ queue # <<>> /\ ~saved /\ disk' = Apply(mem, Head(queue))
           /\ UNCHANGED <<phase, mem, mailbox, got, handled>>
BY DEF Next, Start, StartLoaded, Stop, Crash, Connect, Drop,
       Relay, RelayPush, RelayRepeat, RelayTakesAck, RelayTakesEnvelope, RelayReceipt,
       RelayTakesReceiptAck, RelayUnchanged,
       Receive, ReceiveConfirmed, ReceiveStaged, ReceiveNew, ReceiveAckReceived, ReceiveReceipt,
       TimerFires, DrainStep, DrainConfirmed, DrainStaged, DrainForgotten, FrameUnchanged,
       Application, FetchSucceeds, Throws, HandlerReturns, MarkRead, Send, AppUnchanged,
       Store, Save, SaveFails, Swap, SwapSent, SwapCopied, SwapRemoved, SwapRemembered, SwapCompleted,
       SwapMarkedRead, SwapForgotten, SwapUnchanged, relayVars

\* A write drops a staged message only to forget it, after the relay did.
LEMMA WriteKeepsStaged ==
    ASSUME HandledInv, Next, disk' # disk, NEW m \in Incoming, Staged(mem, m), ~Staged(disk', m)
    PROVE  m \notin mailbox
<1>1. queue # <<>> /\ disk' = Apply(mem, Head(queue))
  BY FileWrites
<1>2. Head(queue) \in Vouched
  BY <1>1, HeadTailProperties DEF HandledInv
<1>3. Head(queue).op = "forget" /\ Head(queue).id = m
  BY <1>1, <1>2, ApplyProperties DEF Vouched, HandledInv, Typed, TypeOK
<1> QED BY <1>2, <1>3 DEF Vouched

\* A staged message leaves the state file only after the relay discarded it,
\* also when a save fails after its rename (forgetIncoming on ACK_RECEIVED).
THEOREM StagedStays == Spec => StagedUntilConfirmed
<1>1. HandledInv /\ [Next]_vars =>
        [\A m \in Incoming : Staged(mem, m) /\ ~Staged(disk', m) => m \notin mailbox]_disk
  BY WriteKeepsStaged DEF vars
<1> QED BY <1>1, HandledAlways, PTL DEF Spec, StagedUntilConfirmed

-----------------------------------------------------------------------------
(* Custody: envelopes, copies and the ledger, under QuietRestart.          *)

\* The file and the memory a mutation starts from have e, unless the relay has.
Safe(e) ==
    /\ e \in disk.outbox \cup got
    /\ phase \in {"running", "stopped"} => e \in mem.outbox \cup got

\* Nothing is in progress in a runtime that is not started.
Quiet ==
    /\ phase # "running" => ~conn /\ ~timer
    /\ ~conn => toRelay = {} /\ toAgent = {}
    /\ phase \in {"dead", "starting", "reloading"} =>
            queue = <<>> /\ drain.at = "off" /\ \A m \in Incoming : work[m] = "idle"

\* The mutations that may be pending.
Backed ==
    {mu \in Mutations :
        /\ mu.op = "remove" => mu.id \in got
        /\ \A o \in Sends : mu.op = "queue" /\ mu.id = Copy(o) => Safe(o)}

SavedIsApplied == saved => disk = Apply(mem, Head(queue))
LoadedIsCurrent == phase \in {"starting", "reloading"} => loaded = disk
OutboxDurable == phase \in {"running", "stopped"} => mem.outbox \subseteq disk.outbox \cup got
ReceiptsTrue == owed \subseteq got /\ \A e \in Envelopes : Receipt(e) \in toAgent => e \in got
DeliverSafe == \A e \in Envelopes : Deliver(e) \in toRelay => Safe(e)

\* The envelopes somebody relies on.
SendsAccepted == \A o \in Sends : sends[o] \in {"copying", "returned"} => Safe(o)
CopiesAccepted ==
    \A m \in Mirrored \cap Incoming :
        m \in handled \/ work[m] \in {"handling", "completing"} => Safe(Copy(m))

CustodyInv ==
    /\ Typed /\ Quiet
    /\ SavedIsApplied /\ LoadedIsCurrent /\ OutboxDurable
    /\ ReceiptsTrue /\ DeliverSafe
    /\ queue \in Seq(Backed)
    /\ SendsAccepted /\ CopiesAccepted

LEMMA CustodyInit == Init => CustodyInv
<1> SUFFICES ASSUME Init PROVE CustodyInv
  OBVIOUS
<1>1. Quiet /\ queue \in Seq(Backed) /\ SavedIsApplied /\ OutboxDurable /\ LoadedIsCurrent
  BY EmptySeq DEF Init, Quiet, NoDrain, Idle, SavedIsApplied, OutboxDurable, LoadedIsCurrent
<1>2. ReceiptsTrue /\ DeliverSafe /\ SendsAccepted /\ CopiesAccepted
  BY DEF Init, ReceiptsTrue, DeliverSafe, SendsAccepted, CopiesAccepted, Idle
<1> QED BY <1>1, <1>2, TypedInit DEF CustodyInv

-----------------------------------------------------------------------------
(* A restart finds nothing in progress.                                    *)

LEMMA QuietProcess ==
    ASSUME QuietRestart
    PROVE  CustodyInv /\ (Start \/ StartLoaded \/ Stop \/ Crash \/ Connect \/ Drop) => Quiet'
<1> SUFFICES ASSUME CustodyInv, Start \/ StartLoaded \/ Stop \/ Crash \/ Connect \/ Drop
             PROVE  Quiet'
  OBVIOUS
<1> USE DEF CustodyInv, Quiet, procVars
<1>1. CASE Start
  <2>1. CASE phase = "dead"
    BY <1>1, <2>1 DEF Start
  <2>2. CASE phase = "stopped"
    BY <1>1, <2>2 DEF Start, InProgress
  <2> QED BY <1>1, <2>1, <2>2 DEF Start
<1>2. CASE StartLoaded
  BY <1>2 DEF StartLoaded
<1>3. CASE Stop
  BY <1>3 DEF Stop
<1>4. CASE Crash
  BY <1>4 DEF Crash, Idle, NoDrain
<1>5. CASE Connect
  BY <1>5 DEF Connect
<1>6. CASE Drop
  BY <1>6 DEF Drop
<1> QED BY <1>1, <1>2, <1>3, <1>4, <1>5, <1>6

\* What the tasks of a started runtime may change.
LEMMA QuietTasks ==
    ASSUME CustodyInv, phase \in {"running", "stopped"}, phase' = phase, conn' = conn,
           ~conn => toRelay' = toRelay /\ toAgent' = toAgent,
           phase # "running" /\ timer' => timer
    PROVE  Quiet'
BY DEF CustodyInv, Quiet

LEMMA QuietRelay == CustodyInv /\ Relay => Quiet'
<1> SUFFICES ASSUME CustodyInv, Relay PROVE Quiet'
  OBVIOUS
<1>1. conn
  BY DEF Relay, RelayPush, RelayRepeat, RelayTakesAck, RelayTakesEnvelope, RelayReceipt, RelayTakesReceiptAck,
         CustodyInv, Quiet
<1>2. UNCHANGED <<phase, procVars, conn>>
  BY DEF Relay, RelayPush, RelayRepeat, RelayTakesAck, RelayTakesEnvelope, RelayReceipt, RelayTakesReceiptAck,
         RelayUnchanged
<1> QED BY <1>1, <1>2 DEF CustodyInv, Quiet, procVars

LEMMA QuietReceive == CustodyInv /\ (Receive \/ TimerFires \/ DrainStep) => Quiet'
<1> SUFFICES ASSUME CustodyInv, Receive \/ TimerFires \/ DrainStep PROVE Quiet'
  OBVIOUS
<1>1. CASE Receive
  <2>1. conn /\ phase = "running"
    BY <1>1 DEF Receive, ReceiveConfirmed, ReceiveStaged, ReceiveNew, ReceiveAckReceived, ReceiveReceipt,
                Received, CustodyInv, Quiet
  <2>2. UNCHANGED <<phase, conn>>
    BY <1>1 DEF Receive, ReceiveConfirmed, ReceiveStaged, ReceiveNew, ReceiveAckReceived, ReceiveReceipt,
                FrameUnchanged
  <2> QED BY <2>1, <2>2, QuietTasks
<1>2. CASE TimerFires
  BY <1>2 DEF TimerFires, CustodyInv, Quiet
<1>3. CASE DrainStep
  <2>1. phase \in {"running", "stopped"}
    BY <1>3 DEF DrainStep, DrainConfirmed, DrainStaged, DrainForgotten, CustodyInv, Quiet, Typed, TypeOK, Phases
  <2>2. UNCHANGED <<phase, conn, toAgent>> /\ (~conn => toRelay' = toRelay)
    BY <1>3 DEF DrainStep, DrainConfirmed, DrainStaged, DrainForgotten, FrameUnchanged
  <2>3. phase # "running" /\ timer' => timer
    BY <1>3, <2>1 DEF DrainStep, DrainConfirmed, DrainStaged, DrainForgotten, FrameUnchanged, RetryScheduled
  <2> QED BY <2>1, <2>2, <2>3, QuietTasks
<1> QED BY <1>1, <1>2, <1>3

LEMMA QuietApplication ==
    ASSUME QuietRestart
    PROVE  CustodyInv /\ Application => Quiet'
<1> SUFFICES ASSUME CustodyInv, Application PROVE Quiet'
  OBVIOUS
<1>1. phase \in {"running", "stopped"}
  BY DEF Application, FetchSucceeds, Throws, HandlerReturns, MarkRead, Send, CallsAllowed,
         CustodyInv, Quiet, Typed, TypeOK, Phases
<1>2. UNCHANGED <<phase, conn, toRelay, toAgent>>
  BY DEF Application, FetchSucceeds, Throws, HandlerReturns, MarkRead, Send, AppUnchanged
<1>3. phase # "running" /\ timer' => timer
  BY <1>1 DEF Application, FetchSucceeds, Throws, HandlerReturns, MarkRead, Send, WorkFails, RetryScheduled
<1> QED BY <1>1, <1>2, <1>3, QuietTasks

LEMMA QuietStore == CustodyInv /\ Store => Quiet'
<1> SUFFICES ASSUME CustodyInv, Store PROVE Quiet'
  OBVIOUS
<1>1. phase \in {"running", "stopped"}
  BY DEF Store, Save, SaveFails, Swap, CustodyInv, Quiet, Typed, TypeOK, Phases
<1>2. CASE Save
  BY <1>1, <1>2, QuietTasks DEF Save
<1>3. CASE Swap
  <2>1. UNCHANGED <<phase, conn, toAgent>>
    BY <1>3 DEF Swap, SwapSent, SwapCopied, SwapRemoved, SwapRemembered, SwapCompleted, SwapMarkedRead,
                SwapForgotten, SwapUnchanged
  <2>2. ~conn => toRelay' = toRelay
    BY <1>3 DEF Swap, SwapSent, SwapCopied, SwapRemoved, SwapRemembered, SwapCompleted, SwapMarkedRead,
                SwapForgotten, OutboxDrained
  <2>3. phase # "running" /\ timer' => timer
    BY <1>1, <1>3 DEF Swap, SwapSent, SwapCopied, SwapRemoved, SwapRemembered, SwapCompleted, SwapMarkedRead,
                SwapForgotten, RetryScheduled
  <2> QED BY <1>1, <2>1, <2>2, <2>3, QuietTasks
<1>4. ASSUME NEW renamed \in BOOLEAN, SaveFails(renamed) PROVE Quiet'
  <2>1. phase # "running" /\ timer' => timer
    BY <1>1, <1>4 DEF SaveFails, SaveRejected, WorkFails, RetryScheduled
  <2> QED BY <1>1, <1>4, <2>1, QuietTasks DEF SaveFails
<1> QED BY <1>2, <1>3, <1>4 DEF Store

-----------------------------------------------------------------------------
(* What is safe stays safe.                                                *)

\* Actions that leave file and memory alone.
Calm ==
    /\ UNCHANGED <<disk, mem, phase, loaded, saved>>
    /\ got \subseteq got'
    /\ saved => Head(queue') = Head(queue)

LEMMA CalmActions ==
    CustodyInv /\ (Connect \/ Drop \/ Relay \/ Receive \/ TimerFires \/ DrainStep \/ Application) => Calm
<1> SUFFICES ASSUME CustodyInv, Connect \/ Drop \/ Relay \/ Receive \/ TimerFires \/ DrainStep \/ Application
             PROVE  Calm
  OBVIOUS
<1>1. saved => queue # <<>>
  BY DEF CustodyInv, Typed
<1>2. ASSUME NEW mu \in Mutations, Enqueue(mu) PROVE saved => Head(queue') = Head(queue)
  BY <1>1, <1>2, EnqueueType DEF CustodyInv, Typed, TypeOK
<1>3. CASE Connect \/ Drop \/ TimerFires
  BY <1>3 DEF Connect, Drop, TimerFires, procVars, relayVars, Calm
<1>4. CASE Relay
  BY <1>4 DEF Relay, RelayPush, RelayRepeat, RelayTakesAck, RelayTakesEnvelope, RelayReceipt, RelayTakesReceiptAck,
              RelayUnchanged, procVars, relayVars, Calm
<1>5. CASE Receive
  <2>1. \/ UNCHANGED queue
        \/ \E mu \in Mutations : Enqueue(mu)
    BY <1>5, MutationTypes
       DEF Receive, ReceiveConfirmed, ReceiveStaged, ReceiveNew, ReceiveAckReceived, ReceiveReceipt, FrameUnchanged
  <2> QED BY <1>2, <1>5, <2>1
          DEF Receive, ReceiveConfirmed, ReceiveStaged, ReceiveNew, ReceiveAckReceived, ReceiveReceipt,
              FrameUnchanged, relayVars, Calm
<1>6. CASE DrainStep
  <2>1. drain.at = "next" => Head(drain.left) \in Incoming
    BY HeadTailProperties DEF CustodyInv, Typed, TypeOK
  <2>2. \/ UNCHANGED queue
        \/ \E mu \in Mutations : Enqueue(mu)
    BY <1>6, <2>1, MutationTypes DEF DrainStep, DrainConfirmed, DrainStaged, DrainForgotten
  <2> QED BY <1>2, <1>6, <2>2 DEF DrainStep, DrainConfirmed, DrainStaged, DrainForgotten,
                                  FrameUnchanged, relayVars, Calm
<1>7. CASE Application
  <2>1. \/ UNCHANGED queue
        \/ \E mu \in Mutations : Enqueue(mu)
    BY <1>7, MutationTypes, EnvelopeTypes DEF Application, FetchSucceeds, Throws, HandlerReturns, MarkRead, Send
  <2> QED BY <1>2, <1>7, <2>1 DEF Application, FetchSucceeds, Throws, HandlerReturns, MarkRead, Send,
                                  AppUnchanged, relayVars, Calm
<1> QED BY <1>3, <1>4, <1>5, <1>6, <1>7

\* What the head of the chain does to a safe envelope.
LEMMA HeadKeeps ==
    ASSUME CustodyInv, queue # <<>>
    PROVE  LET t == Apply(mem, Head(queue))
           IN  /\ phase \in {"running", "stopped"}
               /\ mem.outbox \subseteq t.outbox \cup got
               /\ Head(queue).op = "queue" => Head(queue).id \in t.outbox
<1> DEFINE mu == Head(queue)
           t == Apply(mem, mu)
<1>1. mu \in Backed
  BY HeadTailProperties DEF CustodyInv
<1>2. phase \in {"running", "stopped"}
  BY DEF CustodyInv, Quiet, Typed, TypeOK, Phases
<1>3. mem \in States /\ WellFormed(mem)
  BY DEF CustodyInv, Typed, TypeOK
<1>4. mu \in Mutations /\ (mu.op = "remove" => mu.id \in got)
  BY <1>1 DEF Backed
<1>5. /\ mu.op = "queue" => t.outbox = mem.outbox \cup {mu.id}
      /\ mu.op = "remove" => t.outbox = mem.outbox \ {mu.id}
      /\ mu.op \notin {"queue", "remove"} => t.outbox = mem.outbox
  BY <1>3, <1>4, ApplyProperties
<1> HIDE DEF t, mu
<1>6. mem.outbox \subseteq t.outbox \cup got /\ (mu.op = "queue" => mu.id \in t.outbox)
  BY <1>4, <1>5
<1> QED BY <1>2, <1>6 DEF t, mu

Keeps ==
    /\ SavedIsApplied' /\ LoadedIsCurrent' /\ OutboxDurable'
    /\ got \subseteq got'
    /\ \A e : Safe(e) => Safe(e)'

LEMMA SafeStays == CustodyInv /\ Next => Keeps
<1> SUFFICES ASSUME CustodyInv, Next PROVE Keeps
  OBVIOUS
<1> USE DEF Keeps, SavedIsApplied, LoadedIsCurrent, OutboxDurable, Safe
<1>1. CASE Connect \/ Drop \/ Relay \/ Receive \/ TimerFires \/ DrainStep \/ Application
  <2>1. Calm
    BY <1>1, CalmActions
  <2> QED BY <2>1 DEF Calm, CustodyInv
<1>2. phase \in {"dead", "starting", "reloading"} => ~saved
  BY DEF CustodyInv, Quiet, Typed
<1>3. CASE Start
  BY <1>2, <1>3 DEF Start, procVars, relayVars, CustodyInv
<1>4. CASE StartLoaded
  BY <1>2, <1>4 DEF StartLoaded, relayVars, CustodyInv
<1>5. CASE Stop
  BY <1>5 DEF Stop, relayVars, CustodyInv
<1>6. CASE Crash
  BY <1>6 DEF Crash, relayVars, CustodyInv
<1>7. CASE Save
  BY <1>7, HeadKeeps DEF Save, relayVars, CustodyInv
<1>8. CASE Swap
  <2>1. /\ mem' = disk /\ disk' = disk /\ saved' = FALSE /\ UNCHANGED <<phase, loaded, got>>
        /\ saved
    BY <1>8 DEF Swap, SwapSent, SwapCopied, SwapRemoved, SwapRemembered, SwapCompleted,
                SwapMarkedRead, SwapForgotten, Swapped, SwapUnchanged, relayVars
  <2> QED BY <2>1 DEF CustodyInv
<1>9. ASSUME NEW renamed \in BOOLEAN, SaveFails(renamed) PROVE Keeps
  BY <1>9, HeadKeeps DEF SaveFails, relayVars, CustodyInv
<1> QED BY <1>1, <1>3, <1>4, <1>5, <1>6, <1>7, <1>8, <1>9 DEF Next, Store

LEMMA BackedGrows ==
    ASSUME Keeps, NEW q \in Seq(Backed)
    PROVE  q \in Seq(Backed')
<1>1. \A i \in 1 .. Len(q) : q[i] \in Backed'
  <2>1. \A i \in 1 .. Len(q) : q[i] \in Backed
    BY ElementOfSeq
  <2> QED BY <2>1 DEF Backed, Keeps
<1> QED BY <1>1, ElementsMakeSeq

\* What the head of the chain leaves in the file, and then in memory.
LEMMA SwappedIsSafe ==
    ASSUME CustodyInv, NEW e, saved, Head(queue) = Mutation("queue", e, "agent"), mem' = disk, disk' = disk
    PROVE  Safe(e)'
<1>1. queue # <<>> /\ disk = Apply(mem, Head(queue))
  BY DEF CustodyInv, Typed, SavedIsApplied
<1>2. e \in disk.outbox
  BY <1>1, HeadKeeps DEF Mutation
<1> QED BY <1>2 DEF Safe

-----------------------------------------------------------------------------
(* Every part of the invariant.                                            *)

LEMMA PartFramesDiffer ==
    /\ \A e, f : Deliver(e) = Deliver(f) => e = f
    /\ \A e, f, a : Deliver(e) # ReceiptAck(f) /\ Deliver(e) # Ack(f, a)
    /\ \A e, f : Receipt(e) = Receipt(f) => e = f
    /\ \A e, f : Receipt(e) # Message(f) /\ Receipt(e) # AckReceived(f)
BY DEF Deliver, ReceiptAck, Ack, Receipt, Message, AckReceived

LEMMA ReceiptsStep == CustodyInv /\ Next => ReceiptsTrue'
<1> SUFFICES ASSUME CustodyInv, Next PROVE ReceiptsTrue'
  OBVIOUS
<1> USE DEF ReceiptsTrue
<1>1. CASE Relay
  BY <1>1, PartFramesDiffer
     DEF Relay, RelayPush, RelayRepeat, RelayTakesAck, RelayTakesEnvelope, RelayReceipt, RelayTakesReceiptAck,
         relayVars, CustodyInv
<1>2. CASE ~Relay
  <2>1. UNCHANGED <<got, owed>> /\ toAgent' \subseteq toAgent
    BY <1>2 DEF Next, Start, StartLoaded, Stop, Crash, Connect, Drop, relayVars,
           Receive, ReceiveConfirmed, ReceiveStaged, ReceiveNew, ReceiveAckReceived, ReceiveReceipt, Received,
           TimerFires, DrainStep, DrainConfirmed, DrainStaged, DrainForgotten, FrameUnchanged,
           Application, FetchSucceeds, Throws, HandlerReturns, MarkRead, Send, AppUnchanged,
           Store, Save, SaveFails, Swap, SwapSent, SwapCopied, SwapRemoved, SwapRemembered, SwapCompleted,
           SwapMarkedRead, SwapForgotten, SwapUnchanged
  <2> QED BY <2>1 DEF CustodyInv
<1> QED BY <1>1, <1>2

LEMMA DeliverStep == CustodyInv /\ Next => DeliverSafe'
<1> SUFFICES ASSUME CustodyInv, Next, NEW e \in Envelopes, Deliver(e) \in toRelay' PROVE Safe(e)'
  BY DEF DeliverSafe
<1>1. CASE Deliver(e) \in toRelay
  BY <1>1, SafeStays DEF Keeps, CustodyInv, DeliverSafe
<1>2. CASE Deliver(e) \notin toRelay
  <2>1. CASE Connect
    <3>1. e \in mem.outbox /\ phase = "running" /\ UNCHANGED <<disk, mem, phase, got>>
      BY <2>1, PartFramesDiffer DEF Connect
    <3> QED BY <3>1 DEF Safe, CustodyInv, OutboxDurable
  <2>2. CASE Swap
    <3>1. mem' = disk /\ disk' = disk
      BY <2>2 DEF Swap, SwapSent, SwapCopied, SwapRemoved, SwapRemembered, SwapCompleted,
                SwapMarkedRead, SwapForgotten, Swapped, SwapUnchanged
    <3>2. e \in disk.outbox
      <4>1. CASE OutboxDrained(disk)
        BY <1>2, <4>1, PartFramesDiffer DEF OutboxDrained
      <4>2. ASSUME NEW f \in Envelopes, SwapRemoved(f) PROVE FALSE
        BY <1>2, <4>2, PartFramesDiffer DEF SwapRemoved
      <4>3. ASSUME NEW m \in Incoming, NEW st \in {"DELIVERED", "READ"},
                   SwapCompleted(m, st) \/ SwapMarkedRead(m)
            PROVE  FALSE
        BY <1>2, <4>3, PartFramesDiffer DEF SwapCompleted, SwapMarkedRead
      <4> QED BY <1>2, <2>2, <4>1, <4>2, <4>3
              DEF Swap, SwapSent, SwapCopied, SwapRemembered, SwapForgotten
    <3> QED BY <3>1, <3>2 DEF Safe
  <2> QED BY <1>2, <2>1, <2>2, PartFramesDiffer
          DEF Next, Start, StartLoaded, Stop, Crash, Drop, Store, Save, SaveFails,
              Relay, RelayPush, RelayRepeat, RelayTakesAck, RelayTakesEnvelope, RelayReceipt, RelayTakesReceiptAck,
              Receive, ReceiveConfirmed, ReceiveStaged, ReceiveNew, ReceiveAckReceived, ReceiveReceipt,
              TimerFires, DrainStep, DrainConfirmed, DrainStaged, DrainForgotten,
              Application, FetchSucceeds, Throws, HandlerReturns, MarkRead, Send, AppUnchanged
<1> QED BY <1>1, <1>2

\* The ids of copies are unlike those of messages, and of each other.
LEMMA CopyFacts ==
    /\ \A x, y : Copy(x) = Copy(y) => x = y
    /\ \A x, y \in Incoming \cup Sends : Copy(x) # y
    /\ \A x \in Incoming \cup Sends : Copy(x) \in Envelopes => x \in Mirrored
<1>1. \A x, y : Copy(x) = Copy(y) => x = y
  BY DEF Copy
<1>2. \A x, y \in Incoming \cup Sends : Copy(x) # y
  BY CopiesAssumption
<1> QED BY <1>1, <1>2 DEF Envelopes

LEMMA QueueStep == CustodyInv /\ Next => queue' \in Seq(Backed')
<1> SUFFICES ASSUME CustodyInv, Next PROVE queue' \in Seq(Backed')
  OBVIOUS
<1>1. Keeps
  BY SafeStays
<1>2. queue \in Seq(Backed') /\ (queue # <<>> => Tail(queue) \in Seq(Backed'))
  BY <1>1, BackedGrows, HeadTailProperties DEF CustodyInv
<1>3. ASSUME NEW mu \in Mutations, mu.op \notin {"remove", "queue"} PROVE mu \in Backed'
  BY <1>3 DEF Backed
<1>4. ASSUME NEW mu \in Backed', Enqueue(mu) PROVE queue' \in Seq(Backed')
  BY <1>2, <1>4, EnqueueType
<1>5. CASE UNCHANGED queue
  BY <1>2, <1>5
<1>6. CASE Receive
  <2>1. ASSUME NEW e \in Envelopes, ReceiveReceipt(e), ~UNCHANGED queue PROVE queue' \in Seq(Backed')
    <3>1. e \in got
      BY <2>1 DEF ReceiveReceipt, Received, CustodyInv, ReceiptsTrue
    <3>2. Mutation("remove", e, "agent") \in Backed'
      BY <1>1, <3>1, MutationTypes DEF Backed, Mutation, Keeps
    <3> QED BY <1>4, <2>1, <3>2 DEF ReceiveReceipt
  <2> QED BY <1>3, <1>4, <1>5, <1>6, <2>1, MutationTypes
          DEF Receive, ReceiveConfirmed, ReceiveStaged, ReceiveNew, ReceiveAckReceived, Mutation
<1>7. CASE DrainStep
  <2>1. drain.at = "next" => Head(drain.left) \in Incoming
    BY HeadTailProperties DEF CustodyInv, Typed, TypeOK
  <2> QED BY <1>3, <1>4, <1>5, <1>7, <2>1, MutationTypes
          DEF DrainStep, DrainConfirmed, DrainStaged, DrainForgotten, Mutation
<1>8. CASE Application
  <2>1. ASSUME NEW m \in Incoming, FetchSucceeds(m), ~UNCHANGED queue PROVE queue' \in Seq(Backed')
    <3>1. Mutation("queue", Copy(m), "agent") \in Backed'
      BY <2>1, MutationTypes, EnvelopeTypes, CopyFacts, IdsAssumption DEF FetchSucceeds, Backed, Mutation
    <3> QED BY <1>4, <2>1, <3>1 DEF FetchSucceeds
  <2>2. ASSUME NEW o \in Sends, Send(o) PROVE queue' \in Seq(Backed')
    <3>1. Mutation("queue", o, "agent") \in Backed'
      BY MutationTypes, EnvelopeTypes, CopyFacts DEF Backed, Mutation
    <3> QED BY <1>4, <2>2, <3>1 DEF Send
  <2> QED BY <1>3, <1>4, <1>5, <1>8, <2>1, <2>2, MutationTypes
          DEF Application, Throws, HandlerReturns, MarkRead, Mutation
<1>9. CASE Store
  <2>1. ASSUME NEW next \in Seq(Backed'), Swapped(next) PROVE queue' \in Seq(Backed')
    <3>1. queue # <<>>
      BY <2>1 DEF Swapped, CustodyInv, Typed
    <3> QED BY <1>2, <2>1, <3>1, SwappedType
  <2>2. ASSUME NEW o \in Sends, NEW e \in Envelopes, SwapSent(o, e) PROVE queue' \in Seq(Backed')
    <3>1. CASE e = o /\ o \in Mirrored
      <4>1. Safe(o)'
        BY <2>2, <3>1, SwappedIsSafe DEF SwapSent, Swapped, SwapUnchanged
      <4>2. Mutation("queue", Copy(o), "agent") \in Backed'
        BY <3>1, <4>1, MutationTypes, EnvelopeTypes, CopyFacts DEF Backed, Mutation
      <4>3. <<Mutation("queue", Copy(o), "agent")>> \in Seq(Backed')
        BY <4>2
      <4> QED BY <2>1, <2>2, <3>1, <4>3 DEF SwapSent
    <3>2. CASE ~(e = o /\ o \in Mirrored)
      BY <2>1, <2>2, <3>2, EmptySeq DEF SwapSent
    <3> QED BY <3>1, <3>2
  <2> QED BY <1>2, <1>5, <1>9, <2>1, <2>2, EmptySeq
          DEF Store, Save, SaveFails, Swap, SwapCopied, SwapRemoved, SwapRemembered, SwapCompleted,
              SwapMarkedRead, SwapForgotten
<1>10. CASE Crash
  BY <1>10, EmptySeq DEF Crash
<1> QED BY <1>5, <1>6, <1>7, <1>8, <1>9, <1>10
        DEF Next, Start, StartLoaded, Stop, Connect, Drop, TimerFires, procVars,
            Relay, RelayPush, RelayRepeat, RelayTakesAck, RelayTakesEnvelope, RelayReceipt, RelayTakesReceiptAck,
            RelayUnchanged

LEMMA AcceptedStep == CustodyInv /\ Next => SendsAccepted'
<1> SUFFICES ASSUME CustodyInv, Next, NEW o \in Sends, sends'[o] \in {"copying", "returned"}
             PROVE  Safe(o)'
  BY DEF SendsAccepted
<1>1. CASE sends[o] \in {"copying", "returned"}
  BY <1>1, SafeStays DEF Keeps, CustodyInv, SendsAccepted
<1>2. CASE sends[o] \notin {"copying", "returned"}
  <2>1. PICK e \in Envelopes : SwapSent(o, e)
    <3>1. sends \in [Sends -> SendStages]
      BY DEF CustodyInv, Typed, TypeOK
    <3>2. CASE Swap
      BY <1>2, <3>1, <3>2 DEF Swap, SwapSent, SwapCopied, SwapRemoved, SwapRemembered, SwapCompleted,
                SwapMarkedRead, SwapForgotten
    <3>3. CASE Crash
      BY <1>2, <3>1, <3>3 DEF Crash
    <3>4. ASSUME NEW x \in Sends, Send(x) PROVE FALSE
      BY <1>2, <3>1, <3>4 DEF Send
    <3>5. ASSUME NEW renamed \in BOOLEAN, SaveFails(renamed) PROVE FALSE
      BY <1>2, <3>1, <3>5 DEF SaveFails, SaveRejected
    <3> QED BY <1>2, <3>2, <3>3, <3>4, <3>5
            DEF Next, Start, StartLoaded, Stop, Connect, Drop, procVars, Store, Save,
                Relay, RelayPush, RelayRepeat, RelayTakesAck, RelayTakesEnvelope, RelayReceipt,
                RelayTakesReceiptAck, RelayUnchanged,
                Receive, ReceiveConfirmed, ReceiveStaged, ReceiveNew, ReceiveAckReceived, ReceiveReceipt,
                TimerFires, DrainStep, DrainConfirmed, DrainStaged, DrainForgotten, FrameUnchanged,
                Application, FetchSucceeds, Throws, HandlerReturns, MarkRead
  <2>2. saved /\ mem' = disk /\ disk' = disk
    BY <2>1 DEF SwapSent, Swapped, SwapUnchanged
  <2>3. CASE e = o
    BY <2>1, <2>2, <2>3, SwappedIsSafe DEF SwapSent
  <2>4. CASE e = Copy(o)
    <3>1. Head(queue) \in Backed
      BY <2>2, HeadTailProperties DEF CustodyInv, Typed
    <3>2. Safe(o)
      BY <2>1, <2>4, <3>1 DEF SwapSent, Backed, Mutation
    <3> QED BY <3>2, SafeStays DEF Keeps
  <2> QED BY <2>1, <2>3, <2>4 DEF SwapSent
<1> QED BY <1>1, <1>2

LEMMA CopiesStep == CustodyInv /\ Next => CopiesAccepted'
<1> SUFFICES ASSUME CustodyInv, Next, NEW m \in Mirrored \cap Incoming,
                    m \in handled' \/ work'[m] \in {"handling", "completing"}
             PROVE  Safe(Copy(m))'
  BY DEF CopiesAccepted
<1>1. CASE m \in handled \/ work[m] \in {"handling", "completing"}
  BY <1>1, SafeStays DEF Keeps, CustodyInv, CopiesAccepted
<1>2. CASE ~(m \in handled \/ work[m] \in {"handling", "completing"})
  <2> work \in [Incoming -> WorkStages]
    BY DEF CustodyInv, Typed, TypeOK
  <2>1. CASE Swap
    <3>1. SwapCopied(m)
      BY <1>2, <2>1 DEF Swap, SwapSent, SwapCopied, SwapRemoved, SwapRemembered, SwapCompleted,
                SwapMarkedRead, SwapForgotten, SwapUnchanged, WorkEnds, WorkJoined
    <3> QED BY <3>1, SwappedIsSafe DEF SwapCopied, Swapped, SwapUnchanged
  <2>2. CASE Application
    BY <1>2, <2>2 DEF Application, FetchSucceeds, Throws, HandlerReturns, MarkRead, Send,
                      AppUnchanged, WorkFails, WorkEnds
  <2>3. CASE Crash
    BY <1>2, <2>3 DEF Crash, Idle
  <2>4. CASE Receive \/ DrainStep
    BY <1>2, <2>4 DEF Receive, ReceiveConfirmed, ReceiveStaged, ReceiveNew, ReceiveAckReceived, ReceiveReceipt,
                      DrainStep, DrainConfirmed, DrainStaged, DrainForgotten, FrameUnchanged, WorkJoined
  <2>5. ASSUME NEW renamed \in BOOLEAN, SaveFails(renamed) PROVE FALSE
    BY <1>2, <2>5 DEF SaveFails, SaveRejected, WorkFails, WorkEnds
  <2> QED BY <1>2, <2>1, <2>2, <2>3, <2>4, <2>5
          DEF Next, Start, StartLoaded, Stop, Connect, Drop, procVars, Store, Save, TimerFires,
              Relay, RelayPush, RelayRepeat, RelayTakesAck, RelayTakesEnvelope, RelayReceipt,
              RelayTakesReceiptAck, RelayUnchanged
<1> QED BY <1>1, <1>2

LEMMA CustodyStep ==
    ASSUME QuietRestart
    PROVE  CustodyInv /\ [Next]_vars => CustodyInv'
<1> SUFFICES ASSUME CustodyInv, [Next]_vars PROVE CustodyInv'
  OBVIOUS
<1>1. Typed'
  BY TypedStep DEF CustodyInv
<1>2. CASE UNCHANGED vars
  BY <1>1, <1>2 DEF vars, procVars, relayVars, CustodyInv, Quiet, SavedIsApplied, LoadedIsCurrent, OutboxDurable,
                    ReceiptsTrue, DeliverSafe, Backed, SendsAccepted, CopiesAccepted, Safe
<1>3. CASE Next
  <2>1. Quiet'
    BY <1>3, QuietProcess, QuietRelay, QuietReceive, QuietApplication, QuietStore DEF Next
  <2>2. SavedIsApplied' /\ LoadedIsCurrent' /\ OutboxDurable'
    BY <1>3, SafeStays DEF Keeps
  <2> QED BY <1>1, <1>3, <2>1, <2>2, ReceiptsStep, DeliverStep, QueueStep, AcceptedStep, CopiesStep
          DEF CustodyInv
<1> QED BY <1>2, <1>3

LEMMA CustodyAlways ==
    ASSUME QuietRestart
    PROVE  Spec => []CustodyInv
BY CustodyInit, CustodyStep, PTL DEF Spec

\* An accepted envelope is in the state file or at the relay for good, through
\* every crash, failed save and receipt, when start() waits for quiet.
THEOREM AcceptedStaysKept ==
    ASSUME QuietRestart
    PROVE  Spec => []AcceptedIsKept
<1>1. CustodyInv => AcceptedIsKept
  BY DEF CustodyInv, SendsAccepted, Safe, AcceptedIsKept, Custody
<1> QED BY <1>1, CustodyAlways, PTL

\* The supervisor's copy of a message is safe before its handler runs.
THEOREM CopiesPrecedeHandlers ==
    ASSUME QuietRestart
    PROVE  Spec => []CopyPrecedesHandler
<1>1. CustodyInv => CopyPrecedesHandler
  BY DEF CustodyInv, CopiesAccepted, Safe, CopyPrecedesHandler, Custody
<1> QED BY <1>1, CustodyAlways, PTL

-----------------------------------------------------------------------------
(* Memory and the state file.                                              *)

\* What is staged in memory and still at the relay is staged in the file.
InboxDurable ==
    phase \in {"running", "stopped"} =>
        \A m \in Incoming : Staged(mem, m) /\ m \in mailbox => Staged(disk, m)

\* What the ledger in memory has is in the file's, but for what the mutation pruned
\* that the file is ahead by.
LedgerDurable == phase \in {"running", "stopped"} => LedgerKept(mem, disk)

\* Memory is the file between two mutations, as long as every save succeeds.
FileIsMemory == phase \in {"running", "stopped"} /\ ~saved /\ faults.save = 0 => mem = disk

DurableInv == HandledInv /\ CustodyInv /\ InboxDurable /\ LedgerDurable /\ FileIsMemory

LEMMA FailuresCount ==
    ASSUME Typed, Next, faults'.save = 0
    PROVE  faults.save = 0 /\ \A renamed \in BOOLEAN : ~SaveFails(renamed)
<1> faults \in [DOMAIN NoFaults -> Nat]
  BY DEF Typed, TypeOK
<1>1. ASSUME NEW kind \in DOMAIN NoFaults, NEW max, Fault(kind, max), faults.save # 0 PROVE FALSE
  BY <1>1 DEF Fault, NoFaults
<1>2. ASSUME NEW renamed \in BOOLEAN, SaveFails(renamed) PROVE FALSE
  BY <1>2 DEF SaveFails, Fault, NoFaults
<1>3. faults.save = 0
  <2> SUFFICES ASSUME faults.save # 0, faults' # faults, ~\E kind \in DOMAIN NoFaults : \E max : Fault(kind, max)
               PROVE FALSE
    BY <1>1
  <2> QED BY <1>2
          DEF NoFaults, Next, Start, StartLoaded, Stop, Crash, Connect, Drop,
           Relay, RelayPush, RelayRepeat, RelayTakesAck, RelayTakesEnvelope, RelayReceipt, RelayTakesReceiptAck,
           Receive, ReceiveConfirmed, ReceiveStaged, ReceiveNew, ReceiveAckReceived, ReceiveReceipt,
           TimerFires, DrainStep, DrainConfirmed, DrainStaged, DrainForgotten, FrameUnchanged,
           Application, FetchSucceeds, Throws, HandlerReturns, MarkRead, Send,
           Store, Save, Swap, SwapSent, SwapCopied, SwapRemoved, SwapRemembered, SwapCompleted,
           SwapMarkedRead, SwapForgotten, SwapUnchanged
<1> QED BY <1>2, <1>3

\* Memory is the file's after a step that changes it; a step that changes the file
\* is a save.
LEMMA MemoryChanges ==
    ASSUME CustodyInv, Next, phase' \in {"running", "stopped"}
    PROVE  /\ \/ phase \in {"running", "stopped"} /\ mem' = mem
              \/ mem' = disk'
           /\ mailbox' \subseteq mailbox
           /\ \/ saved' \/ mem' = disk'
              \/ ~saved /\ UNCHANGED <<disk, mem>>
              \/ \E renamed \in BOOLEAN : SaveFails(renamed)
<1>1. CASE Connect \/ Drop \/ Relay \/ Receive \/ TimerFires \/ DrainStep \/ Application
  <2>1. Calm
    BY <1>1, CalmActions
  <2>2. mailbox' \subseteq mailbox
    BY <1>1 DEF Connect, Drop, TimerFires, Relay, RelayPush, RelayRepeat, RelayTakesAck, RelayTakesEnvelope,
                RelayReceipt, RelayTakesReceiptAck, Receive, ReceiveConfirmed, ReceiveStaged, ReceiveNew,
                ReceiveAckReceived, ReceiveReceipt, DrainStep, DrainConfirmed, DrainStaged, DrainForgotten,
                FrameUnchanged, Application, FetchSucceeds, Throws, HandlerReturns, MarkRead, Send, AppUnchanged,
                relayVars
  <2> QED BY <2>1, <2>2 DEF Calm, CustodyInv, Typed, TypeOK
<1>2. CASE Start \/ Crash
  BY <1>2 DEF Start, Crash
<1>3. CASE StartLoaded
  BY <1>3 DEF StartLoaded, relayVars, CustodyInv, LoadedIsCurrent
<1>4. CASE Stop
  BY <1>4 DEF Stop, relayVars
<1>5. CASE Save
  BY <1>5 DEF Save, relayVars
<1>6. CASE Swap
  BY <1>6 DEF Swap, SwapSent, SwapCopied, SwapRemoved, SwapRemembered, SwapCompleted,
              SwapMarkedRead, SwapForgotten, Swapped, SwapUnchanged, relayVars
<1>7. ASSUME NEW renamed \in BOOLEAN, SaveFails(renamed)
      PROVE  phase \in {"running", "stopped"} /\ UNCHANGED <<mem, mailbox>>
  BY <1>7 DEF SaveFails, relayVars
<1> QED BY <1>1, <1>2, <1>3, <1>4, <1>5, <1>6, <1>7 DEF Next, Store

LEMMA DurableStep ==
    ASSUME QuietRestart
    PROVE  DurableInv /\ [Next]_vars => DurableInv'
<1> SUFFICES ASSUME DurableInv, [Next]_vars PROVE DurableInv'
  OBVIOUS
<1>1. HandledInv' /\ CustodyInv'
  BY HandledStep, CustodyStep DEF DurableInv
<1>2. CASE UNCHANGED vars
  BY <1>1, <1>2 DEF vars, procVars, relayVars, DurableInv, InboxDurable, LedgerDurable, FileIsMemory, Staged
<1>3. CASE Next
  <2>1. InboxDurable'
    <3> SUFFICES ASSUME phase' \in {"running", "stopped"}, NEW m \in Incoming, Staged(mem', m), m \in mailbox'
                 PROVE  Staged(disk', m)
      BY DEF InboxDurable, Staged
    <3>1. \/ phase \in {"running", "stopped"} /\ mem' = mem /\ m \in mailbox
          \/ mem' = disk'
      BY <1>3, MemoryChanges DEF DurableInv
    <3>2. CASE disk' = disk
      BY <3>1, <3>2 DEF DurableInv, InboxDurable
    <3>3. CASE disk' # disk
      BY <1>3, <3>1, <3>3, WriteKeepsStaged DEF DurableInv
    <3> QED BY <3>2, <3>3
  <2>2. FileIsMemory'
    <3> SUFFICES ASSUME phase' \in {"running", "stopped"}, ~saved', faults'.save = 0 PROVE mem' = disk'
      BY DEF FileIsMemory
    <3>1. faults.save = 0 /\ \A renamed \in BOOLEAN : ~SaveFails(renamed)
      BY <1>3, FailuresCount DEF DurableInv, CustodyInv
    <3>2. \/ mem' = disk'
          \/ phase \in {"running", "stopped"} /\ ~saved /\ UNCHANGED <<disk, mem>>
      BY <1>3, <3>1, MemoryChanges DEF DurableInv
    <3> QED BY <3>1, <3>2 DEF DurableInv, FileIsMemory
  <2>3. LedgerDurable'
    <3> SUFFICES ASSUME phase' \in {"running", "stopped"} PROVE LedgerKept(mem', disk')
      BY DEF LedgerDurable
    <3>1. \/ phase \in {"running", "stopped"} /\ mem' = mem
          \/ mem' = disk'
      BY <1>3, MemoryChanges DEF DurableInv
    <3>2. CASE mem' = disk'
      BY <3>2 DEF LedgerKept
    <3>3. CASE phase \in {"running", "stopped"} /\ mem' = mem /\ disk' = disk
      BY <3>3 DEF DurableInv, LedgerDurable
    <3>4. CASE mem' = mem /\ disk' # disk
      <4>1. queue # <<>> /\ disk' = Apply(mem, Head(queue))
        BY <1>3, <3>4, FileWrites
      <4>2. mem \in States /\ WellFormed(mem) /\ Head(queue) \in Mutations
        BY <4>1, HeadTailProperties DEF DurableInv, CustodyInv, Typed, TypeOK
      <4> QED BY <3>4, <4>1, <4>2, ApplyKeepsLedger
    <3> QED BY <3>1, <3>2, <3>3, <3>4
  <2> QED BY <1>1, <2>1, <2>2, <2>3 DEF DurableInv
<1> QED BY <1>2, <1>3

LEMMA DurableAlways ==
    ASSUME QuietRestart
    PROVE  Spec => []DurableInv
<1>1. Init => DurableInv
  BY HandledInit, CustodyInit DEF Init, DurableInv, InboxDurable, LedgerDurable, FileIsMemory
<1> QED BY <1>1, DurableStep, PTL DEF Spec

\* Memory shows nothing that a restart would undo: its outbox is in the state file
\* or at the relay, its inbox in the file unless the relay discarded it, and each entry
\* of its ledger, with READ if it says so, in the file's unless a newer entry pruned it
\* there, when start() waits for quiet (mutateRuntimeState saves before it swaps).
THEOREM MemoryStaysDurable ==
    ASSUME QuietRestart
    PROVE  Spec => []MemoryIsDurable
<1>1. DurableInv => MemoryIsDurable
  BY DEF DurableInv, InboxDurable, LedgerDurable, LedgerKept, CustodyInv, OutboxDurable, MemoryIsDurable
<1> QED BY <1>1, DurableAlways, PTL

\* The state file loses an envelope only to the relay's receipt, or to the next save
\* if only one that failed after its rename wrote it, when start() waits for quiet
\* (removeFromOutbox).
THEOREM ReceiptsComeFirst ==
    ASSUME QuietRestart
    PROVE  Spec => RemovedOnlyAfterReceipt
<1>1. DurableInv /\ [Next]_vars =>
        [\A e \in Envelopes : e \in disk.outbox /\ e \notin disk'.outbox =>
            e \in got \/ (faults.save # 0 /\ e \notin mem.outbox)]_disk
  <2> SUFFICES ASSUME DurableInv, Next, disk' # disk, NEW e \in Envelopes,
                      e \in disk.outbox, e \notin disk'.outbox, e \notin got
               PROVE  faults.save # 0 /\ e \notin mem.outbox
    BY DEF vars
  <2>1. queue # <<>> /\ ~saved /\ disk' = Apply(mem, Head(queue))
    BY FileWrites
  <2>2. mem.outbox \subseteq disk'.outbox \cup got /\ phase \in {"running", "stopped"}
    BY <2>1, HeadKeeps DEF DurableInv
  <2>3. faults.save = 0 => disk = mem
    BY <2>1, <2>2 DEF DurableInv, FileIsMemory
  <2> QED BY <2>2, <2>3
<1> QED BY <1>1, DurableAlways, PTL DEF Spec, RemovedOnlyAfterReceipt

-----------------------------------------------------------------------------
(* The refinement of Delivery.  What is promised stays promised only if no *)
(* failing save can hit a send() that has returned: there is one pending   *)
(* mutation of a send() at most, and the send() waits for it.              *)

\* mu writes the envelope of send(o), or its copy for the supervisor.
IsFor(mu, o) == mu.op = "queue" /\ mu.id \in {o, Copy(o)}

WaitsFor(mu, o) == IF mu.id = o THEN "queueing" ELSE "copying"

Pending(q, s) ==
    \A o \in Sends :
        /\ \A i \in 1 .. Len(q) : IsFor(q[i], o) => s[o] = WaitsFor(q[i], o)
        /\ \A i, j \in 1 .. Len(q) : IsFor(q[i], o) /\ IsFor(q[j], o) => i = j

SendsPending == Pending(queue, sends)

LEMMA PendingGrows ==
    ASSUME NEW q \in Seq(Mutations), NEW s, NEW t, NEW mu \in Mutations, Pending(q, s),
           \A o \in Sends : IF IsFor(mu, o) THEN s[o] = "idle" /\ t[o] = WaitsFor(mu, o) ELSE t[o] = s[o]
    PROVE  Pending(Append(q, mu), t)
<1> DEFINE r == Append(q, mu)
<1>1. /\ Len(q) \in Nat /\ Len(r) = Len(q) + 1
      /\ \A i \in 1 .. Len(q) : r[i] = q[i]
      /\ r[Len(q) + 1] = mu
  BY AppendProperties, LenProperties
<1> SUFFICES ASSUME NEW o \in Sends
             PROVE  /\ \A i \in 1 .. Len(r) : IsFor(r[i], o) => t[o] = WaitsFor(r[i], o)
                    /\ \A i, j \in 1 .. Len(r) : IsFor(r[i], o) /\ IsFor(r[j], o) => i = j
  BY DEF Pending
<1>2. /\ \A i \in 1 .. Len(q) : IsFor(q[i], o) => s[o] = WaitsFor(q[i], o) /\ s[o] # "idle"
      /\ \A i, j \in 1 .. Len(q) : IsFor(q[i], o) /\ IsFor(q[j], o) => i = j
  BY DEF Pending, WaitsFor
<1> HIDE DEF r
<1>3. CASE IsFor(mu, o)
  BY <1>1, <1>2, <1>3
<1>4. CASE ~IsFor(mu, o)
  BY <1>1, <1>2, <1>4
<1> QED BY <1>3, <1>4

LEMMA PendingShrinks ==
    ASSUME NEW q \in Seq(Mutations), q # <<>>, NEW s, NEW t, Pending(q, s),
           \A o \in Sends : t[o] = s[o] \/ IsFor(Head(q), o)
    PROVE  Pending(Tail(q), t)
<1> DEFINE r == Tail(q)
<1>1. /\ Len(q) \in Nat \ {0} /\ Len(r) = Len(q) - 1 /\ Head(q) = q[1]
      /\ \A i \in 1 .. Len(r) : r[i] = q[i + 1]
  BY HeadTailProperties, LenProperties, EmptySeq
<1> SUFFICES ASSUME NEW o \in Sends
             PROVE  /\ \A i \in 1 .. Len(r) : IsFor(r[i], o) => t[o] = WaitsFor(r[i], o)
                    /\ \A i, j \in 1 .. Len(r) : IsFor(r[i], o) /\ IsFor(r[j], o) => i = j
  BY DEF Pending
<1>2. /\ \A i \in 1 .. Len(q) : IsFor(q[i], o) => s[o] = WaitsFor(q[i], o)
      /\ \A i, j \in 1 .. Len(q) : IsFor(q[i], o) /\ IsFor(q[j], o) => i = j
  BY DEF Pending
<1> HIDE DEF r
<1>3. CASE IsFor(q[1], o)
  BY <1>1, <1>2, <1>3
<1>4. CASE ~IsFor(q[1], o)
  <2>1. \A i \in 1 .. Len(r) : i + 1 \in 1 .. Len(q) /\ IsFor(r[i], o) = IsFor(q[i + 1], o)
    BY <1>1
  <2>2. t[o] = s[o]
    BY <1>1, <1>4
  <2>3. \A i \in 1 .. Len(r) : IsFor(r[i], o) => t[o] = WaitsFor(r[i], o)
    BY <1>1, <1>2, <2>1, <2>2
  <2>4. ASSUME NEW i \in 1 .. Len(r), NEW j \in 1 .. Len(r), IsFor(r[i], o), IsFor(r[j], o) PROVE i = j
    <3>1. i + 1 = j + 1
      BY <1>2, <2>1, <2>4
    <3> QED BY <1>1, <3>1
  <2> QED BY <2>3, <2>4
<1> QED BY <1>3, <1>4

\* Which mutations are no send()'s.
LEMMA NoSend ==
    /\ \A mu, o : mu.op # "queue" => ~IsFor(mu, o)
    /\ \A m \in Incoming, o \in Sends : ~IsFor(Mutation("queue", Copy(m), "agent"), o)
BY CopyFacts, IdsAssumption DEF IsFor, Mutation

LEMMA PendingReceive ==
    ASSUME Typed, SendsPending, Receive \/ TimerFires \/ DrainStep
    PROVE  SendsPending'
<1>1. sends' = sends
  BY DEF Receive, ReceiveConfirmed, ReceiveStaged, ReceiveNew, ReceiveAckReceived, ReceiveReceipt,
         TimerFires, DrainStep, DrainConfirmed, DrainStaged, DrainForgotten, FrameUnchanged
<1>2. drain.at = "next" => Head(drain.left) \in Incoming
  BY HeadTailProperties DEF Typed, TypeOK
<1>3. \/ UNCHANGED queue
      \/ \E mu \in Mutations : Enqueue(mu) /\ mu.op # "queue"
  BY <1>2, MutationTypes
     DEF Receive, ReceiveConfirmed, ReceiveStaged, ReceiveNew, ReceiveAckReceived, ReceiveReceipt,
         TimerFires, DrainStep, DrainConfirmed, DrainStaged, DrainForgotten, Mutation
<1>4. ASSUME NEW mu \in Mutations, Enqueue(mu), mu.op # "queue" PROVE SendsPending'
  BY <1>1, <1>4, NoSend, PendingGrows DEF SendsPending, Enqueue, Typed, TypeOK
<1> QED BY <1>1, <1>3, <1>4 DEF SendsPending

LEMMA PendingApplication ==
    ASSUME Typed, SendsPending, Application
    PROVE  SendsPending'
<1>1. ASSUME NEW mu \in Mutations, Enqueue(mu), sends' = sends, \A o \in Sends : ~IsFor(mu, o)
      PROVE  SendsPending'
  BY <1>1, PendingGrows DEF SendsPending, Enqueue, Typed, TypeOK
<1>2. ASSUME UNCHANGED <<queue, sends>> PROVE SendsPending'
  BY <1>2 DEF SendsPending
<1>3. ASSUME NEW m \in Incoming, FetchSucceeds(m) PROVE SendsPending'
  BY <1>1, <1>2, <1>3, NoSend, MutationTypes, EnvelopeTypes DEF FetchSucceeds
<1>4. ASSUME NEW m \in Incoming, MarkRead(m) PROVE SendsPending'
  <2>1. Mutation("markRead", m, "READ") \in Mutations /\ Mutation("markRead", m, "READ").op # "queue"
    BY MutationTypes DEF Mutation
  <2> QED BY <1>1, <1>4, <2>1, NoSend DEF MarkRead
<1>5. ASSUME NEW m \in Incoming, NEW st \in {"DELIVERED", "READ"}, HandlerReturns(m, st) PROVE SendsPending'
  <2>1. Mutation("complete", m, st) \in Mutations /\ Mutation("complete", m, st).op # "queue"
    BY MutationTypes DEF Mutation
  <2> QED BY <1>1, <1>5, <2>1, NoSend DEF HandlerReturns
<1>6. ASSUME NEW o \in Sends, Send(o) PROVE SendsPending'
  <2> DEFINE mu == Mutation("queue", o, "agent")
  <2>1. mu \in Mutations /\ WaitsFor(mu, o) = "queueing"
    BY MutationTypes, EnvelopeTypes DEF WaitsFor, Mutation
  <2>2. \A x \in Sends : IsFor(mu, x) <=> x = o
    BY CopyFacts DEF IsFor, Mutation
  <2>3. sends[o] = "idle" /\ \A x \in Sends : sends'[x] = IF x = o THEN "queueing" ELSE sends[x]
    BY <1>6 DEF Send, Typed, TypeOK
  <2> HIDE DEF mu
  <2>4. queue' = Append(queue, mu)
    BY <1>6 DEF Send, Enqueue, mu
  <2>5. queue \in Seq(Mutations) /\ Pending(queue, sends)
    BY DEF SendsPending, Typed, TypeOK
  <2>6. \A x \in Sends : IF IsFor(mu, x) THEN sends[x] = "idle" /\ sends'[x] = WaitsFor(mu, x)
                                         ELSE sends'[x] = sends[x]
    BY <2>1, <2>2, <2>3
  <2>7. Pending(Append(queue, mu), sends')
    BY <2>1, <2>5, <2>6, PendingGrows
  <2> QED BY <2>4, <2>7 DEF SendsPending
<1> QED BY <1>2, <1>3, <1>4, <1>5, <1>6 DEF Application, Throws

LEMMA PendingSent ==
    ASSUME Typed, SendsPending, saved, NEW o \in Sends, NEW e \in Envelopes, SwapSent(o, e)
    PROVE  SendsPending' /\ sends[o] \in {"queueing", "copying"}
<1>1. queue \in Seq(Mutations) /\ queue # <<>> /\ Head(queue) = queue[1] /\ Len(queue) \in Nat \ {0}
  BY EmptySeq DEF Typed, TypeOK
<1>2. IsFor(Head(queue), o)
  BY DEF SwapSent, IsFor, Mutation
<1>3. sends[o] = WaitsFor(Head(queue), o)
  BY <1>1, <1>2 DEF SendsPending, Pending
<1>4. CASE e = o /\ o \in Mirrored
  <2> DEFINE t == [sends EXCEPT ![o] = "idle"]
             mu == Mutation("queue", Copy(o), "agent")
  <2>1. \A x \in Sends : t[x] = sends[x] \/ IsFor(Head(queue), x)
    BY <1>2 DEF Typed, TypeOK
  <2>2. Tail(queue) \in Seq(Mutations) /\ mu \in Mutations
    BY <1>1, <1>4, HeadTailProperties, MutationTypes, EnvelopeTypes
  <2>3. WaitsFor(mu, o) = "copying" /\ \A x \in Sends : IsFor(mu, x) <=> x = o
    BY CopyFacts DEF WaitsFor, IsFor, Mutation
  <2>4. t[o] = "idle" /\ sends'[o] = "copying" /\ \A x \in Sends \ {o} : sends'[x] = t[x]
    BY <1>4 DEF SwapSent, Typed, TypeOK
  <2>5. queue' = Append(Tail(queue), mu)
    BY <1>4, <2>2, AppendIsConcat DEF SwapSent, Swapped
  <2> HIDE DEF t, mu
  <2>6. Pending(Tail(queue), t)
    BY <1>1, <2>1, PendingShrinks DEF SendsPending
  <2>7. \A x \in Sends : IF IsFor(mu, x) THEN t[x] = "idle" /\ sends'[x] = WaitsFor(mu, x) ELSE sends'[x] = t[x]
    BY <2>3, <2>4
  <2>8. Pending(Append(Tail(queue), mu), sends')
    BY <2>2, <2>6, <2>7, PendingGrows
  <2>9. SendsPending'
    BY <2>5, <2>8 DEF SendsPending
  <2> QED BY <1>3, <2>9 DEF WaitsFor
<1>5. CASE ~(e = o /\ o \in Mirrored)
  <2>1. queue' = Tail(queue)
    BY <1>1, <1>5, HeadTailProperties, ConcatEmptySeq DEF SwapSent, Swapped
  <2>2. \A x \in Sends : sends'[x] = sends[x] \/ IsFor(Head(queue), x)
    BY <1>2 DEF SwapSent, Typed, TypeOK
  <2> QED BY <1>1, <1>3, <2>1, <2>2, PendingShrinks DEF SendsPending, WaitsFor
<1> QED BY <1>4, <1>5

LEMMA PendingStore ==
    ASSUME Typed, SendsPending, Store
    PROVE  SendsPending' /\ \A o \in Sends : sends'[o] # sends[o] => sends[o] # "returned"
<1>1. CASE Save
  BY <1>1 DEF Save, SendsPending
<1>2. queue \in Seq(Mutations)
  BY DEF Typed, TypeOK
<1>3. ASSUME NEW o \in Sends, queue # <<>>, IsFor(Head(queue), o) PROVE sends[o] \in {"queueing", "copying"}
  <2>1. Head(queue) = queue[1] /\ Len(queue) \in Nat \ {0}
    BY <1>2, <1>3, EmptySeq
  <2> QED BY <1>3, <2>1 DEF SendsPending, Pending, WaitsFor
<1>4. CASE Swap
  <2>1. ASSUME Swapped(<<>>), sends' = sends PROVE SendsPending'
    <3>1. queue # <<>> /\ queue' = Tail(queue)
      BY <1>2, <2>1, HeadTailProperties, ConcatEmptySeq DEF Swapped, Typed
    <3> QED BY <1>2, <2>1, <3>1, PendingShrinks DEF SendsPending
  <2>2. ASSUME NEW o \in Sends, NEW e \in Envelopes, SwapSent(o, e)
        PROVE  SendsPending' /\ \A x \in Sends : sends'[x] # sends[x] => sends[x] # "returned"
    <3>1. saved
      BY <1>4 DEF Swap
    <3> QED BY <2>2, <3>1, PendingSent DEF SwapSent, Typed, TypeOK
  <2> QED BY <1>4, <2>1, <2>2
          DEF Swap, SwapCopied, SwapRemoved, SwapRemembered, SwapCompleted, SwapMarkedRead, SwapForgotten
<1>5. ASSUME NEW renamed \in BOOLEAN, SaveFails(renamed)
      PROVE  SendsPending' /\ \A o \in Sends : sends'[o] # sends[o] => sends[o] # "returned"
  <2>1. queue # <<>> /\ queue' = Tail(queue)
    BY <1>5 DEF SaveFails
  <2>2. \A o \in Sends : sends'[o] = sends[o] \/ IsFor(Head(queue), o)
    <3> DEFINE asking == {o \in Sends : Head(queue).id \in {o, Copy(o)}}
    <3>1. CASE Head(queue).op = "queue" /\ asking # {}
      BY <1>5, <3>1 DEF SaveFails, SaveRejected, IsFor
    <3>2. CASE ~(Head(queue).op = "queue" /\ asking # {})
      BY <1>5, <3>2 DEF SaveFails, SaveRejected
    <3> QED BY <3>1, <3>2
  <2> QED BY <1>2, <1>3, <2>1, <2>2, PendingShrinks DEF SendsPending
<1> QED BY <1>1, <1>4, <1>5 DEF Store

LEMMA PendingStep == Typed /\ SendsPending /\ [Next]_vars => SendsPending'
<1> SUFFICES ASSUME Typed, SendsPending, [Next]_vars PROVE SendsPending'
  OBVIOUS
<1>1. CASE UNCHANGED <<queue, sends>>
  BY <1>1 DEF SendsPending
<1>2. CASE Crash
  <2>1. queue' = <<>>
    BY <1>2 DEF Crash
  <2> QED BY <2>1, EmptySeq DEF SendsPending, Pending
<1>3. CASE Store
  BY <1>3, PendingStore
<1> QED BY <1>1, <1>2, <1>3, PendingReceive, PendingApplication
        DEF Next, Start, StartLoaded, Stop, Connect, Drop, procVars, vars,
            Relay, RelayPush, RelayRepeat, RelayTakesAck, RelayTakesEnvelope, RelayReceipt, RelayTakesReceiptAck,
            RelayUnchanged

Abstract == <<mailbox, handled, Promised, disk.outbox, got>>

LEMMA RefineProcess ==
    ASSUME CustodyInv, Start \/ StartLoaded \/ Stop \/ Crash \/ Connect \/ Drop \/ Receive \/ TimerFires \/ DrainStep
    PROVE  UNCHANGED Abstract
<1>1. UNCHANGED <<mailbox, handled, disk, got>>
  BY DEF Start, StartLoaded, Stop, Crash, Connect, Drop, Receive, ReceiveConfirmed, ReceiveStaged, ReceiveNew,
         ReceiveAckReceived, ReceiveReceipt, TimerFires, DrainStep, DrainConfirmed, DrainStaged, DrainForgotten,
         FrameUnchanged, relayVars
<1>2. \A o \in Sends : sends'[o] = "returned" <=> sends[o] = "returned"
  <2>1. CASE Crash
    BY <2>1 DEF Crash
  <2> QED BY <2>1 DEF Start, StartLoaded, Stop, Connect, Drop, Receive, ReceiveConfirmed, ReceiveStaged, ReceiveNew,
         ReceiveAckReceived, ReceiveReceipt, TimerFires, DrainStep, DrainConfirmed, DrainStaged, DrainForgotten,
         FrameUnchanged, procVars
<1> QED BY <1>1, <1>2 DEF Abstract, Promised

LEMMA RefineRelay ==
    ASSUME HandledInv, CustodyInv, Relay
    PROVE  [Promise!Next]_Abstract
<1>1. UNCHANGED <<handled, disk, sends, Promised>>
  BY DEF Relay, RelayPush, RelayRepeat, RelayTakesAck, RelayTakesEnvelope, RelayReceipt, RelayTakesReceiptAck,
         RelayUnchanged, procVars, Promised
<1>2. ASSUME NEW m \in Incoming, NEW st \in {"DELIVERED", "READ"}, RelayTakesAck(m, st)
      PROVE  Promise!Discard(m)
  BY <1>1, <1>2 DEF RelayTakesAck, HandledInv, AckedWasHandled, Promise!Discard
<1>3. ASSUME NEW e \in Envelopes, RelayTakesEnvelope(e)
      PROVE  Promise!Relay(e) \/ UNCHANGED Abstract
  <2>1. e \in disk.outbox \cup got
    BY <1>3 DEF RelayTakesEnvelope, CustodyInv, DeliverSafe, Safe
  <2>2. got' = got \cup {e} /\ mailbox' = mailbox
    BY <1>3 DEF RelayTakesEnvelope
  <2>3. CASE e \in got
    BY <1>1, <2>2, <2>3 DEF Abstract
  <2> QED BY <1>1, <2>1, <2>2, <2>3 DEF Promise!Relay
<1>4. CASE UNCHANGED <<mailbox, got>>
  BY <1>1, <1>4 DEF Abstract
<1> QED BY <1>2, <1>3, <1>4
        DEF Relay, RelayPush, RelayRepeat, RelayReceipt, RelayTakesReceiptAck, relayVars, Promise!Next

LEMMA RefineApplication ==
    ASSUME HandledInv, CustodyInv, Application
    PROVE  [Promise!Next]_Abstract
<1>1. UNCHANGED <<mailbox, disk, got>>
  BY DEF Application, FetchSucceeds, Throws, HandlerReturns, MarkRead, Send, AppUnchanged, relayVars
<1>2. ASSUME NEW m \in Incoming, NEW st \in {"DELIVERED", "READ"}, HandlerReturns(m, st)
      PROVE  Promise!Handle(m)
  <2>1. handled' = handled \cup {m} /\ sends' = sends /\ work[m] = "handling"
    BY <1>2 DEF HandlerReturns
  <2>2. m \in mailbox \cup handled
    BY DEF HandledInv, AckedWasHandled
  <2>3. Promised \subseteq Promised' /\ Promised' \subseteq Promised \cup {Copy(x) : x \in Mirrored \cap {m}}
    BY <2>1 DEF Promised
  <2>4. \A x \in Mirrored \cap {m} : Copy(x) \in disk.outbox \cup got
    BY <2>1 DEF CustodyInv, CopiesAccepted, Safe
  <2> QED BY <1>1, <2>1, <2>2, <2>3, <2>4 DEF Promise!Handle
<1>3. ASSUME NEW o \in Sends, Send(o) PROVE UNCHANGED Abstract
  <2>1. \A x \in Sends : sends'[x] = "returned" <=> sends[x] = "returned"
    BY <1>3 DEF Send, CustodyInv, Typed, TypeOK
  <2> QED BY <1>1, <1>3, <2>1 DEF Send, Abstract, Promised
<1>4. CASE UNCHANGED <<handled, sends>>
  BY <1>1, <1>4 DEF Abstract, Promised
<1> QED BY <1>2, <1>3, <1>4 DEF Application, FetchSucceeds, Throws, MarkRead, Promise!Next

LEMMA RefineStore ==
    ASSUME CustodyInv, CustodyInv', SendsPending, Store
    PROVE  [Promise!Next]_Abstract
<1>1. UNCHANGED <<mailbox, handled, got>>
  BY DEF Store, Save, SaveFails, Swap, SwapSent, SwapCopied, SwapRemoved, SwapRemembered, SwapCompleted,
         SwapMarkedRead, SwapForgotten, SwapUnchanged, relayVars
<1>2. \A o \in Sends : sends'[o] # sends[o] => sends[o] # "returned"
  BY PendingStore DEF CustodyInv
<1>3. disk'.outbox \subseteq Envelopes /\ Promised' \subseteq disk'.outbox \cup got'
  <2>1. handled' \subseteq Incoming /\ disk'.outbox \subseteq Envelopes
    BY DEF CustodyInv, Typed, TypeOK, States
  <2>2. \A o \in Sends : sends'[o] = "returned" => o \in disk'.outbox \cup got'
    BY DEF CustodyInv, SendsAccepted, Safe
  <2>3. \A m \in Mirrored \cap handled' : Copy(m) \in disk'.outbox \cup got'
    BY <2>1 DEF CustodyInv, CopiesAccepted, Safe
  <2> QED BY <2>1, <2>2, <2>3 DEF Promised
<1>4. CASE Save \/ \E renamed \in BOOLEAN : SaveFails(renamed)
  <2>1. \A o \in Sends : sends'[o] = "returned" <=> sends[o] = "returned"
    <3>1. \A o \in Sends : sends'[o] \in {sends[o], "failed"}
      BY <1>4 DEF Save, SaveFails, SaveRejected, CustodyInv, Typed, TypeOK
    <3> QED BY <1>2, <3>1
  <2>2. Promised' = Promised
    BY <1>1, <2>1 DEF Promised
  <2> QED BY <1>1, <1>3, <2>2 DEF Promise!Rewrite, Promise!Next
<1>5. CASE Swap
  <2>1. disk' = disk
    BY <1>5 DEF Swap, SwapSent, SwapCopied, SwapRemoved, SwapRemembered, SwapCompleted,
         SwapMarkedRead, SwapForgotten, SwapUnchanged
  <2>2. ASSUME NEW o \in Sends, NEW e \in Envelopes, SwapSent(o, e)
        PROVE  [Promise!Next]_Abstract
    <3>1. \A x \in Sends \ {o} : sends'[x] = sends[x]
      BY <2>2 DEF SwapSent, CustodyInv, Typed, TypeOK
    <3>2. CASE sends'[o] # "returned"
      <4>1. sends[o] # "returned"
        BY <1>2, <3>2
      <4>2. Promised' = Promised
        BY <1>1, <3>1, <3>2, <4>1 DEF Promised
      <4> QED BY <1>1, <2>1, <4>2 DEF Abstract
    <3>3. CASE sends'[o] = "returned"
      <4>1. Promised' = Promised \cup {o}
        BY <1>1, <3>1, <3>3 DEF Promised
      <4>2. o \in disk.outbox \cup got
        BY <1>1, <1>3, <2>1, <4>1
      <4>3. Promise!Promise(o)
        BY <1>1, <2>1, <4>1, <4>2 DEF Promise!Promise
      <4> QED BY <4>3, EnvelopeTypes DEF Promise!Next
    <3> QED BY <3>2, <3>3
  <2>3. CASE sends' = sends
    BY <1>1, <2>1, <2>3 DEF Abstract, Promised
  <2> QED BY <1>5, <2>2, <2>3
          DEF Swap, SwapCopied, SwapRemoved, SwapRemembered, SwapCompleted, SwapMarkedRead, SwapForgotten
<1> QED BY <1>4, <1>5 DEF Store

\* The runtime implements the promise of Delivery, when start() waits for quiet:
\* every step handles, discards, promises, rewrites or relays as that specification
\* allows, or changes nothing it speaks of (the whole of agent.ts' direct messaging).
THEOREM DeliveryIsImplemented ==
    ASSUME QuietRestart
    PROVE  Spec => ImplementsDelivery
<1>1. Init => Promise!Init /\ SendsPending
  <2> SUFFICES ASSUME Init PROVE Promise!Init /\ SendsPending
    OBVIOUS
  <2>1. Promised = {}
    BY DEF Init, Promised
  <2>2. SendsPending
    BY EmptySeq DEF Init, SendsPending, Pending
  <2> QED BY <2>1, <2>2 DEF Init, Promise!Init, EmptyState
<1>2. HandledInv /\ SendsPending /\ [Next]_vars => SendsPending'
  BY PendingStep DEF HandledInv
<1>3. HandledInv /\ CustodyInv /\ CustodyInv' /\ SendsPending /\ [Next]_vars => [Promise!Next]_Abstract
  <2> SUFFICES ASSUME HandledInv, CustodyInv, CustodyInv', SendsPending, [Next]_vars
               PROVE  [Promise!Next]_Abstract
    OBVIOUS
  <2>1. CASE UNCHANGED vars
    BY <2>1 DEF vars, procVars, relayVars, Abstract, Promised
  <2>2. CASE Next
    BY <2>2, RefineProcess, RefineRelay, RefineApplication, RefineStore DEF Next
  <2> QED BY <2>1, <2>2
<1> QED BY <1>1, <1>2, <1>3, HandledAlways, CustodyAlways, PTL
        DEF Spec, ImplementsDelivery, Promise!Spec, Abstract

-----------------------------------------------------------------------------
(* The ledger, when it has room for every message there is: no key leaves  *)
(* it, so what is completed stays so.                                      *)

LedgerHasRoom == IsFiniteSet(Incoming) /\ Cardinality(Incoming) <= MaxProcessed

KeysDiffer(s) == \A i, j \in 1 .. Len(s.ledger) : s.ledger[i] = s.ledger[j] => i = j

\* mu puts m into the ledger.
Completes(mu, m) == mu.op \in {"complete", "markRead"} /\ mu.id = m

LEMMA KeysFit ==
    ASSUME LedgerHasRoom, NEW q \in Seq(Incoming), \A i, j \in 1 .. Len(q) : q[i] = q[j] => i = j
    PROVE  Len(q) <= MaxProcessed
<1>1. q \in [1 .. Len(q) -> Incoming] /\ Len(q) \in Nat
  BY LenProperties
<1>2. q \in Injection(1 .. Len(q), Incoming)
  BY <1>1 DEF Injection, IsInjective
<1>3. IsFiniteSet(1 .. Len(q)) /\ Cardinality(1 .. Len(q)) = Len(q)
  <2>1. 1 \in Int /\ Len(q) \in Int /\ (1 > Len(q) <=> Len(q) = 0) /\ Len(q) - 1 + 1 = Len(q)
    BY <1>1
  <2>2. /\ IsFiniteSet(1 .. Len(q))
        /\ Cardinality(1 .. Len(q)) = IF 1 > Len(q) THEN 0 ELSE Len(q) - 1 + 1
    BY <2>1, FS_Interval
  <2> QED BY <2>1, <2>2
<1>4. Len(q) <= Cardinality(Incoming)
  BY <1>2, <1>3, FS_Injection DEF LedgerHasRoom
<1>5. Cardinality(Incoming) \in Nat
  BY FS_CardinalityType DEF LedgerHasRoom
<1> QED BY <1>1, <1>4, <1>5, MaxProcessedAssumption DEF LedgerHasRoom

LEMMA CompleteLedger ==
    ASSUME LedgerHasRoom, NEW s \in States, KeysDiffer(s), NEW m \in Incoming, NEW state
    PROVE  LET t == CompleteIncoming(s, m, state)
           IN  /\ KeysDiffer(t)
               /\ \A x : Processed(t, x) <=> x = m \/ Processed(s, x)
<1> DEFINE t == CompleteIncoming(s, m, state)
           keys == IF Processed(s, m) THEN s.ledger ELSE Append(s.ledger, m)
<1>1. s.ledger \in Seq(Incoming) /\ Len(s.ledger) \in Nat
  BY LenProperties DEF States
<1>2. /\ Append(s.ledger, m) \in Seq(Incoming) /\ Len(Append(s.ledger, m)) = Len(s.ledger) + 1
      /\ \A i \in 1 .. Len(s.ledger) : Append(s.ledger, m)[i] = s.ledger[i]
      /\ Append(s.ledger, m)[Len(s.ledger) + 1] = m
  BY <1>1, AppendProperties
<1>3. /\ keys \in Seq(Incoming)
      /\ \A i, j \in 1 .. Len(keys) : keys[i] = keys[j] => i = j
      /\ \A x : Contains(keys, x) <=> x = m \/ Processed(s, x)
  <2>1. CASE Processed(s, m)
    BY <1>1, <2>1 DEF KeysDiffer, Processed
  <2>2. CASE ~Processed(s, m)
    <3> DEFINE q == Append(s.ledger, m)
    <3>1. keys = q /\ \A i \in 1 .. Len(s.ledger) : s.ledger[i] # m
      BY <2>2 DEF Processed, Contains
    <3> HIDE DEF q
    <3>2. ASSUME NEW i \in 1 .. Len(q), NEW j \in 1 .. Len(q), q[i] = q[j] PROVE i = j
      BY <1>1, <1>2, <3>1, <3>2 DEF KeysDiffer, q
    <3>3. \A x : Contains(q, x) <=> x = m \/ Processed(s, x)
      BY <1>1, <1>2 DEF Contains, Processed, q
    <3> QED BY <1>2, <3>1, <3>2, <3>3 DEF q
  <2> QED BY <2>1, <2>2
<1> HIDE DEF keys
<1>4. Len(keys) <= MaxProcessed
  BY <1>3, KeysFit
<1>5. t.ledger = keys
  <2>1. Pruned(keys) = keys
    BY <1>4 DEF Pruned
  <2> QED BY <2>1 DEF CompleteIncoming, States, keys
<1> HIDE DEF t
<1> QED BY <1>3, <1>5 DEF KeysDiffer, Processed, t

LEMMA ApplyLedger ==
    ASSUME LedgerHasRoom, NEW s \in States, WellFormed(s), KeysDiffer(s), NEW mu \in Mutations
    PROVE  LET t == Apply(s, mu)
           IN  /\ KeysDiffer(t)
               /\ \A x : Processed(t, x) <=> Processed(s, x) \/ Completes(mu, x)
               /\ mu.op = "remember" => Staged(t, mu.id)
<1>1. CASE mu.op \in {"complete", "markRead"}
  <2>1. mu.id \in Incoming /\ Apply(s, mu) = CompleteIncoming(s, mu.id, mu.by)
    BY <1>1 DEF Apply, Mutations
  <2> QED BY <1>1, <2>1, CompleteLedger DEF Completes
<1>2. CASE mu.op = "remember"
  <2>1. mu.id \in Incoming /\ Apply(s, mu) = RememberIncoming(s, mu.id)
    BY <1>2 DEF Apply, Mutations
  <2>2. RememberIncoming(s, mu.id).ledger = s.ledger
    BY <2>1, RememberProperties
  <2>3. Staged(RememberIncoming(s, mu.id), mu.id)
    <3>1. CASE Staged(s, mu.id)
      BY <3>1 DEF RememberIncoming
    <3>2. CASE ~Staged(s, mu.id)
      <4>1. s.inbox \in Seq(Incoming) /\ Len(s.inbox) \in Nat
        BY LenProperties DEF States
      <4>2. RememberIncoming(s, mu.id).inbox = Append(s.inbox, mu.id)
        BY <3>2 DEF RememberIncoming, States
      <4>3. /\ Len(Append(s.inbox, mu.id)) = Len(s.inbox) + 1
            /\ Append(s.inbox, mu.id)[Len(s.inbox) + 1] = mu.id
        BY <2>1, <4>1, AppendProperties
      <4> QED BY <4>1, <4>2, <4>3 DEF Staged, Contains
    <3> QED BY <3>1, <3>2
  <2> QED BY <1>2, <2>1, <2>2, <2>3 DEF Completes, KeysDiffer, Processed
<1>3. CASE mu.op = "forget"
  <2>1. mu.id \in Incoming /\ Apply(s, mu) = ForgetIncoming(s, mu.id)
    BY <1>3 DEF Apply, Mutations
  <2>2. ForgetIncoming(s, mu.id).ledger = s.ledger
    BY <2>1, ForgetProperties
  <2> QED BY <1>3, <2>1, <2>2 DEF Completes, KeysDiffer, Processed
<1>4. CASE mu.op \in {"queue", "remove"}
  <2>1. Apply(s, mu).ledger = s.ledger
    BY <1>4 DEF Apply, QueueEnvelope, RemoveFromOutbox, States
  <2> QED BY <1>4, <2>1 DEF Completes, KeysDiffer, Processed
<1> QED BY <1>1, <1>2, <1>3, <1>4 DEF Mutations

\* mu is what the processing of m waits for, and the stage it waits in.
WorksFor(mu, m) == \/ mu.op = "queue" /\ mu.id = Copy(m)
                   \/ mu.op = "complete" /\ mu.id = m
StageOf(mu) == IF mu.op = "complete" THEN "completing" ELSE "mirroring"

\* The chain q and one message m: whether it is completed and staged in memory, the
\* stage of its processing.  It is completed once, nobody works on it afterwards, and
\* who asked to remember it asked before it was completed, who marked it after that.
Ordered(q, m, completed, staged, stage) ==
    /\ completed => stage = "idle"
    /\ stage # "idle" => staged
    /\ \A i \in 1 .. Len(q) : WorksFor(q[i], m) => stage = StageOf(q[i])
    /\ \A i, j \in 1 .. Len(q) : WorksFor(q[i], m) /\ WorksFor(q[j], m) => i = j
    /\ \A i \in 1 .. Len(q) : q[i].op = "remember" /\ q[i].id = m =>
            ~completed /\ \A j \in 1 .. i - 1 : ~Completes(q[j], m)
    /\ \A i \in 1 .. Len(q) : q[i].op = "markRead" /\ q[i].id = m =>
            completed \/ \E j \in 1 .. i - 1 : q[j].op = "complete" /\ q[j].id = m
    /\ \A i \in 1 .. Len(q) : q[i].op = "forget" /\ q[i].id = m => completed

\* Processing goes on without the chain.
LEMMA OrderedWorks ==
    ASSUME NEW q \in Seq(Mutations), NEW m, NEW p, NEW s, NEW w, NEW v,
           Ordered(q, m, p, s, w),
           \/ v = w
           \/ {v, w} \subseteq {"idle", "fetching", "handling"} /\ (v # "idle" => ~p /\ s)
    PROVE  Ordered(q, m, p, s, v)
BY DEF Ordered, StageOf

\* The chain grows by mu.
LEMMA OrderedGrows ==
    ASSUME NEW q \in Seq(Mutations), NEW mu \in Mutations,
           NEW m, NEW p, NEW s, NEW w, NEW v,
           Ordered(q, m, p, s, w),
           mu.op = "remember" /\ mu.id = m => ~p /\ ~s,
           mu.op = "forget" /\ mu.id = m => p,
           mu.op = "markRead" /\ mu.id = m =>
                p \/ \E j \in 1 .. Len(q) : q[j].op = "complete" /\ q[j].id = m,
           IF WorksFor(mu, m) THEN w \in {"fetching", "handling"} /\ v = StageOf(mu) ELSE v = w
    PROVE  Ordered(Append(q, mu), m, p, s, v)
<1> DEFINE r == Append(q, mu)
           n == Len(q)
<1>1. /\ n \in Nat /\ Len(r) = n + 1
      /\ \A i \in 1 .. n : r[i] = q[i]
      /\ r[n + 1] = mu
  BY AppendProperties, LenProperties
<1> HIDE DEF r, n
<1>2. \A i \in 1 .. Len(r) : i \in 1 .. n \/ i = n + 1
  BY <1>1
<1>3. 1 .. n \subseteq 1 .. Len(r) /\ n + 1 \in 1 .. Len(r)
  BY <1>1
<1>4. /\ p => w = "idle"
      /\ w # "idle" => s
      /\ \A i \in 1 .. n : WorksFor(q[i], m) => w = StageOf(q[i])
      /\ \A i, j \in 1 .. n : WorksFor(q[i], m) /\ WorksFor(q[j], m) => i = j
      /\ \A i \in 1 .. n : q[i].op = "remember" /\ q[i].id = m =>
            ~p /\ \A j \in 1 .. i - 1 : ~Completes(q[j], m)
      /\ \A i \in 1 .. n : q[i].op = "markRead" /\ q[i].id = m =>
            p \/ \E j \in 1 .. i - 1 : q[j].op = "complete" /\ q[j].id = m
      /\ \A i \in 1 .. n : q[i].op = "forget" /\ q[i].id = m => p
  BY DEF Ordered, n
<1>5. (p => v = "idle") /\ (v # "idle" => s)
  BY <1>4 DEF StageOf
<1>6. /\ \A i \in 1 .. Len(r) : WorksFor(r[i], m) => v = StageOf(r[i])
      /\ \A i, j \in 1 .. Len(r) : WorksFor(r[i], m) /\ WorksFor(r[j], m) => i = j
  <2>1. CASE WorksFor(mu, m)
    <3>1. \A i \in 1 .. n : ~WorksFor(q[i], m)
      BY <1>4, <2>1 DEF StageOf
    <3> QED BY <1>1, <1>2, <2>1, <3>1
  <2>2. CASE ~WorksFor(mu, m)
    BY <1>1, <1>2, <1>4, <2>2
  <2> QED BY <2>1, <2>2
<1>7. \A i \in 1 .. n : 1 .. i - 1 \subseteq 1 .. n
  BY <1>1
<1>8. ASSUME NEW i \in 1 .. Len(r), r[i].op = "remember", r[i].id = m
       PROVE  ~p /\ \A j \in 1 .. i - 1 : ~Completes(r[j], m)
  <2>1. CASE i \in 1 .. n
    BY <1>1, <1>4, <1>7, <1>8, <2>1
  <2>2. CASE i = n + 1
    <3>1. ~p /\ ~s /\ i - 1 = n
      BY <1>1, <1>8, <2>2
    <3>2. \A j \in 1 .. n : ~(q[j].op = "complete" /\ q[j].id = m)
      BY <1>4, <3>1 DEF WorksFor, StageOf
    <3>3. \A j \in 1 .. n : ~(q[j].op = "markRead" /\ q[j].id = m)
      BY <1>4, <1>7, <3>1, <3>2
    <3> QED BY <1>1, <3>1, <3>2, <3>3 DEF Completes
  <2> QED BY <1>2, <2>1, <2>2
<1>9. ASSUME NEW i \in 1 .. Len(r), r[i].op = "markRead", r[i].id = m
       PROVE  p \/ \E j \in 1 .. i - 1 : r[j].op = "complete" /\ r[j].id = m
  <2>1. CASE i \in 1 .. n
    BY <1>1, <1>4, <1>7, <1>9, <2>1
  <2>2. CASE i = n + 1
    <3>1. i - 1 = n
      BY <1>1, <2>2
    <3>2. p \/ \E j \in 1 .. n : q[j].op = "complete" /\ q[j].id = m
      BY <1>1, <1>9, <2>2 DEF n
    <3> QED BY <1>1, <3>1, <3>2
  <2> QED BY <1>2, <2>1, <2>2
<1>10. \A i \in 1 .. Len(r) : r[i].op = "forget" /\ r[i].id = m => p
  BY <1>1, <1>2, <1>4
<1> QED BY <1>5, <1>6, <1>8, <1>9, <1>10 DEF Ordered, r

\* The chain's head is done.
LEMMA OrderedShrinks ==
    ASSUME NEW q \in Seq(Mutations), q # <<>>,
           NEW m, NEW p, NEW s, NEW w, NEW b, NEW t, NEW v,
           Ordered(q, m, p, s, w),
           b <=> p \/ Completes(Head(q), m),
           s => t \/ (Head(q).op = "forget" /\ Head(q).id = m),
           Head(q).op = "remember" /\ Head(q).id = m => t,
           IF WorksFor(Head(q), m) THEN v = IF Head(q).op = "complete" THEN "idle" ELSE "handling"
           ELSE v = w \/ (v = "fetching" /\ w = "idle" /\ Head(q).op = "remember" /\ Head(q).id = m)
    PROVE  Ordered(Tail(q), m, b, t, v)
<1> DEFINE r == Tail(q)
           n == Len(q)
           mu == q[1]
<1>1. /\ n \in Nat \ {0} /\ Len(r) = n - 1 /\ Head(q) = mu
      /\ \A i \in 1 .. Len(r) : r[i] = q[i + 1]
  BY HeadTailProperties, LenProperties, EmptySeq
<1>2. /\ p => w = "idle"
      /\ w # "idle" => s
      /\ \A i \in 1 .. n : WorksFor(q[i], m) => w = StageOf(q[i])
      /\ \A i, j \in 1 .. n : WorksFor(q[i], m) /\ WorksFor(q[j], m) => i = j
      /\ \A i \in 1 .. n : q[i].op = "remember" /\ q[i].id = m =>
            ~p /\ \A j \in 1 .. i - 1 : ~Completes(q[j], m)
      /\ \A i \in 1 .. n : q[i].op = "markRead" /\ q[i].id = m =>
            p \/ \E j \in 1 .. i - 1 : q[j].op = "complete" /\ q[j].id = m
      /\ \A i \in 1 .. n : q[i].op = "forget" /\ q[i].id = m => p
  BY DEF Ordered
<1> HIDE DEF r, n
<1>3. 1 \in 1 .. n /\ \A i \in 1 .. Len(r) : i + 1 \in 1 .. n
  BY <1>1
<1>4. /\ mu.op = "markRead" /\ mu.id = m => p
      /\ mu.op = "remember" /\ mu.id = m => ~p
      /\ mu.op = "forget" /\ mu.id = m => p
      /\ WorksFor(mu, m) => w = StageOf(mu)
  BY <1>2, <1>3
<1> HIDE DEF mu
<1>5. b => v = "idle"
  BY <1>1, <1>2, <1>4 DEF Completes, WorksFor, StageOf
<1>6. v # "idle" => t
  BY <1>1, <1>2, <1>4 DEF WorksFor, StageOf
<1>7. \A j \in 1 .. n : j = 1 \/ (j - 1 \in 1 .. Len(r) /\ r[j - 1] = q[j])
  <2>1. \A j \in 1 .. n : j = 1 \/ (j - 1 \in 1 .. Len(r) /\ (j - 1) + 1 = j)
    BY <1>1
  <2> QED BY <1>1, <2>1
<1>8. /\ \A i \in 1 .. Len(r) : WorksFor(r[i], m) => v = StageOf(r[i])
      /\ \A i, j \in 1 .. Len(r) : WorksFor(r[i], m) /\ WorksFor(r[j], m) => i = j
  <2>1. ASSUME NEW i \in 1 .. Len(r), WorksFor(r[i], m) PROVE v = StageOf(r[i])
    <3>1. w = StageOf(r[i]) /\ i + 1 # 1
      BY <1>1, <1>2, <1>3, <2>1
    <3>2. ~WorksFor(mu, m)
      BY <1>1, <1>2, <1>3, <2>1, <3>1 DEF mu
    <3> QED BY <1>1, <3>1, <3>2 DEF StageOf
  <2>2. ASSUME NEW i \in 1 .. Len(r), NEW j \in 1 .. Len(r), WorksFor(r[i], m), WorksFor(r[j], m)
        PROVE  i = j
    <3>1. i + 1 = j + 1
      BY <1>1, <1>2, <1>3, <2>2
    <3> QED BY <1>1, <3>1
  <2> QED BY <2>1, <2>2
<1>9. ASSUME NEW i \in 1 .. Len(r), r[i].op = "remember", r[i].id = m
       PROVE  ~b /\ \A j \in 1 .. i - 1 : ~Completes(r[j], m)
  <2>1. ~p /\ \A j \in 1 .. (i + 1) - 1 : ~Completes(q[j], m)
    BY <1>1, <1>2, <1>3, <1>9
  <2>2. 1 \in 1 .. (i + 1) - 1 /\ \A j \in 1 .. i - 1 : j \in 1 .. Len(r) /\ j + 1 \in 1 .. (i + 1) - 1
    BY <1>1
  <2> QED BY <1>1, <2>1, <2>2 DEF mu
<1>10. ASSUME NEW i \in 1 .. Len(r), r[i].op = "markRead", r[i].id = m
       PROVE  b \/ \E j \in 1 .. i - 1 : r[j].op = "complete" /\ r[j].id = m
  <2>1. p \/ \E j \in 1 .. (i + 1) - 1 : q[j].op = "complete" /\ q[j].id = m
    BY <1>1, <1>2, <1>3, <1>10
  <2>2. ASSUME NEW j \in 1 .. (i + 1) - 1, q[j].op = "complete", q[j].id = m
        PROVE  b \/ \E k \in 1 .. i - 1 : r[k].op = "complete" /\ r[k].id = m
    <3>1. CASE j = 1
      BY <1>1, <2>2, <3>1 DEF Completes, mu
    <3>2. CASE j # 1
      <4>1. j - 1 \in 1 .. i - 1 /\ j \in 1 .. n
        BY <1>1, <3>2
      <4> QED BY <1>7, <2>2, <3>2, <4>1
    <3> QED BY <3>1, <3>2
  <2> QED BY <2>1, <2>2
<1>11. \A i \in 1 .. Len(r) : r[i].op = "forget" /\ r[i].id = m => b
  BY <1>1, <1>2, <1>3
<1> QED BY <1>5, <1>6, <1>8, <1>9, <1>10, <1>11 DEF Ordered, r

\* m is acknowledged, or its acknowledgement confirmed, only once it is completed.
AcksTrue(m) ==
    AckReceived(m) \in toAgent \/ (\E state \in {"DELIVERED", "READ"} : Ack(m, state) \in toRelay)
        => Processed(mem, m)

Orderly ==
    /\ phase = "reloading" => mem = disk
    /\ \A m \in Incoming \ early : Ordered(queue, m, Processed(mem, m), Staged(mem, m), work[m])
    /\ \A m \in Incoming : AcksTrue(m)

LedgerInv ==
    /\ DurableInv
    /\ KeysDiffer(mem) /\ KeysDiffer(disk) /\ KeysDiffer(loaded)
    /\ faults.save = 0 => Orderly

LEMMA OrderedInit ==
    ASSUME NEW m, NEW s, NEW p
    PROVE  Ordered(<<>>, m, p, s, "idle")
BY EmptySeq DEF Ordered

LEMMA LedgerInit == Init => LedgerInv
<1> SUFFICES ASSUME Init PROVE LedgerInv
  OBVIOUS
<1>1. DurableInv
  BY HandledInit, CustodyInit DEF Init, DurableInv, InboxDurable, LedgerDurable, FileIsMemory
<1>2. KeysDiffer(EmptyState)
  BY EmptySeq DEF KeysDiffer, EmptyState
<1>3. ASSUME NEW m \in Incoming
      PROVE  Ordered(queue, m, Processed(mem, m), Staged(mem, m), work[m]) /\ AcksTrue(m)
  <2>1. queue = <<>> /\ work[m] = "idle" /\ toRelay = {} /\ toAgent = {}
    BY DEF Init, Idle
  <2> QED BY <2>1, OrderedInit DEF AcksTrue
<1> QED BY <1>1, <1>2, <1>3 DEF Init, LedgerInv, Orderly

LEMMA KeysStep ==
    ASSUME LedgerHasRoom, LedgerInv, Next
    PROVE  KeysDiffer(mem') /\ KeysDiffer(disk') /\ KeysDiffer(loaded')
<1> CustodyInv
  BY DEF LedgerInv, DurableInv
<1> USE DEF LedgerInv
<1>1. CASE Connect \/ Drop \/ Relay \/ Receive \/ TimerFires \/ DrainStep \/ Application
  BY <1>1, CalmActions DEF Calm
<1>2. CASE Start \/ StartLoaded \/ Stop \/ Crash
  <2>1. KeysDiffer(EmptyState)
    BY EmptySeq DEF KeysDiffer, EmptyState
  <2> QED BY <1>2, <2>1 DEF Start, StartLoaded, Stop, Crash, procVars
<1>3. queue # <<>> => KeysDiffer(Apply(mem, Head(queue)))
  BY ApplyTypes, ApplyLedger DEF CustodyInv, Typed, TypeOK
<1>4. CASE Save
  BY <1>3, <1>4 DEF Save
<1>5. CASE Swap
  BY <1>5 DEF Swap, SwapSent, SwapCopied, SwapRemoved, SwapRemembered, SwapCompleted,
              SwapMarkedRead, SwapForgotten, Swapped, SwapUnchanged
<1>6. ASSUME NEW renamed \in BOOLEAN, SaveFails(renamed) PROVE KeysDiffer(mem') /\ KeysDiffer(disk') /\ KeysDiffer(loaded')
  BY <1>3, <1>6 DEF SaveFails
<1> QED BY <1>1, <1>2, <1>4, <1>5, <1>6 DEF Next, Store

LEMMA OrderlyProcess ==
    ASSUME QuietRestart, DurableInv, Orderly, faults.save = 0,
           Start \/ StartLoaded \/ Stop \/ Crash \/ Connect \/ Drop
    PROVE  Orderly'
<1> CustodyInv
  BY DEF DurableInv
<1>0. ASSUME UNCHANGED <<mem, queue, work, early>>, NEW m \in Incoming \ early
      PROVE  Ordered(queue, m, Processed(mem, m), Staged(mem, m), work[m])'
  BY <1>0 DEF Orderly
<1>1. CASE Start
  <2>1. UNCHANGED <<mem, disk, queue, work, early, toRelay, toAgent>> /\ phase' \in {"starting", "reloading"}
    BY <1>1 DEF Start, procVars
  <2>2. phase' = "reloading" => mem' = disk'
    <3>1. phase' = "reloading" => phase = "stopped" /\ queue = <<>>
      BY <1>1 DEF Start, InProgress
    <3> QED BY <2>1, <3>1 DEF DurableInv, FileIsMemory, CustodyInv, Typed
  <2> QED BY <1>0, <2>1, <2>2 DEF Orderly, AcksTrue
<1>2. CASE StartLoaded
  <2>1. UNCHANGED <<queue, work, early, toRelay, toAgent>> /\ phase' = "running" /\ mem' = disk
    BY <1>2 DEF StartLoaded, CustodyInv, LoadedIsCurrent
  <2>2. CASE phase = "reloading"
    <3>1. mem' = mem
      BY <2>1, <2>2 DEF Orderly
    <3> QED BY <1>0, <2>1, <3>1 DEF Orderly, AcksTrue
  <2>3. CASE phase = "starting"
    <3>1. queue' = <<>> /\ toRelay' = {} /\ toAgent' = {} /\ \A m \in Incoming : work'[m] = "idle"
      BY <2>1, <2>3 DEF Orderly, CustodyInv, Quiet
    <3>2. ASSUME NEW m \in Incoming
          PROVE  Ordered(queue, m, Processed(mem, m), Staged(mem, m), work[m])'
      BY <3>1, OrderedInit
    <3> QED BY <2>1, <3>1, <3>2 DEF Orderly, AcksTrue
  <2> QED BY <1>2, <2>2, <2>3 DEF StartLoaded
<1>3. CASE Stop
  <2>1. UNCHANGED <<mem, queue, work, early>> /\ toRelay' = {} /\ toAgent' = {} /\ phase' = "stopped"
    BY <1>3 DEF Stop
  <2> QED BY <1>0, <2>1 DEF Orderly, AcksTrue
<1>4. CASE Crash
  <2>1. /\ queue' = <<>> /\ toRelay' = {} /\ toAgent' = {}
        /\ phase' = "dead" /\ \A m \in Incoming : work'[m] = "idle"
    BY <1>4 DEF Crash, Idle
  <2>2. ASSUME NEW m \in Incoming
        PROVE  Ordered(queue, m, Processed(mem, m), Staged(mem, m), work[m])'
    BY <2>1, OrderedInit
  <2> QED BY <2>1, <2>2 DEF Orderly, AcksTrue
<1>5. CASE Connect
  <2>1. UNCHANGED <<mem, queue, work, early, toAgent, phase>> /\ phase = "running"
    BY <1>5 DEF Connect
  <2>2. \A m, st : Ack(m, st) \notin toRelay'
    BY <1>5, FramesDiffer DEF Connect
  <2> QED BY <1>0, <2>1, <2>2 DEF Orderly, AcksTrue
<1>6. CASE Drop
  <2>1. UNCHANGED <<mem, disk, queue, work, early, phase>> /\ toRelay' = {} /\ toAgent' = {}
    BY <1>6 DEF Drop, procVars
  <2> QED BY <1>0, <2>1 DEF Orderly, AcksTrue
<1> QED BY <1>1, <1>2, <1>3, <1>4, <1>5, <1>6

LEMMA OrderlyRelay ==
    ASSUME Orderly, Relay
    PROVE  Orderly'
<1>1. UNCHANGED <<mem, disk, queue, work, early, phase>>
  BY DEF Relay, RelayPush, RelayRepeat, RelayTakesAck, RelayTakesEnvelope, RelayReceipt, RelayTakesReceiptAck,
         RelayUnchanged, procVars
<1>2. toRelay' \subseteq toRelay
  BY DEF Relay, RelayPush, RelayRepeat, RelayTakesAck, RelayTakesEnvelope, RelayReceipt, RelayTakesReceiptAck
<1>3. ASSUME NEW m \in Incoming, AckReceived(m) \in toAgent' PROVE Processed(mem, m)
  <2>1. CASE AckReceived(m) \in toAgent
    BY <2>1 DEF Orderly, AcksTrue
  <2>2. CASE AckReceived(m) \notin toAgent
    <3>1. \E st \in {"DELIVERED", "READ"} : Ack(m, st) \in toRelay
      BY <1>3, <2>2, FramesDiffer
         DEF Relay, RelayPush, RelayRepeat, RelayTakesAck, RelayTakesEnvelope, RelayReceipt, RelayTakesReceiptAck
    <3> QED BY <3>1 DEF Orderly, AcksTrue
  <2> QED BY <2>1, <2>2
<1> QED BY <1>1, <1>2, <1>3 DEF Orderly, AcksTrue

LEMMA OrderlyReceive ==
    ASSUME Typed, Orderly, Receive \/ TimerFires \/ DrainStep
    PROVE  Orderly'
<1>1. UNCHANGED <<mem, disk, phase, early>> /\ toAgent' \subseteq toAgent
  BY DEF Receive, ReceiveConfirmed, ReceiveStaged, ReceiveNew, ReceiveAckReceived, ReceiveReceipt, Received,
         TimerFires, DrainStep, DrainConfirmed, DrainStaged, DrainForgotten, FrameUnchanged
<1>2. drain.at = "next" => Head(drain.left) \in Incoming
  BY HeadTailProperties DEF Typed, TypeOK
<1>3. queue \in Seq(Mutations) /\ work \in [Incoming -> WorkStages]
  BY DEF Typed, TypeOK
<1>4. \/ UNCHANGED <<queue, work>>
      \/ UNCHANGED queue /\ \E n \in Incoming : ~Processed(mem, n) /\ Staged(mem, n) /\ WorkJoined(n)
      \/ UNCHANGED work /\ \E mu \in Mutations :
            /\ Enqueue(mu) /\ mu.op \in {"remember", "forget", "remove"}
            /\ mu.op = "remember" => ~Processed(mem, mu.id) /\ ~Staged(mem, mu.id)
            /\ mu.op = "forget" => Processed(mem, mu.id)
  <2>1. ASSUME NEW n \in Incoming, ReceiveAckReceived(n)
        PROVE  /\ UNCHANGED work
               /\ UNCHANGED queue \/ Enqueue(Mutation("forget", n, "agent"))
               /\ Processed(mem, n)
    BY <2>1 DEF ReceiveAckReceived, Received, Orderly, AcksTrue
  <2>2. ASSUME NEW n \in Incoming
        PROVE  /\ Mutation("forget", n, "agent") \in Mutations
               /\ Mutation("forget", n, "agent").op = "forget" /\ Mutation("forget", n, "agent").id = n
               /\ \A by \in {"frame", "drain"} :
                    /\ Mutation("remember", n, by) \in Mutations
                    /\ Mutation("remember", n, by).op = "remember" /\ Mutation("remember", n, by).id = n
    BY MutationTypes DEF Mutation
  <2>3. ASSUME NEW e \in Envelopes
        PROVE  Mutation("remove", e, "agent") \in Mutations /\ Mutation("remove", e, "agent").op = "remove"
    BY MutationTypes DEF Mutation
  <2>4. CASE Receive
    <3>1. CASE \E n \in Incoming : ReceiveAckReceived(n)
      BY <2>1, <2>2, <3>1
    <3>2. CASE \E n \in Incoming : ReceiveNew(n)
      BY <2>2, <3>2 DEF ReceiveNew
    <3>3. CASE \E e \in Envelopes : ReceiveReceipt(e)
      BY <2>3, <3>3 DEF ReceiveReceipt
    <3> QED BY <2>4, <3>1, <3>2, <3>3 DEF Receive, ReceiveConfirmed, ReceiveStaged
  <2>5. CASE DrainForgotten
    BY <1>2, <2>2, <2>5 DEF DrainForgotten
  <2> QED BY <1>2, <2>4, <2>5 DEF TimerFires, DrainStep, DrainConfirmed, DrainStaged
<1>5. ASSUME NEW m \in Incoming \ early
      PROVE  Ordered(queue, m, Processed(mem, m), Staged(mem, m), work[m])'
  <2>1. Ordered(queue, m, Processed(mem, m), Staged(mem, m), work[m])
    BY DEF Orderly
  <2>2. ASSUME UNCHANGED queue, NEW n \in Incoming, ~Processed(mem, n), Staged(mem, n), WorkJoined(n)
        PROVE  Ordered(queue, m, Processed(mem, m), Staged(mem, m), work[m])'
    <3>1. \/ work'[m] = work[m]
          \/ work[m] = "idle" /\ work'[m] = "fetching" /\ ~Processed(mem, m) /\ Staged(mem, m)
      BY <1>3, <2>2 DEF WorkJoined
    <3>2. Ordered(queue, m, Processed(mem, m), Staged(mem, m), work'[m])
      BY <1>3, <2>1, <3>1, OrderedWorks
    <3> QED BY <1>1, <2>2, <3>2
  <2>3. ASSUME UNCHANGED work, NEW mu \in Mutations, Enqueue(mu), mu.op \in {"remember", "forget", "remove"},
               mu.op = "remember" => ~Processed(mem, mu.id) /\ ~Staged(mem, mu.id),
               mu.op = "forget" => Processed(mem, mu.id)
        PROVE  Ordered(queue, m, Processed(mem, m), Staged(mem, m), work[m])'
    <3>1. ~WorksFor(mu, m)
      BY <2>3 DEF WorksFor
    <3>2. Ordered(Append(queue, mu), m, Processed(mem, m), Staged(mem, m), work[m])
      BY <1>3, <2>1, <2>3, <3>1, OrderedGrows
    <3> QED BY <1>1, <2>3, <3>2 DEF Enqueue
  <2> QED BY <1>1, <1>4, <2>1, <2>2, <2>3
<1>6. ASSUME NEW m \in Incoming, NEW st \in {"DELIVERED", "READ"}, Ack(m, st) \in toRelay', Ack(m, st) \notin toRelay
      PROVE  Processed(mem, m)
  <2>1. ASSUME NEW n \in Incoming, ReceiveConfirmed(n) PROVE Processed(mem, m)
    BY <1>6, <2>1, FramesDiffer DEF ReceiveConfirmed
  <2>2. CASE DrainConfirmed
    BY <1>6, <2>2, FramesDiffer DEF DrainConfirmed
  <2>3. ASSUME NEW e \in Envelopes, ReceiveReceipt(e) PROVE FALSE
    BY <1>6, <2>3, FramesDiffer DEF ReceiveReceipt
  <2> QED BY <1>6, <2>1, <2>2, <2>3
          DEF Receive, ReceiveStaged, ReceiveNew, ReceiveAckReceived, TimerFires,
              DrainStep, DrainStaged, DrainForgotten
<1> QED BY <1>1, <1>5, <1>6 DEF Orderly, AcksTrue

LEMMA OrderlyApplication ==
    ASSUME QuietRestart, CustodyInv, Orderly, Application
    PROVE  Orderly'
<1>1. UNCHANGED <<mem, disk, phase, toRelay, toAgent>> /\ early \subseteq early'
  BY DEF Application, FetchSucceeds, Throws, HandlerReturns, MarkRead, Send, AppUnchanged
<1>2. phase \in {"running", "stopped"}
  BY DEF Application, FetchSucceeds, Throws, HandlerReturns, MarkRead, Send, CallsAllowed,
         CustodyInv, Quiet, Typed, TypeOK, Phases
<1>3. queue \in Seq(Mutations) /\ work \in [Incoming -> WorkStages]
  BY DEF CustodyInv, Typed, TypeOK
<1>4. ASSUME NEW m \in Incoming \ early'
      PROVE  Ordered(queue, m, Processed(mem, m), Staged(mem, m), work[m])'
  <2> DEFINE p == Processed(mem, m)
             s == Staged(mem, m)
  <2>1. Ordered(queue, m, p, s, work[m])
    BY <1>1 DEF Orderly
  <2>2. (p => work[m] = "idle") /\ (work[m] # "idle" => s)
    BY <2>1 DEF Ordered
  <2>3. Processed(mem', m) = p /\ Staged(mem', m) = s
    BY <1>1
  <2> HIDE DEF p, s
  <2>4. ASSUME UNCHANGED queue,
               \/ work'[m] = work[m]
               \/ work[m] \in {"fetching", "handling"} /\ work'[m] \in {"idle", "handling"}
        PROVE  Ordered(queue', m, p, s, work'[m])
    BY <1>3, <2>1, <2>2, <2>4, OrderedWorks
  <2>5. ASSUME NEW n \in Incoming, FetchSucceeds(n)
        PROVE  Ordered(queue', m, p, s, work'[m])
    <3>1. CASE n \in Mirrored
      <4> DEFINE mu == Mutation("queue", Copy(n), "agent")
      <4>1. mu \in Mutations /\ mu.op = "queue" /\ mu.id = Copy(n)
        BY <3>1, MutationTypes, EnvelopeTypes DEF Mutation
      <4>2. queue' = Append(queue, mu)
        BY <2>5, <3>1 DEF FetchSucceeds, Enqueue
      <4> HIDE DEF mu
      <4>3. WorksFor(mu, m) <=> m = n
        BY <4>1, CopyFacts DEF WorksFor
      <4>4. IF m = n THEN work[m] = "fetching" /\ work'[m] = StageOf(mu) ELSE work'[m] = work[m]
        BY <1>3, <2>5, <3>1, <4>1 DEF FetchSucceeds, StageOf
      <4> QED BY <1>3, <2>1, <4>1, <4>2, <4>3, <4>4, OrderedGrows
    <3>2. CASE n \notin Mirrored
      BY <1>3, <2>4, <2>5, <3>2 DEF FetchSucceeds
    <3> QED BY <3>1, <3>2
  <2>6. ASSUME NEW n \in Incoming, Throws(n)
        PROVE  Ordered(queue', m, p, s, work'[m])
    BY <1>3, <2>4, <2>6 DEF Throws, WorkFails, WorkEnds
  <2>7. ASSUME NEW n \in Incoming, MarkRead(n)
        PROVE  Ordered(queue', m, p, s, work'[m])
    <3> DEFINE mu == Mutation("markRead", n, "READ")
    <3>1. mu \in Mutations /\ mu.op = "markRead" /\ mu.id = n
      BY MutationTypes DEF Mutation
    <3>2. queue' = Append(queue, mu) /\ work' = work
      BY <2>7 DEF MarkRead, Enqueue
    <3>4. m = n => p \/ \E j \in 1 .. Len(queue) : queue[j].op = "complete" /\ queue[j].id = m
      BY <2>7 DEF MarkRead, Completing, p
    <3> HIDE DEF mu
    <3>3. ~WorksFor(mu, m)
      BY <3>1 DEF WorksFor
    <3> QED BY <1>3, <2>1, <3>1, <3>2, <3>3, <3>4, OrderedGrows
  <2>8. ASSUME NEW n \in Incoming, NEW st \in {"DELIVERED", "READ"}, HandlerReturns(n, st)
        PROVE  Ordered(queue', m, p, s, work'[m])
    <3> DEFINE mu == Mutation("complete", n, st)
    <3>1. mu \in Mutations /\ mu.op = "complete" /\ mu.id = n
      BY MutationTypes DEF Mutation
    <3>2. queue' = Append(queue, mu)
      BY <2>8 DEF HandlerReturns, Enqueue
    <3> HIDE DEF mu
    <3>3. WorksFor(mu, m) <=> m = n
      BY <3>1 DEF WorksFor
    <3>4. IF m = n THEN work[m] = "handling" /\ work'[m] = StageOf(mu) ELSE work'[m] = work[m]
      BY <1>3, <2>8, <3>1 DEF HandlerReturns, StageOf
    <3> QED BY <1>3, <2>1, <3>1, <3>2, <3>3, <3>4, OrderedGrows
  <2>9. ASSUME NEW o \in Sends, Send(o)
        PROVE  Ordered(queue', m, p, s, work'[m])
    <3> DEFINE mu == Mutation("queue", o, "agent")
    <3>1. mu \in Mutations /\ mu.op = "queue" /\ mu.id = o
      BY MutationTypes, EnvelopeTypes DEF Mutation
    <3>2. queue' = Append(queue, mu) /\ work' = work
      BY <2>9 DEF Send, Enqueue
    <3> HIDE DEF mu
    <3>3. ~WorksFor(mu, m)
      BY <3>1, CopyFacts DEF WorksFor
    <3> QED BY <1>3, <2>1, <3>1, <3>2, <3>3, OrderedGrows
  <2>10. Ordered(queue', m, p, s, work'[m])
    BY <2>5, <2>6, <2>7, <2>8, <2>9 DEF Application
  <2> QED BY <2>3, <2>10
<1> QED BY <1>1, <1>2, <1>4 DEF Orderly, AcksTrue

LEMMA OrderlySave ==
    ASSUME CustodyInv, Orderly, Save
    PROVE  Orderly'
<1>1. phase \in {"running", "stopped"}
  BY DEF Save, CustodyInv, Quiet, Typed, TypeOK, Phases
<1> QED BY <1>1 DEF Save, Orderly, AcksTrue

\* What a swap does to the processing of m, and what it appends to the chain.
LEMMA SwapWorks ==
    ASSUME Typed, Swap, NEW m \in Incoming
    PROVE  /\ IF WorksFor(Head(queue), m)
              THEN work'[m] = IF Head(queue).op = "complete" THEN "idle" ELSE "handling"
              ELSE \/ work'[m] = work[m]
                   \/ /\ work'[m] = "fetching" /\ work[m] = "idle"
                      /\ Head(queue).op = "remember" /\ Head(queue).id = m
           /\ \/ queue' = Tail(queue)
              \/ \E mu \in Mutations : queue' = Append(Tail(queue), mu) /\ mu.op = "queue" /\ ~WorksFor(mu, m)
<1> DEFINE mu == Head(queue)
           Fine == /\ IF WorksFor(mu, m)
                      THEN work'[m] = IF mu.op = "complete" THEN "idle" ELSE "handling"
                      ELSE \/ work'[m] = work[m]
                           \/ work'[m] = "fetching" /\ work[m] = "idle" /\ mu.op = "remember" /\ mu.id = m
                   /\ \/ queue' = Tail(queue)
                      \/ \E x \in Mutations : queue' = Append(Tail(queue), x) /\ x.op = "queue" /\ ~WorksFor(x, m)
<1>1. saved /\ queue # <<>> /\ queue \in Seq(Mutations) /\ Tail(queue) \in Seq(Mutations)
      /\ work \in [Incoming -> WorkStages]
  BY HeadTailProperties DEF Swap, Typed, TypeOK
<1>2. Swapped(<<>>) => queue' = Tail(queue)
  BY <1>1, ConcatEmptySeq DEF Swapped
<1>3. ASSUME NEW o \in Sends, NEW e \in Envelopes, SwapSent(o, e) PROVE Fine
  <2>1. mu.op = "queue" /\ mu.id \in {o, Copy(o)} /\ work' = work
    BY <1>3 DEF SwapSent, Mutation
  <2>2. ~WorksFor(mu, m)
    BY <2>1, CopyFacts, IdsAssumption DEF WorksFor
  <2>3. CASE e = o /\ o \in Mirrored
    <3> DEFINE x == Mutation("queue", Copy(o), "agent")
    <3>1. x \in Mutations /\ x.op = "queue" /\ x.id = Copy(o)
      BY <2>3, MutationTypes, EnvelopeTypes DEF Mutation
    <3>2. queue' = Append(Tail(queue), x)
      BY <1>1, <1>3, <2>3, <3>1, AppendIsConcat DEF SwapSent, Swapped
    <3> HIDE DEF x
    <3>3. ~WorksFor(x, m)
      BY <3>1, CopyFacts, IdsAssumption DEF WorksFor
    <3> QED BY <2>1, <2>2, <3>1, <3>2, <3>3
  <2>4. CASE ~(e = o /\ o \in Mirrored)
    BY <1>2, <1>3, <2>1, <2>2, <2>4 DEF SwapSent
  <2> QED BY <2>3, <2>4
<1>4. ASSUME NEW n \in Incoming, SwapCopied(n) PROVE Fine
  <2>1. mu.op = "queue" /\ mu.id = Copy(n)
    BY <1>4 DEF SwapCopied, Mutation
  <2>2. WorksFor(mu, m) <=> m = n
    BY <2>1, CopyFacts DEF WorksFor
  <2>3. work'[m] = IF m = n THEN "handling" ELSE work[m]
    BY <1>1, <1>4 DEF SwapCopied
  <2>4. queue' = Tail(queue)
    BY <1>2, <1>4 DEF SwapCopied
  <2> QED BY <2>1, <2>2, <2>3, <2>4
<1>5. ASSUME NEW e \in Envelopes, SwapRemoved(e) PROVE Fine
  <2>1. mu.op = "remove" /\ work' = work
    BY <1>5 DEF SwapRemoved, Mutation
  <2> QED BY <1>2, <1>5, <2>1 DEF SwapRemoved, WorksFor
<1>6. ASSUME NEW n \in Incoming, NEW by \in {"frame", "drain"}, SwapRemembered(n, by) PROVE Fine
  <2>1. mu.op = "remember" /\ mu.id = n
    BY <1>6 DEF SwapRemembered, Mutation
  <2>2. work'[m] = work[m] \/ (m = n /\ work[m] = "idle" /\ work'[m] = "fetching")
    BY <1>1, <1>6 DEF SwapRemembered, WorkJoined
  <2> QED BY <1>2, <1>6, <2>1, <2>2 DEF SwapRemembered, WorksFor
<1>7. ASSUME NEW n \in Incoming, NEW st \in {"DELIVERED", "READ"}, SwapCompleted(n, st) PROVE Fine
  <2>1. mu.op = "complete" /\ mu.id = n
    BY <1>7 DEF SwapCompleted, Mutation
  <2>2. WorksFor(mu, m) <=> m = n
    BY <2>1 DEF WorksFor
  <2>3. work'[m] = IF m = n THEN "idle" ELSE work[m]
    BY <1>1, <1>7 DEF SwapCompleted, WorkEnds
  <2>4. queue' = Tail(queue)
    BY <1>2, <1>7 DEF SwapCompleted
  <2> QED BY <2>1, <2>2, <2>3, <2>4
<1>8. ASSUME NEW n \in Incoming, SwapMarkedRead(n) \/ SwapForgotten(n) PROVE Fine
  <2>1. mu.op \in {"markRead", "forget"} /\ work' = work
    BY <1>8 DEF SwapMarkedRead, SwapForgotten, Mutation
  <2> QED BY <1>2, <1>8, <2>1 DEF SwapMarkedRead, SwapForgotten, WorksFor
<1> HIDE DEF Fine
<1>9. Fine
  BY <1>3, <1>4, <1>5, <1>6, <1>7, <1>8 DEF Swap
<1> QED BY <1>9 DEF Fine

\* A new acknowledgement is of what the swapped mutation completes.
LEMMA SwapAcks ==
    ASSUME Swap, NEW m \in Incoming, NEW st \in {"DELIVERED", "READ"}, Ack(m, st) \in toRelay' \ toRelay
    PROVE  Completes(Head(queue), m) /\ (st = "DELIVERED" => Head(queue).op = "complete")
<1>1. ASSUME NEW n \in Incoming, NEW by \in {"DELIVERED", "READ"}, SwapCompleted(n, by)
      PROVE  Completes(Head(queue), m) /\ Head(queue).op = "complete"
  <2>1. Head(queue).op = "complete" /\ Head(queue).id = n
    BY <1>1 DEF SwapCompleted, Mutation
  <2> QED BY <1>1, <2>1, FramesDiffer DEF SwapCompleted, Completes
<1>2. ASSUME NEW n \in Incoming, SwapMarkedRead(n)
      PROVE  Completes(Head(queue), m) /\ st = "READ"
  <2>1. Head(queue).op = "markRead" /\ Head(queue).id = n
    BY <1>2 DEF SwapMarkedRead, Mutation
  <2> QED BY <1>2, <2>1, FramesDiffer DEF SwapMarkedRead, Completes
<1>3. ASSUME OutboxDrained(disk) PROVE FALSE
  BY <1>3, FramesDiffer DEF OutboxDrained
<1>4. ASSUME NEW e \in Envelopes, SwapRemoved(e) PROVE FALSE
  BY <1>4, FramesDiffer DEF SwapRemoved
<1> QED BY <1>1, <1>2, <1>3, <1>4 DEF Swap, SwapSent, SwapCopied, SwapRemembered, SwapForgotten

LEMMA OrderlySwap ==
    ASSUME LedgerHasRoom, CustodyInv, KeysDiffer(mem), Orderly, Swap
    PROVE  Orderly'
<1> DEFINE mu == Head(queue)
<1>1. /\ mem' = disk /\ disk' = disk /\ UNCHANGED <<phase, early, toAgent>> /\ saved
  BY DEF Swap, SwapSent, SwapCopied, SwapRemoved, SwapRemembered, SwapCompleted,
              SwapMarkedRead, SwapForgotten, Swapped, SwapUnchanged
<1>2. queue # <<>> /\ queue \in Seq(Mutations) /\ Tail(queue) \in Seq(Mutations) /\ mu \in Mutations
  BY <1>1, HeadTailProperties DEF CustodyInv, Typed, TypeOK
<1>3. mem \in States /\ WellFormed(mem) /\ disk = Apply(mem, mu)
  BY <1>1 DEF CustodyInv, SavedIsApplied, Typed, TypeOK
<1>4. /\ \A x : Processed(disk, x) <=> Processed(mem, x) \/ Completes(mu, x)
      /\ mu.op = "remember" => Staged(disk, mu.id)
      /\ \A x : Staged(mem, x) => Staged(disk, x) \/ (mu.op = "forget" /\ mu.id = x)
  BY <1>2, <1>3, ApplyLedger, ApplyProperties
<1> HIDE DEF mu
<1>5. ASSUME NEW m \in Incoming \ early
      PROVE  Ordered(queue', m, Processed(disk, m), Staged(disk, m), work'[m])
  <2> DEFINE p == Processed(mem, m)
             s == Staged(mem, m)
             b == Processed(disk, m)
             t == Staged(disk, m)
             v == work'[m]
  <2>1. Ordered(queue, m, p, s, work[m])
    BY DEF Orderly
  <2>2. (b <=> p \/ Completes(mu, m)) /\ (s => t \/ (mu.op = "forget" /\ mu.id = m))
        /\ (mu.op = "remember" /\ mu.id = m => t)
    BY <1>4
  <2>3. /\ IF WorksFor(mu, m)
           THEN v = IF mu.op = "complete" THEN "idle" ELSE "handling"
           ELSE v = work[m] \/ (v = "fetching" /\ work[m] = "idle" /\ mu.op = "remember" /\ mu.id = m)
        /\ \/ queue' = Tail(queue)
           \/ \E x \in Mutations : queue' = Append(Tail(queue), x) /\ x.op = "queue" /\ ~WorksFor(x, m)
    BY SwapWorks DEF CustodyInv, mu
  <2> HIDE DEF p, s, b, t, v
  <2>4. Ordered(Tail(queue), m, b, t, v)
    BY <1>2, <2>1, <2>2, <2>3, OrderedShrinks DEF mu
  <2>5. ASSUME NEW x \in Mutations, x.op = "queue", ~WorksFor(x, m)
        PROVE  Ordered(Append(Tail(queue), x), m, b, t, v)
    BY <1>2, <2>4, <2>5, OrderedGrows
  <2>6. Ordered(queue', m, b, t, v)
    BY <2>3, <2>4, <2>5
  <2> QED BY <2>6 DEF b, t, v
<1>6. ASSUME NEW m \in Incoming PROVE AcksTrue(m)'
  <2>1. AcksTrue(m)
    BY DEF Orderly
  <2>2. \A st \in {"DELIVERED", "READ"} : Ack(m, st) \in toRelay' \ toRelay => Completes(mu, m)
    BY SwapAcks DEF mu
  <2> QED BY <1>1, <1>4, <2>1, <2>2 DEF AcksTrue
<1> QED BY <1>1, <1>5, <1>6 DEF Orderly

LEMMA LedgerStep ==
    ASSUME QuietRestart, LedgerHasRoom
    PROVE  LedgerInv /\ [Next]_vars => LedgerInv'
<1> SUFFICES ASSUME LedgerInv, [Next]_vars PROVE LedgerInv'
  OBVIOUS
<1>1. DurableInv'
  BY DurableStep DEF LedgerInv
<1>2. CASE UNCHANGED vars
  BY <1>1, <1>2 DEF vars, procVars, relayVars, LedgerInv, KeysDiffer, Orderly, Ordered, AcksTrue, Processed, Staged
<1>3. CASE Next
  <2>1. KeysDiffer(mem') /\ KeysDiffer(disk') /\ KeysDiffer(loaded')
    BY <1>3, KeysStep
  <2>2. ASSUME faults'.save = 0 PROVE Orderly'
    <3>1. faults.save = 0 /\ \A renamed \in BOOLEAN : ~SaveFails(renamed)
      BY <1>3, <2>2, FailuresCount DEF LedgerInv, DurableInv, CustodyInv
    <3>2. Orderly /\ DurableInv /\ CustodyInv /\ Typed /\ KeysDiffer(mem)
      BY <3>1 DEF LedgerInv, DurableInv, CustodyInv
    <3> QED BY <1>3, <3>1, <3>2, OrderlyProcess, OrderlyRelay, OrderlyReceive, OrderlyApplication,
               OrderlySave, OrderlySwap DEF Next, Store
  <2> QED BY <1>1, <2>1, <2>2 DEF LedgerInv, KeysDiffer
<1> QED BY <1>2, <1>3

\* A handler starts on a message being processed.
LEMMA HandlingStarts ==
    ASSUME Typed, Next, NEW m \in Incoming, work[m] # "handling", work'[m] = "handling"
    PROVE  \/ work[m] = "fetching"
           \/ Swap /\ WorksFor(Head(queue), m)
<1>1. work \in [Incoming -> WorkStages]
  BY DEF Typed, TypeOK
<1>2. CASE Swap
  BY <1>2, SwapWorks
<1>3. CASE Application
  BY <1>1, <1>3 DEF Application, FetchSucceeds, Throws, HandlerReturns, MarkRead, Send, WorkFails, WorkEnds
<1>4. CASE Crash
  BY <1>4 DEF Crash, Idle
<1>5. CASE Receive \/ DrainStep
  BY <1>1, <1>5 DEF Receive, ReceiveConfirmed, ReceiveStaged, ReceiveNew, ReceiveAckReceived, ReceiveReceipt,
                    DrainStep, DrainConfirmed, DrainStaged, DrainForgotten, FrameUnchanged, WorkJoined
<1>6. ASSUME NEW renamed \in BOOLEAN, SaveFails(renamed) PROVE FALSE
  BY <1>1, <1>6 DEF SaveFails, SaveRejected, WorkFails, WorkEnds
<1> QED BY <1>2, <1>3, <1>4, <1>5, <1>6
        DEF Next, Start, StartLoaded, Stop, Connect, Drop, procVars, Store, Save, TimerFires,
            Relay, RelayPush, RelayRepeat, RelayTakesAck, RelayTakesEnvelope, RelayReceipt,
            RelayTakesReceiptAck, RelayUnchanged

\* An acknowledgement DELIVERED is of a message the ledger does not show as READ, or
\* of one that is being completed.
LEMMA LesserAcks ==
    ASSUME Typed, Next, NEW m \in Incoming, Ack(m, "DELIVERED") \in toRelay' \ toRelay
    PROVE  m \notin mem.read \/ (Swap /\ WorksFor(Head(queue), m))
<1>1. CASE Swap
  BY <1>1, SwapAcks DEF Completes, WorksFor
<1>2. ASSUME NEW n \in Incoming, ReceiveConfirmed(n) PROVE m \notin mem.read
  BY <1>2, FramesDiffer DEF ReceiveConfirmed, Confirmed
<1>3. CASE DrainConfirmed
  BY <1>3, FramesDiffer DEF DrainConfirmed, Confirmed
<1>4. ASSUME NEW e \in Envelopes, ReceiveReceipt(e) PROVE FALSE
  BY <1>4, FramesDiffer DEF ReceiveReceipt
<1>5. CASE Connect
  BY <1>5, FramesDiffer DEF Connect
<1>6. CASE ~Swap /\ ~Receive /\ ~DrainStep /\ ~Connect
  <2>1. toRelay' \subseteq toRelay
    BY <1>6 DEF Next, Start, StartLoaded, Stop, Crash, Drop, procVars, Store, Save, SaveFails, TimerFires,
            Relay, RelayPush, RelayRepeat, RelayTakesAck, RelayTakesEnvelope, RelayReceipt,
            RelayTakesReceiptAck, RelayUnchanged,
            Application, FetchSucceeds, Throws, HandlerReturns, MarkRead, Send, AppUnchanged
  <2> QED BY <2>1
<1> QED BY <1>1, <1>2, <1>3, <1>4, <1>5, <1>6
        DEF Receive, ReceiveStaged, ReceiveNew, ReceiveAckReceived, DrainStep, DrainStaged, DrainForgotten

\* The ledger is heeded: as long as every save succeeds, no handler is started for a
\* message whose completion is in the ledger, and no lesser acknowledgement is sent
\* while it says READ, but for messages marked by id too early, whatever is repeated or
\* crashes, when start() waits for quiet and the ledger has room for every message
\* (processedIncoming in handleFrame).
THEOREM LedgerIsObeyed ==
    ASSUME QuietRestart, LedgerHasRoom
    PROVE  Spec => LedgerIsHeeded
<1>1. LedgerInv /\ [Next]_vars =>
        [faults.save = 0 => \A m \in Incoming \ early :
          /\ work[m] # "handling" /\ work'[m] = "handling" => ~Processed(mem, m)
          /\ Ack(m, "DELIVERED") \in toRelay' \ toRelay => m \notin mem.read]_<<work, toRelay>>
  <2> SUFFICES ASSUME LedgerInv, Next, faults.save = 0, NEW m \in Incoming \ early
               PROVE  /\ work[m] # "handling" /\ work'[m] = "handling" => ~Processed(mem, m)
                      /\ Ack(m, "DELIVERED") \in toRelay' \ toRelay => m \notin mem.read
    BY DEF vars, procVars
  <2>1. Ordered(queue, m, Processed(mem, m), Staged(mem, m), work[m]) /\ Typed
    BY DEF LedgerInv, Orderly, DurableInv, CustodyInv
  <2>2. Processed(mem, m) => work[m] = "idle"
    BY <2>1 DEF Ordered
  <2>3. Swap /\ WorksFor(Head(queue), m) => work[m] # "idle"
    <3> SUFFICES ASSUME Swap, WorksFor(Head(queue), m) PROVE work[m] # "idle"
      OBVIOUS
    <3>1. queue # <<>> /\ queue \in Seq(Mutations)
      BY <2>1 DEF Swap, Typed, TypeOK
    <3>2. 1 \in 1 .. Len(queue) /\ Head(queue) = queue[1]
      BY <3>1, EmptySeq
    <3> QED BY <2>1, <3>2 DEF Ordered, StageOf
  <2>4. ASSUME work[m] # "handling", work'[m] = "handling" PROVE ~Processed(mem, m)
    BY <2>1, <2>2, <2>3, <2>4, HandlingStarts
  <2>5. ASSUME Ack(m, "DELIVERED") \in toRelay' \ toRelay PROVE m \notin mem.read
    <3>1. m \in mem.read => Processed(mem, m)
      <4>1. mem.read \subseteq ToSet(mem.ledger) /\ DOMAIN mem.ledger = 1 .. Len(mem.ledger)
        BY <2>1, LenProperties DEF Typed, TypeOK, WellFormed, States
      <4> QED BY <4>1 DEF ToSet, Processed, Contains
    <3> QED BY <2>1, <2>2, <2>3, <2>5, <3>1, LesserAcks
  <2> QED BY <2>4, <2>5
<1>2. Init => LedgerInv
  BY LedgerInit
<1> QED BY <1>1, <1>2, LedgerStep, PTL DEF Spec, LedgerIsHeeded
=============================================================================
