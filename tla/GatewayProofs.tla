--------------------------- MODULE GatewayProofs ---------------------------
(***************************************************************************)
(* The webhook answers at most once for each time the handler ran through, *)
(* and what was acknowledged to the relay or seen by a consumer is kept    *)
(* until it is consumed, for any messages, consumers, capacities, retries  *)
(* and faults.  The first argument counts: a message is owed as many       *)
(* answers as deliveries of it are in progress.  The second follows the    *)
(* records from memory through the chain of mutations to the file.         *)
(***************************************************************************)
EXTENDS Gateway, SequenceTheorems, FiniteSetTheorems, TLAPS

Deliveries(m) == {h \in hooks : h.m = m}

\* Whoever settles or is rejected is a mutation in the chain.
ChainInv == chain \in Seq(Ops) /\ (saving # <<>> => chain # <<>>)

HookInv ==
    /\ IsFiniteSet(hooks)
    /\ \A h \in hooks : h.m \in Answered /\ h = [m |-> h.m, id |-> h.id, left |-> h.left]
    /\ owed \in [Messages -> Int]
    /\ \A m \in Messages : Cardinality(Deliveries(m)) <= owed[m]

-----------------------------------------------------------------------------

LEMMA DeliveriesFinite ==
    ASSUME IsFiniteSet(hooks), NEW m
    PROVE  IsFiniteSet(Deliveries(m)) /\ Cardinality(Deliveries(m)) \in Nat
  <1>1. Deliveries(m) \subseteq hooks
    BY DEF Deliveries
  <1> QED
    BY <1>1, FS_Subset, FS_CardinalityType

LEMMA InitHooks == Init => HookInv
  <1> SUFFICES ASSUME Init PROVE HookInv
    OBVIOUS
  <1>1. hooks = {} /\ owed = [m \in Messages |-> 0]
    BY DEF Init
  <1>2. IsFiniteSet(hooks) /\ \A m \in Messages : Deliveries(m) = {}
    BY <1>1, FS_EmptySet DEF Deliveries
  <1>3. \A m \in Messages : Cardinality(Deliveries(m)) = 0
    BY <1>2, FS_EmptySet
  <1> QED
    BY <1>1, <1>2, <1>3 DEF HookInv

\* A step that only ends deliveries, or none, leaves at most as many to be answered.
LEMMA HooksEnd ==
    ASSUME HookInv, hooks' \subseteq hooks, UNCHANGED owed
    PROVE  HookInv'
  <1>1. IsFiniteSet(hooks')
    BY FS_Subset DEF HookInv
  <1>2. ASSUME NEW m \in Messages PROVE Cardinality(Deliveries(m)') <= owed'[m]
    <2>1. Deliveries(m)' \subseteq Deliveries(m)
      BY DEF Deliveries
    <2>2. Cardinality(Deliveries(m)') <= Cardinality(Deliveries(m)) /\ Cardinality(Deliveries(m)') \in Nat
      BY <2>1, DeliveriesFinite, FS_Subset, FS_CardinalityType DEF HookInv
    <2>3. Cardinality(Deliveries(m)) \in Nat /\ Cardinality(Deliveries(m)) <= owed[m] /\ owed[m] \in Int
      BY DeliveriesFinite DEF HookInv
    <2> QED
      BY <2>2, <2>3
  <1> QED
    BY <1>1, <1>2 DEF HookInv

\* One delivery begins, and one more answer is owed.
LEMMA HookBegins ==
    ASSUME HookInv, NEW m, Pushed(m)
    PROVE  HookInv'
  <1>1. CASE m \notin Answered
    BY <1>1, HooksEnd DEF Pushed
  <1>2. CASE m \in Answered
    <2> DEFINE h == [m |-> m, id |-> FreshId, left |-> Retries]
    <2>1. hooks' = hooks \cup {h} /\ owed' = [owed EXCEPT ![m] = @ + 1] /\ m \in Messages
      BY <1>2, GatewayAssumption DEF Pushed
    <2>2. h.m = m /\ h = [m |-> h.m, id |-> h.id, left |-> h.left]
      OBVIOUS
    <2> HIDE DEF h
    <2>3. IsFiniteSet(hooks')
      BY <2>1, FS_AddElement DEF HookInv
    <2>4. ASSUME NEW n \in Messages PROVE Cardinality(Deliveries(n)') <= owed'[n]
      <3>1. Cardinality(Deliveries(n)) \in Nat /\ IsFiniteSet(Deliveries(n))
            /\ Cardinality(Deliveries(n)) <= owed[n] /\ owed[n] \in Int
        BY DeliveriesFinite DEF HookInv
      <3>2. CASE n = m
        <4>1. Deliveries(n)' = Deliveries(n) \cup {h}
          BY <2>1, <2>2, <3>2 DEF Deliveries
        <4>2. Cardinality(Deliveries(n)') <= Cardinality(Deliveries(n)) + 1
          BY <3>1, <4>1, FS_AddElement
        <4>3. owed'[n] = owed[n] + 1
          BY <2>1, <3>2 DEF HookInv
        <4>4. Cardinality(Deliveries(n)') \in Nat
          BY <3>1, <4>1, FS_AddElement, FS_CardinalityType
        <4> QED
          BY <3>1, <4>2, <4>3, <4>4
      <3>3. CASE n # m
        <4>1. Deliveries(n)' = Deliveries(n)
          BY <2>1, <2>2, <3>3 DEF Deliveries
        <4>2. owed'[n] = owed[n]
          BY <2>1, <3>3 DEF HookInv
        <4> QED
          BY <3>1, <4>1, <4>2
      <3> QED
        BY <3>2, <3>3
    <2>5. \A g \in hooks' : g.m \in Answered /\ g = [m |-> g.m, id |-> g.id, left |-> g.left]
      BY <1>2, <2>1, <2>2 DEF HookInv
    <2>6. owed' \in [Messages -> Int]
      BY <2>1 DEF HookInv
    <2> QED
      BY <2>3, <2>4, <2>5, <2>6 DEF HookInv
  <1> QED
    BY <1>1, <1>2

\* A delivery ends without an answer, is answered, or tries once more.
LEMMA HookAttempts ==
    ASSUME HookInv, NEW h, Attempt(h)
    PROVE  HookInv'
  <1>1. h \in hooks /\ h.m \in Messages /\ h.m \in Answered /\ h = [m |-> h.m, id |-> h.id, left |-> h.left]
    BY GatewayAssumption DEF Attempt, HookInv
  <1>2. CASE hooks' = hooks \ {h} /\ UNCHANGED owed
    BY <1>2, HooksEnd
  <1>3. CASE hooks' = hooks \ {h} /\ owed' = [owed EXCEPT ![h.m] = @ - 1]
    <2>1. IsFiniteSet(hooks')
      BY <1>3, FS_Subset DEF HookInv
    <2>2. ASSUME NEW n \in Messages PROVE Cardinality(Deliveries(n)') <= owed'[n]
      <3>1. Cardinality(Deliveries(n)) \in Nat /\ IsFiniteSet(Deliveries(n))
            /\ Cardinality(Deliveries(n)) <= owed[n] /\ owed[n] \in Int
        BY DeliveriesFinite DEF HookInv
      <3>2. CASE n = h.m
        <4>1. Deliveries(n)' = Deliveries(n) \ {h} /\ h \in Deliveries(n)
          BY <1>1, <1>3, <3>2 DEF Deliveries
        <4>2. Cardinality(Deliveries(n)') = Cardinality(Deliveries(n)) - 1
          BY <3>1, <4>1, FS_RemoveElement
        <4>3. owed'[n] = owed[n] - 1
          BY <1>1, <1>3, <3>2 DEF HookInv
        <4> QED
          BY <3>1, <4>2, <4>3
      <3>3. CASE n # h.m
        <4>1. Deliveries(n)' = Deliveries(n)
          BY <1>3, <3>3 DEF Deliveries
        <4>2. owed'[n] = owed[n]
          BY <1>3, <3>3 DEF HookInv
        <4> QED
          BY <3>1, <4>1, <4>2
      <3> QED
        BY <3>2, <3>3
    <2>3. owed' \in [Messages -> Int]
      BY <1>1, <1>3 DEF HookInv
    <2> QED
      BY <1>3, <2>1, <2>2, <2>3 DEF HookInv
  <1>4. CASE hooks' = (hooks \ {h}) \cup {[h EXCEPT !.left = @ - 1] : n \in 2 .. h.left} /\ UNCHANGED owed
    <2> DEFINE g == [h EXCEPT !.left = @ - 1]
    <2>1. g.m = h.m /\ g = [m |-> g.m, id |-> g.id, left |-> g.left]
      BY <1>1
    <2>2. hooks' \in {hooks \ {h}, (hooks \ {h}) \cup {g}}
      BY <1>4
    <2> HIDE DEF g
    <2>3. CASE hooks' = hooks \ {h}
      BY <1>4, <2>3, HooksEnd
    <2>4. CASE hooks' = (hooks \ {h}) \cup {g}
      <3>1. IsFiniteSet(hooks \ {h}) /\ IsFiniteSet(hooks')
        BY <2>4, FS_Subset, FS_AddElement DEF HookInv
      <3>2. ASSUME NEW n \in Messages PROVE Cardinality(Deliveries(n)') <= owed'[n]
        <4>1. Cardinality(Deliveries(n)) \in Nat /\ IsFiniteSet(Deliveries(n))
              /\ Cardinality(Deliveries(n)) <= owed[n] /\ owed[n] \in Int
          BY DeliveriesFinite DEF HookInv
        <4>2. CASE n = h.m
          <5>1. Deliveries(n)' = (Deliveries(n) \ {h}) \cup {g} /\ h \in Deliveries(n)
            BY <1>1, <2>1, <2>4, <4>2 DEF Deliveries
          <5>2. /\ IsFiniteSet(Deliveries(n) \ {h})
                /\ Cardinality(Deliveries(n) \ {h}) = Cardinality(Deliveries(n)) - 1
            BY <4>1, <5>1, FS_RemoveElement
          <5>3. PICK D : D = Deliveries(n) \ {h}
            OBVIOUS
          <5>4. IsFiniteSet(D) /\ Cardinality(D) = Cardinality(Deliveries(n)) - 1
            BY <5>2, <5>3
          <5>5. Deliveries(n)' = D \cup {g}
            BY <5>1, <5>3
          <5>6. /\ IsFiniteSet(D \cup {g})
                /\ Cardinality(D \cup {g}) \in {Cardinality(D), Cardinality(D) + 1}
            BY <5>4, FS_AddElement
          <5>7. Cardinality(D \cup {g}) <= Cardinality(Deliveries(n))
            BY <4>1, <5>4, <5>6
          <5> QED
            BY <1>4, <4>1, <5>5, <5>6, <5>7, FS_CardinalityType
        <4>3. CASE n # h.m
          <5>1. Deliveries(n)' = Deliveries(n)
            BY <2>1, <2>4, <4>3 DEF Deliveries
          <5> QED
            BY <1>4, <4>1, <5>1
        <4> QED
          BY <4>2, <4>3
      <3>3. \A f \in hooks' : f.m \in Answered /\ f = [m |-> f.m, id |-> f.id, left |-> f.left]
        BY <1>1, <2>1, <2>4 DEF HookInv
      <3> QED
        BY <1>4, <3>1, <3>2, <3>3 DEF HookInv
    <2> QED
      BY <2>2, <2>3, <2>4
  <1> QED
    BY <1>2, <1>3, <1>4 DEF Attempt

LEMMA ChainShifts ==
    ASSUME ChainInv, chain # <<>>, chain' = Tail(chain), saving' = <<>>
    PROVE  ChainInv'
  BY DEF ChainInv

LEMMA ChainGrows ==
    ASSUME ChainInv, NEW op \in Ops, chain' = Append(chain, op), UNCHANGED saving
    PROVE  ChainInv'
  BY DEF ChainInv

LEMMA ChainStep == ChainInv /\ [Next]_vars => ChainInv'
  <1> SUFFICES ASSUME ChainInv, [Next]_vars PROVE ChainInv'
    OBVIOUS
  <1>1. CASE UNCHANGED <<chain, saving>>
    BY <1>1 DEF ChainInv
  <1>2. CASE UNCHANGED vars
    BY <1>1, <1>2 DEF vars, inbox
  <1>3. ASSUME NEW m \in Messages, Deliver(m) PROVE ChainInv'
    <2>1. [kind |-> "push", m |-> m] \in Ops
      BY DEF Ops
    <2> QED
      BY <1>1, <1>3, <2>1, ChainGrows DEF Deliver, Receive, Complete, inbox
  <1>4. CASE Turn
    <2>1. CASE Refused(Head(chain), queued)
      BY <1>4, <2>1, ChainShifts DEF Turn, Rejected
    <2>2. CASE ~Refused(Head(chain), queued)
      BY <1>4, <2>2 DEF Turn, ChainInv
    <2> QED
      BY <2>1, <2>2
  <1>5. CASE Settle
    BY <1>5, ChainShifts DEF Settle, ChainInv
  <1>6. CASE SaveFails
    BY <1>6, ChainShifts DEF SaveFails, Rejected, ChainInv
  <1>7. ASSUME NEW c \in Consumers, Consume(c) PROVE ChainInv'
    <2>1. [kind |-> "take", c |-> c] \in Ops /\ \A m \in Messages : [kind |-> "ack", m |-> m, c |-> c] \in Ops
      BY DEF Ops
    <2>2. CASE Poll(c) \/ Wake(c)
      BY <1>1, <2>1, <2>2, ChainGrows DEF Poll, Wake, Answer
    <2>3. ASSUME NEW m \in Messages, Ack(c, m) PROVE ChainInv'
      BY <2>1, <2>3, ChainGrows DEF Ack
    <2> QED
      BY <1>7, <2>2, <2>3 DEF Consume
  <1>8. ASSUME NEW h \in hooks, Attempt(h) PROVE ChainInv'
    BY <1>1, <1>8 DEF Attempt, inbox
  <1>9. CASE Start \/ Listen \/ Close \/ Closed
    BY <1>1, <1>9 DEF Start, Listen, Close, Closed, inbox
  <1>10. CASE Crash
    BY <1>10 DEF Crash, ChainInv
  <1> QED
    BY <1>2, <1>3, <1>4, <1>5, <1>6, <1>7, <1>8, <1>9, <1>10 DEF Next, Mutate

LEMMA HookStep == ChainInv /\ HookInv /\ [Next]_vars => HookInv'
  <1> SUFFICES ASSUME ChainInv, HookInv, [Next]_vars PROVE HookInv'
    OBVIOUS
  <1>1. CASE UNCHANGED vars
    BY <1>1, HooksEnd DEF vars, history
  <1>2. ASSUME NEW m \in Messages, Deliver(m) PROVE HookInv'
    <2>1. CASE Receive(m)
      BY <2>1, HooksEnd, HookBegins DEF Receive
    <2>2. CASE Complete(m)
      BY <2>2, HooksEnd DEF Complete, history
    <2> QED
      BY <1>2, <2>1, <2>2 DEF Deliver
  <1>3. CASE Mutate \/ SaveFails
    <2>1. CASE Turn \/ SaveFails
      BY <2>1, HooksEnd DEF Turn, SaveFails, history
    <2>2. CASE Settle
      <3> DEFINE op == Head(chain)
      <3>1. \/ Pushed(op.m)
            \/ UNCHANGED <<hooks, owed>>
            \/ op.kind \notin {"push", "take", "ack"}
        BY <2>2 DEF Settle
      <3>2. op.kind \in {"push", "take", "ack"}
        <4>1. op \in Ops
          BY <2>2 DEF Settle, ChainInv
        <4> QED
          BY <4>1 DEF Ops
      <3> QED
        BY <3>1, <3>2, HooksEnd, HookBegins
    <2> QED
      BY <1>3, <2>1, <2>2 DEF Mutate
  <1>4. ASSUME NEW c \in Consumers, Consume(c) PROVE HookInv'
    BY <1>4, HooksEnd DEF Consume, Poll, Wake, Ack, history
  <1>5. ASSUME NEW h \in hooks, Attempt(h) PROVE HookInv'
    BY <1>5, HookAttempts
  <1>6. CASE Start \/ Listen \/ Close \/ Closed \/ Crash
    BY <1>6, HooksEnd DEF Start, Listen, Close, Closed, Crash, history
  <1> QED
    BY <1>1, <1>2, <1>3, <1>4, <1>5, <1>6 DEF Next

(* However deliveries overlap, fail, are retried or die with the process, a message has not
   more accepted answers than its handler ran through (gateway.ts:316). *)
THEOREM AnswersAreOwed == Spec => []WebhookAnswersOnce
  <1>1. HookInv => WebhookAnswersOnce
    <2> SUFFICES ASSUME HookInv, NEW m \in Messages PROVE owed[m] >= 0
      BY DEF WebhookAnswersOnce
    <2>1. Cardinality(Deliveries(m)) \in Nat /\ Cardinality(Deliveries(m)) <= owed[m] /\ owed[m] \in Int
      BY DeliveriesFinite DEF HookInv
    <2> QED
      BY <2>1
  <1>2. Init => ChainInv
    BY DEF Init, ChainInv
  <1> QED
    BY <1>1, <1>2, InitHooks, ChainStep, HookStep, PTL DEF Spec

-----------------------------------------------------------------------------
(* The lists of records, and what the mutators do to them.                 *)

Lists == {records \in Seq(Messages) : IsInjective(records)}

LEMMA ListProperties ==
    ASSUME NEW q \in Lists
    PROVE  /\ q \in Seq(Messages) /\ Len(q) \in Nat /\ DOMAIN q = 1 .. Len(q)
           /\ \A i \in 1 .. Len(q) : q[i] \in Messages
           /\ \A i, j \in 1 .. Len(q) : q[i] = q[j] => i = j
           /\ \A m : Holds(q, m) <=> \E i \in 1 .. Len(q) : q[i] = m
  <1>1. q \in Seq(Messages) /\ IsInjective(q)
    BY DEF Lists
  <1>2. Len(q) \in Nat /\ DOMAIN q = 1 .. Len(q)
    BY <1>1, LenProperties
  <1>3. \A i \in 1 .. Len(q) : q[i] \in Messages
    BY <1>1, ElementOfSeq
  <1> QED
    BY <1>1, <1>2, <1>3 DEF IsInjective, Holds, Range

LEMMA EmptyIsList == <<>> \in Lists /\ Len(<<>>) = 0 /\ \A m : ~Holds(<<>>, m)
  <1>1. <<>> \in Seq(Messages) /\ Len(<<>>) = 0 /\ DOMAIN <<>> = {}
    BY EmptySeq
  <1> QED
    BY <1>1 DEF Lists, IsInjective, Holds, Range

\* A part of a list.
LEMMA PartOfList ==
    ASSUME NEW q \in Lists, NEW a \in Nat \ {0}, NEW b \in Nat, b <= Len(q)
    PROVE  LET w == SubSeq(q, a, b)
           IN  /\ w \in Lists /\ \A m : Holds(w, m) => Holds(q, m)
               /\ Len(w) = IF a <= b THEN b - a + 1 ELSE 0
  <1> DEFINE w == SubSeq(q, a, b)
  <1>0. /\ Len(q) \in Nat /\ \A i \in a .. b : i \in 1 .. Len(q) /\ q[i] \in Messages
    BY ListProperties
  <1>1. CASE a <= b
    <2>1. /\ w \in Seq(Messages) /\ Len(w) = b - a + 1
          /\ \A i \in 1 .. b - a + 1 : w[i] = q[a + i - 1]
      BY <1>0, <1>1, SubSeqProperties
    <2> HIDE DEF w
    <2>2. \A i \in 1 .. Len(w) : a + i - 1 \in 1 .. Len(q) /\ w[i] = q[a + i - 1]
      BY <1>0, <1>1, <2>1
    <2>3. DOMAIN w = 1 .. Len(w) /\ Len(w) \in Nat
      BY <2>1, LenProperties
    <2>4. ASSUME NEW i \in 1 .. Len(w), NEW j \in 1 .. Len(w), w[i] = w[j] PROVE i = j
      <3>1. a + i - 1 = a + j - 1
        <4>1. a + i - 1 \in 1 .. Len(q) /\ a + j - 1 \in 1 .. Len(q) /\ q[a + i - 1] = q[a + j - 1]
          BY <2>2, <2>4
        <4> QED
          BY <4>1, ListProperties
      <3> QED
        BY <2>3, <3>1
    <2>5. w \in Lists
      BY <2>1, <2>3, <2>4 DEF Lists, IsInjective
    <2>6. \A m : Holds(w, m) => Holds(q, m)
      BY <2>2, <2>5, ListProperties
    <2> QED
      BY <1>1, <2>1, <2>5, <2>6 DEF w
  <1>2. CASE ~(a <= b)
    <2>1. w = <<>>
      BY <1>2, SubSeqEmpty
    <2> QED
      BY <1>2, <2>1, EmptyIsList
  <1> QED
    BY <1>1, <1>2

LEMMA AppendToList ==
    ASSUME NEW q \in Lists, NEW m \in Messages, ~Holds(q, m)
    PROVE  LET w == Append(q, m)
           IN  /\ w \in Lists /\ Len(w) = Len(q) + 1
               /\ \A x : Holds(w, x) <=> x = m \/ Holds(q, x)
  <1> DEFINE w == Append(q, m)
             n == Len(q)
  <1>0. q \in Seq(Messages) /\ n \in Nat
    BY ListProperties
  <1>1. /\ w \in Seq(Messages) /\ Len(w) = n + 1
        /\ \A i \in 1 .. n : w[i] = q[i]
        /\ w[n + 1] = m
    BY <1>0, AppendProperties
  <1> HIDE DEF w
  <1>2. DOMAIN w = 1 .. n + 1
    BY <1>1, LenProperties
  <1>3. \A i \in 1 .. n + 1 : i \in 1 .. n \/ i = n + 1
    BY <1>0
  <1>4. \A i \in 1 .. n : i \in 1 .. n + 1 /\ w[i] # m
    BY <1>0, <1>1, ListProperties
  <1>5. n + 1 \in 1 .. n + 1
    BY <1>0
  <1>6. w \in Lists
    BY <1>1, <1>2, <1>3, <1>4, ListProperties DEF Lists, IsInjective
  <1>7. \A x : Holds(w, x) <=> x = m \/ Holds(q, x)
    <2> TAKE x
    <2>1. Holds(w, x) <=> \E i \in 1 .. n + 1 : w[i] = x
      BY <1>1, <1>6, ListProperties
    <2>2. Holds(q, x) <=> \E i \in 1 .. n : q[i] = x
      BY ListProperties
    <2> QED
      BY <1>1, <1>3, <1>4, <1>5, <2>1, <2>2
  <1> HIDE DEF n
  <1> QED
    BY <1>1, <1>6, <1>7 DEF w, n

LEMMA SplicedOut ==
    ASSUME NEW q \in Lists, NEW m
    PROVE  LET w == Without(q, m)
           IN  /\ w \in Lists /\ Len(w) <= Len(q)
               /\ \A x : Holds(w, x) <=> x # m /\ Holds(q, x)
  <1> DEFINE w == Without(q, m)
             n == Len(q)
  <1>0. q \in Seq(Messages) /\ n \in Nat /\ DOMAIN q = 1 .. n /\ \A i \in 1 .. n : q[i] \in Messages
    BY ListProperties
  <1>1. CASE ~Holds(q, m)
    <2>1. w = q
      BY <1>1 DEF Without
    <2> QED
      BY <1>0, <1>1, <2>1
  <1>2. CASE Holds(q, m)
    <2> DEFINE i == CHOOSE i \in DOMAIN q : q[i] = m
               before == SubSeq(q, 1, i - 1)
               after == SubSeq(q, i + 1, n)
    <2>1. i \in 1 .. n /\ q[i] = m
      BY <1>0, <1>2, ListProperties
    <2>2. w = before \o after
      BY <1>2 DEF Without, RemoveAt
    <2> HIDE DEF i
    <2>3. /\ before \in Seq(Messages) /\ Len(before) = i - 1
          /\ \A j \in 1 .. i - 1 : before[j] = q[j]
      BY <1>0, <2>1, SubSeqProperties
    <2>4. /\ after \in Seq(Messages) /\ Len(after) = n - i
          /\ \A j \in 1 .. n - i : after[j] = q[i + j]
      <3>1. /\ i + 1 \in Int /\ n \in Int /\ n - (i + 1) + 1 = n - i
            /\ \A j \in i + 1 .. n : q[j] \in Messages
            /\ (IF i + 1 <= n THEN n - (i + 1) + 1 ELSE 0) = n - i
        <4>1. i + 1 \in Int /\ n \in Int /\ n - (i + 1) + 1 = n - i
          BY <1>0, <2>1
        <4>2. \A j \in i + 1 .. n : j \in 1 .. n
          BY <1>0, <2>1
        <4>3. (IF i + 1 <= n THEN n - (i + 1) + 1 ELSE 0) = n - i
          <5>1. n \in Nat /\ i \in Int
            BY <1>0, <2>1
          <5>2. CASE i + 1 <= n
            BY <4>1, <5>2
          <5>3. CASE ~ (i + 1 <= n)
            <6>1. n - i = 0
              BY <2>1, <5>1, <5>3
            <6> QED
              BY <5>3, <6>1
          <5> QED
            BY <5>2, <5>3
        <4> QED
          BY <1>0, <4>1, <4>2, <4>3
      <3>2. \A j \in 1 .. n - i : (i + 1) + j - 1 = i + j
        BY <1>0, <2>1
      <3>3. /\ after \in Seq(Messages) /\ Len(after) = n - i
            /\ \A j \in 1 .. n - i : after[j] = q[(i + 1) + j - 1]
        BY <3>1, SubSeqProperties
      <3> QED
        BY <3>2, <3>3
    <2> HIDE DEF before, after, w
    <2>5. /\ w \in Seq(Messages) /\ Len(w) = n - 1
          /\ \A j \in 1 .. n - 1 : w[j] = IF j <= i - 1 THEN before[j] ELSE after[j - (i - 1)]
      <3>1. /\ w \in Seq(Messages) /\ Len(w) = Len(before) + Len(after)
            /\ \A j \in 1 .. Len(before) + Len(after) :
                  w[j] = IF j <= Len(before) THEN before[j] ELSE after[j - Len(before)]
        BY <2>2, <2>3, <2>4, ConcatProperties
      <3>2. Len(before) + Len(after) = n - 1
        BY <1>0, <2>1, <2>3, <2>4
      <3> QED
        BY <2>3, <3>1, <3>2
    <2> DEFINE At(j) == IF j <= i - 1 THEN j ELSE j + 1
    <2>6. ASSUME NEW j \in 1 .. n - 1
          PROVE  At(j) \in 1 .. n /\ At(j) # i /\ w[j] = q[At(j)]
      <3>1. CASE j <= i - 1
        <4>1. j \in 1 .. n /\ j # i /\ j \in 1 .. i - 1
          BY <1>0, <2>1, <3>1
        <4> QED
          BY <2>3, <2>5, <3>1, <4>1
      <3>2. CASE ~(j <= i - 1)
        <4>1. /\ j + 1 \in 1 .. n /\ j + 1 # i
              /\ j - (i - 1) \in 1 .. n - i /\ i + (j - (i - 1)) = j + 1
          BY <1>0, <2>1, <3>2
        <4>2. w[j] = after[j - (i - 1)]
          BY <2>5, <3>2
        <4>3. after[j - (i - 1)] = q[i + (j - (i - 1))]
          BY <2>4, <4>1
        <4> QED
          BY <3>2, <4>1, <4>2, <4>3
      <3> QED
        BY <3>1, <3>2
    <2>7. \A j, k \in 1 .. n - 1 : At(j) = At(k) => j = k
      BY <1>0, <2>1
    <2>8. \A k \in 1 .. n : k # i => \E j \in 1 .. n - 1 : At(j) = k
      <3> TAKE k \in 1 .. n
      <3>1. CASE k < i
        <4>1. k \in 1 .. n - 1 /\ At(k) = k
          BY <1>0, <2>1, <3>1
        <4> QED
          BY <4>1
      <3>2. CASE k > i
        <4>1. k - 1 \in 1 .. n - 1 /\ At(k - 1) = k
          BY <1>0, <2>1, <3>2
        <4> QED
          BY <4>1
      <3> QED
        BY <1>0, <2>1, <3>1, <3>2
    <2> HIDE DEF At
    <2>9. DOMAIN w = 1 .. n - 1
      BY <2>5, LenProperties
    <2>10. w \in Lists
      <3>1. ASSUME NEW j \in 1 .. n - 1, NEW k \in 1 .. n - 1, w[j] = w[k] PROVE j = k
        <4>1. At(j) = At(k)
          BY <2>6, <3>1, ListProperties
        <4> QED
          BY <2>7, <4>1
      <3> QED
        BY <2>5, <2>9, <3>1 DEF Lists, IsInjective
    <2>11. ASSUME NEW x PROVE Holds(w, x) <=> x # m /\ Holds(q, x)
      <3>1. Holds(w, x) <=> \E j \in 1 .. n - 1 : w[j] = x
        BY <2>5, <2>10, ListProperties
      <3>2. Holds(q, x) <=> \E j \in 1 .. n : q[j] = x
        BY ListProperties
      <3>3. ASSUME NEW j \in 1 .. n - 1, w[j] = x PROVE x # m /\ \E k \in 1 .. n : q[k] = x
        BY <2>1, <2>6, <3>3, ListProperties
      <3>4. ASSUME NEW k \in 1 .. n, q[k] = x, x # m PROVE \E j \in 1 .. n - 1 : w[j] = x
        <4>1. PICK j \in 1 .. n - 1 : At(j) = k
          BY <2>1, <2>8, <3>4
        <4> QED
          BY <2>6, <3>4, <4>1
      <3> QED
        BY <3>1, <3>2, <3>3, <3>4
    <2>12. n - 1 <= n
      BY <1>0
    <2> QED
      BY <2>5, <2>10, <2>11, <2>12 DEF w
  <1> QED
    BY <1>1, <1>2

\* A mutation leaves a list that fits, and takes out nothing by a push.
LEMMA AppliedProperties ==
    ASSUME NEW op \in Ops, NEW q \in Lists, Len(q) <= Capacity, ~Refused(op, q)
    PROVE  LET w == Applied(op, q)
           IN  /\ w \in Lists /\ Len(w) <= Capacity
               /\ op.kind = "push" => \A m : Holds(w, m) <=> m = op.m \/ Holds(q, m)
  <1> DEFINE w == Applied(op, q)
  <1>0. /\ Len(q) \in Nat /\ Capacity \in Nat /\ Limit \in Nat
        /\ op.kind \in {"push", "ack", "take"} /\ (op.kind = "push" => op.m \in Messages)
    BY ListProperties, GatewayAssumption DEF Ops
  <1>1. CASE op.kind = "push" /\ Holds(q, op.m)
    <2>1. w = q
      BY <1>1 DEF Applied
    <2> QED
      BY <1>1, <2>1
  <1>2. CASE op.kind = "push" /\ ~Holds(q, op.m)
    <2>1. w = Append(q, op.m) /\ ~(Len(q) >= Capacity)
      BY <1>2 DEF Applied, Refused
    <2>2. w \in Lists /\ Len(w) = Len(q) + 1 /\ \A m : Holds(w, m) <=> m = op.m \/ Holds(q, m)
      BY <1>0, <1>2, <2>1, AppendToList
    <2> QED
      BY <1>0, <2>1, <2>2
  <1>3. CASE op.kind = "ack"
    <2>1. w = Without(q, op.m)
      BY <1>3 DEF Applied
    <2>2. w \in Lists /\ Len(w) <= Len(q) /\ Len(w) \in Nat
      BY <2>1, SplicedOut, ListProperties
    <2> QED
      BY <1>0, <1>3, <2>2
  <1>4. CASE op.kind = "take"
    <2>1. w = SubSeq(q, Limit + 1, Len(q))
      BY <1>4 DEF Applied
    <2>2. Limit + 1 \in Nat \ {0} /\ Len(q) <= Len(q)
      BY <1>0
    <2>3. w \in Lists /\ Len(w) = IF Limit + 1 <= Len(q) THEN Len(q) - (Limit + 1) + 1 ELSE 0
      BY <1>0, <2>1, <2>2, PartOfList
    <2> QED
      BY <1>0, <1>4, <2>3
  <1> QED
    BY <1>0, <1>1, <1>2, <1>3, <1>4

LEMMA EvictedProperties ==
    ASSUME NEW q \in Lists
    PROVE  Evicted(q) \in Lists
  <1>1. /\ Len(q) \in Nat /\ Capacity \in Nat
        /\ Len(q) > 2 * Capacity => Len(q) - 2 * Capacity + 1 \in Nat \ {0}
    BY ListProperties, GatewayAssumption
  <1> QED
    BY <1>1, PartOfList DEF Evicted

LEMMA PageProperties ==
    ASSUME NEW q \in Lists
    PROVE  Range(Page(q)) \subseteq Messages /\ \A m \in Range(Page(q)) : Holds(q, m)
  <1> DEFINE b == IF Limit < Len(q) THEN Limit ELSE Len(q)
  <1>1. 1 \in Nat \ {0} /\ b \in Nat /\ b <= Len(q)
    BY ListProperties, GatewayAssumption
  <1>2. Page(q) = SubSeq(q, 1, b)
    BY DEF Page
  <1> HIDE DEF b
  <1>3. \A m : Holds(Page(q), m) => Holds(q, m)
    BY <1>1, <1>2, PartOfList
  <1> QED
    BY <1>3, ListProperties DEF Holds

-----------------------------------------------------------------------------
(* The invariant of the inbox.                                             *)

\* Somebody relies on m: the SDK, which saves its completion, or a consumer.
Wanted(m) == sdk[m] \in {"returned", "done"} \/ \E c \in Consumers : m \in seen[c]

\* A process that has not read the file has nothing to do with it.
ReadFirst ==
    /\ phase # "down" => initialized
    /\ ~initialized => queued = <<>> /\ chain = <<>> /\ \A c \in Consumers : request[c] # "waiting"

\* What is being saved is the head of the chain applied to memory.
SavedIsApplied ==
    saving # <<>> =>
        chain # <<>> /\ saving = <<Applied(Head(chain), queued)>> /\ ~Refused(Head(chain), queued)

MemoryIsFiled == \A m : Holds(queued, m) => Holds(file, m) \/ m \in gone

WantedIsHeld ==
    \A m \in Messages \ gone : Wanted(m) => Holds(file, m) /\ (initialized => Holds(queued, m))

ListsFit ==
    /\ file \in Lists /\ queued \in Lists /\ live \in Lists
    /\ Len(file) <= Capacity /\ Len(queued) <= Capacity

RestTyped ==
    /\ phase \in {"down", "starting", "up", "closing"} /\ initialized \in BOOLEAN
    /\ chain \in Seq(Ops)
    /\ sdk \in [Messages -> {"staged", "pushing", "returned", "done"}]
    /\ request \in [Consumers -> {"none", "waiting", "mutating"}]
    /\ seen \in [Consumers -> SUBSET Messages]
    /\ gone \subseteq Messages
    /\ owed \in [Messages -> Int]
    /\ faults \in 0 .. MaxFaults

HooksTyped == IsFiniteSet(hooks) /\ hooks \subseteq [m : Answered, id : Nat, left : 1 .. Retries]

InboxInv ==
    /\ ListsFit /\ RestTyped /\ HooksTyped
    /\ ReadFirst /\ SavedIsApplied /\ MemoryIsFiled /\ WantedIsHeld

LEMMA InitInbox == Init => InboxInv
  <1> SUFFICES ASSUME Init PROVE InboxInv
    OBVIOUS
  <1>1. ListsFit
    BY EmptyIsList, GatewayAssumption DEF Init, ListsFit
  <1>2. RestTyped
    <2>1. chain \in Seq(Ops)
      BY EmptySeq DEF Init
    <2>2. /\ sdk \in [Messages -> {"staged", "pushing", "returned", "done"}]
          /\ request \in [Consumers -> {"none", "waiting", "mutating"}]
          /\ seen \in [Consumers -> SUBSET Messages]
      BY DEF Init
    <2>3. owed \in [Messages -> Int]
      BY DEF Init
    <2>4. phase = "down" /\ initialized = FALSE /\ gone = {} /\ faults \in 0 .. MaxFaults
      BY GatewayAssumption DEF Init
    <2> QED
      BY <2>1, <2>2, <2>3, <2>4 DEF RestTyped
  <1>3. HooksTyped
    BY FS_EmptySet DEF Init, HooksTyped
  <1>4. ReadFirst /\ SavedIsApplied
    BY DEF Init, ReadFirst, SavedIsApplied
  <1>5. MemoryIsFiled
    BY EmptyIsList DEF Init, MemoryIsFiled
  <1>6. WantedIsHeld
    BY DEF Init, WantedIsHeld, Wanted
  <1> QED
    BY <1>1, <1>2, <1>3, <1>4, <1>5, <1>6 DEF InboxInv

\* There is an id that no delivery in progress has.
LEMMA IdsAreFresh ==
    ASSUME IsFiniteSet(hooks)
    PROVE  FreshId \in Nat
  <1> DEFINE k == Cardinality(hooks)
             Free(n) == \A h \in hooks : h.id # n
  <1>1. k \in Nat
    BY FS_CardinalityType
  <1>2. \E n \in 0 .. k : Free(n)
    <2> SUFFICES ASSUME \A n \in 0 .. k : \E h \in hooks : h.id = n PROVE FALSE
      OBVIOUS
    <2> DEFINE f == [n \in 0 .. k |-> CHOOSE h \in hooks : h.id = n]
    <2>1. \A n \in 0 .. k : f[n] \in hooks /\ f[n].id = n
      OBVIOUS
    <2>2. f \in [0 .. k -> hooks]
      BY <2>1
    <2>3. IsFiniteSet(0 .. k) /\ Cardinality(0 .. k) = k + 1
      <3>1. 0 \in Int /\ k \in Int /\ ~(0 > k) /\ k - 0 + 1 = k + 1
        BY <1>1
      <3>2. IsFiniteSet(0 .. k) /\ Cardinality(0 .. k) = IF 0 > k THEN 0 ELSE k - 0 + 1
        BY <3>1, FS_Interval
      <3> QED
        BY <3>1, <3>2
    <2>4. Cardinality(hooks) < Cardinality(0 .. k)
      BY <1>1, <2>3
    <2>5. PICK S : S = 0 .. k
      OBVIOUS
    <2>6. IsFiniteSet(S) /\ Cardinality(hooks) < Cardinality(S) /\ f \in [S -> hooks]
      BY <2>2, <2>3, <2>4, <2>5
    <2> HIDE DEF f, k
    <2>7. \E x, y \in S : x # y /\ f[x] = f[y]
      BY <2>6, FS_PigeonHole
    <2> QED
      BY <2>1, <2>5, <2>7
  <1>3. FreshId = CHOOSE n \in 0 .. k : Free(n)
    BY DEF FreshId
  <1> HIDE DEF Free, k
  <1>4. FreshId \in 0 .. k
    BY <1>2, <1>3
  <1> QED
    BY <1>1, <1>4

\* A step that ends deliveries or begins one that is new.
LEMMA HooksStayTyped ==
    ASSUME HooksTyped, NEW m \in Messages, Pushed(m) \/ hooks' \subseteq hooks
    PROVE  HooksTyped'
  <1>1. CASE hooks' \subseteq hooks
    BY <1>1, FS_Subset DEF HooksTyped
  <1>2. CASE Pushed(m)
    <2> DEFINE h == [m |-> m, id |-> FreshId, left |-> Retries]
    <2>1. FreshId \in Nat /\ Retries \in 1 .. Retries
      BY IdsAreFresh, GatewayAssumption DEF HooksTyped
    <2>2. m \in Answered => h \in [m : Answered, id : Nat, left : 1 .. Retries]
      BY <2>1
    <2>3. hooks' = hooks \/ (m \in Answered /\ hooks' = hooks \cup {h})
      BY <1>2 DEF Pushed
    <2> HIDE DEF h
    <2> QED
      BY <2>2, <2>3, FS_AddElement DEF HooksTyped
  <1> QED
    BY <1>1, <1>2

LEMMA AttemptStaysTyped ==
    ASSUME HooksTyped, RestTyped, NEW h, Attempt(h)
    PROVE  HooksTyped' /\ owed' \in [Messages -> Int]
  <1> DEFINE g == [h EXCEPT !.left = @ - 1]
  <1>1. h \in hooks /\ h \in [m : Answered, id : Nat, left : 1 .. Retries] /\ h.m \in Messages
    BY GatewayAssumption DEF Attempt, HooksTyped
  <1>2. owed' \in [Messages -> Int]
    BY <1>1 DEF Attempt, RestTyped
  <1>3. \/ hooks' \subseteq hooks
        \/ hooks' = (hooks \ {h}) \cup {g} /\ 2 <= h.left
    BY <1>1 DEF Attempt
  <1>4. 2 <= h.left => g \in [m : Answered, id : Nat, left : 1 .. Retries]
    BY <1>1, GatewayAssumption
  <1> HIDE DEF g
  <1>5. IsFiniteSet(hooks \ {h})
    BY FS_Subset DEF HooksTyped
  <1> QED
    BY <1>2, <1>3, <1>4, <1>5, FS_AddElement, FS_Subset DEF HooksTyped

-----------------------------------------------------------------------------
(* The steps.                                                              *)

\* What follows a push leaves lists and requests alone.
LEMMA PushedTypes ==
    ASSUME RestTyped, NEW m \in Messages, Pushed(m)
    PROVE  /\ sdk' \in [Messages -> {"staged", "pushing", "returned", "done"}]
           /\ owed' \in [Messages -> Int]
           /\ \A x \in Messages : sdk'[x] \in {"returned", "done"} =>
                 x = m \/ sdk[x] \in {"returned", "done"}
  BY DEF Pushed, RestTyped

LEMMA ReceiveInbox ==
    ASSUME InboxInv, NEW m \in Messages, Receive(m)
    PROVE  InboxInv'
  <1> USE DEF InboxInv
  <1>0. phase # "down" /\ initialized
    BY DEF Receive, ReadFirst
  <1>1. live' \in Lists
    BY AppendToList DEF Receive, ListsFit
  <1>2. CASE Holds(queued, m)
    <2>1. Pushed(m) /\ UNCHANGED <<phase, initialized, inbox, request, seen, gone, faults>>
      BY <1>2 DEF Receive
    <2>2. HooksTyped' /\ RestTyped'
      BY <2>1, HooksStayTyped, PushedTypes DEF RestTyped, inbox
    <2>3. WantedIsHeld'
      <3> SUFFICES ASSUME NEW x \in Messages \ gone, Wanted(x)' PROVE Holds(file, x) /\ Holds(queued, x)
        BY <2>1 DEF WantedIsHeld, inbox
      <3>1. CASE x = m
        BY <1>2, <3>1 DEF MemoryIsFiled
      <3>2. CASE x # m
        <4>1. Wanted(x)
          BY <2>1, <3>2, PushedTypes DEF Wanted
        <4> QED
          BY <1>0, <4>1 DEF WantedIsHeld
      <3> QED
        BY <3>1, <3>2
    <2> QED
      BY <1>1, <2>1, <2>2, <2>3 DEF ListsFit, ReadFirst, SavedIsApplied, MemoryIsFiled, inbox
  <1>3. CASE ~Holds(queued, m)
    <2> DEFINE op == [kind |-> "push", m |-> m]
    <2>1. /\ chain' = Append(chain, op) /\ sdk' = [sdk EXCEPT ![m] = "pushing"]
          /\ UNCHANGED <<file, queued, saving, hooks, owed, phase, initialized, request, seen, gone, faults>>
      BY <1>3 DEF Receive
    <2>2. op \in Ops
      BY DEF Ops
    <2> HIDE DEF op
    <2>3. /\ chain' \in Seq(Ops) /\ chain' # <<>>
          /\ chain # <<>> => Head(chain') = Head(chain)
      BY <2>1, <2>2 DEF RestTyped
    <2>4. RestTyped' /\ HooksTyped'
      BY <2>1, <2>3 DEF RestTyped, HooksTyped
    <2>5. WantedIsHeld'
      <3>1. \A x \in Messages : Wanted(x)' => Wanted(x)
        BY <2>1 DEF Wanted, RestTyped
      <3> QED
        BY <2>1, <3>1 DEF WantedIsHeld
    <2> QED
      BY <1>0, <1>1, <2>1, <2>3, <2>4, <2>5 DEF ListsFit, ReadFirst, SavedIsApplied, MemoryIsFiled
  <1> QED
    BY <1>2, <1>3

LEMMA CompleteInbox ==
    ASSUME InboxInv, NEW m \in Messages, Complete(m)
    PROVE  InboxInv'
  <1> USE DEF InboxInv
  <1>1. /\ sdk' \in [Messages -> {"staged", "pushing", "returned", "done"}]
        /\ \A x \in Messages : sdk'[x] \in {"returned", "done"} => sdk[x] \in {"returned", "done"}
    BY DEF Complete, RestTyped
  <1>2. faults' \in 0 .. MaxFaults
    BY GatewayAssumption DEF Complete, RestTyped, Fault
  <1>3. UNCHANGED <<phase, initialized, inbox, live, request, seen, hooks, history>>
    BY DEF Complete
  <1>4. \A x \in Messages : Wanted(x)' => Wanted(x)
    BY <1>1, <1>3 DEF Wanted
  <1> QED
    BY <1>1, <1>2, <1>3, <1>4
       DEF ListsFit, RestTyped, HooksTyped, ReadFirst, SavedIsApplied, MemoryIsFiled, WantedIsHeld,
           inbox, history

\* The mutation at the head is an operation of its kind, and so is the rest of the chain.
LEMMA HeadProperties ==
    ASSUME RestTyped, chain # <<>>
    PROVE  /\ Head(chain) \in Ops /\ Tail(chain) \in Seq(Ops)
           /\ Head(chain).kind \in {"push", "ack", "take"}
           /\ Head(chain).kind = "push" => Head(chain).m \in Messages
           /\ Head(chain).kind \in {"ack", "take"} => Head(chain).c \in Consumers
  <1>1. Head(chain) \in Ops /\ Tail(chain) \in Seq(Ops)
    BY HeadTailProperties DEF RestTyped
  <1> QED
    BY <1>1 DEF Ops

LEMMA RejectedFacts ==
    ASSUME RestTyped, chain # <<>>, Rejected(Head(chain))
    PROVE  /\ chain' = Tail(chain) /\ saving' = <<>> /\ chain' \in Seq(Ops)
           /\ sdk' \in [Messages -> {"staged", "pushing", "returned", "done"}]
           /\ request' \in [Consumers -> {"none", "waiting", "mutating"}]
           /\ \A x \in Messages : sdk'[x] \in {"returned", "done"} => sdk[x] \in {"returned", "done"}
           /\ \A c \in Consumers : request'[c] \in {"none", request[c]}
  BY HeadProperties DEF Rejected, RestTyped

LEMMA TurnInbox ==
    ASSUME InboxInv, Turn
    PROVE  InboxInv'
  <1> USE DEF InboxInv
  <1>0. /\ chain # <<>> /\ initialized
        /\ UNCHANGED <<phase, initialized, file, queued, live, seen, hooks, history, faults>>
    BY DEF Turn, ReadFirst
  <1>1. CASE Refused(Head(chain), queued)
    <2>1. Rejected(Head(chain))
      BY <1>1 DEF Turn
    <2>2. RestTyped' /\ SavedIsApplied' /\ ReadFirst'
      BY <1>0, <2>1, RejectedFacts DEF RestTyped, SavedIsApplied, ReadFirst, history
    <2>3. \A x \in Messages : Wanted(x)' => Wanted(x)
      BY <1>0, <2>1, RejectedFacts DEF Wanted
    <2> QED
      BY <1>0, <2>2, <2>3 DEF ListsFit, HooksTyped, MemoryIsFiled, WantedIsHeld, history
  <1>2. CASE ~Refused(Head(chain), queued)
    <2>1. saving' = <<Applied(Head(chain), queued)>> /\ UNCHANGED <<chain, sdk, request>>
      BY <1>2 DEF Turn
    <2> QED
      BY <1>0, <1>2, <2>1
         DEF ListsFit, RestTyped, HooksTyped, ReadFirst, SavedIsApplied, MemoryIsFiled, WantedIsHeld,
             Wanted, history
  <1> QED
    BY <1>1, <1>2

\* What is renamed over the file: a list that fits, and holds what memory holds but for what is gone.
LEMMA RenamedFacts ==
    ASSUME InboxInv, saving # <<>>, Renamed
    PROVE  LET w == saving[1]
               op == Head(chain)
           IN  /\ chain # <<>> /\ initialized
               /\ file' = w /\ w \in Lists /\ Len(w) <= Capacity
               /\ gone \subseteq gone' /\ gone' \subseteq Messages
               /\ \A m : Holds(queued, m) => Holds(w, m) \/ m \in gone'
               /\ op.kind = "push" => Holds(w, op.m)
  <1> USE DEF InboxInv
  <1> DEFINE w == saving[1]
             op == Head(chain)
  <1>1. /\ chain # <<>> /\ initialized /\ ~Refused(op, queued)
        /\ w = Applied(op, queued)
    BY DEF SavedIsApplied, ReadFirst
  <1>2. op \in Ops /\ queued \in Lists /\ Len(queued) <= Capacity
    BY <1>1, HeadProperties DEF ListsFit
  <1>3. /\ w \in Lists /\ Len(w) <= Capacity
        /\ op.kind = "push" => \A m : Holds(w, m) <=> m = op.m \/ Holds(queued, m)
    BY <1>1, <1>2, AppliedProperties
  <1>4. /\ file' = w
        /\ gone' = IF op.kind = "push" THEN gone ELSE gone \cup (Range(queued) \ Range(w))
    BY DEF Renamed
  <1>5. Range(queued) \subseteq Messages
    BY <1>2, ListProperties DEF Holds
  <1> HIDE DEF w, op
  <1>6. gone \subseteq gone' /\ gone' \subseteq Messages
    BY <1>4, <1>5 DEF RestTyped
  <1>7. \A m : Holds(queued, m) => Holds(w, m) \/ m \in gone'
    BY <1>3, <1>4 DEF Holds
  <1> QED
    BY <1>1, <1>3, <1>4, <1>6, <1>7 DEF w, op

\* What was wanted is in the renamed file.
LEMMA WantedIsRenamed ==
    ASSUME InboxInv, saving # <<>>, Renamed, NEW m \in Messages \ gone', Wanted(m)
    PROVE  Holds(file', m)
  <1>1. initialized /\ gone \subseteq gone' /\ file' = saving[1]
        /\ (Holds(queued, m) => Holds(saving[1], m) \/ m \in gone')
    BY RenamedFacts
  <1>2. Holds(queued, m)
    BY <1>1 DEF InboxInv, WantedIsHeld
  <1> QED
    BY <1>1, <1>2

LEMMA SaveFailsInbox ==
    ASSUME InboxInv, SaveFails
    PROVE  InboxInv'
  <1>0. /\ saving # <<>> /\ chain # <<>> /\ initialized
        /\ UNCHANGED <<phase, initialized, queued, live, seen, hooks, owed>>
        /\ faults' \in 0 .. MaxFaults
    BY GatewayAssumption DEF SaveFails, InboxInv, SavedIsApplied, ReadFirst, RestTyped, Fault
  <1>1. Rejected(Head(chain)) /\ RestTyped
    BY DEF SaveFails, InboxInv
  <1>2. /\ file' \in Lists /\ Len(file') <= Capacity /\ gone \subseteq gone' /\ gone' \subseteq Messages
        /\ MemoryIsFiled'
    <2>1. CASE Renamed
      BY <1>0, <2>1, RenamedFacts DEF MemoryIsFiled
    <2>2. CASE UNCHANGED <<file, gone>>
      BY <1>0, <2>2 DEF InboxInv, ListsFit, RestTyped, MemoryIsFiled
    <2> QED
      BY <2>1, <2>2 DEF SaveFails
  <1>3. RestTyped' /\ SavedIsApplied' /\ ReadFirst' /\ ListsFit' /\ HooksTyped'
    BY <1>0, <1>1, <1>2, RejectedFacts DEF InboxInv, RestTyped, SavedIsApplied, ReadFirst, ListsFit, HooksTyped
  <1>4. WantedIsHeld'
    <2> SUFFICES ASSUME NEW m \in Messages \ gone', Wanted(m)' PROVE Holds(file', m) /\ Holds(queued', m)
      BY <1>0 DEF WantedIsHeld
    <2>1. Wanted(m)
      BY <1>0, <1>1, RejectedFacts DEF Wanted
    <2>2. Holds(file, m) /\ Holds(queued, m)
      BY <1>0, <1>2, <2>1 DEF InboxInv, WantedIsHeld
    <2>3. CASE Renamed
      BY <1>0, <2>1, <2>2, <2>3, WantedIsRenamed
    <2>4. CASE UNCHANGED <<file, gone>>
      BY <1>0, <2>2, <2>4
    <2> QED
      BY <2>3, <2>4 DEF SaveFails
  <1> QED
    BY <1>2, <1>3, <1>4 DEF InboxInv

\* How a mutation that was swapped in goes on.
LEMMA SettleGoesOn ==
    ASSUME InboxInv, Settle
    PROVE  /\ live' \in Lists /\ HooksTyped'
           /\ sdk' \in [Messages -> {"staged", "pushing", "returned", "done"}]
           /\ request' \in [Consumers -> {"none", "waiting", "mutating"}]
           /\ seen' \in [Consumers -> SUBSET Messages]
           /\ owed' \in [Messages -> Int]
           /\ \A m \in Messages : Wanted(m)' =>
                  Wanted(m) \/ (Head(chain).kind = "push" /\ m = Head(chain).m)
  <1> USE DEF InboxInv
  <1> DEFINE op == Head(chain)
  <1>0. chain # <<>> /\ op.kind \in {"push", "ack", "take"}
    BY HeadProperties DEF Settle, SavedIsApplied
  <1>1. CASE op.kind = "push"
    <2>1. Pushed(op.m) /\ live' = Evicted(live) /\ UNCHANGED <<request, seen>> /\ op.m \in Messages
      BY <1>0, <1>1, HeadProperties DEF Settle
    <2>2. live' \in Lists
      BY <2>1, EvictedProperties DEF ListsFit
    <2> HIDE DEF op
    <2>3. HooksTyped'
      BY <2>1, HooksStayTyped
    <2>4. \A m \in Messages : Wanted(m)' => Wanted(m) \/ m = op.m
      BY <2>1, PushedTypes DEF Wanted
    <2> QED
      BY <1>1, <2>1, <2>2, <2>3, <2>4, PushedTypes DEF RestTyped, op
  <1>2. CASE op.kind = "take"
    <2>1. request' = [request EXCEPT ![op.c] = "none"] /\ UNCHANGED <<sdk, live, seen, hooks, owed>>
      BY <1>2 DEF Settle
    <2> HIDE DEF op
    <2> QED
      BY <2>1 DEF RestTyped, ListsFit, HooksTyped, Wanted
  <1>3. CASE op.kind = "ack"
    <2>1. /\ live' = IF Holds(queued, op.m) THEN Without(live, op.m) ELSE live
          /\ request' = [request EXCEPT ![op.c] = "none"]
          /\ seen' \in {seen, [seen EXCEPT ![op.c] = @ \ {op.m}]}
          /\ UNCHANGED <<sdk, hooks, owed>>
      BY <1>3 DEF Settle
    <2> HIDE DEF op
    <2>2. live' \in Lists
      BY <2>1, SplicedOut DEF ListsFit
    <2>3. seen' \in [Consumers -> SUBSET Messages] /\ \A c \in Consumers : seen'[c] \subseteq seen[c]
      BY <2>1 DEF RestTyped
    <2> QED
      BY <2>1, <2>2, <2>3 DEF RestTyped, HooksTyped, Wanted
  <1> QED
    BY <1>0, <1>1, <1>2, <1>3

LEMMA SettleInbox ==
    ASSUME InboxInv, Settle
    PROVE  InboxInv'
  <1>0. /\ saving # <<>> /\ Renamed /\ queued' = saving[1] /\ saving' = <<>> /\ chain' = Tail(chain)
        /\ UNCHANGED <<phase, initialized, faults>>
    BY DEF Settle
  <1>1. /\ chain # <<>> /\ initialized
        /\ file' = queued' /\ queued' \in Lists /\ Len(queued') <= Capacity
        /\ gone \subseteq gone' /\ gone' \subseteq Messages
        /\ Head(chain).kind = "push" => Holds(queued', Head(chain).m)
    BY <1>0, RenamedFacts
  <1>2. ListsFit' /\ HooksTyped' /\ RestTyped'
    BY <1>0, <1>1, SettleGoesOn, HeadProperties DEF InboxInv, ListsFit, RestTyped
  <1>3. ReadFirst' /\ SavedIsApplied' /\ MemoryIsFiled'
    BY <1>0, <1>1 DEF InboxInv, ReadFirst, SavedIsApplied, MemoryIsFiled
  <1>4. WantedIsHeld'
    <2> SUFFICES ASSUME NEW m \in Messages \ gone', Wanted(m)' PROVE Holds(file', m)
      BY <1>1 DEF WantedIsHeld
    <2>1. Wanted(m) \/ (Head(chain).kind = "push" /\ m = Head(chain).m)
      BY SettleGoesOn
    <2> QED
      BY <1>0, <1>1, <2>1, WantedIsRenamed
  <1> QED
    BY <1>2, <1>3, <1>4 DEF InboxInv

\* A mutation that a consumer asks for waits at the end of the chain.
LEMMA AskedLast ==
    ASSUME RestTyped, NEW op \in Ops, chain' = Append(chain, op)
    PROVE  chain' \in Seq(Ops) /\ chain' # <<>> /\ (chain # <<>> => Head(chain') = Head(chain))
  BY DEF RestTyped

LEMMA AnswerFacts ==
    ASSUME InboxInv, NEW c \in Consumers, Answer(c)
    PROVE  /\ chain' \in Seq(Ops) /\ (chain # <<>> => chain' # <<>> /\ Head(chain') = Head(chain))
           /\ chain' # chain => c \in Legacy
           /\ request' \in [Consumers -> {"none", "waiting", "mutating"}]
           /\ \A d \in Consumers : request'[d] = "waiting" => request[d] = "waiting" /\ d # c
           /\ seen' \in [Consumers -> SUBSET Messages]
           /\ \A d \in Consumers : \A m \in seen'[d] : m \in seen[d] \/ Holds(queued, m)
  <1> USE DEF InboxInv
  <1>1. CASE c \in Legacy
    <2> DEFINE op == [kind |-> "take", c |-> c]
    <2>1. /\ chain' = Append(chain, op) /\ request' = [request EXCEPT ![c] = "mutating"]
          /\ UNCHANGED seen
      BY <1>1 DEF Answer
    <2>2. op \in Ops
      BY DEF Ops
    <2> HIDE DEF op
    <2>3. chain' \in Seq(Ops) /\ chain' # <<>> /\ (chain # <<>> => Head(chain') = Head(chain))
      BY <2>1, <2>2, AskedLast
    <2> QED
      BY <1>1, <2>1, <2>3 DEF RestTyped
  <1>2. CASE c \notin Legacy
    <2>1. /\ seen' = [seen EXCEPT ![c] = @ \cup Range(Page(queued))]
          /\ request' = [request EXCEPT ![c] = "none"]
          /\ UNCHANGED chain
      BY <1>2 DEF Answer
    <2>2. Range(Page(queued)) \subseteq Messages /\ \A m \in Range(Page(queued)) : Holds(queued, m)
      BY PageProperties DEF ListsFit
    <2> QED
      BY <2>1, <2>2 DEF RestTyped
  <1> QED
    BY <1>1, <1>2

LEMMA ConsumeInbox ==
    ASSUME InboxInv, NEW c \in Consumers, Consume(c)
    PROVE  InboxInv'
  <1> USE DEF InboxInv
  <1>0. /\ initialized
        /\ UNCHANGED <<phase, initialized, file, queued, live, saving, sdk, hooks, history, faults>>
    BY DEF Consume, Poll, Wake, Ack, ReadFirst
  <1>1. /\ chain' \in Seq(Ops) /\ (chain # <<>> => chain' # <<>> /\ Head(chain') = Head(chain))
        /\ request' \in [Consumers -> {"none", "waiting", "mutating"}]
        /\ seen' \in [Consumers -> SUBSET Messages]
        /\ \A d \in Consumers : \A m \in seen'[d] : m \in seen[d] \/ Holds(queued, m)
    <2>1. CASE Answer(c)
      BY <2>1, AnswerFacts
    <2>2. CASE request' = [request EXCEPT ![c] = "waiting"] /\ UNCHANGED <<chain, seen>>
      BY <2>2 DEF RestTyped
    <2>3. ASSUME NEW m \in Messages, Ack(c, m)
          PROVE  /\ chain' \in Seq(Ops) /\ (chain # <<>> => chain' # <<>> /\ Head(chain') = Head(chain))
                 /\ request' \in [Consumers -> {"none", "waiting", "mutating"}]
                 /\ UNCHANGED seen
      <3> DEFINE op == [kind |-> "ack", m |-> m, c |-> c]
      <3>1. chain' = Append(chain, op) /\ request' = [request EXCEPT ![c] = "mutating"] /\ UNCHANGED seen
        BY <2>3 DEF Ack
      <3>2. op \in Ops
        BY DEF Ops
      <3> HIDE DEF op
      <3> QED
        BY <3>1, <3>2, AskedLast DEF RestTyped
    <2>4. Answer(c) \/ (request' = [request EXCEPT ![c] = "waiting"] /\ UNCHANGED <<chain, seen>>)
          \/ \E m \in Messages : Ack(c, m)
      BY DEF Consume, Poll, Wake
    <2> QED
      BY <2>1, <2>2, <2>3, <2>4 DEF RestTyped
  <1>2. ListsFit' /\ RestTyped' /\ HooksTyped' /\ ReadFirst' /\ SavedIsApplied' /\ MemoryIsFiled'
    BY <1>0, <1>1 DEF ListsFit, RestTyped, HooksTyped, ReadFirst, SavedIsApplied, MemoryIsFiled, history
  <1>3. WantedIsHeld'
    <2> SUFFICES ASSUME NEW m \in Messages \ gone, Wanted(m)' PROVE Holds(file, m) /\ Holds(queued, m)
      BY <1>0 DEF WantedIsHeld, history
    <2>1. Wanted(m) \/ Holds(queued, m)
      BY <1>0, <1>1 DEF Wanted
    <2> QED
      BY <1>0, <2>1 DEF WantedIsHeld, MemoryIsFiled
  <1> QED
    BY <1>2, <1>3

LEMMA ProcessInbox ==
    ASSUME InboxInv, Start \/ Listen \/ Close \/ Closed
    PROVE  InboxInv'
  <1> USE DEF InboxInv
  <1>1. CASE Start
    <2>1. /\ phase = "down" /\ phase' = "starting" /\ initialized'
          /\ queued' = IF initialized THEN queued ELSE file
          /\ UNCHANGED <<file, live, chain, saving, sdk, request, seen, hooks, history, faults>>
      BY <1>1 DEF Start
    <2>2. RestTyped' /\ ListsFit' /\ HooksTyped' /\ ReadFirst' /\ MemoryIsFiled'
      BY <2>1 DEF RestTyped, ListsFit, HooksTyped, ReadFirst, MemoryIsFiled, history
    <2>3. SavedIsApplied'
      BY <2>1 DEF SavedIsApplied, ReadFirst
    <2>4. WantedIsHeld'
      BY <2>1 DEF WantedIsHeld, Wanted, history
    <2> QED
      BY <2>2, <2>3, <2>4
  <1>2. CASE Listen \/ Close \/ Closed
    <2>1. /\ UNCHANGED <<initialized, inbox, live, sdk, request, seen, hooks, history>>
          /\ phase' \in {"down", "starting", "up", "closing"} /\ (phase' # "down" => phase # "down")
          /\ faults' \in 0 .. MaxFaults
      BY <1>2, GatewayAssumption DEF Listen, Close, Closed, RestTyped, Fault
    <2> QED
      BY <2>1 DEF ListsFit, RestTyped, HooksTyped, ReadFirst, SavedIsApplied, MemoryIsFiled, WantedIsHeld,
                  Wanted, inbox, history
  <1> QED
    BY <1>1, <1>2

LEMMA CrashInbox ==
    ASSUME InboxInv, Crash
    PROVE  InboxInv'
  <1>0. /\ phase' = "down" /\ ~initialized' /\ initialized' \in BOOLEAN
        /\ queued' = <<>> /\ live' = <<>> /\ chain' = <<>> /\ saving' = <<>> /\ hooks' = {}
        /\ sdk' = [m \in Messages |-> IF sdk[m] \in {"pushing", "returned"} THEN "staged" ELSE sdk[m]]
        /\ request' = [c \in Consumers |-> "none"]
        /\ UNCHANGED <<seen, owed>>
    BY DEF Crash
  <1>1. faults' \in 0 .. MaxFaults
    BY GatewayAssumption DEF Crash, InboxInv, RestTyped, Fault
  <1>2. (saving # <<>> /\ Renamed) \/ UNCHANGED <<file, gone>>
    BY DEF Crash
  <1>3. /\ file' \in Lists /\ Len(file') <= Capacity /\ gone' \subseteq Messages /\ gone \subseteq gone'
    BY <1>2, RenamedFacts DEF InboxInv, ListsFit, RestTyped
  <1>4. ListsFit'
    BY <1>0, <1>3, EmptyIsList, GatewayAssumption DEF ListsFit
  <1>5. RestTyped'
    <2>1. chain' \in Seq(Ops)
      BY <1>0, EmptySeq
    <2> QED
      BY <1>0, <1>3, <1>1, <2>1 DEF InboxInv, RestTyped
  <1>6. HooksTyped'
    BY <1>0, FS_EmptySet DEF HooksTyped
  <1>7. ReadFirst' /\ SavedIsApplied'
    BY <1>0 DEF ReadFirst, SavedIsApplied
  <1>8. MemoryIsFiled'
    BY <1>0, EmptyIsList DEF MemoryIsFiled
  <1>9. WantedIsHeld'
    <2> SUFFICES ASSUME NEW m \in Messages \ gone', Wanted(m)' PROVE Holds(file', m)
      BY <1>0 DEF WantedIsHeld
    <2>1. Wanted(m)
      BY <1>0 DEF Wanted
    <2>2. Holds(file, m)
      BY <1>3, <2>1 DEF InboxInv, WantedIsHeld
    <2> QED
      BY <1>2, <2>1, <2>2, WantedIsRenamed
  <1> QED
    BY <1>4, <1>5, <1>6, <1>7, <1>8, <1>9 DEF InboxInv

LEMMA InboxStep == InboxInv /\ [Next]_vars => InboxInv'
  <1> SUFFICES ASSUME InboxInv, [Next]_vars PROVE InboxInv'
    OBVIOUS
  <1>1. CASE UNCHANGED vars
    BY <1>1 DEF vars, inbox, history, InboxInv, ListsFit, RestTyped, HooksTyped, ReadFirst, SavedIsApplied,
                MemoryIsFiled, WantedIsHeld, Wanted
  <1>2. ASSUME NEW m \in Messages, Deliver(m) PROVE InboxInv'
    BY <1>2, ReceiveInbox, CompleteInbox DEF Deliver
  <1>3. CASE Mutate \/ SaveFails
    BY <1>3, TurnInbox, SettleInbox, SaveFailsInbox DEF Mutate
  <1>4. ASSUME NEW c \in Consumers, Consume(c) PROVE InboxInv'
    BY <1>4, ConsumeInbox
  <1>5. ASSUME NEW h \in hooks, Attempt(h) PROVE InboxInv'
    <2>1. UNCHANGED <<phase, initialized, inbox, live, sdk, request, seen, gone, faults>>
      BY <1>5 DEF Attempt
    <2>2. HooksTyped' /\ owed' \in [Messages -> Int]
      BY <1>5, AttemptStaysTyped DEF InboxInv
    <2> QED
      BY <2>1, <2>2 DEF inbox, InboxInv, ListsFit, RestTyped, ReadFirst, SavedIsApplied,
                        MemoryIsFiled, WantedIsHeld, Wanted
  <1>6. CASE Start \/ Listen \/ Close \/ Closed \/ Crash
    BY <1>6, ProcessInbox, CrashInbox
  <1> QED
    BY <1>1, <1>2, <1>3, <1>4, <1>5, <1>6 DEF Next

(* An event that was acknowledged to the relay or seen by a consumer stays in the inbox file,
   and in memory while the gateway runs, until a poll or an acknowledgement removes it,
   whatever save fails and whenever the process dies (GatewayInbox, inbox.ts:103). *)
THEOREM InboxHolds == Spec => []HeldUntilConsumed
  <1>1. InboxInv => HeldUntilConsumed
    <2> SUFFICES ASSUME InboxInv PROVE HeldUntilConsumed
      OBVIOUS
    <2>1. saving # <<>> => chain # <<>> /\ saving[1] \in Seq(Messages)
      <3> SUFFICES ASSUME saving # <<>> PROVE chain # <<>> /\ saving[1] \in Seq(Messages)
        OBVIOUS
      <3>1. /\ chain # <<>> /\ saving[1] = Applied(Head(chain), queued) /\ ~Refused(Head(chain), queued)
        BY DEF InboxInv, SavedIsApplied
      <3>2. Head(chain) \in Ops /\ queued \in Lists /\ Len(queued) <= Capacity
        BY <3>1, HeadProperties DEF InboxInv, ListsFit
      <3> QED
        BY <3>1, <3>2, AppliedProperties DEF Lists
    <2>2. TypeOK
      BY <2>1 DEF InboxInv, ListsFit, Lists, RestTyped, HooksTyped, TypeOK
    <2>3. \A m \in Messages : sdk[m] = "done" \/ (\E c \in Consumers : m \in seen[c]) => Wanted(m)
      BY DEF Wanted
    <2> QED
      BY <2>2, <2>3 DEF InboxInv, WantedIsHeld, HeldUntilConsumed
  <1> QED
    BY <1>1, InitInbox, InboxStep, PTL DEF Spec
=============================================================================
