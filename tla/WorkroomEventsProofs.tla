------------------------ MODULE WorkroomEventsProofs ------------------------
(***************************************************************************)
(* What the mutators of WorkroomStore keep and change; that no poll of a   *)
(* Task passes or gives up an event it may not; and that a committed       *)
(* event's handler is not started again; all for every log, page size,     *)
(* bound of the tables and number of callers and faults.                   *)
(***************************************************************************)
EXTENDS WorkroomEvents, SequenceTheorems, FiniteSetTheorems, TLAPS

-----------------------------------------------------------------------------
(* Sequences: what RemoveAt and Youngest leave.                            *)

LEMMA RemoveAtProperties ==
    ASSUME NEW S, NEW q \in Seq(S), NEW i \in 1 .. Len(q)
    PROVE  LET r == RemoveAt(q, i)
           IN  /\ r \in Seq(S) /\ Len(r) = Len(q) - 1
               /\ \A j \in 1 .. Len(q) : j < i => r[j] = q[j]
               /\ \A j \in 1 .. Len(q) : j > i => r[j - 1] = q[j]
<1> DEFINE r == RemoveAt(q, i)
           n == Len(q)
           before == SubSeq(q, 1, i - 1)
           after == SubSeq(q, i + 1, n)
<1>1. n \in Nat /\ i \in 1 .. n
  BY LenProperties
<1>2. \A j \in 1 .. n : q[j] \in S
  BY ElementOfSeq
<1>3. /\ before \in Seq(S) /\ Len(before) = i - 1
      /\ \A j \in 1 .. i - 1 : before[j] = q[j]
  BY <1>1, <1>2, SubSeqProperties
<1>4. /\ after \in Seq(S) /\ Len(after) = n - i
      /\ \A j \in 1 .. n - i : after[j] = q[i + j]
  BY <1>1, <1>2, SubSeqProperties
<1>5. r = before \o after
  BY DEF RemoveAt
<1> HIDE DEF r, before, after, n
<1>6. /\ r \in Seq(S) /\ Len(r) = Len(before) + Len(after)
      /\ \A j \in 1 .. Len(before) + Len(after) :
            r[j] = IF j <= Len(before) THEN before[j] ELSE after[j - Len(before)]
  BY <1>3, <1>4, <1>5, ConcatProperties
<1>7. \A j \in 1 .. n - 1 : r[j] = IF j <= i - 1 THEN before[j] ELSE after[j - (i - 1)]
  BY <1>1, <1>3, <1>4, <1>6
<1>8. ASSUME NEW j \in 1 .. n, j < i PROVE r[j] = q[j]
  <2>1. j \in 1 .. n - 1 /\ j \in 1 .. i - 1 /\ j <= i - 1
    BY <1>1, <1>8
  <2> QED BY <2>1, <1>7, <1>3
<1>9. ASSUME NEW j \in 1 .. n, j > i PROVE r[j - 1] = q[j]
  <2>1. /\ j - 1 \in 1 .. n - 1 /\ ~(j - 1 <= i - 1)
        /\ (j - 1) - (i - 1) = j - i /\ j - i \in 1 .. n - i /\ i + (j - i) = j
    BY <1>1, <1>9
  <2>2. r[j - 1] = after[j - i]
    BY <2>1, <1>7
  <2>3. after[j - i] = q[i + (j - i)]
    BY <2>1, <1>4
  <2> QED BY <2>1, <2>2, <2>3
<1>10. Len(r) = n - 1
  BY <1>1, <1>3, <1>4, <1>6
<1> QED BY <1>6, <1>8, <1>9, <1>10 DEF r, n

\* Youngest drops d keys at the old end.
LEMMA YoungestProperties ==
    ASSUME NEW S, NEW q \in Seq(S), NEW max \in Nat \ {0}
    PROVE  /\ Youngest(q, max) \in Seq(S) /\ Len(Youngest(q, max)) <= max
           /\ Len(q) <= max => Youngest(q, max) = q
           /\ Len(Youngest(q, max)) <= Len(q)
           /\ \A j \in 1 .. Len(Youngest(q, max)) :
                  Youngest(q, max)[j] = q[j + (Len(q) - Len(Youngest(q, max)))]
           /\ q # <<>> => Youngest(q, max) # <<>>
<1> DEFINE r == Youngest(q, max)
           n == Len(q)
<1>0. n \in Nat /\ max \in Nat /\ max >= 1 /\ \A i \in 1 .. n : q[i] \in S
  BY LenProperties, ElementOfSeq
<1>1. CASE n <= max
  <2>1. r = q
    BY <1>1 DEF Youngest
  <2>2. Len(r) <= n /\ \A j \in 1 .. Len(r) : r[j] = q[j + (n - Len(r))]
    BY <1>0, <2>1
  <2> QED BY <1>1, <2>1, <2>2
<1>2. CASE ~(n <= max)
  <2> DEFINE d == n - max
  <2>1. r = SubSeq(q, d + 1, n)
    BY <1>2 DEF Youngest
  <2>2. /\ d \in Nat /\ d + 1 \in Int /\ n \in Int /\ n - (d + 1) + 1 = max /\ d + 1 <= n
        /\ \A i \in d + 1 .. n : q[i] \in S
    BY <1>0, <1>2
  <2> HIDE DEF d
  <2>3. /\ r \in Seq(S) /\ Len(r) = max
        /\ \A j \in 1 .. max : r[j] = q[(d + 1) + j - 1]
    BY <2>1, <2>2, SubSeqProperties
  <2>4. \A j \in 1 .. max : r[j] = q[j + d]
    <3> TAKE j \in 1 .. max
    <3>1. (d + 1) + j - 1 = j + d
      BY <2>2, <1>0
    <3> QED BY <3>1, <2>3
  <2>5. Len(r) + d = n
    BY <2>3, <1>0 DEF d
  <2>6. r # <<>>
    BY <2>3, <1>0, EmptySeq
  <2>7. Len(r) <= n /\ \A j \in 1 .. Len(r) : r[j] = q[j + (n - Len(r))]
    <3>1. n - Len(r) = d /\ Len(r) <= n
      BY <1>0, <2>2, <2>3, <2>5
    <3> QED BY <3>1, <2>3, <2>4
  <2>8. r \in Seq(S) /\ Len(r) <= max
    BY <2>3, <1>0
  <2> QED BY <1>2, <2>6, <2>7, <2>8
<1> QED BY <1>1, <1>2

-----------------------------------------------------------------------------
(* The mutators of the store.                                              *)

Records(s) == {s.failures[i] : i \in DOMAIN s.failures}

\* No key is twice in a table.
Keyed(s) ==
    /\ IsInjective(s.processed)
    /\ \A i, j \in DOMAIN s.failures : s.failures[i].id = s.failures[j].id => i = j

Dead(e, attempts, status) == [id |-> e, attempts |-> attempts, status |-> status]

LEMMA RecordsProperties ==
    ASSUME NEW s \in States
    PROVE  /\ Records(s) \subseteq FailureRecords
           /\ \A e : FailureRecorded(s, e) <=> \E r \in Records(s) : r.id = e
           /\ \A e : \/ Attempts(s, e) = 0
                     \/ \E r \in Records(s) : r.id = e /\ Attempts(s, e) = r.attempts
           /\ \A e : Attempts(s, e) \in Nat
<1>1. s.failures \in Seq(FailureRecords)
  BY DEF States
<1>2. Records(s) \subseteq FailureRecords
  BY <1>1, ElementOfSeq, LenProperties DEF Records
<1>3. \A e : FailureRecorded(s, e) <=> \E r \in Records(s) : r.id = e
  BY DEF FailureRecorded, Records
<1>4. ASSUME NEW e
      PROVE  \/ Attempts(s, e) = 0
             \/ \E r \in Records(s) : r.id = e /\ Attempts(s, e) = r.attempts
  BY DEF Attempts, FailureRecorded, Records
<1>5. \A r \in Records(s) : r.attempts \in Nat
  BY <1>2 DEF FailureRecords
<1> QED BY <1>2, <1>3, <1>4, <1>5

LEMMA ClearProperties ==
    ASSUME NEW s \in States, Keyed(s), NEW e \in Log
    PROVE  LET t == ClearEventFailure(s, e)
           IN  /\ t \in States /\ Keyed(t)
               /\ t.cursor = s.cursor /\ t.processed = s.processed
               /\ Len(t.failures) <= Len(s.failures)
               /\ Records(t) = {r \in Records(s) : r.id # e}
<1> DEFINE t == ClearEventFailure(s, e)
           q == s.failures
<1>0. q \in Seq(FailureRecords) /\ Len(q) \in Nat /\ DOMAIN q = 1 .. Len(q)
  BY LenProperties DEF States
<1>1. CASE ~FailureRecorded(s, e)
  <2>1. t = s
    BY <1>1 DEF ClearEventFailure
  <2>2. \A r \in Records(s) : r.id # e
    BY <1>1, RecordsProperties
  <2> QED BY <2>1, <2>2, <1>0
<1>2. CASE FailureRecorded(s, e)
  <2> DEFINE i == CHOOSE i \in DOMAIN q : q[i].id = e
             rest == RemoveAt(q, i)
  <2>1. i \in 1 .. Len(q) /\ q[i].id = e
    BY <1>2, <1>0 DEF FailureRecorded
  <2>2. t = [s EXCEPT !.failures = rest]
    BY <1>2 DEF ClearEventFailure
  <2> HIDE DEF i
  <2>3. /\ rest \in Seq(FailureRecords) /\ Len(rest) = Len(q) - 1
        /\ \A j \in 1 .. Len(q) : j < i => rest[j] = q[j]
        /\ \A j \in 1 .. Len(q) : j > i => rest[j - 1] = q[j]
    BY <1>0, <2>1, RemoveAtProperties
  <2> HIDE DEF rest, t
  <2>4. t \in States /\ t.cursor = s.cursor /\ t.processed = s.processed /\ t.failures = rest
    BY <2>2, <2>3 DEF States
  <2>5. DOMAIN rest = 1 .. Len(rest) /\ Len(rest) \in Nat
    BY <2>3, LenProperties
  <2>6. ASSUME NEW j \in 1 .. Len(rest)
        PROVE  LET k == IF j < i THEN j ELSE j + 1
               IN  k \in 1 .. Len(q) /\ k # i /\ rest[j] = q[k]
    <3>0. /\ Len(rest) = Len(q) - 1 /\ Len(q) \in Nat /\ i \in 1 .. Len(q)
          /\ j \in 1 .. Len(rest)
      BY <1>0, <2>1, <2>3, <2>6
    <3>1. CASE j < i
      <4>1. j \in 1 .. Len(q) /\ j # i
        BY <3>0, <3>1
      <4> QED BY <4>1, <3>1, <2>3
    <3>2. CASE ~(j < i)
      <4>1. j + 1 \in 1 .. Len(q) /\ j + 1 > i /\ (j + 1) - 1 = j /\ j + 1 # i
        BY <3>0, <3>2
      <4> QED BY <4>1, <3>2, <2>3
    <3> QED BY <3>1, <3>2
  <2>7. ASSUME NEW j \in 1 .. Len(rest), NEW k \in 1 .. Len(rest), rest[j].id = rest[k].id
        PROVE  j = k
    <3> DEFINE a == IF j < i THEN j ELSE j + 1
               b == IF k < i THEN k ELSE k + 1
    <3>1. a \in 1 .. Len(q) /\ b \in 1 .. Len(q) /\ q[a].id = q[b].id
      BY <2>6, <2>7
    <3>2. a = b
      BY <3>1, <1>0 DEF Keyed
    <3> QED BY <3>2, <2>1, <2>5
  <2>8. Keyed(t)
    BY <2>4, <2>5, <2>7 DEF Keyed
  <2>9. ASSUME NEW r \in Records(t) PROVE r \in Records(s) /\ r.id # e
    <3>1. PICK j \in 1 .. Len(rest) : r = rest[j]
      BY <2>4, <2>5 DEF Records
    <3>2. PICK k \in 1 .. Len(q) : k # i /\ r = q[k]
      BY <3>1, <2>6
    <3>3. r.id # e
      BY <3>2, <2>1, <1>0 DEF Keyed
    <3> QED BY <3>2, <3>3, <1>0 DEF Records
  <2>10. ASSUME NEW r \in Records(s), r.id # e PROVE r \in Records(t)
    <3>1. PICK j \in 1 .. Len(q) : r = q[j]
      BY <1>0 DEF Records
    <3>2. j # i
      BY <3>1, <2>1, <2>10
    <3>3. \E k \in 1 .. Len(rest) : rest[k] = r
      <4>1. CASE j < i
        BY <4>1, <3>1, <2>1, <2>3, <1>0
      <4>2. CASE j > i
        <5>1. j - 1 \in 1 .. Len(rest)
          BY <4>2, <2>1, <2>3, <1>0
        <5> QED BY <5>1, <4>2, <3>1, <2>3
      <4> QED BY <3>2, <4>1, <4>2, <2>1, <1>0
    <3> QED BY <3>3, <2>4, <2>5 DEF Records
  <2>11. Len(t.failures) <= Len(s.failures)
    BY <2>4, <2>3, <1>0
  <2> QED BY <2>4, <2>8, <2>9, <2>10, <2>11 DEF t
<1> QED BY <1>1, <1>2

\* The new record is the youngest.
LEMMA RefiledProperties ==
    ASSUME NEW s \in States, Keyed(s), NEW e \in Log,
           NEW attempts \in Nat, NEW status \in {"retrying", "quarantined"}
    PROVE  LET t == Refiled(s, e, attempts, status)
               new == Dead(e, attempts, status)
           IN  /\ t \in States /\ Keyed(t)
               /\ t.cursor = s.cursor /\ t.processed = s.processed
               /\ t.failures # <<>> /\ t.failures[Len(t.failures)] = new
               /\ Records(t) = {r \in Records(s) : r.id # e} \cup {new}
<1> DEFINE c == ClearEventFailure(s, e)
           new == Dead(e, attempts, status)
           t == Refiled(s, e, attempts, status)
           q == c.failures
<1>1. /\ c \in States /\ Keyed(c) /\ c.cursor = s.cursor /\ c.processed = s.processed
      /\ Records(c) = {r \in Records(s) : r.id # e}
  BY ClearProperties
<1>2. new \in FailureRecords /\ new.id = e
  BY DEF Dead, FailureRecords
<1>3. q \in Seq(FailureRecords) /\ Len(q) \in Nat /\ DOMAIN q = 1 .. Len(q)
  BY <1>1, LenProperties DEF States
<1>4. t = [c EXCEPT !.failures = Append(q, new)]
  BY DEF Refiled, Dead
<1> HIDE DEF c, new, t
<1> DEFINE w == Append(q, new)
<1>5. /\ w \in Seq(FailureRecords) /\ w # <<>> /\ Len(w) = Len(q) + 1
      /\ \A j \in 1 .. Len(q) : w[j] = q[j]
      /\ w[Len(q) + 1] = new
  BY <1>2, <1>3, AppendProperties
<1> HIDE DEF w
<1>6. t \in States /\ t.cursor = c.cursor /\ t.processed = c.processed /\ t.failures = w
  BY <1>1, <1>4, <1>5 DEF States, w
<1>7. DOMAIN w = 1 .. Len(q) + 1
  BY <1>5, LenProperties
<1>8. \A j \in 1 .. Len(q) : q[j] \in Records(c)
  BY <1>3 DEF Records
<1>9. \A j \in 1 .. Len(q) : w[j].id # e
  BY <1>8, <1>1, <1>5
<1>10. ASSUME NEW j \in 1 .. Len(q) + 1, NEW k \in 1 .. Len(q) + 1, w[j].id = w[k].id
       PROVE  j = k
  <2>1. CASE j \in 1 .. Len(q) /\ k \in 1 .. Len(q)
    BY <2>1, <1>1, <1>3, <1>5, <1>10 DEF Keyed
  <2>2. CASE j = Len(q) + 1 \/ k = Len(q) + 1
    BY <2>2, <1>2, <1>3, <1>5, <1>9, <1>10
  <2> QED BY <2>1, <2>2, <1>3
<1>11. Keyed(t)
  BY <1>1, <1>6, <1>7, <1>10 DEF Keyed
<1>12. Records(t) = Records(c) \cup {new}
  <2>1. ASSUME NEW r \in Records(t) PROVE r \in Records(c) \cup {new}
    <3>1. PICK j \in 1 .. Len(q) + 1 : r = w[j]
      BY <1>6, <1>7 DEF Records
    <3>2. CASE j \in 1 .. Len(q)
      BY <3>1, <3>2, <1>5, <1>8
    <3>3. CASE j = Len(q) + 1
      BY <3>1, <3>3, <1>5
    <3> QED BY <3>2, <3>3, <1>3
  <2>2. ASSUME NEW r \in Records(c) PROVE r \in Records(t)
    <3>1. PICK j \in 1 .. Len(q) : r = q[j]
      BY <1>3 DEF Records
    <3>2. j \in 1 .. Len(q) + 1 /\ w[j] = r
      BY <3>1, <1>3, <1>5
    <3> QED BY <3>2, <1>6, <1>7 DEF Records
  <2>3. new \in Records(t)
    <3>1. Len(q) + 1 \in 1 .. Len(q) + 1
      BY <1>3
    <3> QED BY <3>1, <1>5, <1>6, <1>7 DEF Records
  <2> QED BY <2>1, <2>2, <2>3
<1>13. t.failures # <<>> /\ t.failures[Len(t.failures)] = new
  BY <1>5, <1>6
<1> QED BY <1>1, <1>6, <1>11, <1>12, <1>13 DEF t, new

LEMMA AdvancedProperties ==
    ASSUME NEW s \in States, Keyed(s), NEW e \in Log
    PROVE  LET t == Advanced(s, e)
           IN  /\ t \in States /\ Keyed(t)
               /\ t.cursor = e /\ t.failures = s.failures
               /\ \A x : Processed(t, x) <=> x = e \/ Processed(s, x)
<1> DEFINE t == Advanced(s, e)
           q == s.processed
<1>0. q \in Seq(Log) /\ Len(q) \in Nat /\ DOMAIN q = 1 .. Len(q)
  BY LenProperties DEF States
<1>1. e \in 0 .. Events
  BY StoreAssumption DEF Log
<1>2. CASE Processed(s, e)
  <2>1. t = [s EXCEPT !.cursor = e, !.processed = q]
    BY <1>2 DEF Advanced
  <2>2. t \in States /\ t.cursor = e /\ t.failures = s.failures /\ t.processed = q
    BY <2>1, <1>1 DEF States
  <2> QED BY <2>2, <1>2 DEF Keyed, Processed
<1>3. CASE ~Processed(s, e)
  <2> DEFINE w == Append(q, e)
  <2>1. t = [s EXCEPT !.cursor = e, !.processed = w]
    BY <1>3 DEF Advanced
  <2>2. /\ w \in Seq(Log) /\ Len(w) = Len(q) + 1
        /\ \A j \in 1 .. Len(q) : w[j] = q[j]
        /\ w[Len(q) + 1] = e
    BY <1>0, AppendProperties
  <2> HIDE DEF w, t
  <2>3. t \in States /\ t.cursor = e /\ t.failures = s.failures /\ t.processed = w
    BY <2>1, <2>2, <1>1 DEF States
  <2>4. DOMAIN w = 1 .. Len(q) + 1 /\ \A j \in 1 .. Len(q) : q[j] # e
    BY <2>2, <1>3, LenProperties DEF Processed, Contains
  <2>5. ASSUME NEW j \in 1 .. Len(q) + 1, NEW k \in 1 .. Len(q) + 1, w[j] = w[k]
        PROVE  j = k
    <3>1. CASE j \in 1 .. Len(q) /\ k \in 1 .. Len(q)
      BY <3>1, <1>0, <2>2, <2>5 DEF Keyed, IsInjective
    <3>2. CASE j = Len(q) + 1 \/ k = Len(q) + 1
      BY <3>2, <1>0, <2>2, <2>4, <2>5
    <3> QED BY <3>1, <3>2, <1>0
  <2>6. Keyed(t)
    BY <2>3, <2>4, <2>5 DEF Keyed, IsInjective
  <2>7. ASSUME NEW x PROVE Processed(t, x) <=> x = e \/ Processed(s, x)
    <3>1. Processed(t, x) <=> \E j \in 1 .. Len(q) + 1 : w[j] = x
      BY <2>2, <2>3 DEF Processed, Contains
    <3>2. (\E j \in 1 .. Len(q) + 1 : w[j] = x) <=> x = e \/ \E j \in 1 .. Len(q) : q[j] = x
      <4>1. \A j \in 1 .. Len(q) : j \in 1 .. Len(q) + 1
        BY <1>0
      <4>2. Len(q) + 1 \in 1 .. Len(q) + 1
        BY <1>0
      <4>3. \A j \in 1 .. Len(q) + 1 : j = Len(q) + 1 \/ j \in 1 .. Len(q)
        BY <1>0
      <4> QED BY <2>2, <4>1, <4>2, <4>3
    <3> QED BY <3>1, <3>2 DEF Processed, Contains
  <2> QED BY <2>3, <2>6, <2>7 DEF t
<1> QED BY <1>2, <1>3

\* Pruning loses old keys, and only when a table is over its bound; the youngest
\* record of a failure stays.
LEMMA PrunedProperties ==
    ASSUME NEW s \in States, Keyed(s)
    PROVE  LET t == Pruned(s)
           IN  /\ t \in States /\ WellFormed(t)
               /\ t.cursor = s.cursor
               /\ Records(t) \subseteq Records(s)
               /\ Len(s.failures) <= MaxFailures => t.failures = s.failures
               /\ s.failures # <<>> => s.failures[Len(s.failures)] \in Records(t)
               /\ \A x : Processed(t, x) => Processed(s, x)
               /\ Len(s.processed) <= MaxProcessed => t.processed = s.processed
<1> DEFINE t == Pruned(s)
           q == s.processed
           r == s.failures
           yq == Youngest(q, MaxProcessed)
           yr == Youngest(r, MaxFailures)
<1>0. /\ q \in Seq(Log) /\ Len(q) \in Nat /\ DOMAIN q = 1 .. Len(q)
      /\ r \in Seq(FailureRecords) /\ Len(r) \in Nat /\ DOMAIN r = 1 .. Len(r)
  BY LenProperties DEF States
<1>1. MaxProcessed \in Nat \ {0} /\ MaxFailures \in Nat \ {0}
  BY StoreAssumption
<1>2. /\ yq \in Seq(Log) /\ Len(yq) <= MaxProcessed /\ (Len(q) <= MaxProcessed => yq = q)
      /\ Len(yq) <= Len(q) /\ \A j \in 1 .. Len(yq) : yq[j] = q[j + (Len(q) - Len(yq))]
  BY <1>0, <1>1, YoungestProperties
<1>3. /\ yr \in Seq(FailureRecords) /\ Len(yr) <= MaxFailures /\ (Len(r) <= MaxFailures => yr = r)
      /\ Len(yr) <= Len(r) /\ \A j \in 1 .. Len(yr) : yr[j] = r[j + (Len(r) - Len(yr))]
      /\ r # <<>> => yr # <<>>
  BY <1>0, <1>1, YoungestProperties
<1>4. t = [s EXCEPT !.processed = yq, !.failures = yr]
  BY DEF Pruned
<1> HIDE DEF t, yq, yr
<1>5. t \in States /\ t.cursor = s.cursor /\ t.processed = yq /\ t.failures = yr
  BY <1>2, <1>3, <1>4 DEF States
<1>6. /\ Len(yq) \in Nat /\ DOMAIN yq = 1 .. Len(yq)
      /\ Len(yr) \in Nat /\ DOMAIN yr = 1 .. Len(yr)
  BY <1>2, <1>3, LenProperties
<1>7. PICK d \in Nat : Len(yq) + d = Len(q) /\ \A j \in 1 .. Len(yq) : yq[j] = q[j + d]
  <2>1. Len(q) - Len(yq) \in Nat /\ Len(yq) + (Len(q) - Len(yq)) = Len(q)
    BY <1>0, <1>2, <1>6
  <2> QED BY <2>1, <1>2
<1>8. PICK c \in Nat : Len(yr) + c = Len(r) /\ \A j \in 1 .. Len(yr) : yr[j] = r[j + c]
  <2>1. Len(r) - Len(yr) \in Nat /\ Len(yr) + (Len(r) - Len(yr)) = Len(r)
    BY <1>0, <1>3, <1>6
  <2> QED BY <2>1, <1>3
<1>9. \A j \in 1 .. Len(yq) : j + d \in 1 .. Len(q)
  BY <1>6, <1>7
<1>10. \A j \in 1 .. Len(yr) : j + c \in 1 .. Len(r)
  BY <1>6, <1>8
<1>11. IsInjective(yq)
  <2> SUFFICES ASSUME NEW j \in 1 .. Len(yq), NEW k \in 1 .. Len(yq), yq[j] = yq[k]
               PROVE  j = k
    BY <1>6 DEF IsInjective
  <2>1. j + d = k + d
    <3>1. j + d \in 1 .. Len(q) /\ k + d \in 1 .. Len(q) /\ q[j + d] = q[k + d]
      BY <1>7, <1>9
    <3> QED BY <1>0, <3>1 DEF Keyed, IsInjective
  <2> QED BY <2>1, <1>6
<1>12. \A j, k \in 1 .. Len(yr) : yr[j].id = yr[k].id => j = k
  <2> SUFFICES ASSUME NEW j \in 1 .. Len(yr), NEW k \in 1 .. Len(yr), yr[j].id = yr[k].id
               PROVE  j = k
    OBVIOUS
  <2>1. j + c = k + c
    <3>1. j + c \in 1 .. Len(r) /\ k + c \in 1 .. Len(r) /\ r[j + c].id = r[k + c].id
      BY <1>8, <1>10
    <3> QED BY <1>0, <3>1 DEF Keyed
  <2> QED BY <2>1, <1>6
<1>13. WellFormed(t)
  BY <1>2, <1>3, <1>5, <1>6, <1>11, <1>12 DEF WellFormed
<1>14. ASSUME NEW x \in Records(t) PROVE x \in Records(s)
  <2>1. PICK j \in 1 .. Len(yr) : x = yr[j]
    BY <1>5, <1>6 DEF Records
  <2> QED BY <2>1, <1>0, <1>8, <1>10 DEF Records
<1>15. ASSUME r # <<>> PROVE r[Len(r)] \in Records(t)
  <2>1. Len(yr) \in 1 .. Len(yr)
    BY <1>3, <1>6, <1>15, EmptySeq
  <2>2. yr[Len(yr)] = r[Len(r)]
    BY <2>1, <1>8
  <2> QED BY <2>1, <2>2, <1>5, <1>6 DEF Records
<1>16. ASSUME NEW x, Processed(t, x) PROVE Processed(s, x)
  <2>1. PICK j \in 1 .. Len(yq) : x = yq[j]
    BY <1>5, <1>16 DEF Processed, Contains
  <2> QED BY <2>1, <1>7, <1>9 DEF Processed, Contains
<1> QED BY <1>2, <1>3, <1>5, <1>13, <1>14, <1>15, <1>16 DEF t

\* A table with unique keys is no longer than the set of its keys.
LEMMA TablesAreSmall ==
    ASSUME NEW s \in States, Keyed(s)
    PROVE  /\ Len(s.processed) <= Events
           /\ \A K : /\ IsFiniteSet(K) /\ \A r \in Records(s) : r.id \in K
                     => Len(s.failures) <= Cardinality(K)
<1>1. ASSUME NEW n \in Nat PROVE IsFiniteSet(1 .. n) /\ Cardinality(1 .. n) = n
  <2>1. 1 \in Int /\ n \in Int /\ (1 > n <=> n = 0) /\ n - 1 + 1 = n
    OBVIOUS
  <2>2. /\ IsFiniteSet(1 .. n)
        /\ Cardinality(1 .. n) = IF 1 > n THEN 0 ELSE n - 1 + 1
    BY <2>1, FS_Interval
  <2> QED BY <2>1, <2>2
<1>0. Events \in Nat /\ IsFiniteSet(Log) /\ Cardinality(Log) = Events
  BY <1>1, StoreAssumption DEF Log
<1>2. Len(s.processed) <= Events
  <2> DEFINE q == s.processed
  <2>1. q \in [1 .. Len(q) -> Log] /\ Len(q) \in Nat
    BY LenProperties DEF States
  <2>2. q \in Injection(1 .. Len(q), Log)
    BY <2>1 DEF Injection, IsInjective, Keyed
  <2> QED BY <1>0, <1>1, <2>1, <2>2, FS_Injection
<1>3. ASSUME NEW K, IsFiniteSet(K), \A r \in Records(s) : r.id \in K
      PROVE  Len(s.failures) <= Cardinality(K)
  <2> DEFINE n == Len(s.failures)
             f == [i \in 1 .. n |-> s.failures[i].id]
  <2>1. n \in Nat /\ DOMAIN s.failures = 1 .. n
    BY LenProperties DEF States
  <2>2. f \in [1 .. n -> K]
    BY <1>3, <2>1 DEF Records
  <2>3. \A i, j \in 1 .. n : f[i] = f[j] => i = j
    BY <2>1 DEF Keyed
  <2> HIDE DEF f
  <2>4. f \in Injection(1 .. n, K)
    BY <2>2, <2>3 DEF Injection, IsInjective
  <2> QED BY <1>1, <1>3, <2>1, <2>4, FS_Injection
<1> QED BY <1>2, <1>3

LEMMA WellFormedIsKeyed == \A s \in States : WellFormed(s) => Keyed(s)
BY DEF WellFormed, Keyed

\* The mutation of this stage moves the cursor to its event.
Passes(stage, s, e) ==
    \/ stage \in {"quarantining", "committing"}
    \/ stage = "failing" /\ Quarantines(s, e)

\* What the mutation of a stage does to the state s, given the event e.
Effect(stage, s, t, e) ==
    /\ t \in States /\ WellFormed(t)
    /\ t.cursor = IF Passes(stage, s, e) THEN e ELSE s.cursor
    /\ \A x : Processed(t, x) => Processed(s, x) \/ (x = e /\ Passes(stage, s, e))
    /\ Events <= MaxProcessed =>
         \A x : Processed(s, x) \/ (x = e /\ Passes(stage, s, e)) => Processed(t, x)
    /\ \A r \in Records(t) :
         \/ r \in Records(s) /\ (r.id = e => stage = "committing")
         \/ stage = "quarantining" /\ r = Dead(e, 0, "quarantined")
         \/ stage = "failing" /\ r.id = e /\ r.attempts = Attempts(s, e) + 1
    /\ stage \in {"quarantining", "failing"} => \E r \in Records(t) : r.id = e
    /\ \A K : /\ IsFiniteSet(K) /\ Cardinality(K) <= MaxFailures
              /\ stage \in {"quarantining", "failing"} => e \in K
              /\ \A r \in Records(s) : r.id \in K
              => \A r \in Records(s) : r.id # e \/ stage = "committing" => r \in Records(t)

LEMMA AdvanceEffect ==
    ASSUME NEW s \in States, Keyed(s), NEW e \in Log
    PROVE  LET t == Pruned(Advanced(s, e))
           IN  /\ t \in States /\ WellFormed(t) /\ t.cursor = e
               /\ \A x : Processed(t, x) => x = e \/ Processed(s, x)
               /\ Events <= MaxProcessed => \A x : x = e \/ Processed(s, x) => Processed(t, x)
               /\ Records(t) \subseteq Records(s)
               /\ s.failures # <<>> => s.failures[Len(s.failures)] \in Records(t)
               /\ Len(s.failures) <= MaxFailures => Records(t) = Records(s)
<1> DEFINE a == Advanced(s, e)
           t == Pruned(a)
<1>1. /\ a \in States /\ Keyed(a) /\ a.cursor = e /\ a.failures = s.failures
      /\ \A x : Processed(a, x) <=> x = e \/ Processed(s, x)
  BY AdvancedProperties
<1> HIDE DEF a
<1>2. /\ t \in States /\ WellFormed(t) /\ t.cursor = a.cursor
      /\ Records(t) \subseteq Records(a)
      /\ Len(a.failures) <= MaxFailures => t.failures = a.failures
      /\ a.failures # <<>> => a.failures[Len(a.failures)] \in Records(t)
      /\ \A x : Processed(t, x) => Processed(a, x)
      /\ Len(a.processed) <= MaxProcessed => t.processed = a.processed
  BY <1>1, PrunedProperties
<1> HIDE DEF t
<1>3. Len(a.processed) <= Events /\ Len(a.processed) \in Nat
  BY <1>1, TablesAreSmall, LenProperties DEF States
<1>4. ASSUME Events <= MaxProcessed PROVE t.processed = a.processed
  BY <1>2, <1>3, <1>4, StoreAssumption
<1>5. Records(a) = Records(s)
  BY <1>1 DEF Records
<1>6. Len(s.failures) <= MaxFailures => Records(t) = Records(s)
  BY <1>1, <1>2 DEF Records
<1>7. ASSUME Events <= MaxProcessed, NEW x, x = e \/ Processed(s, x) PROVE Processed(t, x)
  BY <1>1, <1>4, <1>7 DEF Processed
<1> QED BY <1>1, <1>2, <1>5, <1>6, <1>7 DEF t, a

LEMMA CommitEffect ==
    ASSUME NEW s \in States, WellFormed(s), NEW e \in Log
    PROVE  Effect("committing", s, CommitEventCursor(s, e), e)
<1>1. Keyed(s) /\ Len(s.failures) <= MaxFailures
  BY WellFormedIsKeyed DEF WellFormed
<1>2. Passes("committing", s, e)
  BY DEF Passes
<1> DEFINE t == CommitEventCursor(s, e)
<1>3. /\ t \in States /\ WellFormed(t) /\ t.cursor = e
      /\ \A x : Processed(t, x) => x = e \/ Processed(s, x)
      /\ Events <= MaxProcessed => \A x : x = e \/ Processed(s, x) => Processed(t, x)
      /\ Records(t) = Records(s)
  BY <1>1, AdvanceEffect DEF CommitEventCursor
<1> HIDE DEF t
<1> QED BY <1>2, <1>3 DEF Effect, t

\* The table with the new record is pruned only when more keys failed than it holds.
LEMMA RefiledIsSmall ==
    ASSUME NEW s \in States, Keyed(s), NEW e \in Log,
           NEW attempts \in Nat, NEW status \in {"retrying", "quarantined"},
           NEW K, IsFiniteSet(K), Cardinality(K) <= MaxFailures, e \in K,
           \A r \in Records(s) : r.id \in K
    PROVE  Len(Refiled(s, e, attempts, status).failures) <= MaxFailures
<1> DEFINE f == Refiled(s, e, attempts, status)
<1>1. /\ f \in States /\ Keyed(f)
      /\ Records(f) = {r \in Records(s) : r.id # e} \cup {Dead(e, attempts, status)}
  BY RefiledProperties
<1> HIDE DEF f
<1>2. \A r \in Records(f) : r.id \in K
  BY <1>1 DEF Dead
<1>3. Len(f.failures) <= Cardinality(K)
  BY <1>1, <1>2, TablesAreSmall
<1>4. Len(f.failures) \in Nat /\ Cardinality(K) \in Nat /\ MaxFailures \in Nat
  BY <1>1, LenProperties, FS_CardinalityType, StoreAssumption DEF States
<1> QED BY <1>3, <1>4 DEF f

LEMMA DeadLetterEffect ==
    ASSUME NEW s \in States, WellFormed(s), NEW e \in Log, NEW attempts \in Nat
    PROVE  LET t == Pruned(Advanced(Refiled(s, e, attempts, "quarantined"), e))
               new == Dead(e, attempts, "quarantined")
           IN  /\ t \in States /\ WellFormed(t) /\ t.cursor = e
               /\ \A x : Processed(t, x) => x = e \/ Processed(s, x)
               /\ Events <= MaxProcessed => \A x : x = e \/ Processed(s, x) => Processed(t, x)
               /\ Records(t) \subseteq {r \in Records(s) : r.id # e} \cup {new}
               /\ new \in Records(t)
               /\ \A K : /\ IsFiniteSet(K) /\ Cardinality(K) <= MaxFailures
                         /\ e \in K /\ \A r \in Records(s) : r.id \in K
                         => \A r \in Records(s) : r.id # e => r \in Records(t)
<1> DEFINE f == Refiled(s, e, attempts, "quarantined")
           new == Dead(e, attempts, "quarantined")
           t == Pruned(Advanced(f, e))
<1>0. Keyed(s)
  BY WellFormedIsKeyed
<1>1. /\ f \in States /\ Keyed(f) /\ f.processed = s.processed
      /\ f.failures # <<>> /\ f.failures[Len(f.failures)] = new
      /\ Records(f) = {r \in Records(s) : r.id # e} \cup {new}
  BY <1>0, RefiledProperties
<1>2. \A K : /\ IsFiniteSet(K) /\ Cardinality(K) <= MaxFailures
             /\ e \in K /\ \A r \in Records(s) : r.id \in K
             => Len(f.failures) <= MaxFailures
  BY <1>0, RefiledIsSmall
<1> HIDE DEF f
<1>3. /\ t \in States /\ WellFormed(t) /\ t.cursor = e
      /\ \A x : Processed(t, x) => x = e \/ Processed(f, x)
      /\ Events <= MaxProcessed => \A x : x = e \/ Processed(f, x) => Processed(t, x)
      /\ Records(t) \subseteq Records(f)
      /\ f.failures[Len(f.failures)] \in Records(t)
      /\ Len(f.failures) <= MaxFailures => Records(t) = Records(f)
  BY <1>1, AdvanceEffect
<1> HIDE DEF t, new
<1>4. \A x : Processed(f, x) <=> Processed(s, x)
  BY <1>1 DEF Processed
<1> QED BY <1>1, <1>2, <1>3, <1>4 DEF t, new, f

LEMMA QuarantineEffect ==
    ASSUME NEW s \in States, WellFormed(s), NEW e \in Log
    PROVE  Effect("quarantining", s, QuarantineLegacyEvent(s, e), e)
<1>1. Passes("quarantining", s, e)
  BY DEF Passes
<1> DEFINE t == QuarantineLegacyEvent(s, e)
           new == Dead(e, 0, "quarantined")
<1>2. /\ t \in States /\ WellFormed(t) /\ t.cursor = e
      /\ \A x : Processed(t, x) => x = e \/ Processed(s, x)
      /\ Events <= MaxProcessed => \A x : x = e \/ Processed(s, x) => Processed(t, x)
      /\ Records(t) \subseteq {r \in Records(s) : r.id # e} \cup {new}
      /\ new \in Records(t)
      /\ \A K : /\ IsFiniteSet(K) /\ Cardinality(K) <= MaxFailures
                /\ e \in K /\ \A r \in Records(s) : r.id \in K
                => \A r \in Records(s) : r.id # e => r \in Records(t)
  BY DeadLetterEffect DEF QuarantineLegacyEvent
<1>3. new.id = e
  BY DEF Dead
<1> HIDE DEF t, new
<1>4. \A r \in Records(t) : (r \in Records(s) /\ r.id # e) \/ r = new
  BY <1>2
<1> QED BY <1>1, <1>2, <1>3, <1>4 DEF Effect, t, new

LEMMA FailureEffect ==
    ASSUME NEW s \in States, WellFormed(s), NEW e \in Log
    PROVE  Effect("failing", s, RecordEventFailure(s, e), e)
<1> DEFINE t == RecordEventFailure(s, e)
           n == Attempts(s, e) + 1
<1>0. Keyed(s) /\ Len(s.processed) <= MaxProcessed /\ n \in Nat
  BY WellFormedIsKeyed, RecordsProperties DEF WellFormed
<1>1. Passes("failing", s, e) <=> Quarantines(s, e)
  BY DEF Passes
<1>2. CASE Quarantines(s, e)
  <2> DEFINE new == Dead(e, n, "quarantined")
  <2>1. t = Pruned(Advanced(Refiled(s, e, n, "quarantined"), e))
    BY <1>2 DEF RecordEventFailure
  <2>5. new.id = e /\ new.attempts = n
    BY DEF Dead
  <2> HIDE DEF t, n
  <2>2. /\ t \in States /\ WellFormed(t) /\ t.cursor = e
        /\ \A x : Processed(t, x) => x = e \/ Processed(s, x)
        /\ Events <= MaxProcessed => \A x : x = e \/ Processed(s, x) => Processed(t, x)
        /\ Records(t) \subseteq {r \in Records(s) : r.id # e} \cup {new}
        /\ new \in Records(t)
        /\ \A K : /\ IsFiniteSet(K) /\ Cardinality(K) <= MaxFailures
                  /\ e \in K /\ \A r \in Records(s) : r.id \in K
                  => \A r \in Records(s) : r.id # e => r \in Records(t)
    BY <2>1, <1>0, DeadLetterEffect
  <2> HIDE DEF new
  <2>3. \A r \in Records(t) : (r \in Records(s) /\ r.id # e) \/ (r.id = e /\ r.attempts = n)
    BY <2>2, <2>5
  <2> QED BY <1>1, <1>2, <2>2, <2>3, <2>5 DEF Effect, t, n
<1>3. CASE ~Quarantines(s, e)
  <2> DEFINE f == Refiled(s, e, n, "retrying")
             new == Dead(e, n, "retrying")
  <2>1. t = Pruned(f)
    BY <1>3 DEF RecordEventFailure
  <2>2. new.id = e /\ new.attempts = n
    BY DEF Dead
  <2> HIDE DEF t, n
  <2>3. /\ f \in States /\ Keyed(f) /\ f.cursor = s.cursor /\ f.processed = s.processed
        /\ f.failures # <<>> /\ f.failures[Len(f.failures)] = new
        /\ Records(f) = {r \in Records(s) : r.id # e} \cup {new}
    BY <1>0, RefiledProperties
  <2>4. \A K : /\ IsFiniteSet(K) /\ Cardinality(K) <= MaxFailures
               /\ e \in K /\ \A r \in Records(s) : r.id \in K
               => Len(f.failures) <= MaxFailures
    BY <1>0, RefiledIsSmall
  <2> HIDE DEF f, new
  <2>5. /\ t \in States /\ WellFormed(t) /\ t.cursor = s.cursor
        /\ Records(t) \subseteq Records(f) /\ new \in Records(t)
        /\ Len(f.failures) <= MaxFailures => t.failures = f.failures
        /\ t.processed = s.processed
    BY <2>1, <2>3, <1>0, PrunedProperties
  <2>6. \A x : Processed(t, x) <=> Processed(s, x)
    BY <2>5 DEF Processed
  <2>7. Len(f.failures) <= MaxFailures => Records(t) = Records(f)
    BY <2>5 DEF Records
  <2>8. \A r \in Records(t) : (r \in Records(s) /\ r.id # e) \/ (r.id = e /\ r.attempts = n)
    BY <2>2, <2>3, <2>5
  <2>9. \A K : /\ IsFiniteSet(K) /\ Cardinality(K) <= MaxFailures
               /\ e \in K /\ \A r \in Records(s) : r.id \in K
               => \A r \in Records(s) : r.id # e => r \in Records(t)
    BY <2>3, <2>4, <2>7
  <2> QED BY <1>1, <1>3, <2>2, <2>5, <2>6, <2>8, <2>9 DEF Effect, t, n
<1> QED BY <1>2, <1>3

LEMMA ClearEffect ==
    ASSUME NEW s \in States, WellFormed(s), NEW e \in Log
    PROVE  Effect("clearing", s, ClearEventFailure(s, e), e)
<1>0. Keyed(s) /\ Len(s.processed) <= MaxProcessed /\ Len(s.failures) <= MaxFailures
  BY WellFormedIsKeyed DEF WellFormed
<1>1. ~Passes("clearing", s, e)
  BY DEF Passes
<1> DEFINE t == ClearEventFailure(s, e)
<1>2. /\ t \in States /\ Keyed(t) /\ t.cursor = s.cursor /\ t.processed = s.processed
      /\ Len(t.failures) <= Len(s.failures)
      /\ Records(t) = {r \in Records(s) : r.id # e}
  BY <1>0, ClearProperties
<1> HIDE DEF t
<1>3. Len(t.failures) <= MaxFailures
  <2>1. Len(t.failures) \in Nat /\ Len(s.failures) \in Nat /\ MaxFailures \in Nat
    BY <1>2, LenProperties, StoreAssumption DEF States
  <2> QED BY <2>1, <1>0, <1>2
<1>4. WellFormed(t)
  BY <1>0, <1>2, <1>3 DEF WellFormed, Keyed
<1>5. \A x : Processed(t, x) <=> Processed(s, x)
  BY <1>2 DEF Processed
<1> QED BY <1>1, <1>2, <1>4, <1>5 DEF Effect, t

-----------------------------------------------------------------------------
(* The invariant.                                                          *)

PollType == [at : Stages, cursor : 0 .. Events, left : Seq(Log), more : BOOLEAN]

Calm == {"idle", "reading"}

Sound(x) ==
    /\ x.left # <<>> <=> x.at \notin Calm
    /\ \A i \in 1 .. Len(x.left) : x.left[i] = x.cursor + i

\* Every poll knows the records after its cursor, in the order of the log.
Typed == TypeOK /\ \A p \in Pollers : Sound(poll[p])

\* A poll is at a stage only with an event of the kind the stage is for.
Fits(x) ==
    /\ x.at = "quarantining" => Head(x.left) \in Legacy
    /\ x.at = "failing" => Head(x.left) \notin Legacy
    /\ x.at = "handling" => Head(x.left) \in Directed
    /\ x.at \in {"clearing", "handling"} => Head(x.left) \notin Legacy \cup Broken
    /\ x.at = "committing" => Head(x.left) \notin Broken

StagesFit == \A p \in Pollers : Fits(poll[p])

Settled(e) == e \in Directed => e \in handled \cup quarantined

\* No cursor, in memory, on disk or of a poll, is past work that is not settled,
\* no ledger names such work and no poll commits it.
WorkIsSettled ==
    /\ \A e \in Log : e <= mem.cursor => Settled(e)
    /\ \A e \in Log : e <= disk.cursor => Settled(e)
    /\ \A p \in Pollers, e \in Log : e <= poll[p].cursor => Settled(e)
    /\ \A e \in Log : Processed(mem, e) \/ Processed(disk, e) => Settled(e)
    /\ \A p \in Pollers : poll[p].at = "committing" => Settled(Record(p))

\* The polls that are about to count a failure of e.
Failing(e) == {p \in Pollers : poll[p].at = "failing" /\ Record(p) = e}

\* Every attempt that is counted, or about to be, was one.
AttemptsAreReal ==
    /\ \A e \in Log : Cardinality(Failing(e)) <= failures[e]
    /\ \A r \in Records(mem) : r.attempts + Cardinality(Failing(r.id)) <= failures[r.id]
    /\ \A r \in Records(disk) : r.attempts <= failures[r.id]
    /\ \A e \in quarantined \ Legacy : failures[e] >= MaxEventFailures

\* The events that ever failed.
Struck == {e \in Log : e \in quarantined \/ failures[e] > 0}

OnlyStruckAreFiled ==
    /\ \A r \in Records(mem) : r.id \in Struck
    /\ \A r \in Records(disk) : r.id \in Struck
    /\ \A p \in Pollers : poll[p].at = "failing" => Record(p) \in Struck

\* While no two polls have overlapped, the one in progress is where the cursor
\* is, and what the ledger names or was committed lies behind it.
Uncontested ==
    ~overlapped =>
        /\ \A p, q \in Pollers : poll[p].at # "idle" /\ poll[q].at # "idle" => p = q
        /\ \A p \in Pollers : poll[p].at # "idle" => poll[p].cursor = mem.cursor
        /\ \A e \in Log : Processed(mem, e) => e <= mem.cursor
        /\ \A e \in Log : Processed(disk, e) => e <= disk.cursor
        /\ \A e \in committed : e <= mem.cursor /\ e <= disk.cursor
        /\ \A p \in Pollers : poll[p].at = "committing" => ~Unsettled(Record(p))

DeadLettersAreFiled ==
    ~overlapped /\ Cardinality(Struck) <= MaxFailures =>
        \A e \in quarantined :
            Unsettled(e) => /\ e <= mem.cursor => FailureRecorded(mem, e)
                            /\ e <= disk.cursor => FailureRecorded(disk, e)

CommittedIsKept ==
    Events <= MaxProcessed => \A e \in committed : Processed(mem, e) /\ Processed(disk, e)

PollsInv ==
    /\ Typed /\ StagesFit /\ WorkIsSettled /\ AttemptsAreReal
    /\ OnlyStruckAreFiled /\ Uncontested /\ DeadLettersAreFiled /\ CommittedIsKept

-----------------------------------------------------------------------------
(* How a poll moves.                                                       *)

\* The poll of p becomes x, and no other poll changes.
Moved(p, x) ==
    /\ x \in PollType /\ Sound(x)
    /\ poll' = [poll EXCEPT ![p] = x]

LEMMA RecordProperties ==
    ASSUME Typed, NEW p \in Pollers, poll[p].at \notin Calm
    PROVE  /\ Record(p) \in Log /\ Record(p) = poll[p].cursor + 1
           /\ poll[p].left \in Seq(Log) /\ poll[p].left # <<>>
<1>1. poll[p].left \in Seq(Log) /\ poll[p].left # <<>>
  BY DEF Typed, TypeOK, Sound
<1>2. 1 \in 1 .. Len(poll[p].left)
  BY <1>1, EmptySeq
<1>3. Record(p) = poll[p].left[1]
  BY DEF Record
<1> QED BY <1>1, <1>2, <1>3, ElementOfSeq DEF Typed, Sound

LEMMA NoPollIsSound == NoPoll \in PollType /\ Sound(NoPoll)
<1>1. <<>> \in Seq(Log) /\ Len(<<>>) = 0
  BY EmptySeq
<1>2. 0 \in 0 .. Events
  BY StoreAssumption
<1> QED BY <1>1, <1>2 DEF NoPoll, PollType, Sound, Calm, Stages

LEMMA ReadingIsSound ==
    ASSUME NEW c \in 0 .. Events
    PROVE  LET x == [NoPoll EXCEPT !.at = "reading", !.cursor = c]
           IN  x \in PollType /\ Sound(x) /\ x.at = "reading" /\ x.cursor = c
<1> DEFINE x == [NoPoll EXCEPT !.at = "reading", !.cursor = c]
<1>1. Len(<<>>) = 0
  BY EmptySeq
<1>2. NoPoll \in PollType /\ NoPoll.left = <<>>
  BY NoPollIsSound DEF NoPoll
<1>4. x \in PollType /\ x.at = "reading" /\ x.cursor = c /\ x.left = <<>>
  BY <1>2 DEF PollType, Stages
<1> HIDE DEF x
<1>5. Sound(x)
  BY <1>1, <1>4 DEF Sound, Calm
<1> QED BY <1>4, <1>5 DEF x

LEMMA StopMoves ==
    ASSUME NEW p \in Pollers, Rejects(p) \/ Resolves(p)
    PROVE  Moved(p, NoPoll)
BY NoPollIsSound DEF Rejects, Resolves, Moved

LEMMA GoMoves ==
    ASSUME Typed, NEW p \in Pollers, poll[p].at \notin Calm,
           NEW stage \in Stages \ Calm, Goes(p, stage)
    PROVE  LET x == [poll[p] EXCEPT !.at = stage]
           IN  /\ Moved(p, x) /\ x.at = stage
               /\ x.cursor = poll[p].cursor /\ x.left = poll[p].left
<1> DEFINE x == [poll[p] EXCEPT !.at = stage]
<1>1. poll[p] \in PollType /\ Sound(poll[p]) /\ poll \in [Pollers -> PollType]
  BY DEF Typed, TypeOK, PollType
<1>2. /\ x \in PollType /\ x.at = stage
      /\ x.cursor = poll[p].cursor /\ x.left = poll[p].left
  BY <1>1 DEF PollType
<1>3. poll' = [poll EXCEPT ![p] = x]
  BY <1>1 DEF Goes
<1> HIDE DEF x
<1>4. Sound(x)
  BY <1>1, <1>2 DEF Sound
<1> QED BY <1>2, <1>3, <1>4 DEF Moved, x

LEMMA StartMoves ==
    ASSUME Typed, NEW p \in Pollers, PollStart(p)
    PROVE  LET x == [NoPoll EXCEPT !.at = "reading", !.cursor = mem.cursor]
           IN  Moved(p, x) /\ x.at = "reading" /\ x.cursor = mem.cursor
<1>1. mem.cursor \in 0 .. Events
  BY DEF Typed, TypeOK, States
<1> QED BY <1>1, ReadingIsSound DEF PollStart, Moved

LEMMA StepsOnMoves ==
    ASSUME Typed, NEW p \in Pollers, poll[p].at \notin Calm, StepsOn(p)
    PROVE  \E x : /\ Moved(p, x)
                  /\ \/ x = NoPoll
                     \/ x.at \in {"reading", "next"} /\ x.cursor = Record(p)
<1> DEFINE y == poll[p]
           n == Len(y.left)
<1>1. /\ y \in PollType /\ Sound(y) /\ y.left \in Seq(Log) /\ y.left # <<>>
      /\ Record(p) \in Log /\ Record(p) = y.cursor + 1 /\ n \in Nat
      /\ poll \in [Pollers -> PollType]
  BY RecordProperties, LenProperties DEF Typed, TypeOK, PollType
<1>2. Record(p) \in 0 .. Events /\ y.cursor \in Nat
  BY <1>1, StoreAssumption DEF Log, PollType
<1>3. CASE n > 1
  <2> DEFINE x == [y EXCEPT !.at = "next", !.cursor = Record(p), !.left = Tail(y.left)]
  <2>1. /\ Tail(y.left) \in Seq(Log) /\ Len(Tail(y.left)) = n - 1
        /\ \A i \in 1 .. Len(Tail(y.left)) : Tail(y.left)[i] = y.left[i + 1]
    BY <1>1, HeadTailProperties
  <2>2. /\ x \in PollType /\ x.at = "next" /\ x.cursor = Record(p) /\ x.left = Tail(y.left)
    BY <1>1, <1>2, <2>1 DEF PollType, Stages
  <2>3. x.left # <<>>
    <3>1. Len(x.left) = n - 1 /\ n \in Nat /\ n > 1
      BY <1>1, <1>3, <2>1, <2>2
    <3> HIDE DEF x, n
    <3> QED BY <3>1, EmptySeq
  <2>4. ASSUME NEW i \in 1 .. Len(x.left) PROVE x.left[i] = x.cursor + i
    <3>1. i + 1 \in 1 .. n
      BY <1>1, <2>1, <2>2
    <3>2. y.left[i + 1] = y.cursor + (i + 1)
      BY <3>1, <1>1 DEF Sound
    <3>3. x.left[i] = y.left[i + 1]
      BY <2>1, <2>2
    <3>4. x.cursor = y.cursor + 1 /\ y.cursor \in Nat
      BY <1>1, <1>2, <2>2
    <3>5. i \in Nat
      OBVIOUS
    <3>6. y.cursor + (i + 1) = (y.cursor + 1) + i
      BY <3>4, <3>5
    <3> QED BY <3>2, <3>3, <3>4, <3>6, Zenon
  <2>5. Sound(x)
    BY <2>2, <2>3, <2>4 DEF Sound, Calm
  <2>6. poll' = [poll EXCEPT ![p] = x]
    BY <1>1, <1>3 DEF StepsOn
  <2> HIDE DEF x
  <2> QED BY <2>2, <2>5, <2>6 DEF Moved
<1>4. CASE ~(n > 1) /\ y.more
  <2> DEFINE x == [NoPoll EXCEPT !.at = "reading", !.cursor = Record(p)]
  <2>2. x \in PollType /\ Sound(x) /\ x.at = "reading" /\ x.cursor = Record(p)
    BY <1>2, ReadingIsSound
  <2>3. poll' = [poll EXCEPT ![p] = x]
    BY <1>4 DEF StepsOn
  <2> HIDE DEF x
  <2> QED BY <2>2, <2>3 DEF Moved
<1>5. CASE ~(n > 1) /\ ~y.more
  <2>1. Resolves(p)
    BY <1>5 DEF StepsOn
  <2> QED BY <2>1, StopMoves
<1> QED BY <1>3, <1>4, <1>5

\* A page lists the records after the cursor.
LEMMA PageIsNext ==
    ASSUME NEW cursor \in 0 .. Events, published \in 0 .. Events
    PROVE  LET page == PageAfter(cursor)
           IN  /\ page.seqs \in Seq(Log) /\ page.more \in BOOLEAN
               /\ \A i \in 1 .. Len(page.seqs) : page.seqs[i] = cursor + i
<1> DEFINE last == IF published <= cursor + PageSize THEN published ELSE cursor + PageSize
           n == last - cursor
           page == PageAfter(cursor)
           w == [i \in 1 .. n |-> cursor + i]
<1>1. /\ cursor \in Nat /\ published \in Nat /\ PageSize \in Nat
      /\ cursor <= Events /\ published <= Events /\ Events \in Nat
  BY StoreAssumption, BoundsAssumption
<1>2. last \in Nat /\ last <= Events /\ n \in Int
  BY <1>1
<1>3. page.seqs = w /\ page.more = (last < published)
  BY DEF PageAfter
<1>4. page.more \in BOOLEAN
  BY <1>3
<1> HIDE DEF page, last
<1> DEFINE m == IF n >= 0 THEN n ELSE 0
<1>5. m \in Nat /\ 1 .. n = 1 .. m
  BY <1>2
<1>6. \A i \in 1 .. m : cursor + i \in Log
  BY <1>1, <1>2 DEF Log
<1>7. w = [i \in 1 .. m |-> cursor + i]
  BY <1>5
<1> HIDE DEF w, m, n
<1>8. w \in [1 .. m -> Log] /\ \A i \in 1 .. m : w[i] = cursor + i
  BY <1>6, <1>7
<1>9. w \in Seq(Log) /\ Len(w) = m
  BY <1>5, <1>8
<1> QED BY <1>3, <1>4, <1>8, <1>9 DEF page

LEMMA ReadMoves ==
    ASSUME Typed, NEW p \in Pollers, ReadPage(p)
    PROVE  \E x : /\ Moved(p, x)
                  /\ x = NoPoll \/ (x.at = "next" /\ x.cursor = poll[p].cursor)
<1> DEFINE y == poll[p]
           page == PageAfter(y.cursor)
           x == [y EXCEPT !.at = "next", !.left = page.seqs, !.more = page.more]
<1>1. y \in PollType /\ y.cursor \in 0 .. Events /\ published \in 0 .. Events
  BY DEF Typed, TypeOK, PollType
<1>2. /\ page.seqs \in Seq(Log) /\ page.more \in BOOLEAN
      /\ \A i \in 1 .. Len(page.seqs) : page.seqs[i] = y.cursor + i
  BY <1>1, PageIsNext
<1>3. \/ Resolves(p) \/ Rejects(p)
      \/ page.seqs # <<>> /\ poll' = [poll EXCEPT ![p] = x]
  BY DEF ReadPage
<1>4. CASE Resolves(p) \/ Rejects(p)
  BY <1>4, StopMoves
<1>5. CASE page.seqs # <<>> /\ poll' = [poll EXCEPT ![p] = x]
  <2> HIDE DEF page
  <2>1. x \in PollType /\ x.at = "next" /\ x.cursor = y.cursor /\ x.left = page.seqs
    BY <1>1, <1>2 DEF PollType, Stages
  <2> HIDE DEF x
  <2>2. Sound(x)
    BY <1>2, <1>5, <2>1 DEF Sound, Calm
  <2> QED BY <1>5, <2>1, <2>2 DEF Moved
<1> QED BY <1>3, <1>4, <1>5

-----------------------------------------------------------------------------
(* Every step of a poll is of one of three kinds.                          *)

LEMMA MutatedEffect ==
    ASSUME Typed, NEW p \in Pollers, poll[p].at \in MutationStages,
           NEW s \in States, WellFormed(s)
    PROVE  /\ Record(p) \in Log
           /\ Effect(poll[p].at, s, Mutated(p, s), Record(p))
<1>1. Record(p) \in Log
  BY RecordProperties DEF MutationStages, Calm
<1>2. CASE poll[p].at = "quarantining"
  BY <1>1, <1>2, QuarantineEffect DEF Mutated
<1>3. CASE poll[p].at = "failing"
  BY <1>1, <1>3, FailureEffect DEF Mutated
<1>4. CASE poll[p].at = "clearing"
  BY <1>1, <1>4, ClearEffect DEF Mutated
<1>5. CASE poll[p].at = "committing"
  BY <1>1, <1>5, CommitEffect DEF Mutated
<1> QED BY <1>1, <1>2, <1>3, <1>4, <1>5 DEF MutationStages

\* A step that writes nothing.
Wanders(p, x) ==
    /\ Moved(p, x) /\ Fits(x)
    /\ UNCHANGED <<disk, mem, committed, quarantined>>
    /\ x = NoPoll \/ x.cursor = IF poll[p].at = "idle" THEN mem.cursor ELSE poll[p].cursor
    /\ poll[p].at = "failing" => x = NoPoll
    /\ x.at \notin Calm \cup {"next"} => x.left = poll[p].left /\ poll[p].at \notin Calm
    /\ x.at = "committing" => \/ Record(p) \in handled' \/ Processed(mem, Record(p))
                              \/ Record(p) \notin Directed \cup Legacy
    /\ handled \subseteq handled' /\ handled' \subseteq Log
    /\ failures' = IF x.at = "failing" THEN [failures EXCEPT ![Record(p)] = @ + 1] ELSE failures
    /\ overlapped' = (overlapped \/ (poll[p].at = "idle" /\ \E q \in Pollers : poll[q].at # "idle"))

\* What was written is counted as a dead letter if it makes one.
Buries(p) ==
    quarantined' = IF IsQuarantine(p) THEN quarantined \cup {Record(p)} ELSE quarantined

\* A mutation that was saved and swapped in.
Swaps(p, x) ==
    /\ Moved(p, x) /\ Fits(x)
    /\ poll[p].at \in MutationStages /\ mem' = Mutated(p, mem) /\ disk' = mem'
    /\ UNCHANGED <<handled, failures, overlapped>>
    /\ Buries(p)
    /\ committed' = IF poll[p].at = "committing" THEN committed \cup ({Record(p)} \cap handled)
                                                 ELSE committed
    /\ \/ x = NoPoll
       \/ /\ poll[p].at = "committing" \/ IsQuarantine(p)
          /\ x.at \in {"reading", "next"} /\ x.cursor = Record(p)
       \/ /\ poll[p].at = "clearing" /\ x.at \in {"handling", "committing"}
          /\ x.cursor = poll[p].cursor /\ x.left = poll[p].left
          /\ x.at = "committing" => \/ Processed(mem', Record(p))
                                    \/ Record(p) \notin Directed \cup Legacy

\* A save that renamed the file and failed.
Renames(p) ==
    /\ Moved(p, NoPoll)
    /\ poll[p].at \in MutationStages /\ disk' = Mutated(p, mem)
    /\ UNCHANGED <<mem, handled, failures, overlapped, committed>>
    /\ Buries(p)

LEMMA IdleFits ==
    /\ Fits(NoPoll) /\ NoPoll.at = "idle" /\ NoPoll.cursor = 0
    /\ \A x : x.at \in {"idle", "reading", "next"} => Fits(x)
BY DEF Fits, NoPoll

LEMMA WanderSteps ==
    ASSUME Typed, StagesFit, NEW p \in Pollers,
           \/ PollStart(p) \/ ReadPage(p) \/ Aborts(p) \/ MeetsLegacy(p) \/ DecryptFails(p)
           \/ Decrypts(p) \/ HandlerReturns(p) \/ HandlerThrows(p)
    PROVE  \E x : Wanders(p, x)
<1>0. handled \subseteq Log /\ Fits(poll[p]) /\ overlapped \in BOOLEAN
  BY DEF Typed, TypeOK, StagesFit
<1>1. CASE PollStart(p)
  <2> DEFINE x == [NoPoll EXCEPT !.at = "reading", !.cursor = mem.cursor]
  <2>1. Moved(p, x) /\ x.at = "reading" /\ x.cursor = mem.cursor
    BY <1>1, StartMoves
  <2> HIDE DEF x
  <2>2. Fits(x)
    BY <2>1, IdleFits
  <2> QED BY <1>0, <1>1, <2>1, <2>2 DEF PollStart, Wanders, Calm
<1>2. CASE ReadPage(p)
  <2>1. PICK x : Moved(p, x) /\ (x = NoPoll \/ (x.at = "next" /\ x.cursor = poll[p].cursor))
    BY <1>2, ReadMoves
  <2>2. Fits(x) /\ x.at \in {"idle", "next"}
    BY <2>1, IdleFits
  <2> QED BY <1>0, <1>2, <2>1, <2>2 DEF ReadPage, Wanders, Calm
<1>3. CASE Aborts(p) \/ HandlerThrows(p)
  <2>1. Moved(p, NoPoll)
    BY <1>3, StopMoves DEF Aborts, HandlerThrows
  <2>2. /\ poll[p].at # "idle"
        /\ UNCHANGED <<disk, mem, handled, committed, failures, quarantined, overlapped>>
    BY <1>3 DEF Aborts, HandlerThrows
  <2> QED BY <1>0, <2>1, <2>2, IdleFits DEF Wanders, Calm
<1>4. CASE MeetsLegacy(p)
  <2> DEFINE stage == IF Processed(mem, Record(p)) THEN "committing" ELSE "quarantining"
             x == [poll[p] EXCEPT !.at = stage]
  <2>1. stage \in Stages \ Calm /\ poll[p].at = "next" /\ Goes(p, stage) /\ Record(p) \in Legacy
    BY <1>4 DEF MeetsLegacy, Stages, MutationStages, Calm
  <2>2. Moved(p, x) /\ x.at = stage /\ x.cursor = poll[p].cursor /\ x.left = poll[p].left
    BY <2>1, GoMoves DEF Calm
  <2> HIDE DEF x
  <2>3. Fits(x)
    BY <2>1, <2>2, EventsAssumption DEF Fits, Record
  <2> QED BY <1>0, <1>4, <2>1, <2>2, <2>3 DEF MeetsLegacy, Wanders, Calm, history
<1>5. CASE DecryptFails(p)
  <2> DEFINE x == [poll[p] EXCEPT !.at = "failing"]
  <2>1. "failing" \in Stages \ Calm /\ poll[p].at = "next" /\ Goes(p, "failing") /\ Record(p) \notin Legacy
    BY <1>5 DEF DecryptFails, Stages, MutationStages, Calm
  <2>2. Moved(p, x) /\ x.at = "failing" /\ x.cursor = poll[p].cursor /\ x.left = poll[p].left
    BY <2>1, GoMoves DEF Calm
  <2> HIDE DEF x
  <2>3. Fits(x)
    BY <2>1, <2>2 DEF Fits, Record
  <2> QED BY <1>0, <1>5, <2>1, <2>2, <2>3 DEF DecryptFails, Wanders, Calm
<1>6. CASE Decrypts(p)
  <2> DEFINE stage == IF FailureRecorded(mem, Record(p)) THEN "clearing" ELSE Dispatch(mem, Record(p))
             x == [poll[p] EXCEPT !.at = stage]
  <2>1. /\ stage \in {"clearing", "handling", "committing"} /\ poll[p].at = "next"
        /\ Goes(p, stage) /\ Record(p) \notin Legacy \cup Broken
        /\ stage = "handling" => Record(p) \in Directed
        /\ stage = "committing" => Record(p) \notin Directed \/ Processed(mem, Record(p))
    BY <1>6 DEF Decrypts, Dispatch
  <2> HIDE DEF stage
  <2>4. stage \in Stages \ Calm
    BY <2>1 DEF Stages, MutationStages, Calm
  <2>2. Moved(p, x) /\ x.at = stage /\ x.cursor = poll[p].cursor /\ x.left = poll[p].left
    BY <2>1, <2>4, GoMoves DEF Calm
  <2> HIDE DEF x
  <2>3. Fits(x)
    BY <2>1, <2>2 DEF Fits, Record
  <2> QED BY <1>0, <1>6, <2>1, <2>2, <2>3 DEF Decrypts, Wanders, Calm, history
<1>7. CASE HandlerReturns(p)
  <2> DEFINE x == [poll[p] EXCEPT !.at = "committing"]
  <2>1. /\ "committing" \in Stages \ Calm /\ poll[p].at = "handling" /\ Goes(p, "committing")
        /\ Record(p) \in Log
    BY <1>7, RecordProperties DEF HandlerReturns, Stages, MutationStages, Calm
  <2>2. Moved(p, x) /\ x.at = "committing" /\ x.cursor = poll[p].cursor /\ x.left = poll[p].left
    BY <2>1, GoMoves DEF Calm
  <2> HIDE DEF x
  <2>3. Fits(x)
    BY <1>0, <2>1, <2>2 DEF Fits, Record
  <2>4. handled' = handled \cup {Record(p)}
    BY <1>7 DEF HandlerReturns
  <2> QED BY <1>0, <1>7, <2>1, <2>2, <2>3, <2>4 DEF HandlerReturns, Wanders, Calm
<1> QED BY <1>1, <1>2, <1>3, <1>4, <1>5, <1>6, <1>7

LEMMA SaveSteps ==
    ASSUME Typed, StagesFit, NEW p \in Pollers, Saves(p)
    PROVE  \E x : Swaps(p, x)
<1>0. Fits(poll[p])
  BY DEF StagesFit
<1>1. CASE Committed(p)
  <2>1. PICK x : Moved(p, x) /\ (x = NoPoll \/ (x.at \in {"reading", "next"} /\ x.cursor = Record(p)))
    BY <1>1, StepsOnMoves DEF Committed, Calm
  <2>2. Fits(x)
    BY <2>1, IdleFits
  <2>3. ~IsQuarantine(p)
    BY <1>1 DEF Committed, IsQuarantine
  <2> QED BY <1>1, <2>1, <2>2, <2>3 DEF Committed, Saved, Swaps, Buries, MutationStages
<1>2. CASE Quarantined(p)
  <2>0. poll[p].at \in {"quarantining", "failing"} /\ IsQuarantine(p)
    BY <1>2 DEF Quarantined, IsQuarantine
  <2>1. PICK x : Moved(p, x) /\ (x = NoPoll \/ (x.at \in {"reading", "next"} /\ x.cursor = Record(p)))
    BY <1>2, <2>0, StepsOnMoves DEF Quarantined, Calm
  <2>2. Fits(x)
    BY <2>1, IdleFits
  <2> QED BY <1>2, <2>0, <2>1, <2>2 DEF Quarantined, Saved, Swaps, Buries, MutationStages
<1>3. CASE FailureCounted(p)
  <2>1. Moved(p, NoPoll)
    BY <1>3, StopMoves DEF FailureCounted
  <2> QED BY <1>3, <2>1, IdleFits DEF FailureCounted, Saved, Swaps, Buries, MutationStages
<1>4. CASE FailureCleared(p)
  <2> DEFINE stage == Dispatch(mem', Record(p))
             x == [poll[p] EXCEPT !.at = stage]
  <2>1. /\ stage \in {"handling", "committing"} /\ poll[p].at = "clearing" /\ Goes(p, stage)
        /\ stage = "handling" => Record(p) \in Directed
        /\ stage = "committing" => Record(p) \notin Directed \/ Processed(mem', Record(p))
    BY <1>4 DEF FailureCleared, Dispatch
  <2> HIDE DEF stage
  <2>2. stage \in Stages \ Calm /\ ~IsQuarantine(p)
    BY <2>1 DEF Stages, MutationStages, Calm, IsQuarantine
  <2>3. Moved(p, x) /\ x.at = stage /\ x.cursor = poll[p].cursor /\ x.left = poll[p].left
    BY <2>1, <2>2, GoMoves DEF Calm
  <2>4. Record(p) \notin Legacy \cup Broken
    BY <1>0, <2>1 DEF Fits, Record
  <2> HIDE DEF x
  <2>5. Fits(x)
    BY <2>1, <2>3, <2>4 DEF Fits, Record
  <2> QED BY <1>4, <2>1, <2>2, <2>3, <2>4, <2>5
          DEF FailureCleared, Saved, Swaps, Buries, MutationStages
<1> QED BY <1>1, <1>2, <1>3, <1>4 DEF Saves

LEMMA SaveFailsSteps ==
    ASSUME Typed, NEW p \in Pollers, NEW renamed \in BOOLEAN, SaveFails(p, renamed)
    PROVE  Renames(p) \/ Wanders(p, NoPoll)
<1>1. Moved(p, NoPoll)
  BY StopMoves DEF SaveFails
<1>2. CASE renamed
  BY <1>1, <1>2 DEF SaveFails, Renames, Buries
<1>3. CASE ~renamed
  <2>1. /\ poll[p].at # "idle" /\ handled \subseteq Log /\ overlapped \in BOOLEAN
        /\ UNCHANGED <<disk, mem, handled, committed, failures, quarantined, overlapped>>
    BY <1>3 DEF SaveFails, MutationStages, Typed, TypeOK
  <2> QED BY <1>1, <2>1, IdleFits DEF Wanders, Calm
<1> QED BY <1>2, <1>3

LEMMA StepKinds ==
    ASSUME Typed, StagesFit, NEW p \in Pollers, PollStep(p)
    PROVE  \E x : Wanders(p, x) \/ Swaps(p, x) \/ Renames(p)
<1>1. CASE \/ PollStart(p) \/ ReadPage(p) \/ Aborts(p) \/ MeetsLegacy(p) \/ DecryptFails(p)
           \/ Decrypts(p) \/ HandlerReturns(p) \/ HandlerThrows(p)
  BY <1>1, WanderSteps
<1>2. CASE Saves(p)
  BY <1>2, SaveSteps
<1>3. CASE \E renamed \in BOOLEAN : SaveFails(p, renamed)
  BY <1>3, SaveFailsSteps
<1> QED BY <1>1, <1>2, <1>3 DEF PollStep

-----------------------------------------------------------------------------
(* Types and positions.                                                    *)

LEMMA MovedFacts ==
    ASSUME Typed, NEW p \in Pollers, NEW x, Moved(p, x)
    PROVE  /\ poll'[p] = x /\ Record(p)' = Head(x.left)
           /\ \A q \in Pollers : q # p => poll'[q] = poll[q] /\ Record(q)' = Record(q)
           /\ poll' \in [Pollers -> PollType]
           /\ \A q \in Pollers : Sound(poll'[q])
<1>1. poll \in [Pollers -> PollType] /\ \A q \in Pollers : Sound(poll[q])
  BY DEF Typed, TypeOK, PollType
<1> QED BY <1>1 DEF Moved, Record

\* What the caller gets, and the histories.
OthersTyped ==
    /\ batch \in [Pollers -> SUBSET Log]
    /\ published \in 0 .. Events
    /\ UNION {handled, committed, quarantined, received} \subseteq Log
    /\ overlapped \in BOOLEAN
    /\ failures \in [Log -> Nat]
    /\ faults \in [DOMAIN NoFaults -> Nat]

LEMMA TypedParts ==
    /\ Typed => /\ {disk, mem} \subseteq {s \in States : WellFormed(s)}
                /\ poll \in [Pollers -> PollType]
                /\ OthersTyped
    /\ /\ {disk, mem} \subseteq {s \in States : WellFormed(s)}
       /\ poll \in [Pollers -> PollType]
       /\ \A q \in Pollers : Sound(poll[q])
       /\ OthersTyped
       => Typed
BY DEF Typed, TypeOK, PollType, OthersTyped

LEMMA FaultType ==
    ASSUME OthersTyped, NEW kind \in DOMAIN NoFaults, NEW max, Fault(kind, max)
    PROVE  faults' \in [DOMAIN NoFaults -> Nat]
BY DEF OthersTyped, Fault

LEMMA FaultKinds == {"crash", "abort", "save", "fail", "glitch"} \subseteq DOMAIN NoFaults
BY DEF NoFaults

LEMMA StopTypes ==
    ASSUME OthersTyped, NEW p \in Pollers, Rejects(p) \/ Resolves(p)
    PROVE  batch' \in [Pollers -> SUBSET Log] /\ received' \subseteq Log
BY DEF OthersTyped, Rejects, Resolves

LEMMA StepsOnTypes ==
    ASSUME OthersTyped, NEW p \in Pollers, StepsOn(p)
    PROVE  batch' \in [Pollers -> SUBSET Log] /\ received' \subseteq Log
<1>1. Resolves(p) \/ UNCHANGED <<batch, received>>
  BY DEF StepsOn
<1> QED BY <1>1, StopTypes DEF OthersTyped

LEMMA OthersStep ==
    ASSUME Typed, NEW p \in Pollers, PollStep(p)
    PROVE  OthersTyped'
<1>0. OthersTyped
  BY TypedParts
<1>1. poll[p].at \notin Calm => Record(p) \in Log
  BY RecordProperties
<1>2. CASE PollStart(p)
  BY <1>0, <1>2 DEF OthersTyped, PollStart
<1>3. CASE ReadPage(p)
  <2>1. batch' \in [Pollers -> SUBSET Log] /\ received' \subseteq Log
    <3>1. Rejects(p) \/ Resolves(p) \/ UNCHANGED <<batch, received>>
      BY <1>3 DEF ReadPage
    <3> QED BY <3>1, <1>0, StopTypes DEF OthersTyped
  <2> QED BY <1>0, <1>3, <2>1 DEF OthersTyped, ReadPage
<1>4. CASE Aborts(p)
  <2>1. faults' \in [DOMAIN NoFaults -> Nat]
    BY <1>0, <1>4, FaultType, FaultKinds DEF Aborts
  <2> QED BY <1>0, <1>4, <2>1, StopTypes DEF OthersTyped, Aborts
<1>5. CASE MeetsLegacy(p)
  BY <1>0, <1>5 DEF OthersTyped, MeetsLegacy, history
<1>6. CASE DecryptFails(p)
  <2>1. faults' \in [DOMAIN NoFaults -> Nat]
    <3>1. faults' = faults \/ Fault("glitch", MaxGlitches)
      BY <1>6 DEF DecryptFails
    <3> QED BY <1>0, <3>1, FaultType, FaultKinds DEF OthersTyped
  <2>2. Record(p) \in Log
    BY <1>1, <1>6 DEF DecryptFails, Calm
  <2>3. failures' \in [Log -> Nat]
    BY <1>0, <1>6, <2>2 DEF OthersTyped, DecryptFails
  <2> QED BY <1>0, <1>6, <2>1, <2>3 DEF OthersTyped, DecryptFails
<1>7. CASE Decrypts(p)
  BY <1>0, <1>7 DEF OthersTyped, Decrypts, history
<1>8. CASE HandlerReturns(p)
  <2>1. Record(p) \in Log
    BY <1>1, <1>8 DEF HandlerReturns, Calm
  <2>2. batch' \in [Pollers -> SUBSET Log]
    BY <1>0, <1>8, <2>1 DEF OthersTyped, HandlerReturns
  <2> QED BY <1>0, <1>8, <2>1, <2>2 DEF OthersTyped, HandlerReturns
<1>9. CASE HandlerThrows(p)
  <2>1. faults' \in [DOMAIN NoFaults -> Nat]
    BY <1>0, <1>9, FaultType, FaultKinds DEF HandlerThrows
  <2> QED BY <1>0, <1>9, <2>1, StopTypes DEF OthersTyped, HandlerThrows
<1>10. CASE Committed(p)
  <2>1. batch' \in [Pollers -> SUBSET Log] /\ received' \subseteq Log
    BY <1>0, <1>10, StepsOnTypes DEF Committed
  <2>2. committed' \subseteq Log
    BY <1>0, <1>10 DEF OthersTyped, Committed
  <2> QED BY <1>0, <1>10, <2>1, <2>2 DEF OthersTyped, Committed, Saved
<1>11. CASE Quarantined(p)
  <2>1. batch' \in [Pollers -> SUBSET Log] /\ received' \subseteq Log
    BY <1>0, <1>11, StepsOnTypes DEF Quarantined
  <2>2. Record(p) \in Log
    BY <1>1, <1>11 DEF Quarantined, IsQuarantine, Calm
  <2>3. quarantined' \subseteq Log
    BY <1>0, <1>11, <2>2 DEF OthersTyped, Quarantined
  <2> QED BY <1>0, <1>11, <2>1, <2>3 DEF OthersTyped, Quarantined, Saved
<1>12. CASE FailureCounted(p)
  <2>1. batch' \in [Pollers -> SUBSET Log] /\ received' \subseteq Log
    BY <1>0, <1>12, StopTypes DEF FailureCounted
  <2> QED BY <1>0, <1>12, <2>1 DEF OthersTyped, FailureCounted, Saved
<1>13. CASE FailureCleared(p)
  BY <1>0, <1>13 DEF OthersTyped, FailureCleared, Saved
<1>14. ASSUME NEW renamed \in BOOLEAN, SaveFails(p, renamed) PROVE OthersTyped'
  <2>1. faults' \in [DOMAIN NoFaults -> Nat]
    BY <1>0, <1>14, FaultType, FaultKinds DEF SaveFails
  <2>2. batch' \in [Pollers -> SUBSET Log] /\ received' \subseteq Log
    BY <1>0, <1>14, StopTypes DEF SaveFails
  <2>3. Record(p) \in Log
    BY <1>1, <1>14 DEF SaveFails, MutationStages, Calm
  <2>4. quarantined' \subseteq Log
    BY <1>0, <1>14, <2>3 DEF OthersTyped, SaveFails
  <2> QED BY <1>0, <1>14, <2>1, <2>2, <2>4 DEF OthersTyped, SaveFails
<1> QED BY <1>2, <1>3, <1>4, <1>5, <1>6, <1>7, <1>8, <1>9, <1>10, <1>11, <1>12, <1>13, <1>14
        DEF PollStep, Saves

LEMMA PollTypes ==
    ASSUME Typed, StagesFit, NEW p \in Pollers, PollStep(p)
    PROVE  Typed' /\ StagesFit'
<1>1. PICK x : Wanders(p, x) \/ Swaps(p, x) \/ Renames(p)
  BY StepKinds
<1>2. disk \in States /\ WellFormed(disk) /\ mem \in States /\ WellFormed(mem)
  BY TypedParts
<1>3. /\ disk' \in States /\ WellFormed(disk') /\ mem' \in States /\ WellFormed(mem')
      /\ \E y : Moved(p, y) /\ Fits(y)
  <2>1. CASE Wanders(p, x)
    BY <1>2, <2>1 DEF Wanders
  <2>2. CASE Swaps(p, x)
    <3>1. mem' = Mutated(p, mem) /\ disk' = mem' /\ poll[p].at \in MutationStages
      BY <2>2 DEF Swaps
    <3>2. Mutated(p, mem) \in States /\ WellFormed(Mutated(p, mem))
      BY <1>2, <3>1, MutatedEffect DEF Effect
    <3>3. WellFormed(mem') /\ WellFormed(disk')
      BY <3>1, <3>2
    <3> QED BY <2>2, <3>1, <3>2, <3>3 DEF Swaps
  <2>3. CASE Renames(p)
    <3>1. mem' = mem /\ disk' = Mutated(p, mem) /\ poll[p].at \in MutationStages
      BY <2>3 DEF Renames
    <3>2. Mutated(p, mem) \in States /\ WellFormed(Mutated(p, mem))
      BY <1>2, <3>1, MutatedEffect DEF Effect
    <3>3. WellFormed(mem') /\ WellFormed(disk')
      BY <1>2, <3>1, <3>2
    <3> QED BY <1>2, <2>3, <3>1, <3>2, <3>3, IdleFits DEF Renames
  <2> QED BY <1>1, <2>1, <2>2, <2>3
<1>4. PICK y : Moved(p, y) /\ Fits(y)
  BY <1>3
<1>5. /\ poll' \in [Pollers -> PollType] /\ \A q \in Pollers : Sound(poll'[q])
      /\ poll'[p] = y /\ \A q \in Pollers : q # p => poll'[q] = poll[q]
  BY <1>4, MovedFacts
<1>6. OthersTyped'
  BY OthersStep
<1>7. Typed'
  BY <1>3, <1>5, <1>6 DEF Typed, TypeOK, PollType, OthersTyped
<1>8. StagesFit'
  BY <1>4, <1>5 DEF StagesFit
<1> QED BY <1>7, <1>8

LEMMA CrashTypes ==
    ASSUME Typed, StagesFit, Crash
    PROVE  /\ Typed' /\ StagesFit' /\ mem' = disk /\ disk' = disk
           /\ \A q \in Pollers : poll'[q] = NoPoll
<1>1. OthersTyped /\ disk \in States /\ WellFormed(disk)
  BY TypedParts
<1>2. faults' \in [DOMAIN NoFaults -> Nat]
  BY <1>1, FaultType, FaultKinds DEF Crash
<1>3. OthersTyped'
  BY <1>1, <1>2 DEF OthersTyped, Crash, history
<1>4. mem' = disk /\ disk' = disk /\ poll' = [q \in Pollers |-> NoPoll]
  BY DEF Crash
<1>5. WellFormed(disk') /\ WellFormed(mem')
  BY <1>1, <1>4
<1>6. poll' \in [Pollers -> PollType] /\ \A q \in Pollers : poll'[q] = NoPoll /\ Sound(poll'[q])
  BY <1>4, NoPollIsSound
<1>7. Typed'
  BY <1>1, <1>3, <1>4, <1>5, <1>6 DEF Typed, TypeOK, PollType, OthersTyped
<1>8. StagesFit'
  BY <1>6, IdleFits DEF StagesFit
<1> QED BY <1>4, <1>6, <1>7, <1>8

LEMMA PublishTypes ==
    ASSUME Typed, Publish
    PROVE  Typed'
<1>1. OthersTyped /\ published + 1 \in 0 .. Events
  BY TypedParts, StoreAssumption DEF OthersTyped, Publish
<1>2. OthersTyped'
  BY <1>1 DEF OthersTyped, Publish, clientVars, history
<1> QED BY <1>2 DEF Typed, TypeOK, OthersTyped, Publish, clientVars, history

-----------------------------------------------------------------------------
(* The parts of the invariant.                                             *)

LEMMA WriteFacts ==
    ASSUME Typed, NEW p \in Pollers, poll[p].at \in MutationStages
    PROVE  /\ Record(p) \in Log /\ Record(p) = poll[p].cursor + 1 /\ poll[p].cursor \in Nat
           /\ mem \in States /\ mem.cursor \in Nat
           /\ Effect(poll[p].at, mem, Mutated(p, mem), Record(p))
           /\ Passes(poll[p].at, mem, Record(p)) <=> poll[p].at = "committing" \/ IsQuarantine(p)
<1>1. mem \in States /\ WellFormed(mem) /\ poll[p] \in PollType
  BY TypedParts
<1>2. poll[p].at \notin Calm
  BY DEF MutationStages, Calm
<1>3. mem.cursor \in Nat /\ poll[p].cursor \in Nat
  BY <1>1 DEF States, PollType
<1> QED BY <1>1, <1>2, <1>3, RecordProperties, MutatedEffect DEF Passes, IsQuarantine

\* What a passing mutation passes is settled.
LEMMA PassedIsSettled ==
    ASSUME Typed, WorkIsSettled, NEW p \in Pollers, poll[p].at \in MutationStages,
           poll[p].at = "committing" \/ IsQuarantine(p), Buries(p), handled' = handled,
           NEW e \in Log, e <= Record(p)
    PROVE  Settled(e)'
<1>1. Record(p) = poll[p].cursor + 1 /\ poll[p].cursor \in Nat /\ e \in Nat
  BY WriteFacts DEF Log
<1>2. CASE e <= poll[p].cursor
  BY <1>2 DEF WorkIsSettled, Settled, Buries
<1>3. CASE e = Record(p)
  BY <1>3 DEF WorkIsSettled, Settled, Buries
<1> QED BY <1>1, <1>2, <1>3

LEMMA SettledByWander ==
    ASSUME Typed, WorkIsSettled, NEW p \in Pollers, NEW x, Wanders(p, x)
    PROVE  WorkIsSettled'
<1>1. \A e : Settled(e) => Settled(e)'
  BY DEF Wanders, Settled
<1>2. /\ poll'[p] = x /\ Record(p)' = Head(x.left)
      /\ \A q \in Pollers : q # p => poll'[q] = poll[q] /\ Record(q)' = Record(q)
  BY MovedFacts DEF Wanders
<1>3. disk' = disk /\ mem' = mem
  BY DEF Wanders
<1>4. \A e \in Log : e <= x.cursor => Settled(e)
  <2>1. x.cursor \in {0, mem.cursor, poll[p].cursor}
    BY IdleFits DEF Wanders
  <2> QED BY <2>1 DEF WorkIsSettled, Log
<1>5. ASSUME x.at = "committing" PROVE Settled(Head(x.left))'
  <2>1. x.left = poll[p].left /\ poll[p].at \notin Calm
    BY <1>5 DEF Wanders, Calm
  <2>2. Head(x.left) = Record(p) /\ Record(p) \in Log
    BY <2>1, RecordProperties DEF Record
  <2>3. \/ Record(p) \in handled' \/ Processed(mem, Record(p))
        \/ Record(p) \notin Directed
    BY <1>5 DEF Wanders
  <2> QED BY <1>1, <2>2, <2>3 DEF WorkIsSettled, Settled
<1>6. \A q \in Pollers, e \in Log : e <= poll'[q].cursor => Settled(e)'
  BY <1>1, <1>2, <1>4 DEF WorkIsSettled
<1>7. \A q \in Pollers : poll'[q].at = "committing" => Settled(Record(q))'
  <2> SUFFICES ASSUME NEW q \in Pollers, poll'[q].at = "committing"
               PROVE  Settled(Record(q))'
    OBVIOUS
  <2>1. CASE q = p
    BY <1>2, <1>5, <2>1 DEF Settled
  <2>2. CASE q # p
    BY <1>1, <1>2, <2>2 DEF WorkIsSettled, Settled
  <2> QED BY <2>1, <2>2
<1> QED BY <1>1, <1>3, <1>6, <1>7 DEF WorkIsSettled, Settled

LEMMA SettledByWrite ==
    ASSUME Typed, WorkIsSettled, NEW p \in Pollers, poll[p].at \in MutationStages,
           Buries(p), handled' = handled
    PROVE  LET t == Mutated(p, mem)
           IN  /\ \A e \in Log : e <= t.cursor => Settled(e)'
               /\ \A e \in Log : Processed(t, e) => Settled(e)'
               /\ \A e : Settled(e) => Settled(e)'
<1> DEFINE t == Mutated(p, mem)
           passes == poll[p].at = "committing" \/ IsQuarantine(p)
<1>1. \A e : Settled(e) => Settled(e)'
  BY DEF Settled, Buries
<1>2. passes => \A e \in Log : e <= Record(p) => Settled(e)'
  BY PassedIsSettled
<1>3. /\ t.cursor = IF passes THEN Record(p) ELSE mem.cursor
      /\ \A e : Processed(t, e) => Processed(mem, e) \/ (e = Record(p) /\ passes)
  BY WriteFacts DEF Effect
<1>4. Record(p) \in Log /\ Record(p) <= Record(p)
  BY WriteFacts DEF Log
<1> HIDE DEF t, passes
<1>5. \A e \in Log : e <= t.cursor => Settled(e)'
  BY <1>1, <1>2, <1>3 DEF WorkIsSettled
<1>6. \A e \in Log : Processed(t, e) => Settled(e)'
  BY <1>1, <1>2, <1>3, <1>4 DEF WorkIsSettled
<1> QED BY <1>1, <1>5, <1>6 DEF t

LEMMA SettledBySwap ==
    ASSUME Typed, WorkIsSettled, NEW p \in Pollers, NEW x, Swaps(p, x)
    PROVE  WorkIsSettled'
<1> DEFINE t == Mutated(p, mem)
<1>0. /\ poll[p].at \in MutationStages /\ mem' = t /\ disk' = t
      /\ Buries(p) /\ handled' = handled
  BY DEF Swaps
<1>1. /\ \A e \in Log : e <= t.cursor => Settled(e)'
      /\ \A e \in Log : Processed(t, e) => Settled(e)'
      /\ \A e : Settled(e) => Settled(e)'
  BY <1>0, SettledByWrite
<1>2. /\ poll'[p] = x /\ Record(p)' = Head(x.left)
      /\ \A q \in Pollers : q # p => poll'[q] = poll[q] /\ Record(q)' = Record(q)
  BY MovedFacts DEF Swaps
<1>3. Record(p) \in Log
  BY <1>0, WriteFacts
<1> HIDE DEF t
<1>4. \A e \in Log : e <= x.cursor => Settled(e)'
  <2>1. CASE x = NoPoll
    BY <2>1, IdleFits DEF Log
  <2>2. CASE (poll[p].at = "committing" \/ IsQuarantine(p)) /\ x.cursor = Record(p)
    BY <1>0, <2>2, PassedIsSettled
  <2>3. CASE x.cursor = poll[p].cursor
    BY <1>1, <2>3 DEF WorkIsSettled
  <2> QED BY <2>1, <2>2, <2>3 DEF Swaps
<1>5. ASSUME x.at = "committing" PROVE Settled(Head(x.left))'
  <2>1. /\ x.left = poll[p].left
        /\ Processed(mem', Record(p)) \/ Record(p) \notin Directed
    BY <1>5, IdleFits DEF Swaps
  <2>2. Head(x.left) = Record(p)
    BY <2>1 DEF Record
  <2>3. Settled(Record(p))'
    <3>1. CASE Processed(t, Record(p))
      <4>1. \A e \in Log : e = Record(p) => Settled(e)'
        BY <1>1, <3>1
      <4> QED BY <1>2, <1>3, <2>2, <4>1 DEF Settled
    <3>2. CASE Record(p) \notin Directed
      BY <3>2, <2>2, <1>2 DEF Settled
    <3> QED BY <2>1, <1>0, <3>1, <3>2
  <2> QED BY <1>2, <2>2, <2>3 DEF Settled
<1>6. \A q \in Pollers, e \in Log : e <= poll'[q].cursor => Settled(e)'
  BY <1>1, <1>2, <1>4 DEF WorkIsSettled
<1>7. \A q \in Pollers : poll'[q].at = "committing" => Settled(Record(q))'
  <2> SUFFICES ASSUME NEW q \in Pollers, poll'[q].at = "committing"
               PROVE  Settled(Record(q))'
    OBVIOUS
  <2>1. CASE q = p
    BY <1>2, <1>5, <2>1 DEF Settled
  <2>2. CASE q # p
    BY <1>1, <1>2, <2>2 DEF WorkIsSettled, Settled
  <2> QED BY <2>1, <2>2
<1> QED BY <1>0, <1>1, <1>6, <1>7 DEF WorkIsSettled

LEMMA SettledByRename ==
    ASSUME Typed, WorkIsSettled, NEW p \in Pollers, Renames(p)
    PROVE  WorkIsSettled'
<1> DEFINE t == Mutated(p, mem)
<1>0. /\ poll[p].at \in MutationStages /\ mem' = mem /\ disk' = t
      /\ Buries(p) /\ handled' = handled
  BY DEF Renames
<1>1. /\ \A e \in Log : e <= t.cursor => Settled(e)'
      /\ \A e \in Log : Processed(t, e) => Settled(e)'
      /\ \A e : Settled(e) => Settled(e)'
  BY <1>0, SettledByWrite
<1>2. /\ poll'[p] = NoPoll
      /\ \A q \in Pollers : q # p => poll'[q] = poll[q] /\ Record(q)' = Record(q)
  BY MovedFacts DEF Renames
<1> HIDE DEF t
<1>6. \A q \in Pollers, e \in Log : e <= poll'[q].cursor => Settled(e)'
  BY <1>1, <1>2, IdleFits DEF WorkIsSettled, Log
<1>7. \A q \in Pollers : poll'[q].at = "committing" => Settled(Record(q))'
  BY <1>1, <1>2, IdleFits DEF WorkIsSettled, Settled
<1> QED BY <1>0, <1>1, <1>6, <1>7 DEF WorkIsSettled

LEMMA SettledByCrash ==
    ASSUME Typed, StagesFit, WorkIsSettled, Crash
    PROVE  WorkIsSettled'
<1>1. /\ \A q \in Pollers : poll'[q] = NoPoll
      /\ mem' = disk /\ disk' = disk
      /\ handled' = handled /\ quarantined' = quarantined
  BY CrashTypes DEF Crash, history
<1> QED BY <1>1, IdleFits DEF WorkIsSettled, Settled, Log

\* How many polls are about to count a failure of e, before and after a step of p.
LEMMA FailingIsFinite ==
    \A e : IsFiniteSet(Failing(e)) /\ Cardinality(Failing(e)) \in Nat
BY BoundsAssumption, FS_Subset, FS_CardinalityType DEF Failing

LEMMA FailingStep ==
    ASSUME Typed, NEW p \in Pollers, NEW x, Moved(p, x), NEW e
    PROVE  /\ IsFiniteSet(Failing(e)') /\ Cardinality(Failing(e)') \in Nat
           /\ ~(x.at = "failing" /\ Head(x.left) = e) =>
                Cardinality(Failing(e)') <= Cardinality(Failing(e))
           /\ x.at = "failing" /\ Head(x.left) = e =>
                Cardinality(Failing(e)') <= Cardinality(Failing(e)) + 1
           /\ p \in Failing(e) /\ x.at # "failing" =>
                Cardinality(Failing(e)') + 1 <= Cardinality(Failing(e))
<1>1. /\ poll'[p] = x /\ Record(p)' = Head(x.left)
      /\ \A q \in Pollers : q # p => poll'[q] = poll[q] /\ Record(q)' = Record(q)
  BY MovedFacts
<1> DEFINE F == Failing(e)
           G == Failing(e)'
<1>2. IsFiniteSet(F) /\ Cardinality(F) \in Nat
  BY FailingIsFinite
<1>3. \A q \in Pollers : q # p => (q \in G <=> q \in F)
  BY <1>1 DEF Failing
<1>4. p \in G <=> x.at = "failing" /\ Head(x.left) = e
  BY <1>1 DEF Failing
<1>5. F \subseteq Pollers /\ G \subseteq Pollers
  BY DEF Failing
<1>6. /\ IsFiniteSet(G) /\ Cardinality(G) \in Nat
  BY <1>5, BoundsAssumption, FS_Subset, FS_CardinalityType
<1> HIDE DEF F, G
<1>7. ASSUME p \notin G PROVE Cardinality(G) <= Cardinality(F)
  <2>1. G \in SUBSET F
    BY <1>3, <1>5, <1>7
  <2> QED BY <1>2, <2>1, FS_Subset
<1>8. ASSUME p \in G PROVE Cardinality(G) <= Cardinality(F) + 1
  <2>1. G \in SUBSET (F \cup {p})
    BY <1>3, <1>5
  <2>2. /\ IsFiniteSet(F \cup {p})
        /\ Cardinality(F \cup {p}) = IF p \in F THEN Cardinality(F) ELSE Cardinality(F) + 1
    BY <1>2, FS_AddElement
  <2>3. Cardinality(G) <= Cardinality(F \cup {p})
    BY <2>1, <2>2, FS_Subset
  <2> QED BY <1>2, <1>6, <2>2, <2>3
<1>9. ASSUME p \in F, p \notin G PROVE Cardinality(G) + 1 <= Cardinality(F)
  <2>1. G \in SUBSET (F \ {p})
    BY <1>3, <1>5, <1>9
  <2>2. /\ IsFiniteSet(F \ {p})
        /\ Cardinality(F \ {p}) = IF p \in F THEN Cardinality(F) - 1 ELSE Cardinality(F)
    BY <1>2, FS_RemoveElement
  <2>3. Cardinality(G) <= Cardinality(F \ {p})
    BY <2>1, <2>2, FS_Subset
  <2> QED BY <1>2, <1>6, <1>9, <2>2, <2>3
<1>10. p \in F /\ x.at # "failing" => Cardinality(G) + 1 <= Cardinality(F)
  BY <1>4, <1>9
<1>11. ~(x.at = "failing" /\ Head(x.left) = e) => Cardinality(G) <= Cardinality(F)
  BY <1>4, <1>7
<1>12. x.at = "failing" /\ Head(x.left) = e => Cardinality(G) <= Cardinality(F) + 1
  BY <1>4, <1>8
<1> QED BY <1>6, <1>10, <1>11, <1>12 DEF F, G

LEMMA AttemptsByWander ==
    ASSUME Typed, AttemptsAreReal, NEW p \in Pollers, NEW x, Wanders(p, x)
    PROVE  AttemptsAreReal'
<1>0. /\ failures \in [Log -> Nat] /\ quarantined \subseteq Log
      /\ mem \in States /\ disk \in States
  BY TypedParts DEF OthersTyped
<1>1. Moved(p, x) /\ disk' = disk /\ mem' = mem /\ quarantined' = quarantined
  BY DEF Wanders
<1>2. ASSUME NEW e \in Log
      PROVE  /\ failures[e] \in Nat /\ failures'[e] \in Nat /\ failures[e] <= failures'[e]
             /\ \E c, d \in Nat : /\ c = Cardinality(Failing(e)) /\ d = Cardinality(Failing(e)')
                                  /\ d - c <= failures'[e] - failures[e]
  <2>1. /\ Cardinality(Failing(e)) \in Nat /\ Cardinality(Failing(e)') \in Nat
        /\ ~(x.at = "failing" /\ Head(x.left) = e) =>
                Cardinality(Failing(e)') <= Cardinality(Failing(e))
        /\ x.at = "failing" /\ Head(x.left) = e =>
                Cardinality(Failing(e)') <= Cardinality(Failing(e)) + 1
    BY <1>1, FailingStep, FailingIsFinite
  <2>2. CASE x.at = "failing"
    <3>1. x.left = poll[p].left /\ poll[p].at \notin Calm
      BY <2>2 DEF Wanders, Calm
    <3>2. Head(x.left) = Record(p) /\ Record(p) \in Log
      BY <3>1, RecordProperties DEF Record
    <3>3. failures' = [failures EXCEPT ![Record(p)] = @ + 1]
      BY <2>2 DEF Wanders
    <3>4. /\ failures[e] \in Nat
          /\ failures'[e] = IF e = Record(p) THEN failures[e] + 1 ELSE failures[e]
      BY <1>0, <3>2, <3>3
    <3> QED BY <2>1, <2>2, <3>2, <3>4
  <2>3. CASE x.at # "failing"
    <3>1. failures' = failures /\ failures[e] \in Nat
      BY <1>0, <2>3 DEF Wanders
    <3> QED BY <2>1, <2>3, <3>1
  <2> QED BY <2>2, <2>3
<1>3. ASSUME NEW e \in Log PROVE Cardinality(Failing(e)') <= failures'[e]
  BY <1>2 DEF AttemptsAreReal
<1>4. ASSUME NEW r \in Records(mem)
      PROVE  r.attempts + Cardinality(Failing(r.id)') <= failures'[r.id]
  <2>1. r.id \in Log /\ r.attempts \in Nat
    BY <1>0, RecordsProperties DEF FailureRecords
  <2>2. r.attempts + Cardinality(Failing(r.id)) <= failures[r.id]
    BY DEF AttemptsAreReal
  <2> QED BY <1>2, <2>1, <2>2
<1>5. ASSUME NEW r \in Records(disk) PROVE r.attempts <= failures'[r.id]
  <2>1. r.id \in Log /\ r.attempts \in Nat
    BY <1>0, RecordsProperties DEF FailureRecords
  <2>2. r.attempts <= failures[r.id]
    BY DEF AttemptsAreReal
  <2> QED BY <1>2, <2>1, <2>2
<1>6. ASSUME NEW e \in quarantined \ Legacy PROVE failures'[e] >= MaxEventFailures
  <2>1. failures[e] >= MaxEventFailures /\ e \in Log /\ MaxEventFailures \in Nat
    BY <1>0, <1>6, StoreAssumption DEF AttemptsAreReal
  <2> QED BY <1>2, <2>1
<1> QED BY <1>1, <1>3, <1>4, <1>5, <1>6 DEF AttemptsAreReal

\* The attempt that a poll is about to count was one.
LEMMA AttemptIsCovered ==
    ASSUME Typed, AttemptsAreReal, NEW e \in Log
    PROVE  /\ Attempts(mem, e) \in Nat /\ failures[e] \in Nat
           /\ Attempts(mem, e) + Cardinality(Failing(e)) <= failures[e]
<1>0. failures \in [Log -> Nat] /\ mem \in States
  BY TypedParts DEF OthersTyped
<1>1. /\ Attempts(mem, e) \in Nat
      /\ \/ Attempts(mem, e) = 0
         \/ \E r \in Records(mem) : r.id = e /\ Attempts(mem, e) = r.attempts
  BY <1>0, RecordsProperties
<1>2. Cardinality(Failing(e)) \in Nat /\ failures[e] \in Nat
  BY <1>0, FailingIsFinite
<1>3. CASE Attempts(mem, e) = 0
  BY <1>1, <1>2, <1>3 DEF AttemptsAreReal
<1>4. CASE \E r \in Records(mem) : r.id = e /\ Attempts(mem, e) = r.attempts
  BY <1>1, <1>2, <1>4 DEF AttemptsAreReal
<1> QED BY <1>1, <1>2, <1>3, <1>4

LEMMA AttemptsByWrite ==
    ASSUME Typed, StagesFit, AttemptsAreReal, NEW p \in Pollers, poll[p].at \in MutationStages,
           NEW x, Moved(p, x), x.at # "failing", failures' = failures, Buries(p)
    PROVE  LET t == Mutated(p, mem)
           IN  /\ \A e \in Log : Cardinality(Failing(e)') <= failures[e]
               /\ \A r \in Records(t) : r.attempts + Cardinality(Failing(r.id)') <= failures[r.id]
               /\ \A r \in Records(t) : r.attempts <= failures[r.id]
               /\ \A r \in Records(mem) : r.attempts + Cardinality(Failing(r.id)') <= failures[r.id]
               /\ \A e \in quarantined' \ Legacy : failures[e] >= MaxEventFailures
<1> DEFINE t == Mutated(p, mem)
           e0 == Record(p)
<1>0. /\ failures \in [Log -> Nat] /\ quarantined \subseteq Log /\ mem \in States
      /\ MaxEventFailures \in Nat
  BY TypedParts, StoreAssumption DEF OthersTyped
<1>1. e0 \in Log /\ Effect(poll[p].at, mem, t, e0) /\ Fits(poll[p])
  BY WriteFacts DEF StagesFit
<1>2. ASSUME NEW e \in Log
      PROVE  /\ failures[e] \in Nat
             /\ Cardinality(Failing(e)) \in Nat /\ Cardinality(Failing(e)') \in Nat
             /\ Cardinality(Failing(e)') <= Cardinality(Failing(e))
             /\ poll[p].at = "failing" /\ e = e0 =>
                  Cardinality(Failing(e)') + 1 <= Cardinality(Failing(e))
  <2>1. poll[p].at = "failing" /\ e = e0 => p \in Failing(e)
    BY DEF Failing
  <2> QED BY <1>0, <2>1, FailingStep, FailingIsFinite
<1>3. \A e \in Log : Cardinality(Failing(e)') <= failures[e]
  <2> TAKE e \in Log
  <2>1. Cardinality(Failing(e)) <= failures[e]
    BY DEF AttemptsAreReal
  <2> QED BY <1>2, <2>1
<1>4. ASSUME NEW r \in Records(mem)
      PROVE  /\ r.id \in Log /\ r.attempts \in Nat
             /\ r.attempts + Cardinality(Failing(r.id)') <= failures[r.id]
  <2>1. r.id \in Log /\ r.attempts \in Nat
    BY <1>0, RecordsProperties DEF FailureRecords
  <2>2. r.attempts + Cardinality(Failing(r.id)) <= failures[r.id]
    BY DEF AttemptsAreReal
  <2> QED BY <1>2, <2>1, <2>2
<1>5. ASSUME NEW r \in Records(t)
      PROVE  /\ r.id \in Log /\ r.attempts \in Nat
             /\ r.attempts + Cardinality(Failing(r.id)') <= failures[r.id]
  <2>0. t \in States
    BY <1>1 DEF Effect
  <2>1. r.id \in Log /\ r.attempts \in Nat
    BY <2>0, RecordsProperties DEF FailureRecords
  <2>2. CASE r \in Records(mem)
    BY <1>4, <2>1, <2>2
  <2>3. CASE poll[p].at = "quarantining" /\ r = Dead(e0, 0, "quarantined")
    <3>1. r.attempts = 0
      BY <2>3 DEF Dead
    <3> QED BY <1>2, <1>3, <2>1, <3>1
  <2>4. CASE poll[p].at = "failing" /\ r.id = e0 /\ r.attempts = Attempts(mem, e0) + 1
    <3>1. /\ Attempts(mem, e0) \in Nat
          /\ Attempts(mem, e0) + Cardinality(Failing(e0)) <= failures[e0]
      BY <1>1, AttemptIsCovered
    <3> HIDE DEF e0
    <3> QED BY <1>1, <1>2, <2>4, <3>1
  <2>5. \/ r \in Records(mem)
        \/ poll[p].at = "quarantining" /\ r = Dead(e0, 0, "quarantined")
        \/ poll[p].at = "failing" /\ r.id = e0 /\ r.attempts = Attempts(mem, e0) + 1
    BY <1>1 DEF Effect
  <2> QED BY <2>1, <2>2, <2>3, <2>4, <2>5
<1>6. ASSUME NEW r \in Records(t) PROVE r.attempts <= failures[r.id]
  BY <1>2, <1>5
<1>7. ASSUME NEW e \in quarantined' \ Legacy PROVE failures[e] >= MaxEventFailures
  <2>1. CASE e \in quarantined
    BY <1>7, <2>1 DEF AttemptsAreReal
  <2>2. CASE e = e0 /\ IsQuarantine(p)
    <3>1. poll[p].at = "failing" /\ Quarantines(mem, e0)
      BY <1>1, <1>7, <2>2 DEF IsQuarantine, Fits, Record
    <3>2. Attempts(mem, e0) + 1 >= MaxEventFailures
      BY <3>1 DEF Quarantines
    <3>3. /\ Attempts(mem, e0) \in Nat /\ failures[e0] \in Nat
          /\ Attempts(mem, e0) + Cardinality(Failing(e0)) <= failures[e0]
      BY <1>1, AttemptIsCovered
    <3>4. Cardinality(Failing(e0)) \in Nat /\ Cardinality(Failing(e0)) >= 1
      BY <1>1, <1>2, <3>1
    <3> HIDE DEF e0
    <3> QED BY <1>0, <2>2, <3>2, <3>3, <3>4
  <2> QED BY <1>7, <2>1, <2>2 DEF Buries
<1> QED BY <1>3, <1>4, <1>5, <1>6, <1>7

LEMMA AttemptsBySwap ==
    ASSUME Typed, StagesFit, AttemptsAreReal, NEW p \in Pollers, NEW x, Swaps(p, x)
    PROVE  AttemptsAreReal'
<1> DEFINE t == Mutated(p, mem)
<1>1. /\ Moved(p, x) /\ x.at # "failing" /\ failures' = failures /\ Buries(p)
      /\ mem' = t /\ disk' = t /\ poll[p].at \in MutationStages
  BY IdleFits DEF Swaps
<1>2. /\ \A e \in Log : Cardinality(Failing(e)') <= failures[e]
      /\ \A r \in Records(t) : r.attempts + Cardinality(Failing(r.id)') <= failures[r.id]
      /\ \A r \in Records(t) : r.attempts <= failures[r.id]
      /\ \A e \in quarantined' \ Legacy : failures[e] >= MaxEventFailures
  BY <1>1, AttemptsByWrite
<1> HIDE DEF t
<1> QED BY <1>1, <1>2 DEF AttemptsAreReal

LEMMA AttemptsByRename ==
    ASSUME Typed, StagesFit, AttemptsAreReal, NEW p \in Pollers, Renames(p)
    PROVE  AttemptsAreReal'
<1> DEFINE t == Mutated(p, mem)
<1>1. /\ Moved(p, NoPoll) /\ NoPoll.at # "failing" /\ failures' = failures /\ Buries(p)
      /\ mem' = mem /\ disk' = t /\ poll[p].at \in MutationStages
  BY IdleFits DEF Renames
<1>2. /\ \A e \in Log : Cardinality(Failing(e)') <= failures[e]
      /\ \A r \in Records(mem) : r.attempts + Cardinality(Failing(r.id)') <= failures[r.id]
      /\ \A r \in Records(t) : r.attempts <= failures[r.id]
      /\ \A e \in quarantined' \ Legacy : failures[e] >= MaxEventFailures
  BY <1>1, AttemptsByWrite
<1> HIDE DEF t
<1> QED BY <1>1, <1>2 DEF AttemptsAreReal

LEMMA AttemptsByCrash ==
    ASSUME Typed, StagesFit, AttemptsAreReal, Crash
    PROVE  AttemptsAreReal'
<1>0. failures \in [Log -> Nat] /\ disk \in States
  BY TypedParts DEF OthersTyped
<1>1. /\ \A q \in Pollers : poll'[q] = NoPoll
      /\ mem' = disk /\ disk' = disk /\ failures' = failures /\ quarantined' = quarantined
  BY CrashTypes DEF Crash, history
<1>2. ASSUME NEW e PROVE Cardinality(Failing(e)') = 0
  <2>1. Failing(e)' = {}
    BY <1>1, IdleFits DEF Failing
  <2> QED BY <2>1, FS_EmptySet
<1>3. \A e \in Log : Cardinality(Failing(e)') <= failures'[e]
  BY <1>0, <1>1, <1>2
<1>4. ASSUME NEW r \in Records(disk)
      PROVE  r.attempts + Cardinality(Failing(r.id)') <= failures[r.id]
  <2>1. r.id \in Log /\ r.attempts \in Nat /\ failures[r.id] \in Nat
    BY <1>0, RecordsProperties DEF FailureRecords
  <2>2. r.attempts <= failures[r.id]
    BY DEF AttemptsAreReal
  <2> QED BY <1>2, <2>1, <2>2
<1> QED BY <1>1, <1>3, <1>4 DEF AttemptsAreReal

\* The set of struck events grows.
LEMMA StruckGrows ==
    ASSUME Typed, NEW p \in Pollers, NEW x, Wanders(p, x) \/ Swaps(p, x) \/ Renames(p)
    PROVE  Struck \subseteq Struck'
<1>0. failures \in [Log -> Nat]
  BY TypedParts DEF OthersTyped
<1>1. quarantined \subseteq quarantined'
  BY DEF Wanders, Swaps, Renames, Buries
<1>2. ASSUME NEW e \in Log, failures[e] > 0 PROVE failures'[e] > 0
  <2>1. CASE failures' = failures
    BY <1>2, <2>1
  <2>2. CASE failures' = [failures EXCEPT ![Record(p)] = @ + 1]
    BY <1>0, <1>2, <2>2
  <2> QED BY <2>1, <2>2 DEF Wanders, Swaps, Renames
<1> QED BY <1>1, <1>2 DEF Struck

LEMMA StruckByWander ==
    ASSUME Typed, OnlyStruckAreFiled, NEW p \in Pollers, NEW x, Wanders(p, x)
    PROVE  OnlyStruckAreFiled'
<1>0. failures \in [Log -> Nat] /\ Struck \subseteq Struck'
  BY TypedParts, StruckGrows DEF OthersTyped
<1>1. /\ poll'[p] = x /\ Record(p)' = Head(x.left)
      /\ \A q \in Pollers : q # p => poll'[q] = poll[q] /\ Record(q)' = Record(q)
      /\ disk' = disk /\ mem' = mem
  BY MovedFacts DEF Wanders
<1>2. ASSUME x.at = "failing" PROVE Head(x.left) \in Struck'
  <2>1. x.left = poll[p].left /\ poll[p].at \notin Calm
    BY <1>2 DEF Wanders, Calm
  <2>2. Head(x.left) = Record(p) /\ Record(p) \in Log
    BY <2>1, RecordProperties DEF Record
  <2>3. failures' = [failures EXCEPT ![Record(p)] = @ + 1]
    BY <1>2 DEF Wanders
  <2>4. failures'[Record(p)] > 0
    BY <1>0, <2>2, <2>3
  <2> QED BY <2>2, <2>4 DEF Struck
<1> QED BY <1>0, <1>1, <1>2 DEF OnlyStruckAreFiled

LEMMA StruckByWrite ==
    ASSUME Typed, OnlyStruckAreFiled, NEW p \in Pollers, NEW x, Swaps(p, x) \/ Renames(p)
    PROVE  /\ Struck \subseteq Struck'
           /\ \A r \in Records(Mutated(p, mem)) : r.id \in Struck'
           /\ poll[p].at \in {"quarantining", "failing"} => Record(p) \in Struck'
<1>1. Struck \subseteq Struck'
  BY StruckGrows
<1>2. poll[p].at \in MutationStages /\ Buries(p)
  BY DEF Swaps, Renames
<1>3. Record(p) \in Log /\ Effect(poll[p].at, mem, Mutated(p, mem), Record(p))
  BY <1>2, WriteFacts
<1>4. ASSUME poll[p].at \in {"quarantining", "failing"} PROVE Record(p) \in Struck'
  <2>1. CASE poll[p].at = "quarantining"
    BY <1>2, <1>3, <2>1 DEF Buries, IsQuarantine, Struck
  <2>2. CASE poll[p].at = "failing"
    BY <1>1, <2>2 DEF OnlyStruckAreFiled
  <2> QED BY <1>4, <2>1, <2>2
<1>5. ASSUME NEW r \in Records(Mutated(p, mem)) PROVE r.id \in Struck'
  <2>1. \/ r \in Records(mem)
        \/ poll[p].at = "quarantining" /\ r = Dead(Record(p), 0, "quarantined")
        \/ poll[p].at = "failing" /\ r.id = Record(p)
    BY <1>3 DEF Effect
  <2>2. Dead(Record(p), 0, "quarantined").id = Record(p)
    BY DEF Dead
  <2> QED BY <1>1, <1>4, <2>1, <2>2 DEF OnlyStruckAreFiled
<1> QED BY <1>1, <1>4, <1>5

LEMMA StruckBySave ==
    ASSUME Typed, OnlyStruckAreFiled, NEW p \in Pollers, NEW x, Swaps(p, x) \/ Renames(p)
    PROVE  OnlyStruckAreFiled'
<1> DEFINE t == Mutated(p, mem)
<1>1. Struck \subseteq Struck' /\ \A r \in Records(t) : r.id \in Struck'
  BY StruckByWrite
<1>2. PICK y : Moved(p, y) /\ y.at # "failing"
  BY IdleFits DEF Swaps, Renames
<1>3. /\ poll'[p] = y
      /\ \A q \in Pollers : q # p => poll'[q] = poll[q] /\ Record(q)' = Record(q)
  BY <1>2, MovedFacts
<1>4. (mem' = t /\ disk' = t) \/ (mem' = mem /\ disk' = t)
  BY DEF Swaps, Renames
<1> HIDE DEF t
<1> QED BY <1>1, <1>2, <1>3, <1>4 DEF OnlyStruckAreFiled

LEMMA StruckByCrash ==
    ASSUME Typed, StagesFit, OnlyStruckAreFiled, Crash
    PROVE  OnlyStruckAreFiled' /\ Struck' = Struck
<1>1. /\ \A q \in Pollers : poll'[q] = NoPoll
      /\ mem' = disk /\ disk' = disk /\ failures' = failures /\ quarantined' = quarantined
  BY CrashTypes DEF Crash, history
<1> QED BY <1>1, IdleFits DEF OnlyStruckAreFiled, Struck

-----------------------------------------------------------------------------
(* ... and those that hold while no two polls have overlapped.             *)

LEMMA UncontestedByWander ==
    ASSUME Typed, StagesFit, Uncontested, NEW p \in Pollers, NEW x, Wanders(p, x)
    PROVE  Uncontested'
<1> SUFFICES ASSUME ~overlapped' PROVE Uncontested'
  BY DEF Uncontested
<1>0. ~overlapped /\ (poll[p].at = "idle" => \A q \in Pollers : poll[q].at = "idle")
  BY DEF Wanders
<1>1. /\ poll'[p] = x /\ Record(p)' = Head(x.left)
      /\ \A q \in Pollers : q # p => poll'[q] = poll[q] /\ Record(q)' = Record(q)
      /\ disk' = disk /\ mem' = mem /\ committed' = committed
  BY MovedFacts DEF Wanders
<1>2. /\ \A q, r \in Pollers : poll[q].at # "idle" /\ poll[r].at # "idle" => q = r
      /\ \A q \in Pollers : poll[q].at # "idle" => poll[q].cursor = mem.cursor
      /\ \A e \in Log : Processed(mem, e) => e <= mem.cursor
      /\ \A q \in Pollers : poll[q].at = "committing" => ~Unsettled(Record(q))
  BY <1>0 DEF Uncontested
<1>3. x.at # "idle" => x.cursor = mem.cursor
  BY <1>2, IdleFits DEF Wanders
<1>4. \A q \in Pollers : q # p /\ x.at # "idle" => poll[q].at = "idle"
  <2> SUFFICES ASSUME NEW q \in Pollers, q # p, x.at # "idle", poll[q].at # "idle" PROVE FALSE
    OBVIOUS
  <2> QED BY <1>0, <1>2
<1>5. ASSUME NEW e, Unsettled(e)' PROVE Unsettled(e)
  BY <1>5 DEF Wanders, Unsettled
<1>6. ASSUME x.at = "committing" PROVE ~Unsettled(Head(x.left))'
  <2>1. x.left = poll[p].left /\ poll[p].at \notin Calm
    BY <1>6 DEF Wanders, Calm
  <2>2. Head(x.left) = Record(p) /\ Record(p) \in Log /\ Record(p) = poll[p].cursor + 1
    BY <2>1, RecordProperties DEF Record
  <2>3. poll[p].cursor = mem.cursor /\ mem.cursor \in Nat
    <3>1. mem \in States
      BY TypedParts
    <3> QED BY <3>1, <1>2, <2>1 DEF Calm, States
  <2>4. ~Processed(mem, Record(p))
    BY <1>2, <2>2, <2>3
  <2>5. Record(p) \in handled' \/ Record(p) \notin Directed \cup Legacy
    BY <1>6, <2>4 DEF Wanders
  <2>6. Record(p) \notin Broken
    BY <1>6, <2>2 DEF Wanders, Fits
  <2> QED BY <2>2, <2>5, <2>6 DEF Unsettled
<1>7. \A q, r \in Pollers : poll'[q].at # "idle" /\ poll'[r].at # "idle" => q = r
  BY <1>1, <1>2, <1>4
<1>8. \A q \in Pollers : poll'[q].at # "idle" => poll'[q].cursor = mem.cursor
  BY <1>1, <1>2, <1>3
<1>9. \A q \in Pollers : poll'[q].at = "committing" => ~Unsettled(Record(q))'
  <2> SUFFICES ASSUME NEW q \in Pollers, poll'[q].at = "committing" PROVE ~Unsettled(Record(q))'
    OBVIOUS
  <2>1. CASE q = p
    BY <1>1, <1>6, <2>1 DEF Unsettled
  <2>2. CASE q # p
    BY <1>1, <1>2, <2>2 DEF Unsettled, Wanders
  <2> QED BY <2>1, <2>2
<1> QED BY <1>0, <1>1, <1>7, <1>8, <1>9 DEF Uncontested

\* A poll alone writes the event after the cursor.
LEMMA UncontestedWrite ==
    ASSUME Typed, Uncontested, ~overlapped, NEW p \in Pollers, poll[p].at \in MutationStages
    PROVE  LET t == Mutated(p, mem)
               passes == poll[p].at = "committing" \/ IsQuarantine(p)
           IN  /\ Record(p) = mem.cursor + 1 /\ Record(p) \in Log /\ mem.cursor \in Nat
               /\ t.cursor = IF passes THEN Record(p) ELSE mem.cursor
               /\ \A e \in Log : Processed(t, e) => e <= t.cursor
               /\ \A e \in committed : e <= t.cursor
               /\ \A q \in Pollers : q # p => poll[q].at = "idle"
<1> DEFINE t == Mutated(p, mem)
           passes == poll[p].at = "committing" \/ IsQuarantine(p)
<1>0. poll[p].at # "idle" /\ committed \subseteq Log
  BY TypedParts DEF MutationStages, OthersTyped
<1>1. /\ Record(p) = mem.cursor + 1 /\ Record(p) \in Log /\ mem.cursor \in Nat
      /\ Effect(poll[p].at, mem, t, Record(p))
      /\ Passes(poll[p].at, mem, Record(p)) <=> passes
  BY <1>0, WriteFacts DEF Uncontested
<1> HIDE DEF t, passes
<1>2. t.cursor = IF passes THEN Record(p) ELSE mem.cursor
  BY <1>1 DEF Effect
<1>3. mem.cursor <= t.cursor
  BY <1>1, <1>2
<1>4. ASSUME NEW e \in Log, Processed(t, e) PROVE e <= t.cursor
  <2>1. CASE Processed(mem, e)
    <3>1. e <= mem.cursor /\ e \in Nat
      BY <2>1 DEF Uncontested, Log
    <3> QED BY <1>1, <1>2, <3>1
  <2>2. CASE e = Record(p) /\ passes
    BY <1>1, <1>2, <2>2
  <2> QED BY <1>1, <1>4, <2>1, <2>2 DEF Effect
<1>5. ASSUME NEW e \in committed PROVE e <= t.cursor
  <2>1. e <= mem.cursor /\ e \in Nat
    BY <1>0 DEF Uncontested, Log
  <2> QED BY <1>1, <1>2, <2>1
<1>6. \A q \in Pollers : q # p => poll[q].at = "idle"
  BY <1>0 DEF Uncontested
<1> QED BY <1>1, <1>2, <1>4, <1>5, <1>6 DEF t, passes

LEMMA UncontestedBySwap ==
    ASSUME Typed, StagesFit, Uncontested, NEW p \in Pollers, NEW x, Swaps(p, x)
    PROVE  Uncontested'
<1> SUFFICES ASSUME ~overlapped' PROVE Uncontested'
  BY DEF Uncontested
<1> DEFINE t == Mutated(p, mem)
           passes == poll[p].at = "committing" \/ IsQuarantine(p)
<1>0. /\ ~overlapped /\ poll[p].at \in MutationStages /\ mem' = t /\ disk' = t
      /\ handled' = handled
  BY DEF Swaps
<1>1. /\ Record(p) = mem.cursor + 1 /\ Record(p) \in Log /\ mem.cursor \in Nat
      /\ t.cursor = IF passes THEN Record(p) ELSE mem.cursor
      /\ \A e \in Log : Processed(t, e) => e <= t.cursor
      /\ \A e \in committed : e <= t.cursor
      /\ \A q \in Pollers : q # p => poll[q].at = "idle"
  BY <1>0, UncontestedWrite
<1>2. /\ poll'[p] = x /\ Record(p)' = Head(x.left)
      /\ \A q \in Pollers : q # p => poll'[q] = poll[q]
  BY MovedFacts DEF Swaps
<1>3. \A q, r \in Pollers : poll'[q].at # "idle" /\ poll'[r].at # "idle" => q = r
  BY <1>1, <1>2
<1>4. ASSUME x.at # "idle" PROVE x.cursor = t.cursor
  <2>1. CASE passes /\ x.cursor = Record(p)
    BY <1>1, <2>1
  <2>2. CASE poll[p].at = "clearing" /\ x.cursor = poll[p].cursor
    <3>1. ~passes
      BY <2>2 DEF IsQuarantine
    <3>2. poll[p].cursor = mem.cursor
      BY <1>0, <2>2 DEF Uncontested
    <3> QED BY <1>1, <2>2, <3>1, <3>2
  <2> QED BY <1>4, <2>1, <2>2, IdleFits DEF Swaps
<1>5. \A q \in Pollers : poll'[q].at # "idle" => poll'[q].cursor = t.cursor
  BY <1>1, <1>2, <1>4
<1>6. \A e \in committed' : e <= t.cursor
  <2>1. committed' = committed \/ (passes /\ committed' \subseteq committed \cup {Record(p)})
    BY DEF Swaps
  <2> QED BY <1>1, <2>1
<1>7. ASSUME x.at = "committing" PROVE ~Unsettled(Head(x.left))'
  <2>1. /\ poll[p].at = "clearing" /\ x.left = poll[p].left
        /\ Processed(mem', Record(p)) \/ Record(p) \notin Directed \cup Legacy
    BY <1>7, IdleFits DEF Swaps
  <2>2. Head(x.left) = Record(p)
    BY <2>1 DEF Record
  <2>3. ~passes
    BY <2>1 DEF IsQuarantine
  <2>4. ~Processed(t, Record(p))
    BY <1>1, <2>3
  <2>5. Record(p) \notin Broken
    BY <1>7, <2>2 DEF Swaps, Fits
  <2> QED BY <1>0, <2>1, <2>2, <2>4, <2>5 DEF Unsettled
<1>8. \A q \in Pollers : poll'[q].at = "committing" => ~Unsettled(Record(q))'
  <2> SUFFICES ASSUME NEW q \in Pollers, poll'[q].at = "committing" PROVE ~Unsettled(Record(q))'
    OBVIOUS
  <2>1. q = p
    BY <1>1, <1>2
  <2> QED BY <1>2, <1>7, <2>1 DEF Unsettled
<1> HIDE DEF t, passes
<1> QED BY <1>0, <1>1, <1>3, <1>5, <1>6, <1>8 DEF Uncontested

LEMMA UncontestedByRename ==
    ASSUME Typed, Uncontested, NEW p \in Pollers, Renames(p)
    PROVE  Uncontested'
<1> SUFFICES ASSUME ~overlapped' PROVE Uncontested'
  BY DEF Uncontested
<1> DEFINE t == Mutated(p, mem)
<1>0. /\ ~overlapped /\ poll[p].at \in MutationStages /\ mem' = mem /\ disk' = t
      /\ committed' = committed
  BY DEF Renames
<1>1. /\ \A e \in Log : Processed(t, e) => e <= t.cursor
      /\ \A e \in committed : e <= t.cursor
      /\ \A q \in Pollers : q # p => poll[q].at = "idle"
  BY <1>0, UncontestedWrite
<1> HIDE DEF t
<1>2. /\ poll'[p] = NoPoll
      /\ \A q \in Pollers : q # p => poll'[q] = poll[q]
  BY MovedFacts DEF Renames
<1>3. \A q \in Pollers : poll'[q].at = "idle"
  BY <1>1, <1>2, IdleFits
<1> QED BY <1>0, <1>1, <1>3 DEF Uncontested

LEMMA UncontestedByCrash ==
    ASSUME Typed, StagesFit, Uncontested, Crash
    PROVE  Uncontested'
<1>1. /\ \A q \in Pollers : poll'[q].at = "idle"
      /\ mem' = disk /\ disk' = disk /\ committed' = committed /\ overlapped' = overlapped
  BY CrashTypes, IdleFits DEF Crash, history
<1> QED BY <1>1 DEF Uncontested

LEMMA StruckIsFinite ==
    /\ IsFiniteSet(Struck) /\ Cardinality(Struck) \in Nat
<1>1. IsFiniteSet(Log)
  BY StoreAssumption, FS_Interval DEF Log
<1>2. Struck \in SUBSET Log
  BY DEF Struck
<1> QED BY <1>1, <1>2, FS_Subset, FS_CardinalityType

\* A bound on the struck events held before they became more.
LEMMA FewStruck ==
    ASSUME Struck \subseteq Struck', Cardinality(Struck') <= MaxFailures
    PROVE  /\ Cardinality(Struck) <= MaxFailures
           /\ IsFiniteSet(Struck')
<1>1. IsFiniteSet(Log)
  BY StoreAssumption, FS_Interval DEF Log
<1>2. IsFiniteSet(Struck') /\ Cardinality(Struck') \in Nat
  <2>1. Struck' \in SUBSET Log
    BY DEF Struck
  <2> QED BY <1>1, <2>1, FS_Subset, FS_CardinalityType
<1>3. Cardinality(Struck) <= Cardinality(Struck') /\ Cardinality(Struck) \in Nat
  BY <1>2, StruckIsFinite, FS_Subset
<1> QED BY <1>2, <1>3, StoreAssumption

LEMMA DeadLettersByWander ==
    ASSUME Typed, DeadLettersAreFiled, NEW p \in Pollers, NEW x, Wanders(p, x)
    PROVE  DeadLettersAreFiled'
<1>1. Struck \subseteq Struck'
  BY StruckGrows
<1>2. /\ mem' = mem /\ disk' = disk /\ quarantined' = quarantined
      /\ handled \subseteq handled' /\ (~overlapped' => ~overlapped)
  BY DEF Wanders
<1>3. Cardinality(Struck') <= MaxFailures => Cardinality(Struck) <= MaxFailures
  BY <1>1, FewStruck
<1>4. \A e : Unsettled(e)' => Unsettled(e)
  BY <1>2 DEF Unsettled
<1> QED BY <1>2, <1>3, <1>4 DEF DeadLettersAreFiled

LEMMA DeadLettersByWrite ==
    ASSUME Typed, OnlyStruckAreFiled, Uncontested, DeadLettersAreFiled,
           NEW p \in Pollers, NEW x, Swaps(p, x) \/ Renames(p),
           ~overlapped, Cardinality(Struck') <= MaxFailures,
           NEW e \in quarantined', Unsettled(e)'
    PROVE  /\ e <= Mutated(p, mem).cursor => FailureRecorded(Mutated(p, mem), e)
           /\ e <= mem.cursor => FailureRecorded(mem, e)
<1> DEFINE t == Mutated(p, mem)
           passes == poll[p].at = "committing" \/ IsQuarantine(p)
           stage == poll[p].at
<1>0. /\ stage \in MutationStages /\ Buries(p) /\ handled' = handled
      /\ quarantined \subseteq Log /\ mem \in States
  BY TypedParts DEF Swaps, Renames, OthersTyped
<1>1. /\ Record(p) = mem.cursor + 1 /\ Record(p) \in Log /\ mem.cursor \in Nat
      /\ t.cursor = IF passes THEN Record(p) ELSE mem.cursor
  BY <1>0, UncontestedWrite
<1>2. Effect(stage, mem, t, Record(p))
  BY <1>0, WriteFacts
<1>3. /\ Struck \subseteq Struck'
      /\ stage \in {"quarantining", "failing"} => Record(p) \in Struck'
      /\ \A r \in Records(mem) : r.id \in Struck'
  BY StruckByWrite DEF OnlyStruckAreFiled
<1>4. Cardinality(Struck) <= MaxFailures /\ IsFiniteSet(Struck')
  BY <1>3, FewStruck
<1>5. e \in quarantined \/ (e = Record(p) /\ IsQuarantine(p))
  BY <1>0 DEF Buries
<1>6. e \in Log /\ e \in Nat /\ Unsettled(e)
  <2>1. e \in Log
    BY <1>0, <1>1, <1>5
  <2>2. e \in Nat
    BY <2>1 DEF Log
  <2>3. Unsettled(e)
    BY <1>0 DEF Unsettled
  <2> QED BY <2>1, <2>2, <2>3
<1>7. ASSUME e <= mem.cursor PROVE FailureRecorded(mem, e)
  <2>1. e \in quarantined
    BY <1>1, <1>5, <1>7
  <2> QED BY <1>4, <1>6, <1>7, <2>1 DEF DeadLettersAreFiled
<1>8. t \in States
  BY <1>2 DEF Effect
<1>9. ASSUME e <= t.cursor PROVE FailureRecorded(t, e)
  <2>1. CASE e = Record(p)
    <3>1. passes
      BY <1>1, <1>9, <2>1
    <3>2. stage # "committing"
      BY <1>6, <2>1 DEF Uncontested
    <3>3. stage \in {"quarantining", "failing"}
      BY <3>1, <3>2 DEF IsQuarantine
    <3>4. \E r \in Records(t) : r.id = Record(p)
      BY <1>2, <3>3 DEF Effect
    <3> QED BY <1>8, <2>1, <3>4, RecordsProperties
  <2>2. CASE e # Record(p)
    <3>1. e <= mem.cursor
      BY <1>1, <1>6, <1>9, <2>2
    <3>2. PICK r \in Records(mem) : r.id = e
      BY <1>0, <1>7, <3>1, RecordsProperties
    <3>3. r \in Records(t)
      BY <1>2, <1>3, <1>4, <2>2, <3>2 DEF Effect
    <3> QED BY <1>8, <3>2, <3>3, RecordsProperties
  <2> QED BY <2>1, <2>2
<1> QED BY <1>7, <1>9

LEMMA DeadLettersBySave ==
    ASSUME Typed, OnlyStruckAreFiled, Uncontested, DeadLettersAreFiled,
           NEW p \in Pollers, NEW x, Swaps(p, x) \/ Renames(p)
    PROVE  DeadLettersAreFiled'
<1> SUFFICES ASSUME ~overlapped', Cardinality(Struck') <= MaxFailures,
                    NEW e \in quarantined', Unsettled(e)'
             PROVE  /\ e <= mem'.cursor => FailureRecorded(mem', e)
                    /\ e <= disk'.cursor => FailureRecorded(disk', e)
  BY DEF DeadLettersAreFiled
<1> DEFINE t == Mutated(p, mem)
<1>1. /\ ~overlapped
      /\ (mem' = t /\ disk' = t) \/ (mem' = mem /\ disk' = t)
  BY DEF Swaps, Renames
<1>2. /\ e <= t.cursor => FailureRecorded(t, e)
      /\ e <= mem.cursor => FailureRecorded(mem, e)
  BY <1>1, DeadLettersByWrite
<1> HIDE DEF t
<1> QED BY <1>1, <1>2

LEMMA DeadLettersByCrash ==
    ASSUME Typed, StagesFit, OnlyStruckAreFiled, DeadLettersAreFiled, Crash
    PROVE  DeadLettersAreFiled'
<1>1. /\ Struck' = Struck /\ mem' = disk /\ disk' = disk
      /\ quarantined' = quarantined /\ handled' = handled /\ overlapped' = overlapped
  BY StruckByCrash, CrashTypes DEF Crash, history
<1> QED BY <1>1 DEF DeadLettersAreFiled, Unsettled

LEMMA CommittedByStep ==
    ASSUME Typed, StagesFit, CommittedIsKept, NEW p \in Pollers, NEW x,
           Wanders(p, x) \/ Swaps(p, x) \/ Renames(p)
    PROVE  CommittedIsKept'
<1> SUFFICES ASSUME Events <= MaxProcessed, NEW e \in committed'
             PROVE  Processed(mem', e) /\ Processed(disk', e)
  BY DEF CommittedIsKept
<1> DEFINE t == Mutated(p, mem)
<1>1. CASE Wanders(p, x)
  BY <1>1 DEF Wanders, CommittedIsKept
<1>2. CASE Swaps(p, x)
  <2>1. /\ poll[p].at \in MutationStages /\ mem' = t /\ disk' = t
        /\ e \in committed \/ (e = Record(p) /\ poll[p].at = "committing")
    BY <1>2 DEF Swaps
  <2>2. Processed(mem, e) \/ (e = Record(p) /\ Passes(poll[p].at, mem, Record(p)))
    BY <2>1 DEF CommittedIsKept, Passes
  <2>3. Processed(t, e)
    BY <2>1, <2>2, WriteFacts DEF Effect
  <2> HIDE DEF t
  <2> QED BY <2>1, <2>3
<1>3. CASE Renames(p)
  <2>1. /\ poll[p].at \in MutationStages /\ mem' = mem /\ disk' = t /\ e \in committed
    BY <1>3 DEF Renames
  <2>2. Processed(mem, e)
    BY <2>1 DEF CommittedIsKept
  <2>3. Processed(t, e)
    BY <2>1, <2>2, WriteFacts DEF Effect
  <2> HIDE DEF t
  <2> QED BY <2>1, <2>2, <2>3
<1> QED BY <1>1, <1>2, <1>3

-----------------------------------------------------------------------------
(* The induction.                                                          *)

LEMMA InitPollsInv == Init => PollsInv
<1> SUFFICES ASSUME Init PROVE PollsInv
  OBVIOUS
<1>1. /\ disk = EmptyState /\ mem = EmptyState
      /\ \A p \in Pollers : poll[p] = NoPoll
      /\ poll \in [Pollers -> PollType]
      /\ handled = {} /\ committed = {} /\ quarantined = {} /\ received = {}
      /\ failures = [e \in Log |-> 0]
  BY NoPollIsSound DEF Init
<1>2. /\ EmptyState \in States /\ WellFormed(EmptyState)
      /\ Records(EmptyState) = {} /\ EmptyState.cursor = 0
      /\ \A e : ~Processed(EmptyState, e)
  <2>1. /\ <<>> \in Seq(Log) /\ <<>> \in Seq(FailureRecords) /\ Len(<<>>) = 0
        /\ DOMAIN <<>> = {}
    BY EmptySeq
  <2>2. EmptyState.cursor = 0 /\ EmptyState.processed = <<>> /\ EmptyState.failures = <<>>
    BY DEF EmptyState
  <2>3. EmptyState \in States
    BY <2>1, StoreAssumption DEF EmptyState, States
  <2>4. WellFormed(EmptyState)
    BY <2>1, <2>2, StoreAssumption DEF WellFormed, IsInjective
  <2> QED BY <2>1, <2>2, <2>3, <2>4 DEF Records, Processed, Contains
<1>3. OthersTyped
  <2>1. batch \in [Pollers -> SUBSET Log]
    BY DEF Init
  <2>2. published \in 0 .. Events
    BY StoreAssumption DEF Init
  <2>3. UNION {handled, committed, quarantined, received} \subseteq Log
    BY <1>1
  <2>4. overlapped \in BOOLEAN
    BY DEF Init
  <2>5. failures \in [Log -> Nat]
    BY <1>1
  <2>6. faults \in [DOMAIN NoFaults -> Nat]
    BY DEF Init, NoFaults
  <2> QED BY <2>1, <2>2, <2>3, <2>4, <2>5, <2>6 DEF OthersTyped
<1>4. Typed
  BY <1>1, <1>2, <1>3, NoPollIsSound, TypedParts
<1>5. StagesFit
  BY <1>1, IdleFits DEF StagesFit
<1>6. WorkIsSettled
  BY <1>1, <1>2, IdleFits DEF WorkIsSettled, Log
<1>7. AttemptsAreReal
  <2>1. ASSUME NEW e PROVE Cardinality(Failing(e)) = 0
    <3>1. Failing(e) = {}
      BY <1>1, IdleFits DEF Failing
    <3> QED BY <3>1, FS_EmptySet
  <2> QED BY <1>1, <1>2, <2>1 DEF AttemptsAreReal
<1>8. OnlyStruckAreFiled
  BY <1>1, <1>2, IdleFits DEF OnlyStruckAreFiled
<1>9. Uncontested
  BY <1>1, <1>2, IdleFits DEF Uncontested
<1>10. DeadLettersAreFiled /\ CommittedIsKept
  BY <1>1 DEF DeadLettersAreFiled, CommittedIsKept
<1> QED BY <1>4, <1>5, <1>6, <1>7, <1>8, <1>9, <1>10 DEF PollsInv

LEMMA NextPollsInv == PollsInv /\ [Next]_vars => PollsInv'
<1> SUFFICES ASSUME PollsInv, [Next]_vars PROVE PollsInv'
  OBVIOUS
<1> USE DEF PollsInv
<1>1. CASE Publish
  <2>1. Typed'
    BY <1>1, PublishTypes
  <2> QED BY <1>1, <2>1
          DEF Publish, clientVars, history, StagesFit, WorkIsSettled, Settled, AttemptsAreReal,
              Failing, Record, OnlyStruckAreFiled, Struck, Uncontested, Unsettled,
              DeadLettersAreFiled, CommittedIsKept
<1>2. CASE Crash
  <2>1. CommittedIsKept'
    BY <1>2 DEF Crash, history, CommittedIsKept
  <2> QED BY <1>2, <2>1, CrashTypes, SettledByCrash, AttemptsByCrash, StruckByCrash,
             UncontestedByCrash, DeadLettersByCrash
<1>3. ASSUME NEW p \in Pollers, PollStep(p) PROVE PollsInv'
  <2>1. Typed' /\ StagesFit'
    BY <1>3, PollTypes
  <2>2. PICK x : Wanders(p, x) \/ Swaps(p, x) \/ Renames(p)
    BY <1>3, StepKinds
  <2>3. CommittedIsKept'
    BY <2>2, CommittedByStep
  <2>4. CASE Wanders(p, x)
    BY <2>1, <2>3, <2>4, SettledByWander, AttemptsByWander, StruckByWander,
       UncontestedByWander, DeadLettersByWander
  <2>5. CASE Swaps(p, x)
    BY <2>1, <2>3, <2>5, SettledBySwap, AttemptsBySwap, StruckBySave,
       UncontestedBySwap, DeadLettersBySave
  <2>6. CASE Renames(p)
    BY <2>1, <2>3, <2>6, SettledByRename, AttemptsByRename, StruckBySave,
       UncontestedByRename, DeadLettersBySave
  <2> QED BY <2>2, <2>4, <2>5, <2>6
<1>4. CASE UNCHANGED vars
  BY <1>4 DEF vars, clientVars, history, Typed, TypeOK, StagesFit, WorkIsSettled, Settled,
              AttemptsAreReal, Failing, Record, OnlyStruckAreFiled, Struck, Uncontested,
              Unsettled, DeadLettersAreFiled, CommittedIsKept
<1> QED BY <1>1, <1>2, <1>3, <1>4 DEF Next

LEMMA PollsInvHolds == Spec => []PollsInv
<1> QED BY InitPollsInv, NextPollsInv, PTL DEF Spec

\* Every state the polls of a Task reach, whatever overlaps, fails or crashes,
\* is well typed, and no event of a current format is a dead letter before it
\* failed maxEventFailures times (poll, recordEventFailure).
THEOREM GivenUpIsEarned == Spec => []QuarantineIsEarned
<1>1. PollsInv => QuarantineIsEarned
  BY DEF PollsInv, Typed, AttemptsAreReal, QuarantineIsEarned
<1> QED BY <1>1, PollsInvHolds, PTL

\* The durable cursor never passes work that was not handled or given up, and
\* what was given up stays in the table of failures (poll, commitEventCursor).
THEOREM NothingIsSkipped == Spec => []NothingSkipped
<1>1. PollsInv => NothingSkipped
  <2> SUFFICES ASSUME PollsInv PROVE NothingSkipped
    OBVIOUS
  <2>1. Directed \subseteq Log
    BY EventsAssumption
  <2>2. \A e \in Directed : e <= disk.cursor => e \in handled \cup quarantined
    BY <2>1 DEF PollsInv, WorkIsSettled, Settled
  <2>3. Struck = {e \in Log : e \in quarantined \/ failures[e] > 0}
    BY DEF Struck
  <2> QED BY <2>2, <2>3 DEF PollsInv, DeadLettersAreFiled, NothingSkipped
<1> QED BY <1>1, PollsInvHolds, PTL

-----------------------------------------------------------------------------
(* The handler of an event is not started again.                           *)

LEMMA GoesTo ==
    ASSUME Typed, NEW p \in Pollers, NEW stage, Goes(p, stage)
    PROVE  poll'[p].at = stage /\ Record(p)' = Record(p)
<1>1. poll[p] \in PollType /\ poll \in [Pollers -> PollType]
  BY TypedParts
<1>2. poll' = [poll EXCEPT ![p].at = stage]
  BY DEF Goes
<1>3. poll'[p] = [poll[p] EXCEPT !.at = stage]
  BY <1>1, <1>2
<1>4. poll'[p].at = stage /\ poll'[p].left = poll[p].left
  BY <1>1, <1>3 DEF PollType
<1> QED BY <1>4 DEF Record

\* What does not go to a stage of the next record ends in one of these.
LEMMA NotHandling ==
    ASSUME Typed, NEW p \in Pollers,
           \/ PollStart(p) \/ ReadPage(p) \/ Aborts(p) \/ HandlerThrows(p)
           \/ Committed(p) \/ Quarantined(p) \/ FailureCounted(p)
           \/ \E renamed \in BOOLEAN : SaveFails(p, renamed)
    PROVE  poll'[p].at # "handling"
<1>0. poll[p] \in PollType /\ poll \in [Pollers -> PollType]
  BY TypedParts
<1>1. ASSUME Rejects(p) \/ Resolves(p) PROVE poll'[p].at # "handling"
  <2>1. poll'[p] = NoPoll
    BY <1>0, <1>1 DEF Rejects, Resolves
  <2> QED BY <2>1, IdleFits
<1>2. CASE PollStart(p)
  <2>1. poll'[p] = [NoPoll EXCEPT !.at = "reading", !.cursor = mem.cursor]
    BY <1>0, <1>2 DEF PollStart
  <2> QED BY <2>1 DEF NoPoll
<1>3. CASE ReadPage(p)
  <2> DEFINE page == PageAfter(poll[p].cursor)
  <2>1. CASE poll' = [poll EXCEPT ![p] =
                        [@ EXCEPT !.at = "next", !.left = page.seqs, !.more = page.more]]
    <3> HIDE DEF page
    <3>1. poll'[p] = [poll[p] EXCEPT !.at = "next", !.left = page.seqs, !.more = page.more]
      BY <1>0, <2>1
    <3> QED BY <1>0, <3>1 DEF PollType
  <2> QED BY <1>1, <1>3, <2>1 DEF ReadPage
<1>4. CASE Committed(p) \/ Quarantined(p)
  <2>1. PICK x : Moved(p, x) /\ x.at \in {"idle", "reading", "next"}
    <3>1. poll[p].at \notin Calm /\ StepsOn(p)
      BY <1>4 DEF Committed, Quarantined, IsQuarantine, Calm
    <3> QED BY <3>1, StepsOnMoves, IdleFits
  <2> QED BY <2>1, MovedFacts
<1>5. CASE Aborts(p) \/ HandlerThrows(p) \/ FailureCounted(p)
           \/ \E renamed \in BOOLEAN : SaveFails(p, renamed)
  BY <1>1, <1>5 DEF Aborts, HandlerThrows, FailureCounted, SaveFails
<1> QED BY <1>2, <1>3, <1>4, <1>5

\* A handler starts only for an event that the ledger in memory does not name.
LEMMA HandlerStarts ==
    ASSUME Typed, StagesFit, NEW p \in Pollers, NEW q \in Pollers, PollStep(q),
           poll[p].at # "handling", poll'[p].at = "handling"
    PROVE  /\ Record(p)' = Record(p) /\ poll[p].at \in {"next", "clearing"}
           /\ committed' = committed
           /\ ~Processed(mem, Record(p)) \/ ~Processed(mem', Record(p))
<1>1. p = q
  <2>1. PICK x : Moved(q, x)
    BY StepKinds DEF Wanders, Swaps, Renames
  <2> QED BY <2>1, MovedFacts
<1>2. CASE Decrypts(p)
  <2>1. Goes(p, IF FailureRecorded(mem, Record(p)) THEN "clearing" ELSE Dispatch(mem, Record(p)))
    BY <1>2 DEF Decrypts
  <2>2. Dispatch(mem, Record(p)) = "handling" /\ Record(p)' = Record(p)
    BY <2>1, GoesTo
  <2>3. ~Processed(mem, Record(p))
    BY <2>2 DEF Dispatch
  <2>4. poll[p].at = "next" /\ committed' = committed
    BY <1>2 DEF Decrypts, history
  <2> QED BY <2>2, <2>3, <2>4
<1>3. CASE FailureCleared(p)
  <2>1. Goes(p, Dispatch(mem', Record(p)))
    BY <1>3 DEF FailureCleared
  <2>2. Dispatch(mem', Record(p)) = "handling" /\ Record(p)' = Record(p)
    BY <2>1, GoesTo
  <2>3. ~Processed(mem', Record(p))
    BY <2>2 DEF Dispatch
  <2>4. poll[p].at = "clearing" /\ committed' = committed
    BY <1>3 DEF FailureCleared
  <2> QED BY <2>2, <2>3, <2>4
<1>4. CASE MeetsLegacy(p)
  BY <1>4, GoesTo DEF MeetsLegacy
<1>5. CASE DecryptFails(p)
  BY <1>5, GoesTo DEF DecryptFails
<1>6. CASE HandlerReturns(p)
  BY <1>6 DEF HandlerReturns
<1>7. CASE \/ PollStart(p) \/ ReadPage(p) \/ Aborts(p) \/ HandlerThrows(p)
           \/ Committed(p) \/ Quarantined(p) \/ FailureCounted(p)
           \/ \E renamed \in BOOLEAN : SaveFails(p, renamed)
  BY <1>7, NotHandling
<1> QED BY <1>1, <1>2, <1>3, <1>4, <1>5, <1>6, <1>7 DEF PollStep, Saves

\* One caller cannot overlap itself.
AloneIsUncontested == (\A p, q \in Pollers : p = q) => ~overlapped

LEMMA AloneHolds == Spec => []AloneIsUncontested
<1>1. Init => AloneIsUncontested
  BY DEF Init, AloneIsUncontested
<1>2. PollsInv /\ AloneIsUncontested /\ [Next]_vars => AloneIsUncontested'
  <2> SUFFICES ASSUME PollsInv, ~overlapped, [Next]_vars, \A p, q \in Pollers : p = q
               PROVE  ~overlapped'
    BY DEF AloneIsUncontested
  <2>1. CASE Publish \/ Crash \/ UNCHANGED vars
    BY <2>1 DEF Publish, Crash, vars, history
  <2>2. ASSUME NEW p \in Pollers, PollStep(p) PROVE ~overlapped'
    <3>1. PICK x : Wanders(p, x) \/ Swaps(p, x) \/ Renames(p)
      BY <2>2, StepKinds DEF PollsInv
    <3> QED BY <3>1 DEF Wanders, Swaps, Renames
  <2> QED BY <2>1, <2>2 DEF Next
<1> QED BY <1>1, <1>2, PollsInvHolds, PTL DEF Spec

\* The handler of an event whose commit was saved is never started again, if
\* the ledger of processed events holds the Task's log or if one caller polls
\* the Task (poll, its look at processedEventIds and at the cursor).
THEOREM HandledOnce ==
    ASSUME Events <= MaxProcessed \/ \A p, q \in Pollers : p = q
    PROVE  Spec => CommittedIsNotHandledAgain
<1>1. ASSUME PollsInv, PollsInv', AloneIsUncontested, [Next]_vars,
             NEW p \in Pollers, poll[p].at # "handling", poll'[p].at = "handling"
      PROVE  Record(p)' \notin committed
  <2>1. Typed /\ StagesFit /\ CommittedIsKept /\ CommittedIsKept' /\ Uncontested
    BY <1>1 DEF PollsInv
  <2>2. ~(Publish \/ UNCHANGED vars)
    BY <1>1 DEF Publish, clientVars, vars
  <2>3. ~Crash
    <3> SUFFICES ASSUME Crash PROVE FALSE
      OBVIOUS
    <3>1. poll'[p] = NoPoll
      BY DEF Crash
    <3> QED BY <1>1, <3>1, IdleFits
  <2>4. PICK q \in Pollers : PollStep(q)
    BY <1>1, <2>2, <2>3 DEF Next
  <2>5. /\ Record(p)' = Record(p) /\ poll[p].at \in {"next", "clearing"}
        /\ committed' = committed
        /\ ~Processed(mem, Record(p)) \/ ~Processed(mem', Record(p))
    BY <1>1, <2>1, <2>4, HandlerStarts
  <2>6. CASE Events <= MaxProcessed
    BY <2>1, <2>5, <2>6 DEF CommittedIsKept
  <2>7. CASE \A r, q1 \in Pollers : r = q1
    <3>1. ~overlapped
      BY <1>1, <2>7 DEF AloneIsUncontested
    <3>2. /\ poll[p].cursor = mem.cursor
          /\ \A e \in committed : e <= mem.cursor
      BY <2>1, <2>5, <3>1 DEF Uncontested
    <3>3. Record(p) = poll[p].cursor + 1
      BY <2>1, <2>5, RecordProperties DEF Calm
    <3>4. mem.cursor \in Nat
      <4>1. mem \in States
        BY <2>1, TypedParts
      <4> QED BY <4>1 DEF States
    <3>5. ~(Record(p) <= mem.cursor)
      BY <3>2, <3>3, <3>4
    <3> QED BY <2>5, <3>2, <3>5
  <2> QED BY <2>6, <2>7
<1>2. PollsInv /\ PollsInv' /\ AloneIsUncontested /\ [Next]_vars
      => [\A p \in Pollers : poll[p].at # "handling" /\ poll'[p].at = "handling"
                              => Record(p)' \notin committed]_poll
  BY <1>1
<1> QED BY <1>2, PollsInvHolds, AloneHolds, PTL DEF Spec, CommittedIsNotHandledAgain

=============================================================================
