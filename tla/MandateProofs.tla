---------------------------- MODULE MandateProofs ----------------------------
(***************************************************************************)
(* Mandates, for every mandate, use and caller.  First MandatePolicy, the  *)
(* pure verdict: wider terms permit more, smaller uses stay permitted, and *)
(* consent decides what it is asked for.  Then MandateUse, its execution:  *)
(* nothing large happens without consent, no effect begins after the       *)
(* mandate's end, and the books of what was spent stay true.               *)
(***************************************************************************)
EXTENDS MandateJudgement, FiniteSetTheorems, SequenceTheorems, TLAPS

-----------------------------------------------------------------------------
\* A verdict is "permitted" exactly if every check lets the use pass.
LEMMA PermittedIff ==
    ASSUME NEW m, NEW r
    PROVE  Verdict(m, r) = "permitted" <=>
             /\ ~OutOfForce(m, r) /\ ~DelegationDenied(m, r) /\ ~NeedsPrincipal(m, r)
             /\ ~OutOfBounds(m, r) /\ Missing(m, r) = {}
  BY DEF Verdict

\* A prefix keeps the entries where they were.
LEMMA PrefixKeeps ==
    ASSUME NEW S, NEW s \in Seq(S), NEW t \in Seq(S), IsPrefix(s, t)
    PROVE  DOMAIN s \subseteq DOMAIN t /\ \A i \in DOMAIN s : t[i] = s[i]
  <1>1. Len(s) \in Nat /\ Len(t) \in Nat /\ Len(s) <= Len(t)
    BY DEF IsPrefix
  <1>2. SubSeq(s, 1, Len(s)) = SubSeq(t, 1, Len(s))
    BY DEF IsPrefix
  <1>3. \A i \in 1 .. Len(s) : SubSeq(s, 1, Len(s))[i] = s[i] /\ SubSeq(t, 1, Len(s))[i] = t[i]
    BY <1>1
  <1> QED
    BY <1>1, <1>2, <1>3

\* The first entry that qualifies in a prefix is the first one of the whole.
LEMMA FirstStaysFirst ==
    ASSUME NEW S, NEW s \in Seq(S), NEW t \in Seq(S), IsPrefix(s, t), NEW Good,
           NEW i \in DOMAIN s, s[i] \in Good, \A k \in DOMAIN s : s[k] \in Good => i <= k
    PROVE  i \in DOMAIN t /\ t[i] = s[i] /\ \A k \in DOMAIN t : t[k] \in Good => i <= k
  <1>1. DOMAIN s \subseteq DOMAIN t /\ \A k \in DOMAIN s : t[k] = s[k]
    BY PrefixKeeps
  <1>2. DOMAIN s = 1 .. Len(s) /\ DOMAIN t = 1 .. Len(t) /\ Len(s) \in Nat /\ Len(t) \in Nat
    OBVIOUS
  <1>3. ASSUME NEW k \in DOMAIN t, t[k] \in Good PROVE i <= k
    <2>1. CASE k \in DOMAIN s
      BY <1>3, <2>1, <1>1
    <2>2. CASE k \notin DOMAIN s
      BY <2>2, <1>2
    <2> QED
      BY <2>1, <2>2
  <1> QED
    BY <1>1, <1>3

-----------------------------------------------------------------------------
\* What wider terms cannot take away.
LEMMA WiderForce ==
    ASSUME NEW m, NEW n, NEW r, TypedTerms(m), TypedTerms(n), TypedUse(m, r),
           Wider(n, m), ~OutOfForce(m, r)
    PROVE  ~OutOfForce(n, r)
  <1>1. ~Ended(n, r)
    BY DEF Wider, OutOfForce, Ended
  <1>2. r.terms = n.terms /\ ~(r.at < n.from) /\ ~(r.at >= n.until)
    <2>1. {m.from, m.until, n.from, n.until, r.at} \subseteq Nat
      BY DEF TypedTerms, TypedUse
    <2>2. n.terms = m.terms /\ n.from <= m.from /\ n.until >= m.until
      BY DEF Wider
    <2>3. r.terms = m.terms /\ ~(r.at < m.from) /\ ~(r.at >= m.until)
      BY DEF OutOfForce
    <2> QED
      BY <2>1, <2>2, <2>3
  <1> QED
    BY <1>1, <1>2 DEF OutOfForce

LEMMA WiderDelegates ==
    ASSUME NEW m, NEW n, NEW r, TypedTerms(m), TypedTerms(n), TypedUse(m, r),
           Wider(n, m), ~DelegationDenied(m, r), ~NeedsPrincipal(m, r)
    PROVE  ~DelegationDenied(n, r) /\ ~NeedsPrincipal(n, r)
  <1>1. CASE Delegated(m, r)
    <2>1. Delegated(n, r)
      BY <1>1 DEF Delegated, Wider
    <2>2. m.delegation.allowed /\ r.by \in m.delegation.delegates /\ r.depth \in 1 .. m.delegation.depth
      BY <1>1 DEF DelegationDenied
    <2>3. n.delegation.allowed /\ r.by \in n.delegation.delegates /\ r.depth \in 1 .. n.delegation.depth
      <3>1. /\ m.delegation.allowed => n.delegation.allowed
            /\ m.delegation.delegates \subseteq n.delegation.delegates
            /\ m.delegation.depth <= n.delegation.depth
        BY DEF Wider
      <3>2. m.delegation.depth \in Nat /\ n.delegation.depth \in Nat
        BY DEF TypedTerms
      <3> QED
        BY <2>2, <3>1, <3>2
    <2>4. ~NeedsPrincipal(n, r)
      BY <1>1 DEF NeedsPrincipal, Wider
    <2> QED
      BY <2>1, <2>3, <2>4 DEF DelegationDenied
  <1>2. CASE ~Delegated(m, r)
    BY <1>2 DEF DelegationDenied, NeedsPrincipal, Delegated, Wider
  <1> QED
    BY <1>1, <1>2

LEMMA WiderGrants ==
    ASSUME NEW m, NEW n, NEW r, TypedTerms(m), TypedTerms(n), Wider(n, m)
    PROVE  /\ \A tool : ToolGranted(m, tool) => ToolGranted(n, tool)
           /\ \A access : DataGranted(m, access) => DataGranted(n, access)
  <1>1. ASSUME NEW tool, ToolGranted(m, tool) PROVE ToolGranted(n, tool)
    <2> DEFINE Good == {grant \in ToolGrants : grant.tool = tool.tool}
    <2>1. m.tools \in Seq(ToolGrants) /\ n.tools \in Seq(ToolGrants) /\ IsPrefix(m.tools, n.tools)
      BY DEF TypedTerms, Wider
    <2>2. PICK i \in DOMAIN m.tools :
             /\ m.tools[i].tool = tool.tool /\ \A k \in DOMAIN m.tools : m.tools[k].tool = tool.tool => i <= k
             /\ tool.action \in m.tools[i].actions /\ AudienceAllowed(m.tools[i].audience, tool.host)
      BY <1>1 DEF ToolGranted, First
    <2>3. m.tools[i] \in Good /\ \A k \in DOMAIN m.tools : m.tools[k] \in Good => i <= k
      BY <2>1, <2>2
    <2>4. i \in DOMAIN n.tools /\ n.tools[i] = m.tools[i] /\ \A k \in DOMAIN n.tools : n.tools[k] \in Good => i <= k
      <3> HIDE DEF Good
      <3> QED
        BY <2>1, <2>2, <2>3, FirstStaysFirst
    <2>5. n.tools[i].tool = tool.tool /\ \A k \in DOMAIN n.tools : n.tools[k].tool = tool.tool => i <= k
      BY <2>1, <2>2, <2>4
    <2> QED
      BY <2>2, <2>4, <2>5 DEF ToolGranted, First
  <1>2. ASSUME NEW access, DataGranted(m, access) PROVE DataGranted(n, access)
    <2> DEFINE Good == {grant \in DataGrants : grant.resource = access.resource}
    <2>1. m.data \in Seq(DataGrants) /\ n.data \in Seq(DataGrants) /\ IsPrefix(m.data, n.data)
      BY DEF TypedTerms, Wider
    <2>2. PICK i \in DOMAIN m.data :
             /\ m.data[i].resource = access.resource /\ \A k \in DOMAIN m.data : m.data[k].resource = access.resource => i <= k
             /\ access.permission \in m.data[i].permissions /\ access.recipients \subseteq m.data[i].recipients
      BY <1>2 DEF DataGranted, First
    <2>3. m.data[i] \in Good /\ \A k \in DOMAIN m.data : m.data[k] \in Good => i <= k
      BY <2>1, <2>2
    <2>4. i \in DOMAIN n.data /\ n.data[i] = m.data[i] /\ \A k \in DOMAIN n.data : n.data[k] \in Good => i <= k
      <3> HIDE DEF Good
      <3> QED
        BY <2>1, <2>2, <2>3, FirstStaysFirst
    <2>5. n.data[i].resource = access.resource /\ \A k \in DOMAIN n.data : n.data[k].resource = access.resource => i <= k
      BY <2>1, <2>2, <2>4
    <2> QED
      BY <2>2, <2>4, <2>5 DEF DataGranted, First
  <1> QED
    BY <1>1, <1>2

LEMMA WiderBounds ==
    ASSUME NEW m, NEW n, NEW r, TypedTerms(m), TypedTerms(n), TypedUse(m, r),
           Wider(n, m), ~OutOfBounds(m, r)
    PROVE  ~OutOfBounds(n, r)
  <1>1. r.participants \subseteq n.participants /\ r.action \in n.actions
    BY DEF OutOfBounds, Wider
  <1>2. (r.tool # None => ToolGranted(n, r.tool)) /\ \A access \in r.accesses : DataGranted(n, access)
    BY WiderGrants DEF OutOfBounds
  <1>3. r.spend # None => ~Overspent(n, r)
    <2> SUFFICES ASSUME r.spend # None PROVE ~Overspent(n, r)
      OBVIOUS
    <2>1. ~Overspent(m, r)
      BY DEF OutOfBounds
    <2>2. LimitsOf(n, r.spend.currency) = LimitsOf(m, r.spend.currency)
      BY DEF LimitsOf, Wider
    <2>3. ASSUME NEW key \in LimitsOf(n, r.spend.currency)
          PROVE  ~(r.spend.amount > n.limits[key].each) /\ ~(r.used[key] + r.spend.amount > n.limits[key].total)
      <3>1. key \in DOMAIN m.limits /\ key \in DOMAIN n.limits
        BY <2>2, <2>3 DEF LimitsOf
      <3>2. ~(r.spend.amount > m.limits[key].each) /\ ~(r.used[key] + r.spend.amount > m.limits[key].total)
        BY <2>1, <2>2, <2>3 DEF Overspent
      <3>3. m.limits[key].each <= n.limits[key].each /\ m.limits[key].total <= n.limits[key].total
        BY <3>1 DEF Wider
      <3>4. /\ {m.limits[key].each, m.limits[key].total, n.limits[key].each, n.limits[key].total} \subseteq Nat
            /\ {r.used[key], r.spend.amount} \subseteq Nat
        BY <3>1 DEF TypedTerms, TypedUse
      <3> QED
        BY <3>2, <3>3, <3>4
    <2> QED
      BY <2>1, <2>2, <2>3 DEF Overspent
  <1>4. ~Excessive(n, r)
    <2> SUFFICES ASSUME NEW metric \in DOMAIN n.volume
                 PROVE  ~(r.volumeUsed[metric] + r.volumeDelta[metric] > n.volume[metric])
      BY DEF Excessive
    <2>1. metric \in DOMAIN m.volume /\ m.volume[metric] <= n.volume[metric]
      BY DEF Wider
    <2>2. ~(r.volumeUsed[metric] + r.volumeDelta[metric] > m.volume[metric])
      BY <2>1 DEF OutOfBounds, Excessive
    <2>3. {m.volume[metric], n.volume[metric], r.volumeUsed[metric], r.volumeDelta[metric]} \subseteq Nat
      BY <2>1 DEF TypedTerms, TypedUse
    <2> QED
      BY <2>1, <2>2, <2>3
  <1> QED
    BY <1>1, <1>2, <1>3, <1>4 DEF OutOfBounds

LEMMA WiderAsksNoMore ==
    ASSUME NEW m, NEW n, NEW r, Wider(n, m), Missing(m, r) = {}
    PROVE  Missing(n, r) = {}
  BY DEF Missing, Wider

(* A use that is permitted stays permitted under wider terms, for all terms and uses of the
   right types (evaluateMandateUse, mandates.ts:559). *)
THEOREM WideningIsSafe ==
    ASSUME NEW terms, NEW uses,
           \A m \in terms : TypedTerms(m), \A m \in terms, r \in uses : TypedUse(m, r)
    PROVE  WiderPermitsMore(terms, uses)
  <1> SUFFICES ASSUME NEW m \in terms, NEW n \in terms, Wider(n, m),
                      NEW r \in uses, Verdict(m, r) = "permitted"
               PROVE  Verdict(n, r) = "permitted"
    BY DEF WiderPermitsMore
  <1>1. TypedTerms(m) /\ TypedTerms(n) /\ TypedUse(m, r)
    OBVIOUS
  <1>2. /\ ~OutOfForce(m, r) /\ ~DelegationDenied(m, r) /\ ~NeedsPrincipal(m, r)
        /\ ~OutOfBounds(m, r) /\ Missing(m, r) = {}
    BY PermittedIff
  <1>3. ~OutOfForce(n, r)
    BY <1>1, <1>2, WiderForce
  <1>4. ~DelegationDenied(n, r) /\ ~NeedsPrincipal(n, r)
    BY <1>1, <1>2, WiderDelegates
  <1>5. ~OutOfBounds(n, r)
    BY <1>1, <1>2, WiderBounds
  <1>6. Missing(n, r) = {}
    BY <1>2, WiderAsksNoMore
  <1> QED
    BY <1>3, <1>4, <1>5, <1>6, PermittedIff

-----------------------------------------------------------------------------
\* What a smaller use cannot lose.
LEMMA SmallerInForce ==
    ASSUME NEW m, NEW q, NEW r, Smaller(q, r),
           ~OutOfForce(m, r), ~DelegationDenied(m, r), ~NeedsPrincipal(m, r)
    PROVE  ~OutOfForce(m, q) /\ ~DelegationDenied(m, q) /\ ~NeedsPrincipal(m, q)
  <1>1. ~OutOfForce(m, q)
    BY DEF Smaller, OutOfForce, Ended
  <1>2. Delegated(m, q) <=> Delegated(m, r)
    BY DEF Delegated, Smaller
  <1>3. ~DelegationDenied(m, q)
    BY <1>2 DEF DelegationDenied, Smaller
  <1>4. ~NeedsPrincipal(m, q)
    BY <1>2 DEF NeedsPrincipal, Smaller
  <1> QED
    BY <1>1, <1>3, <1>4

LEMMA SmallerInBounds ==
    ASSUME NEW m, NEW q, NEW r, TypedTerms(m), TypedUse(m, q), TypedUse(m, r),
           Smaller(q, r), ~OutOfBounds(m, r)
    PROVE  ~OutOfBounds(m, q)
  <1>1. q.participants \subseteq m.participants /\ q.action \in m.actions
    BY DEF OutOfBounds, Smaller
  <1>2. (q.tool # None => ToolGranted(m, q.tool)) /\ \A access \in q.accesses : DataGranted(m, access)
    BY DEF OutOfBounds, Smaller
  <1>3. q.spend # None => ~Overspent(m, q)
    <2> SUFFICES ASSUME q.spend # None PROVE ~Overspent(m, q)
      OBVIOUS
    <2>1. r.spend # None /\ q.spend.currency = r.spend.currency /\ q.spend.amount <= r.spend.amount
      BY DEF Smaller
    <2>2. ~Overspent(m, r)
      BY <2>1 DEF OutOfBounds
    <2>3. ASSUME NEW key \in LimitsOf(m, q.spend.currency)
          PROVE  ~(q.spend.amount > m.limits[key].each) /\ ~(q.used[key] + q.spend.amount > m.limits[key].total)
      <3>1. key \in DOMAIN m.limits
        BY <2>3 DEF LimitsOf
      <3>2. ~(r.spend.amount > m.limits[key].each) /\ ~(r.used[key] + r.spend.amount > m.limits[key].total)
        BY <2>1, <2>2, <2>3 DEF Overspent
      <3>3. q.used[key] <= r.used[key]
        BY <3>1 DEF Smaller, TypedUse
      <3>4. /\ {m.limits[key].each, m.limits[key].total} \subseteq Nat
            /\ {q.used[key], q.spend.amount, r.used[key], r.spend.amount} \subseteq Nat
        BY <2>1, <3>1 DEF TypedTerms, TypedUse
      <3> QED
        BY <2>1, <3>2, <3>3, <3>4
    <2> QED
      BY <2>1, <2>2, <2>3 DEF Overspent
  <1>4. ~Excessive(m, q)
    <2> SUFFICES ASSUME NEW metric \in DOMAIN m.volume
                 PROVE  ~(q.volumeUsed[metric] + q.volumeDelta[metric] > m.volume[metric])
      BY DEF Excessive
    <2>1. q.volumeUsed[metric] <= r.volumeUsed[metric] /\ q.volumeDelta[metric] <= r.volumeDelta[metric]
      BY DEF Smaller, TypedUse
    <2>2. ~(r.volumeUsed[metric] + r.volumeDelta[metric] > m.volume[metric])
      BY DEF OutOfBounds, Excessive
    <2>3. {m.volume[metric], r.volumeUsed[metric], r.volumeDelta[metric],
           q.volumeUsed[metric], q.volumeDelta[metric]} \subseteq Nat
      BY DEF TypedTerms, TypedUse
    <2> QED
      BY <2>1, <2>2, <2>3
  <1> QED
    BY <1>1, <1>2, <1>3, <1>4 DEF OutOfBounds

LEMMA SmallerAsksNoMore ==
    ASSUME NEW m, NEW q, NEW r, TypedTerms(m), TypedUse(m, q), TypedUse(m, r),
           Smaller(q, r), Missing(m, r) = {}
    PROVE  Missing(m, q) = {}
  <1> SUFFICES ASSUME NEW id \in DOMAIN m.thresholds, Unmet(m.thresholds[id], q, id)
               PROVE  FALSE
    BY DEF Missing
  <1> DEFINE t == m.thresholds[id]
  <1>1. Matched(t, q) /\ Cardinality(q.approvals[id] \cap t.approvers) < t.required
    BY DEF Unmet
  <1>2. Matched(t, r)
    <2>1. t.action # None => t.action = r.action
      BY <1>1 DEF Matched, Smaller
    <2>2. t.tool # None => r.tool # None /\ t.tool = r.tool.tool
      BY <1>1 DEF Matched, Smaller
    <2>3. t.above # None => r.spend # None /\ r.spend.currency = t.currency /\ r.spend.amount > t.above
      <3> SUFFICES ASSUME t.above # None
                   PROVE  r.spend # None /\ r.spend.currency = t.currency /\ r.spend.amount > t.above
        OBVIOUS
      <3>1. q.spend # None /\ q.spend.currency = t.currency /\ q.spend.amount > t.above
        BY <1>1 DEF Matched
      <3>2. r.spend # None /\ q.spend.currency = r.spend.currency /\ q.spend.amount <= r.spend.amount
        BY <3>1 DEF Smaller
      <3>3. {t.above, q.spend.amount, r.spend.amount} \subseteq Nat
        BY <3>1, <3>2 DEF TypedTerms, TypedUse
      <3> QED
        BY <3>1, <3>2, <3>3
    <2>4. t.class # None => \E access \in r.accesses : access.class = t.class
      BY <1>1 DEF Matched, Smaller
    <2> QED
      BY <2>1, <2>2, <2>3, <2>4 DEF Matched
  <1>3. ~(Cardinality(r.approvals[id] \cap t.approvers) < t.required)
    BY <1>2 DEF Missing, Unmet
  <1>4. r.approvals[id] \cap t.approvers \subseteq q.approvals[id] \cap t.approvers
    BY DEF Smaller, TypedUse
  <1>5. IsFiniteSet(t.approvers) /\ t.required \in Nat
    BY DEF TypedTerms
  <1>6. IsFiniteSet(q.approvals[id] \cap t.approvers)
    BY <1>5, FS_Subset, q.approvals[id] \cap t.approvers \subseteq t.approvers
  <1>7. /\ Cardinality(r.approvals[id] \cap t.approvers) <= Cardinality(q.approvals[id] \cap t.approvers)
        /\ IsFiniteSet(r.approvals[id] \cap t.approvers)
    BY <1>4, <1>6, FS_Subset
  <1>8. /\ Cardinality(r.approvals[id] \cap t.approvers) \in Nat
        /\ Cardinality(q.approvals[id] \cap t.approvers) \in Nat
    BY <1>6, <1>7, FS_CardinalityType
  <1> QED
    BY <1>1, <1>3, <1>5, <1>7, <1>8

(* Whatever was permitted stays permitted when less is asked for, or more has been approved,
   for all terms and uses of the right types (evaluateMandateUse, mandates.ts:559). *)
THEOREM AskingLessIsSafe ==
    ASSUME NEW terms, NEW uses,
           \A m \in terms : TypedTerms(m), \A m \in terms, r \in uses : TypedUse(m, r)
    PROVE  SmallerIsPermitted(terms, uses)
  <1> SUFFICES ASSUME NEW q \in uses, NEW r \in uses, Smaller(q, r),
                      NEW m \in terms, Verdict(m, r) = "permitted"
               PROVE  Verdict(m, q) = "permitted"
    BY DEF SmallerIsPermitted
  <1>1. TypedTerms(m) /\ TypedUse(m, q) /\ TypedUse(m, r)
    OBVIOUS
  <1>2. /\ ~OutOfForce(m, r) /\ ~DelegationDenied(m, r) /\ ~NeedsPrincipal(m, r)
        /\ ~OutOfBounds(m, r) /\ Missing(m, r) = {}
    BY PermittedIff
  <1>3. ~OutOfForce(m, q) /\ ~DelegationDenied(m, q) /\ ~NeedsPrincipal(m, q)
    BY <1>2, SmallerInForce
  <1>4. ~OutOfBounds(m, q)
    BY <1>1, <1>2, SmallerInBounds
  <1>5. Missing(m, q) = {}
    BY <1>1, <1>2, SmallerAsksNoMore
  <1> QED
    BY <1>3, <1>4, <1>5, PermittedIff

-----------------------------------------------------------------------------
\* Approving changes nothing but the approvals.
LEMMA ApprovedKeeps ==
    ASSUME NEW m, NEW r, TypedUse(m, r)
    PROVE  \A field \in UseFields \ {"approvals"} : Approved(m, r)[field] = r[field]
  BY DEF Approved, TypedUse

LEMMA ApprovedChecks ==
    ASSUME NEW m, NEW r, TypedUse(m, r)
    PROVE  /\ OutOfForce(m, Approved(m, r)) <=> OutOfForce(m, r)
           /\ DelegationDenied(m, Approved(m, r)) <=> DelegationDenied(m, r)
           /\ NeedsPrincipal(m, Approved(m, r)) <=> NeedsPrincipal(m, r)
           /\ OutOfBounds(m, Approved(m, r)) <=> OutOfBounds(m, r)
  <1> DEFINE a == Approved(m, r)
  <1>1. /\ a.terms = r.terms /\ a.by = r.by /\ a.at = r.at /\ a.depth = r.depth /\ a.consented = r.consented
        /\ a.met = r.met /\ a.participants = r.participants /\ a.action = r.action /\ a.tool = r.tool
        /\ a.accesses = r.accesses /\ a.spend = r.spend /\ a.used = r.used
        /\ a.volumeUsed = r.volumeUsed /\ a.volumeDelta = r.volumeDelta
    BY ApprovedKeeps DEF UseFields
  <1> HIDE DEF a
  <1>2. OutOfForce(m, a) <=> OutOfForce(m, r)
    BY <1>1 DEF OutOfForce, Ended
  <1>3. DelegationDenied(m, a) <=> DelegationDenied(m, r)
    BY <1>1 DEF DelegationDenied, Delegated
  <1>4. NeedsPrincipal(m, a) <=> NeedsPrincipal(m, r)
    BY <1>1 DEF NeedsPrincipal, Delegated
  <1>5. Overspent(m, a) <=> Overspent(m, r)
    BY <1>1 DEF Overspent
  <1>6. Excessive(m, a) <=> Excessive(m, r)
    BY <1>1 DEF Excessive
  <1>7. OutOfBounds(m, a) <=> OutOfBounds(m, r)
    BY <1>1, <1>5, <1>6 DEF OutOfBounds
  <1> QED
    BY <1>2, <1>3, <1>4, <1>7 DEF a

LEMMA ApprovedIsEnough ==
    ASSUME NEW m, NEW r, TypedTerms(m), TypedUse(m, r), ValidTerms(m)
    PROVE  Missing(m, Approved(m, r)) = {}
  <1> DEFINE a == Approved(m, r)
  <1> SUFFICES ASSUME NEW id \in DOMAIN m.thresholds, Unmet(m.thresholds[id], a, id)
               PROVE  FALSE
    BY DEF Missing
  <1> DEFINE t == m.thresholds[id]
  <1>1. a.action = r.action /\ a.tool = r.tool /\ a.spend = r.spend /\ a.accesses = r.accesses
    BY ApprovedKeeps DEF UseFields
  <1>2. a.approvals[id] = IF id \in Missing(m, r) THEN t.approvers ELSE r.approvals[id]
    BY DEF Approved, TypedUse, UseFields
  <1> HIDE DEF a
  <1>3. Matched(t, a) /\ Cardinality(a.approvals[id] \cap t.approvers) < t.required
    BY DEF Unmet
  <1>4. Matched(t, r)
    BY <1>1, <1>3 DEF Matched
  <1>5. CASE id \in Missing(m, r)
    <2>1. a.approvals[id] \cap t.approvers = t.approvers
      BY <1>2, <1>5
    <2>2. t.required \in Nat /\ t.required <= Cardinality(t.approvers) /\ Cardinality(t.approvers) \in Nat
      BY FS_CardinalityType DEF TypedTerms, ValidTerms
    <2>3. Cardinality(t.approvers) < t.required
      BY <1>3, <2>1
    <2> HIDE DEF t
    <2> QED
      BY <2>2, <2>3
  <1>6. CASE id \notin Missing(m, r)
    BY <1>2, <1>3, <1>4, <1>6 DEF Missing, Unmet
  <1> QED
    BY <1>5, <1>6

(* Consent is asked for only where it decides: a use that waits for thresholds is permitted
   once their approvers agree, and no approval turns a denial, for all valid terms and all
   uses of the right types (evaluateMandateUse, mandates.ts:640). *)
THEOREM ConsentIsDecisive ==
    ASSUME NEW terms, NEW uses, \A m \in terms : TypedTerms(m) /\ ValidTerms(m),
           \A m \in terms, r \in uses : TypedUse(m, r)
    PROVE  ConsentDecides(terms, uses)
  <1> SUFFICES ASSUME NEW m \in terms, NEW r \in uses
               PROVE  /\ Verdict(m, r) = "threshold" => Verdict(m, Approved(m, r)) = "permitted"
                      /\ Verdict(m, r) = "denied" => Verdict(m, Approved(m, r)) = "denied"
    BY DEF ConsentDecides
  <1>1. TypedTerms(m) /\ ValidTerms(m) /\ TypedUse(m, r)
    OBVIOUS
  <1>2. Missing(m, Approved(m, r)) = {}
    BY <1>1, ApprovedIsEnough
  <1>3. /\ OutOfForce(m, Approved(m, r)) <=> OutOfForce(m, r)
        /\ DelegationDenied(m, Approved(m, r)) <=> DelegationDenied(m, r)
        /\ NeedsPrincipal(m, Approved(m, r)) <=> NeedsPrincipal(m, r)
        /\ OutOfBounds(m, Approved(m, r)) <=> OutOfBounds(m, r)
    BY <1>1, ApprovedChecks
  <1> QED
    BY <1>2, <1>3 DEF Verdict

\* The policy is monotone and its questions are decisive, for any terms that the schemas
\* accept and any uses of the right types (evaluateMandateUse).
THEOREM JudgingIsSound == SoundPolicy /\ (Spec => []PolicyIsSound)
  <1>1. SoundPolicy
    BY WideningIsSafe, AskingLessIsSafe, ConsentIsDecisive, TermsAssumption, UsesAssumption DEF SoundPolicy
  <1>2. PolicyIsSound
    BY <1>1 DEF PolicyIsSound
  <1> QED
    BY <1>1, <1>2, PTL

-----------------------------------------------------------------------------
(* Execution.                                                              *)

\* A call under way is for an operation, and only a guard holds an answer.
CallsInv ==
    /\ calls = [c \in Callers |-> [at |-> calls[c].at, for |-> calls[c].for]]
    /\ \A c \in Callers : calls[c].at # "idle" => calls[c].for \in Operations
    /\ answer \in [Callers -> Answers]
    /\ \A c \in Callers : answer[c].asked => calls[c].at \in {"first", "second"}
    /\ approvals \in [Operations -> {"none", "pending", "approved", "rejected"}]
    /\ standing \in BOOLEAN

\* An effect happened for each operation that is about to be charged or was.
EffectsInv ==
    /\ \A c \in Callers : calls[c].at = "acted" => \E e \in performed : e.op = calls[c].for.op
    /\ \A o \in usage.completed : \E e \in performed : e.op = o
    /\ \A e \in performed : [op |-> e.op, amount |-> e.amount] \in Operations

\* A call that acts beyond the threshold is consented to, unless it was done before.
ConsentInv ==
    /\ \A c \in Callers : \A p \in answer[c].approved : approvals[p] = "approved"
    /\ \A c \in Callers : calls[c].at = "acting" /\ calls[c].for.amount > Threshold =>
         calls[c].for.op \in usage.completed \/ approvals[calls[c].for] = "approved"

\* A call whose turn came too late does not get past its first guard.
LateInv ==
    \A c \in late : /\ ~standing
                    /\ calls[c].at \notin {"second", "acting", "acted", "receipting"}
                    /\ answer[c].asked => ~answer[c].standing

Inv == CallsInv /\ EffectsInv /\ ConsentInv /\ LateInv /\ late \subseteq Callers /\ HappenedAsApproved

-----------------------------------------------------------------------------

\* A call that goes on leaves the others where they are.
LEMMA Moves ==
    ASSUME CallsInv, NEW c \in Callers, NEW stage, At(c, stage)
    PROVE  /\ calls' = [d \in Callers |-> [at |-> calls'[d].at, for |-> calls'[d].for]]
           /\ \A d \in Callers : calls'[d].for = calls[d].for
           /\ calls'[c].at = stage
           /\ \A d \in Callers : d # c => calls'[d].at = calls[d].at
  <1> DEFINE f == [d \in Callers |-> [at |-> calls[d].at, for |-> calls[d].for]]
  <1>1. calls = f
    BY DEF CallsInv
  <1>2. calls' = [f EXCEPT ![c].at = stage]
    BY <1>1 DEF At
  <1>3. \A d \in Callers : calls'[d] = [at |-> IF d = c THEN stage ELSE calls[d].at, for |-> calls[d].for]
    BY <1>2
  <1>4. calls' = [d \in Callers |-> calls'[d]]
    BY <1>2
  <1> QED
    BY <1>3, <1>4

\* A call returns, rejects, or goes on to a stage in which nothing is claimed of it.
LEMMA MovesHarmless ==
    ASSUME Inv, NEW c \in Callers,
           NEW stage \in {"idle", "consent"}, calls[c].at # "idle", At(c, stage),
           ~answer'[c].asked, answer' \in [Callers -> Answers],
           \A d \in Callers : answer'[d].approved \subseteq answer[d].approved,
           \A d \in Callers : d # c => answer'[d] = answer[d],
           UNCHANGED <<standing, approvals, usage, performed, late>>
    PROVE  Inv'
  <1>1. CallsInv'
    BY Moves DEF Inv, CallsInv
  <1>2. EffectsInv'
    BY Moves DEF Inv, EffectsInv
  <1>3. ConsentInv'
    BY Moves DEF Inv, ConsentInv
  <1>4. LateInv'
    BY Moves DEF Inv, LateInv
  <1> QED
    BY <1>1, <1>2, <1>3, <1>4 DEF Inv, HappenedAsApproved

\* What is consented to stays so when the service learns of more.
LEMMA ConsentsStand ==
    ASSUME Inv, UNCHANGED <<answer, performed, usage>>,
           \A q \in Operations : approvals[q] = "approved" => approvals'[q] = "approved",
           \A c \in Callers : calls'[c].at = "acting" =>
               calls[c].at = "acting" /\ calls'[c].for = calls[c].for
    PROVE  ConsentInv' /\ HappenedAsApproved'
  <1>1. \A c \in Callers : answer[c].approved \subseteq Operations
    BY DEF Inv, CallsInv, Answers
  <1>2. ConsentInv'
    BY <1>1 DEF Inv, CallsInv, ConsentInv
  <1>3. \A e \in performed : e.amount > Threshold => [op |-> e.op, amount |-> e.amount] \in Operations
    BY DEF Inv, EffectsInv
  <1> QED
    BY <1>2, <1>3 DEF Inv, HappenedAsApproved

-----------------------------------------------------------------------------

LEMMA InitInv == Init => Inv
  <1> SUFFICES ASSUME Init PROVE Inv
    OBVIOUS
  <1>1. calls = [c \in Callers |-> [at |-> calls[c].at, for |-> calls[c].for]] /\ \A c \in Callers : calls[c].at = "idle"
    <2>1. PICK S : calls \in [Callers -> [at : {"idle"}, for : S]]
      BY DEF Init
    <2> QED
      BY <2>1
  <1>2. answer \in [Callers -> Answers] /\ \A c \in Callers : answer[c] = NoAnswer
    BY DEF Init, NoAnswer, Answers
  <1>3. approvals \in [Operations -> {"none", "pending", "approved", "rejected"}] /\ standing \in BOOLEAN
    BY DEF Init
  <1>4. performed = {} /\ late = {} /\ usage.completed = {}
    BY DEF Init, NoUsage
  <1> QED
    BY <1>1, <1>2, <1>3, <1>4
       DEF Inv, CallsInv, EffectsInv, ConsentInv, LateInv, HappenedAsApproved, NoAnswer

LEMMA CallInv == ASSUME Inv, NEW c \in Callers, NEW p \in Operations, Call(c, p) PROVE Inv'
  <1>1. /\ calls[c].at = "idle" /\ UNCHANGED <<standing, approvals, usage, answer, performed, late>>
        /\ calls' = [calls EXCEPT ![c] = [at |-> "waiting", for |-> p]]
    BY DEF Call, world
  <1>2. /\ calls'[c] = [at |-> "waiting", for |-> p]
        /\ \A d \in Callers : d # c => calls'[d] = calls[d]
        /\ calls' = [d \in Callers |-> [at |-> calls'[d].at, for |-> calls'[d].for]]
    <2> DEFINE f == [d \in Callers |-> [at |-> calls[d].at, for |-> calls[d].for]]
    <2>1. calls = f
      BY DEF Inv, CallsInv
    <2>2. calls' = [f EXCEPT ![c] = [at |-> "waiting", for |-> p]]
      BY <1>1, <2>1
    <2>3. \A d \in Callers : calls'[d] = IF d = c THEN [at |-> "waiting", for |-> p]
                                         ELSE [at |-> calls[d].at, for |-> calls[d].for]
      BY <2>2
    <2>4. \A d \in Callers : calls[d] = [at |-> calls[d].at, for |-> calls[d].for]
      BY <2>1
    <2>5. calls' = [d \in Callers |-> calls'[d]]
      BY <2>2
    <2> QED
      BY <2>3, <2>4, <2>5
  <1>3. CallsInv'
    BY <1>1, <1>2 DEF Inv, CallsInv
  <1>4. EffectsInv'
    BY <1>1, <1>2 DEF Inv, EffectsInv
  <1>5. ConsentInv'
    BY <1>1, <1>2 DEF Inv, ConsentInv
  <1>6. LateInv'
    BY <1>1, <1>2 DEF Inv, LateInv
  <1> QED
    BY <1>1, <1>3, <1>4, <1>5, <1>6 DEF Inv, HappenedAsApproved

LEMMA TurnInv == ASSUME Inv, NEW c \in Callers, TurnComes(c) PROVE Inv'
  <1>1. /\ calls[c].at = "waiting" /\ At(c, "first")
        /\ late' = IF standing THEN late \ {c} ELSE late \cup {c}
        /\ UNCHANGED <<standing, approvals, usage, answer, performed>>
    BY DEF TurnComes, world
  <1>2. ~answer[c].asked
    BY <1>1 DEF Inv, CallsInv
  <1>3. CallsInv'
    BY <1>1, <1>2, Moves DEF Inv, CallsInv
  <1>4. EffectsInv'
    BY <1>1, Moves DEF Inv, EffectsInv
  <1>5. ConsentInv'
    BY <1>1, Moves DEF Inv, ConsentInv
  <1>6. LateInv'
    BY <1>1, <1>2, Moves DEF Inv, LateInv
  <1> QED
    BY <1>1, <1>3, <1>4, <1>5, <1>6 DEF Inv, HappenedAsApproved

LEMMA AnswersInv == ASSUME Inv, NEW c \in Callers, ServiceAnswers(c) PROVE Inv'
  <1>1. /\ calls[c].at \in {"first", "second"}
        /\ UNCHANGED <<standing, approvals, usage, calls, performed, late>>
    BY DEF ServiceAnswers, world
  <1>2. PICK a : /\ a = [asked |-> TRUE, standing |-> standing,
                         approved |-> {p \in Operations : approvals[p] = "approved"}]
                 /\ answer' = [answer EXCEPT ![c] = a]
    BY DEF ServiceAnswers
  <1>3. answer'[c] = a /\ \A d \in Callers : d # c => answer'[d] = answer[d]
    BY <1>2 DEF Inv, CallsInv
  <1>4. a.asked /\ a.standing = standing /\ \A p \in a.approved : approvals[p] = "approved"
    BY <1>2
  <1>5. CallsInv'
    <2>1. a \in Answers
      BY <1>2 DEF Inv, CallsInv, Answers
    <2> QED
      BY <1>1, <1>2, <1>3, <2>1 DEF Inv, CallsInv
  <1>6. EffectsInv'
    BY <1>1 DEF Inv, EffectsInv
  <1>7. ConsentInv'
    BY <1>1, <1>3, <1>4 DEF Inv, ConsentInv
  <1>8. LateInv'
    BY <1>1, <1>3, <1>4 DEF Inv, LateInv
  <1> QED
    BY <1>1, <1>5, <1>6, <1>7, <1>8 DEF Inv, HappenedAsApproved

LEMMA NoAnswerFacts ==
    ASSUME Inv, NEW c \in Callers, answer' = [answer EXCEPT ![c] = NoAnswer]
    PROVE  /\ ~answer'[c].asked /\ answer' \in [Callers -> Answers] /\ answer'[c].approved = {}
           /\ \A d \in Callers : answer'[d].approved \subseteq answer[d].approved
           /\ \A d \in Callers : d # c => answer'[d] = answer[d]
  <1>1. NoAnswer \in Answers /\ ~NoAnswer.asked /\ NoAnswer.approved = {}
    BY DEF NoAnswer, Answers
  <1>2. answer \in [Callers -> Answers]
    BY DEF Inv, CallsInv
  <1>3. answer'[c] = NoAnswer /\ \A d \in Callers : d # c => answer'[d] = answer[d]
    BY <1>2
  <1>4. answer' \in [Callers -> Answers]
    BY <1>1, <1>2
  <1> QED
    BY <1>1, <1>3, <1>4

\* A guard that denies or asks for consent ends the call, or has the consent requested.
LEMMA RefusalInv ==
    ASSUME Inv, NEW c \in Callers, GuardDenies(c) \/ GuardAsksConsent(c)
    PROVE  Inv'
  <1>1. /\ calls[c].at # "idle" /\ answer' = [answer EXCEPT ![c] = NoAnswer]
        /\ At(c, "idle") \/ At(c, "consent")
        /\ UNCHANGED <<standing, approvals, usage, performed, late>>
    BY DEF GuardDenies, GuardAsksConsent, JudgeUnchanged, world, Ends
  <1>2. /\ ~answer'[c].asked /\ answer' \in [Callers -> Answers]
        /\ \A d \in Callers : answer'[d].approved \subseteq answer[d].approved
        /\ \A d \in Callers : d # c => answer'[d] = answer[d]
    BY <1>1, NoAnswerFacts
  <1>3. CASE At(c, "idle")
    BY <1>1, <1>2, <1>3, MovesHarmless
  <1>4. CASE At(c, "consent")
    BY <1>1, <1>2, <1>4, MovesHarmless
  <1> QED
    BY <1>1, <1>3, <1>4

\* Something that the call awaited rejects, and nothing of what is known changes.
LEMMA ThrowInv ==
    ASSUME Inv, NEW c \in Callers, RequestFails(c) \/ EffectThrows(c) \/ ReceiptFails(c) \/ ReceiptAppended(c)
    PROVE  Inv'
  <1>1. /\ calls[c].at # "idle" /\ At(c, "idle") /\ ~answer[c].asked
        /\ UNCHANGED <<standing, approvals, usage, answer, performed, late>>
    BY DEF RequestFails, EffectThrows, ReceiptFails, ReceiptAppended, Throws, Ends, world, Inv, CallsInv
  <1>2. answer \in [Callers -> Answers]
    BY DEF Inv, CallsInv
  <1> QED
    BY <1>1, <1>2, MovesHarmless

LEMMA PermitInv == ASSUME Inv, NEW c \in Callers, GuardPermits(c) PROVE Inv'
  <1>1. PICK stage \in {"second", "acting"} :
          /\ At(c, stage) /\ calls[c].at \in {"first", "second"} /\ answer[c].asked
          /\ ~Denied(calls[c].for, answer[c]) /\ ~NeedsApproval(calls[c].for, answer[c])
          /\ answer' = [answer EXCEPT ![c] = NoAnswer]
          /\ UNCHANGED <<standing, approvals, usage, performed, late>>
    BY DEF GuardPermits, JudgeUnchanged, world
  <1>2. PICK p : p = calls[c].for
    OBVIOUS
  <1>3. p \in Operations
    BY <1>1, <1>2 DEF Inv, CallsInv
  <1>4. p.amount > Threshold => p.op \in usage.completed \/ approvals[p] = "approved"
    BY <1>1, <1>2 DEF NeedsApproval, Due, Inv, ConsentInv
  <1>5. c \notin late
    BY <1>1 DEF Denied, Inv, LateInv
  <1>6. /\ ~answer'[c].asked /\ answer' \in [Callers -> Answers] /\ answer'[c].approved = {}
        /\ \A d \in Callers : d # c => answer'[d] = answer[d]
    BY <1>1, NoAnswerFacts
  <1>7. /\ calls' = [d \in Callers |-> [at |-> calls'[d].at, for |-> calls'[d].for]]
        /\ \A d \in Callers : calls'[d].for = calls[d].for
        /\ calls'[c].at = stage
        /\ \A d \in Callers : d # c => calls'[d].at = calls[d].at
    BY <1>1, Moves DEF Inv
  <1>8. CallsInv'
    BY <1>1, <1>6, <1>7 DEF Inv, CallsInv
  <1>9. EffectsInv'
    BY <1>1, <1>7 DEF Inv, EffectsInv
  <1>10. ConsentInv'
    BY <1>1, <1>2, <1>4, <1>6, <1>7 DEF Inv, ConsentInv
  <1>11. LateInv'
    BY <1>1, <1>5, <1>6, <1>7 DEF Inv, LateInv
  <1> QED
    BY <1>1, <1>8, <1>9, <1>10, <1>11 DEF Inv, HappenedAsApproved

\* Requesting a consent again takes none back.
LEMMA RequestInv == ASSUME Inv, NEW c \in Callers, ConsentRequested(c) PROVE Inv'
  <1>1. PICK p : p = calls[c].for
    OBVIOUS
  <1>2. /\ calls[c].at = "consent" /\ At(c, "idle")
        /\ approvals' = [approvals EXCEPT ![p] = IF @ = "none" THEN "pending" ELSE @]
        /\ UNCHANGED <<standing, usage, answer, performed, late>>
    BY <1>1 DEF ConsentRequested, Ends
  <1>3. p \in Operations
    BY <1>1, <1>2 DEF Inv, CallsInv
  <1>4. /\ approvals' \in [Operations -> {"none", "pending", "approved", "rejected"}]
        /\ \A q \in Operations : approvals[q] = "approved" => approvals'[q] = "approved"
    BY <1>2, <1>3 DEF Inv, CallsInv
  <1>5. CallsInv'
    BY <1>2, <1>4, Moves DEF Inv, CallsInv
  <1>6. EffectsInv'
    BY <1>2, Moves DEF Inv, EffectsInv
  <1>7. ConsentInv' /\ HappenedAsApproved'
    <2>1. \A d \in Callers : calls'[d].at = "acting" => calls[d].at = "acting" /\ calls'[d].for = calls[d].for
      BY <1>2, Moves DEF Inv
    <2> QED
      BY <1>2, <1>4, <2>1, ConsentsStand
  <1>8. LateInv'
    BY <1>2, Moves DEF Inv, LateInv
  <1> QED
    BY <1>2, <1>5, <1>6, <1>7, <1>8 DEF Inv

LEMMA DecidedInv ==
    ASSUME Inv, NEW p \in Operations, NEW decision \in {"approved", "rejected"}, Decided(p, decision)
    PROVE  Inv'
  <1>1. /\ approvals[p] = "pending" /\ approvals' = [approvals EXCEPT ![p] = decision]
        /\ UNCHANGED <<standing, usage, calls, answer, performed, late>>
    BY DEF Decided
  <1>2. /\ approvals' \in [Operations -> {"none", "pending", "approved", "rejected"}]
        /\ \A q \in Operations : approvals[q] = "approved" => approvals'[q] = "approved"
    BY <1>1 DEF Inv, CallsInv
  <1>3. CallsInv'
    BY <1>1, <1>2 DEF Inv, CallsInv
  <1>4. EffectsInv' /\ LateInv'
    BY <1>1 DEF Inv, EffectsInv, LateInv
  <1>5. ConsentInv' /\ HappenedAsApproved'
    BY <1>1, <1>2, ConsentsStand
  <1> QED
    BY <1>1, <1>3, <1>4, <1>5 DEF Inv

\* An effect happens once; beyond the threshold, it was consented to.
LEMMA EffectInv == ASSUME Inv, NEW c \in Callers, EffectHappens(c) PROVE Inv'
  <1>1. PICK p : p = calls[c].for
    OBVIOUS
  <1>2. /\ calls[c].at = "acting" /\ At(c, "acted")
        /\ performed' = IF \E e \in performed : e.op = p.op THEN performed
                        ELSE performed \cup {[op |-> p.op, amount |-> p.amount, day |-> day]}
        /\ UNCHANGED <<standing, approvals, usage, answer, late>>
    BY <1>1 DEF EffectHappens, world
  <1>3. p \in Operations /\ p = [op |-> p.op, amount |-> p.amount]
    BY <1>1, <1>2 DEF Inv, CallsInv, Operations
  <1>4. PICK n : n = [op |-> p.op, amount |-> p.amount, day |-> day]
    OBVIOUS
  <1>5. performed' = (IF \E e \in performed : e.op = p.op THEN performed ELSE performed \cup {n})
    BY <1>2, <1>4
  <1>6. n.op = p.op /\ n.amount = p.amount /\ [op |-> n.op, amount |-> n.amount] = p
    BY <1>3, <1>4
  <1>7. performed \subseteq performed' /\ \E e \in performed' : e.op = p.op
    BY <1>5, <1>6
  <1>8. \A e \in performed' : [op |-> e.op, amount |-> e.amount] \in Operations
    BY <1>3, <1>5, <1>6 DEF Inv, EffectsInv
  <1>9. CallsInv'
    BY <1>2, Moves DEF Inv, CallsInv
  <1>10. EffectsInv'
    <2>1. \A d \in Callers : calls'[d].at = "acted" => \E e \in performed' : e.op = calls'[d].for.op
      BY <1>1, <1>2, <1>7, Moves DEF Inv, EffectsInv
    <2>2. \A o \in usage.completed : \E e \in performed' : e.op = o
      BY <1>7 DEF Inv, EffectsInv
    <2> QED
      BY <1>2, <1>8, <2>1, <2>2 DEF EffectsInv
  <1>11. ConsentInv'
    BY <1>2, Moves DEF Inv, ConsentInv
  <1>12. LateInv'
    BY <1>2, Moves DEF Inv, LateInv
  <1>13. HappenedAsApproved'
    <2>1. CASE \E e \in performed : e.op = p.op
      BY <1>2, <1>5, <2>1 DEF Inv, HappenedAsApproved
    <2>2. CASE ~ \E e \in performed : e.op = p.op
      <3>1. p.op \notin usage.completed
        BY <2>2 DEF Inv, EffectsInv
      <3>2. p.amount > Threshold => approvals[p] = "approved"
        BY <1>1, <1>2, <3>1 DEF Inv, ConsentInv
      <3>3. performed' = performed \cup {n}
        BY <1>5, <2>2
      <3> QED
        BY <1>2, <1>6, <3>2, <3>3 DEF Inv, HappenedAsApproved
    <2> QED
      BY <2>1, <2>2
  <1> QED
    BY <1>2, <1>9, <1>10, <1>11, <1>12, <1>13 DEF Inv

LEMMA ChargeInv == ASSUME Inv, NEW c \in Callers, Charge(c) PROVE Inv'
  <1>1. PICK p : p = calls[c].for
    OBVIOUS
  <1>2. /\ calls[c].at = "acted" /\ At(c, "receipting") /\ usage' = Charged(usage, p)
        /\ UNCHANGED <<standing, approvals, answer, performed, late>>
    BY <1>1 DEF Charge, world
  <1>3. usage'.completed \in {usage.completed, usage.completed \cup {p.op}}
    BY <1>2 DEF Charged
  <1>4. usage.completed \subseteq usage'.completed
    BY <1>3
  <1>5. CallsInv'
    BY <1>2, Moves DEF Inv, CallsInv
  <1>6. EffectsInv'
    BY <1>1, <1>2, <1>3, Moves DEF Inv, EffectsInv
  <1>7. ConsentInv'
    BY <1>2, <1>4, Moves DEF Inv, ConsentInv
  <1>8. LateInv'
    BY <1>2, Moves DEF Inv, LateInv
  <1> QED
    BY <1>2, <1>5, <1>6, <1>7, <1>8 DEF Inv, HappenedAsApproved

LEMMA CrashInv == ASSUME Inv, Crash PROVE Inv'
  <1>1. /\ calls' = [c \in Callers |-> [calls[c] EXCEPT !.at = "idle"]]
        /\ answer' = [c \in Callers |-> NoAnswer]
        /\ UNCHANGED <<standing, approvals, usage, performed, late>>
    BY DEF Crash, world
  <1>2. \A c \in Callers : calls[c] = [at |-> calls[c].at, for |-> calls[c].for]
    BY DEF Inv, CallsInv
  <1>3. ASSUME NEW c \in Callers PROVE calls'[c] = [at |-> "idle", for |-> calls[c].for]
    <2>1. PICK at, for : calls[c] = [at |-> at, for |-> for]
      BY <1>2
    <2>2. calls'[c] = [calls[c] EXCEPT !.at = "idle"]
      BY <1>1
    <2>3. [[at |-> at, for |-> for] EXCEPT !.at = "idle"] = [at |-> "idle", for |-> for]
      OBVIOUS
    <2> QED
      BY <2>1, <2>2, <2>3
  <1>4. calls' = [c \in Callers |-> calls'[c]]
    BY <1>1
  <1>5. NoAnswer \in Answers /\ ~NoAnswer.asked /\ NoAnswer.approved = {}
    BY DEF NoAnswer, Answers
  <1>6. \A c \in Callers : answer'[c] = NoAnswer
    BY <1>1
  <1>7. CallsInv'
    BY <1>1, <1>3, <1>4, <1>5 DEF Inv, CallsInv
  <1>8. ASSUME NEW c \in Callers PROVE calls'[c].at = "idle"
    <2>1. PICK for : calls'[c] = [at |-> "idle", for |-> for]
      BY <1>3
    <2> QED
      BY <2>1
  <1>9. performed' = performed /\ usage' = usage
    BY <1>1
  <1>10. EffectsInv'
    BY <1>8, <1>9 DEF Inv, EffectsInv
  <1>11. ConsentInv'
    <2>1. \A c \in Callers : \A p \in answer'[c].approved : FALSE
      BY <1>5, <1>6
    <2>2. \A c \in Callers : calls'[c].at # "acting"
      BY <1>8
    <2> QED
      BY <2>1, <2>2 DEF ConsentInv
  <1>12. LateInv'
    BY <1>1, <1>3, <1>5, <1>6 DEF Inv, LateInv
  <1> QED
    BY <1>1, <1>7, <1>10, <1>11, <1>12 DEF Inv, HappenedAsApproved

\* The clock, and the end of the mandate.
LEMMA WorldInv == ASSUME Inv, NextDay \/ MandateEnds \/ UNCHANGED vars PROVE Inv'
  <1>1. /\ UNCHANGED <<approvals, usage, calls, answer, performed, late>>
        /\ standing' \in {standing, FALSE}
    BY DEF NextDay, MandateEnds, vars
  <1>2. CallsInv' /\ EffectsInv' /\ ConsentInv'
    BY <1>1 DEF Inv, CallsInv, EffectsInv, ConsentInv
  <1>3. LateInv'
    BY <1>1 DEF Inv, LateInv
  <1> QED
    BY <1>1, <1>2, <1>3 DEF Inv, HappenedAsApproved

-----------------------------------------------------------------------------

LEMMA StepInv == Inv /\ [Next]_vars => Inv'
  <1> SUFFICES ASSUME Inv, [Next]_vars PROVE Inv'
    OBVIOUS
  <1>1. ASSUME NEW c \in Callers, Execution(c) PROVE Inv'
    BY <1>1, TurnInv, AnswersInv, RefusalInv, PermitInv, RequestInv, EffectInv, ChargeInv, ThrowInv
       DEF Execution, Guard
  <1>2. ASSUME NEW c \in Callers, RequestFails(c) \/ EffectThrows(c) \/ ReceiptFails(c) PROVE Inv'
    BY <1>2, ThrowInv
  <1> QED
    BY <1>1, <1>2, CallInv, DecidedInv, CrashInv, WorldInv DEF Next

(* What people consented to is what happened: a consent binds the complete operation,
   it cannot be taken back, and both guards judge one the service has given
   (evaluateMandateUse of mandates.ts, called by guardMandateUse). *)
THEOREM ConsentedOrSmall == Spec => []HappenedAsApproved
  <1>1. Inv => HappenedAsApproved
    BY DEF Inv
  <1> QED
    BY <1>1, InitInv, StepInv, PTL DEF Spec

(* A call whose turn comes after the mandate's end has no effect: it asks the service
   within its turn, and an ended mandate does not come back (serializedExecution). *)
THEOREM LateCallsDoNothing == Spec => []EndedMandateStopsTheLine
  <1>1. Inv => EndedMandateStopsTheLine
    BY DEF Inv, LateInv, EndedMandateStopsTheLine
  <1> QED
    BY <1>1, InitInv, StepInv, PTL DEF Spec

-----------------------------------------------------------------------------
(* The books.                                                              *)

\* The line: nobody stands in it twice, and who has the turn is at its head.
Active(c) == calls[c].at \notin {"idle", "waiting"}
LineInv ==
    /\ tail \in Seq(Callers)
    /\ \A i, k \in 1 .. Len(tail) : tail[i] = tail[k] => i = k
    /\ \A c \in Callers : Contains(tail, c) <=> calls[c].at # "idle"
    /\ \A c \in Callers : Active(c) => tail # <<>> /\ tail[1] = c

\* An operation is one thing, in every call and every effect, and has one effect.
EffectsMatch ==
    /\ \A e, f \in performed : e.op = f.op => e = f
    /\ \A c \in Callers : calls[c].at # "idle" =>
         \A e \in performed : e.op = calls[c].for.op => e.amount = calls[c].for.amount
    /\ \A c, d \in Callers :
         calls[c].at # "idle" /\ calls[d].at # "idle" /\ calls[c].for.op = calls[d].for.op
             => calls[c].for = calls[d].for

Typed ==
    /\ day \in 0 .. MaxDays /\ standing \in BOOLEAN
    /\ usage.bucket \in 0 .. day /\ usage.spent \in Nat /\ usage.actions \in Nat
    /\ usage.completed \subseteq Ops /\ receipts \subseteq Ops /\ lost \subseteq Ops
    /\ \A c \in Callers : calls[c].at \in Stages /\ calls[c].for \in Operations
    /\ performed \subseteq [op : Ops, amount : Amounts, day : 0 .. day]
    /\ made \in [{"call", "crash", "fail"} -> Nat]
    /\ IsFiniteSet(Units(performed)) /\ IsFiniteSet(usage.completed)

\* An effect that is neither charged nor lost is that of the call about to charge it.
OthersAreCharged ==
    \A e \in performed :
        \/ e.op \in usage.completed \cup lost
        \/ \E c \in Callers : calls[c].at = "acted" /\ calls[c].for.op = e.op

\* What was permitted still fits: nobody else spends, and midnight only frees.
PermittedFits ==
    \A c \in Callers : calls[c].at = "acting" =>
        calls[c].for.op \in usage.completed \/ SpentToday + calls[c].for.amount <= SpendLimit

ReceiptsFollow ==
    /\ receipts \subseteq usage.completed
    /\ \A c \in Callers : calls[c].at = "receipting" => calls[c].for.op \in usage.completed

KeptToday == {e \in performed : e.day = day /\ e.op \notin lost /\ e.op \in usage.completed}
TodayIsCounted == TotalOf(KeptToday) <= SpentToday

BooksInv ==
    /\ Inv /\ LineInv /\ Typed /\ EffectsMatch /\ OthersAreCharged /\ PermittedFits /\ ReceiptsFollow
    /\ TodayIsCounted /\ SpendIsWithinLimit /\ ChargedOnce

-----------------------------------------------------------------------------
(* Sums.                                                                   *)

\* An effect of so many minor units has so many units.
LEMMA UnitsOfOne ==
    ASSUME NEW e, e.amount \in Nat
    PROVE  IsFiniteSet({e} \X (1 .. e.amount)) /\ Cardinality({e} \X (1 .. e.amount)) = e.amount
  <1> DEFINE n == e.amount
  <1>1. IsFiniteSet({e}) /\ Cardinality({e}) = 1
    BY FS_Singleton
  <1>2. IsFiniteSet(1 .. n) /\ Cardinality(1 .. n) = n
    BY FS_Interval
  <1> HIDE DEF n
  <1>3. IsFiniteSet({e} \X (1 .. n)) /\ Cardinality({e} \X (1 .. n)) = Cardinality({e}) * Cardinality(1 .. n)
    BY <1>1, <1>2, FS_Product
  <1>4. n \in Nat /\ 1 * n = n
    BY DEF n
  <1> QED
    BY <1>1, <1>2, <1>3, <1>4 DEF n

\* Nothing costs nothing.
LEMMA NothingCostsNothing == TotalOf({}) = 0
  <1>1. Units({}) = {}
    BY DEF Units
  <1> QED
    BY <1>1, FS_EmptySet DEF TotalOf

\* A part of a sum is at most the sum.
LEMMA MoreCostMore ==
    ASSUME NEW T, IsFiniteSet(Units(T)), NEW S \in SUBSET T
    PROVE  /\ IsFiniteSet(Units(S)) /\ TotalOf(S) \in Nat /\ TotalOf(T) \in Nat
           /\ TotalOf(S) <= TotalOf(T)
  <1>1. Units(S) \subseteq Units(T)
    BY DEF Units
  <1>2. IsFiniteSet(Units(S)) /\ Cardinality(Units(S)) <= Cardinality(Units(T))
    BY <1>1, FS_Subset
  <1> QED
    BY <1>2, FS_CardinalityType DEF TotalOf

\* Another effect adds its amount, or was counted.
LEMMA OneMoreCosts ==
    ASSUME NEW S, IsFiniteSet(Units(S)), NEW e, e.amount \in Nat
    PROVE  /\ IsFiniteSet(Units(S \cup {e}))
           /\ TotalOf(S \cup {e}) <= TotalOf(S) + e.amount
           /\ e \notin S => TotalOf(S \cup {e}) = TotalOf(S) + e.amount
  <1> DEFINE U == Units(S)
             V == {e} \X (1 .. e.amount)
  <1>1. Units(S \cup {e}) = U \cup V
    BY DEF Units
  <1>2. IsFiniteSet(V) /\ Cardinality(V) = e.amount
    BY UnitsOfOne
  <1>3. e \notin S => U \cap V = {}
    BY DEF Units
  <1> HIDE DEF U, V
  <1>4. /\ IsFiniteSet(U \cup V) /\ IsFiniteSet(U \cap V)
        /\ Cardinality(U \cup V) = Cardinality(U) + Cardinality(V) - Cardinality(U \cap V)
    BY <1>2, FS_Union, FS_Intersection DEF U
  <1>5. Cardinality(U) \in Nat /\ Cardinality(U \cap V) \in Nat
    BY <1>4, FS_CardinalityType DEF U
  <1>6. e \notin S => Cardinality(U \cap V) = 0
    BY <1>3, FS_EmptySet
  <1>7. TotalOf(S \cup {e}) = Cardinality(U \cup V) /\ TotalOf(S) = Cardinality(U)
    BY <1>1 DEF TotalOf, U
  <1>8. IsFiniteSet(Units(S \cup {e}))
    BY <1>1, <1>4
  <1> QED
    BY <1>2, <1>4, <1>5, <1>6, <1>7, <1>8

-----------------------------------------------------------------------------
(* The line.                                                               *)

\* The one whose turn it was leaves, and the others stay in line.
LEMMA LineShrinks ==
    ASSUME CallsInv, LineInv, NEW c \in Callers, Active(c), Ends(c)
    PROVE  LineInv' /\ \A d \in Callers : ~Active(d)'
  <1> DEFINE n == Len(tail)
  <1>1. /\ tail \in Seq(Callers) /\ n \in Nat \ {0} /\ DOMAIN tail = 1 .. n /\ tail[1] = c
        /\ \A i \in 1 .. n : tail[i] \in Callers
        /\ \A i, k \in 1 .. n : tail[i] = tail[k] => i = k
    BY LenProperties, ElementOfSeq, EmptySeq DEF LineInv
  <1>2. tail' = SubSeq(tail, 1, 0) \o SubSeq(tail, 2, n)
    <2>1. PICK i \in DOMAIN tail : tail[i] = c /\ tail' = RemoveAt(tail, i)
      BY DEF Ends
    <2>2. i = 1
      BY <1>1, <2>1
    <2> QED
      BY <2>1, <2>2 DEF RemoveAt
  <1>3. SubSeq(tail, 1, 0) = <<>>
    BY <1>1, SubSeqProperties, EmptySeq
  <1>4. /\ SubSeq(tail, 2, n) \in Seq(Callers) /\ Len(SubSeq(tail, 2, n)) = n - 1
        /\ \A i \in 1 .. n - 1 : SubSeq(tail, 2, n)[i] = tail[i + 1]
    BY <1>1, SubSeqProperties
  <1>5. tail' \in Seq(Callers) /\ Len(tail') = n - 1 /\ \A i \in 1 .. n - 1 : tail'[i] = tail[i + 1]
    BY <1>2, <1>3, <1>4, ConcatEmptySeq
  <1> HIDE DEF n
  <1>6. /\ calls'[c].at = "idle" /\ \A d \in Callers : d # c => calls'[d].at = calls[d].at
    BY Moves DEF Ends
  <1>7. ASSUME NEW d \in Callers PROVE ~Active(d)'
    <2>1. Active(d) => d = c
      BY <1>1 DEF LineInv
    <2> QED
      BY <1>6, <2>1 DEF Active
  <1>8. \A i, k \in 1 .. n - 1 : tail'[i] = tail'[k] => i = k
    BY <1>1, <1>5
  <1>9. ASSUME NEW d \in Callers PROVE Contains(tail', d) <=> calls'[d].at # "idle"
    <2>1. Contains(tail', d) <=> Contains(tail, d) /\ d # c
      <3>1. ASSUME NEW i \in 1 .. n - 1, tail'[i] = d PROVE Contains(tail, d) /\ d # c
        <4>1. i + 1 \in 1 .. n /\ tail[i + 1] = d /\ i + 1 # 1 /\ 1 \in 1 .. n
          BY <1>1, <1>5, <3>1
        <4> QED
          BY <1>1, <4>1 DEF Contains, n
      <3>2. ASSUME NEW i \in 1 .. n, tail[i] = d, d # c PROVE \E k \in 1 .. n - 1 : tail'[k] = d
        <4>1. i # 1
          BY <1>1, <3>2
        <4>2. i - 1 \in 1 .. n - 1 /\ (i - 1) + 1 = i
          BY <1>1, <4>1
        <4>3. tail'[i - 1] = tail[i]
          BY <1>5, <4>2
        <4> QED
          BY <3>2, <4>2, <4>3
      <3> QED
        BY <1>5, <3>1, <3>2 DEF Contains, n
    <2> QED
      BY <1>6, <2>1 DEF LineInv
  <1> QED
    BY <1>5, <1>7, <1>8, <1>9 DEF LineInv

\* The one whose turn it is goes on.
LEMMA LineStays ==
    ASSUME CallsInv, LineInv, NEW c \in Callers, NEW stage, stage # "idle", calls[c].at # "idle",
           tail[1] = c, At(c, stage), UNCHANGED tail
    PROVE  LineInv'
  <1>1. calls'[c].at = stage /\ \A d \in Callers : d # c => calls'[d].at = calls[d].at
    BY Moves
  <1>2. tail # <<>>
    BY EmptySeq DEF LineInv, Contains
  <1> QED
    BY <1>1, <1>2 DEF LineInv, Active

\* A new call stands at the end.
LEMMA LineGrows ==
    ASSUME LineInv, NEW c \in Callers, calls[c].at = "idle", calls'[c].at = "waiting",
           \A d \in Callers : d # c => calls'[d].at = calls[d].at, tail' = Append(tail, c)
    PROVE  LineInv'
  <1> DEFINE n == Len(tail)
  <1>1. /\ tail \in Seq(Callers) /\ n \in Nat /\ tail' \in Seq(Callers) /\ Len(tail') = n + 1
        /\ \A i \in 1 .. n : tail'[i] = tail[i]
        /\ tail'[n + 1] = c
    BY AppendProperties, LenProperties DEF LineInv
  <1>2. \A i \in 1 .. n : tail[i] # c
    BY DEF LineInv, Contains
  <1> HIDE DEF n
  <1>3. \A i, k \in 1 .. n + 1 : tail'[i] = tail'[k] => i = k
    <2>1. \A i, k \in 1 .. n : tail[i] = tail[k] => i = k
      BY DEF LineInv, n
    <2> QED
      BY <1>1, <1>2, <2>1
  <1>4. ASSUME NEW d \in Callers PROVE Contains(tail', d) <=> calls'[d].at # "idle"
    <2>1. Contains(tail', d) <=> Contains(tail, d) \/ d = c
      <3>1. \A i : i \in 1 .. n + 1 <=> i \in 1 .. n \/ i = n + 1
        BY <1>1
      <3> QED
        BY <1>1, <3>1 DEF Contains, n
    <2> QED
      BY <2>1 DEF LineInv
  <1>5. ASSUME NEW d \in Callers, Active(d)' PROVE tail' # <<>> /\ tail'[1] = d
    <2>1. tail # <<>> /\ tail[1] = d
      BY <1>5 DEF LineInv, Active
    <2>2. 1 \in 1 .. n
      BY <1>1, <2>1, EmptySeq DEF n
    <2> QED
      BY <1>1, <2>1, <2>2, EmptySeq
  <1> QED
    BY <1>1, <1>3, <1>4, <1>5 DEF LineInv

-----------------------------------------------------------------------------
(* Steps that leave the books alone.                                       *)

Fits(p) == p.op \in usage.completed \/ SpentToday + p.amount <= SpendLimit

\* Such a step takes a call to another stage at most, and no effect loses the call that charges it.
Leaves ==
    /\ UNCHANGED <<day, usage, performed, lost>>
    /\ standing' \in BOOLEAN /\ made' \in [{"call", "crash", "fail"} -> Nat]
    /\ \A c \in Callers :
         /\ calls'[c].for = calls[c].for /\ calls'[c].at \in Stages
         /\ calls'[c].at # "idle" => calls[c].at # "idle"
         /\ calls[c].at = "acted" => calls'[c].at = "acted"
         /\ calls'[c].at = "receipting" => calls[c].at = "receipting"
         /\ calls'[c].at = "acting" => calls[c].at = "acting" \/ Fits(calls[c].for)
    /\ receipts' \subseteq usage.completed

\* The books stay true over it.
LEMMA LeavesBooks ==
    ASSUME BooksInv, Leaves, Inv', LineInv'
    PROVE  BooksInv'
  <1>1. UNCHANGED <<day, usage, performed, lost>> /\ SpentToday' = SpentToday
    BY DEF Leaves, SpentToday
  <1>2. Typed'
    BY <1>1 DEF BooksInv, Leaves, Typed
  <1>3. EffectsMatch'
    BY <1>1 DEF BooksInv, Leaves, EffectsMatch
  <1>4. OthersAreCharged'
    BY <1>1 DEF BooksInv, Leaves, OthersAreCharged
  <1>5. PermittedFits'
    BY <1>1 DEF BooksInv, Leaves, PermittedFits, Fits
  <1>6. ReceiptsFollow'
    BY <1>1 DEF BooksInv, Leaves, ReceiptsFollow
  <1>7. TodayIsCounted'
    BY <1>1 DEF BooksInv, TodayIsCounted, KeptToday
  <1>8. SpendIsWithinLimit' /\ ChargedOnce'
    BY <1>1 DEF BooksInv, SpendIsWithinLimit, ChargedOnce
  <1> QED
    BY <1>2, <1>3, <1>4, <1>5, <1>6, <1>7, <1>8 DEF BooksInv

\* A bound counts by one.
LEMMA CountedTyped ==
    ASSUME made \in [{"call", "crash", "fail"} -> Nat], NEW what \in {"call", "crash", "fail"}, NEW max, Counted(what, max)
    PROVE  made' \in [{"call", "crash", "fail"} -> Nat]
  <1>1. made[what] + 1 \in Nat
    OBVIOUS
  <1> QED
    BY <1>1 DEF Counted

\* A call goes on, or ends, without effect or charge.
LEMMA GoesOnLeaves ==
    ASSUME BooksInv, NEW c \in Callers, NEW stage \in Stages, At(c, stage),
           calls[c].at # "idle", calls[c].at # "acted",
           stage # "receipting", stage = "acting" => Fits(calls[c].for),
           UNCHANGED <<day, usage, performed, lost>>, standing' \in BOOLEAN,
           made' \in [{"call", "crash", "fail"} -> Nat], receipts' \subseteq usage.completed
    PROVE  Leaves
  <1>1. /\ \A d \in Callers : calls'[d].for = calls[d].for
        /\ calls'[c].at = stage
        /\ \A d \in Callers : d # c => calls'[d].at = calls[d].at
    BY Moves DEF BooksInv, Inv
  <1>2. \A d \in Callers : calls[d].at \in Stages
    BY DEF BooksInv, Typed
  <1> QED
    BY <1>1, <1>2 DEF Leaves

\* A call that is answered, and not about to charge, returns or throws.
LEMMA EndsLeaves ==
    ASSUME BooksInv, Inv', NEW c \in Callers, Ends(c), Active(c), calls[c].at # "acted",
           UNCHANGED <<day, standing, usage, performed, lost>>,
           made' \in [{"call", "crash", "fail"} -> Nat], receipts' \subseteq usage.completed
    PROVE  BooksInv'
  <1>1. LineInv'
    BY LineShrinks DEF BooksInv, Inv
  <1>2. At(c, "idle") /\ "idle" \in Stages /\ standing' \in BOOLEAN
    BY DEF Ends, Stages, BooksInv, Typed
  <1>3. Leaves
    BY <1>2, GoesOnLeaves DEF Active
  <1> QED
    BY <1>1, <1>3, LeavesBooks

\* Who has its turn is the head of the line, and the only one.
LEMMA HeadIsActive ==
    ASSUME BooksInv, NEW c \in Callers, Active(c)
    PROVE  calls[c].at # "idle" /\ tail[1] = c /\ \A d \in Callers : Active(d) => d = c
  BY DEF BooksInv, LineInv, Active

\* What a call does that is no effect, no charge and no failure after either.
LEMMA CallerBooks ==
    ASSUME BooksInv, Inv', NEW c \in Callers,
           \/ TurnComes(c) \/ ServiceAnswers(c) \/ RequestFails(c) \/ Guard(c)
           \/ ReceiptAppended(c) \/ ReceiptFails(c)
    PROVE  BooksInv'
  <1>0. /\ standing \in BOOLEAN /\ made \in [{"call", "crash", "fail"} -> Nat] /\ receipts \subseteq usage.completed
        /\ LineInv /\ CallsInv /\ {"first", "second", "consent", "acting", "idle"} \subseteq Stages
        /\ \A d \in Callers : calls[d].at \in Stages
    BY DEF BooksInv, Inv, Typed, ReceiptsFollow, Stages
  <1>1. CASE TurnComes(c)
    <2>1. /\ calls[c].at = "waiting" /\ Head(tail) = c /\ At(c, "first")
          /\ UNCHANGED <<day, standing, receipts, usage, tail, performed, lost, made>>
      BY <1>1 DEF TurnComes, world
    <2>2. tail[1] = c
      <3>1. tail # <<>> /\ tail \in Seq(Callers)
        BY <2>1, EmptySeq DEF BooksInv, LineInv, Contains
      <3> QED
        BY <2>1, <3>1, HeadTailProperties
    <2>3. LineInv'
      BY <1>0, <2>1, <2>2, LineStays
    <2>4. Leaves
      BY <1>0, <2>1, GoesOnLeaves
    <2> QED
      BY <2>3, <2>4, LeavesBooks
  <1>2. CASE ServiceAnswers(c)
    <2>1. UNCHANGED <<day, standing, receipts, usage, calls, tail, performed, lost, made>>
      BY <1>2 DEF ServiceAnswers, world
    <2>2. LineInv'
      BY <2>1 DEF BooksInv, LineInv, Active
    <2>3. Leaves
      BY <1>0, <2>1 DEF Leaves
    <2> QED
      BY <2>2, <2>3, LeavesBooks
  <1>3. CASE RequestFails(c)
    <2>1. /\ calls[c].at \in {"first", "second", "consent"} /\ Ends(c) /\ Counted("fail", MaxFails)
          /\ UNCHANGED <<day, standing, receipts, usage, performed, lost>>
      BY <1>3 DEF RequestFails, Throws, world
    <2>2. made' \in [{"call", "crash", "fail"} -> Nat]
      BY <1>0, <2>1, CountedTyped
    <2> QED
      BY <1>0, <2>1, <2>2, EndsLeaves DEF Active
  <1>4. CASE GuardDenies(c)
    <2>1. /\ calls[c].at \in {"first", "second"} /\ Ends(c)
          /\ UNCHANGED <<day, standing, receipts, usage, performed, lost, made>>
      BY <1>4 DEF GuardDenies, JudgeUnchanged, world
    <2> QED
      BY <1>0, <2>1, EndsLeaves DEF Active
  <1>5. CASE GuardAsksConsent(c)
    <2>1. /\ calls[c].at \in {"first", "second"}
          /\ (At(c, "consent") /\ UNCHANGED tail) \/ Ends(c)
          /\ UNCHANGED <<day, standing, receipts, usage, performed, lost, made>>
      BY <1>5 DEF GuardAsksConsent, JudgeUnchanged, world
    <2>2. CASE Ends(c)
      BY <1>0, <2>1, <2>2, EndsLeaves DEF Active
    <2>3. CASE At(c, "consent") /\ UNCHANGED tail
      <3>1. calls[c].at # "idle" /\ tail[1] = c
        BY <2>1, HeadIsActive DEF Active
      <3>2. LineInv'
        BY <1>0, <2>3, <3>1, LineStays
      <3>3. Leaves
        BY <1>0, <2>1, <2>3, GoesOnLeaves
      <3> QED
        BY <3>2, <3>3, LeavesBooks
    <2> QED
      BY <2>1, <2>2, <2>3
  <1>6. CASE GuardPermits(c)
    <2>1. PICK stage \in {"second", "acting"} :
            /\ At(c, stage) /\ calls[c].at \in {"first", "second"} /\ ~Denied(calls[c].for, answer[c])
            /\ UNCHANGED <<day, standing, receipts, usage, tail, performed, lost, made>>
      BY <1>6 DEF GuardPermits, JudgeUnchanged, world
    <2>2. calls[c].at # "idle" /\ tail[1] = c
      BY <2>1, HeadIsActive DEF Active
    <2>3. LineInv'
      BY <1>0, <2>1, <2>2, LineStays
    <2>4. Fits(calls[c].for)
      <3>1. SpentToday \in Nat /\ calls[c].for.amount \in Nat /\ SpendLimit \in Nat
        BY AmountsAssumption, LimitsAssumption DEF BooksInv, Typed, SpentToday, Operations
      <3> QED
        BY <2>1, <3>1 DEF Denied, Due, Fits
    <2>5. Leaves
      BY <1>0, <2>1, <2>2, <2>4, GoesOnLeaves
    <2> QED
      BY <2>3, <2>5, LeavesBooks
  <1>7. CASE ConsentRequested(c)
    <2>1. /\ calls[c].at = "consent" /\ Ends(c)
          /\ UNCHANGED <<day, standing, receipts, usage, performed, lost, made>>
      BY <1>7 DEF ConsentRequested
    <2> QED
      BY <1>0, <2>1, EndsLeaves DEF Active
  <1>8. CASE ReceiptAppended(c)
    <2>1. /\ calls[c].at = "receipting" /\ Ends(c) /\ receipts' = receipts \cup {calls[c].for.op}
          /\ UNCHANGED <<day, standing, usage, performed, lost, made>>
      BY <1>8 DEF ReceiptAppended
    <2>2. receipts' \subseteq usage.completed
      BY <2>1 DEF BooksInv, ReceiptsFollow
    <2> QED
      BY <1>0, <2>1, <2>2, EndsLeaves DEF Active
  <1>9. CASE ReceiptFails(c)
    <2>1. /\ calls[c].at = "receipting" /\ Ends(c) /\ Counted("fail", MaxFails)
          /\ UNCHANGED <<day, standing, receipts, usage, performed, lost>>
      BY <1>9 DEF ReceiptFails, Throws, world
    <2>2. made' \in [{"call", "crash", "fail"} -> Nat]
      BY <1>0, <2>1, CountedTyped
    <2> QED
      BY <1>0, <2>1, <2>2, EndsLeaves DEF Active
  <1> QED
    BY <1>1, <1>2, <1>3, <1>4, <1>5, <1>6, <1>7, <1>8, <1>9 DEF Guard

-----------------------------------------------------------------------------
(* Steps that write in the books.                                          *)

\* A new call is for an operation that agrees with those there are.
LEMMA CallBooks ==
    ASSUME BooksInv, Inv', NEW c \in Callers, NEW p \in Operations, Call(c, p)
    PROVE  BooksInv'
  <1>1. /\ calls[c].at = "idle" /\ calls' = [calls EXCEPT ![c] = [at |-> "waiting", for |-> p]]
        /\ tail' = Append(tail, c) /\ Counted("call", MaxCalls)
        /\ \A e \in performed : e.op = p.op => e.amount = p.amount
        /\ \A d \in Callers : calls[d].at # "idle" /\ calls[d].for.op = p.op => calls[d].for = p
        /\ UNCHANGED <<day, standing, receipts, usage, performed, lost>>
    BY DEF Call, world
  <1>2. /\ calls'[c].at = "waiting" /\ calls'[c].for = p
        /\ \A d \in Callers : d # c => calls'[d] = calls[d]
    <2>1. calls = [d \in Callers |-> calls[d]]
      <3>1. calls = [d \in Callers |-> [at |-> calls[d].at, for |-> calls[d].for]]
        BY DEF BooksInv, Inv, CallsInv
      <3> QED
        BY <3>1
    <2> QED
      BY <1>1, <2>1
  <1>3. LineInv'
    BY <1>1, <1>2, LineGrows DEF BooksInv
  <1>4. Typed'
    <2>1. made' \in [{"call", "crash", "fail"} -> Nat]
      BY <1>1, CountedTyped DEF BooksInv, Typed
    <2>2. \A d \in Callers : calls'[d].at \in Stages /\ calls'[d].for \in Operations
      BY <1>2 DEF BooksInv, Typed, Stages
    <2> QED
      BY <1>1, <2>1, <2>2 DEF BooksInv, Typed
  <1>5. EffectsMatch'
    BY <1>1, <1>2 DEF BooksInv, EffectsMatch
  <1>6. OthersAreCharged'
    BY <1>1, <1>2 DEF BooksInv, OthersAreCharged
  <1>7. PermittedFits' /\ ReceiptsFollow'
    BY <1>1, <1>2 DEF BooksInv, PermittedFits, ReceiptsFollow, SpentToday
  <1>8. TodayIsCounted' /\ SpendIsWithinLimit' /\ ChargedOnce'
    BY <1>1 DEF BooksInv, TodayIsCounted, KeptToday, SpentToday, SpendIsWithinLimit, ChargedOnce
  <1> QED
    BY <1>3, <1>4, <1>5, <1>6, <1>7, <1>8 DEF BooksInv

\* An effect that happens the first time fits into what is left of the day.
LEMMA EffectBooks ==
    ASSUME BooksInv, Inv', NEW c \in Callers, EffectHappens(c)
    PROVE  BooksInv'
  <1> DEFINE p == calls[c].for
             n == [op |-> p.op, amount |-> p.amount, day |-> day]
  <1>1. /\ calls[c].at = "acting" /\ At(c, "acted")
        /\ performed' = IF \E e \in performed : e.op = p.op THEN performed ELSE performed \cup {n}
        /\ UNCHANGED <<day, standing, receipts, usage, tail, lost, made>>
    BY DEF EffectHappens, world
  <1>2. /\ \A d \in Callers : calls'[d].for = calls[d].for
        /\ calls'[c].at = "acted"
        /\ \A d \in Callers : d # c => calls'[d].at = calls[d].at
    BY <1>1, Moves DEF BooksInv, Inv
  <1>3. calls[c].at # "idle" /\ tail[1] = c /\ \A d \in Callers : Active(d) => d = c
    BY <1>1, HeadIsActive DEF Active
  <1>4. LineInv'
    BY <1>1, <1>3, LineStays DEF BooksInv, Inv
  <1>5. p \in Operations /\ p.op \in Ops /\ p.amount \in Amounts /\ p.amount \in Nat
    BY AmountsAssumption DEF BooksInv, Typed, Operations
  <1>6. n.op = p.op /\ n.amount = p.amount /\ n.day = day
    OBVIOUS
  <1>7. n \in [op : Ops, amount : Amounts, day : 0 .. day]
    <2>1. day \in 0 .. day
      BY DEF BooksInv, Typed
    <2> QED
      BY <1>5, <2>1
  <1> HIDE DEF p, n
  <1>8. IsFiniteSet(Units(performed)) /\ IsFiniteSet(Units(performed'))
    BY <1>1, <1>5, <1>6, OneMoreCosts DEF BooksInv, Typed
  <1>9. Typed'
    <2>1. \A d \in Callers : calls'[d].at \in Stages /\ calls'[d].for \in Operations
      BY <1>2 DEF BooksInv, Typed, Stages
    <2>2. performed' \subseteq [op : Ops, amount : Amounts, day : 0 .. day]
      BY <1>1, <1>7 DEF BooksInv, Typed
    <2> QED
      BY <1>1, <1>8, <2>1, <2>2 DEF BooksInv, Typed
  <1>10. EffectsMatch'
    <2>1. \A e, f \in performed' : e.op = f.op => e = f
      BY <1>1, <1>6 DEF BooksInv, EffectsMatch
    <2>2. ASSUME NEW d \in Callers, calls'[d].at # "idle", NEW e \in performed', e.op = calls'[d].for.op
          PROVE  e.amount = calls'[d].for.amount
      <3>1. calls[d].at # "idle" /\ calls'[d].for = calls[d].for
        BY <1>2, <1>3, <2>2
      <3>2. CASE e \in performed
        BY <2>2, <3>1, <3>2 DEF BooksInv, EffectsMatch
      <3>3. CASE e = n
        BY <1>3, <1>6, <2>2, <3>1, <3>3 DEF BooksInv, EffectsMatch, p
      <3> QED
        BY <1>1, <2>2, <3>2, <3>3
    <2>3. \A d, f \in Callers :
            calls'[d].at # "idle" /\ calls'[f].at # "idle" /\ calls'[d].for.op = calls'[f].for.op
                => calls'[d].for = calls'[f].for
      BY <1>2, <1>3 DEF BooksInv, EffectsMatch
    <2> QED
      BY <2>1, <2>2, <2>3 DEF EffectsMatch
  <1>11. OthersAreCharged'
    <2>1. ASSUME NEW e \in performed PROVE e.op \in usage.completed \cup lost
      <3>1. \A d \in Callers : calls[d].at # "acted"
        BY <1>1, <1>3 DEF Active
      <3> QED
        BY <3>1 DEF BooksInv, OthersAreCharged
    <2> QED
      BY <1>1, <1>2, <1>6, <2>1 DEF OthersAreCharged, p
  <1>12. PermittedFits' /\ ReceiptsFollow'
    BY <1>1, <1>2 DEF BooksInv, PermittedFits, ReceiptsFollow, SpentToday
  <1>13. TodayIsCounted' /\ SpendIsWithinLimit' /\ ChargedOnce'
    <2>1. CASE performed' = performed
      BY <1>1, <2>1 DEF BooksInv, TodayIsCounted, KeptToday, SpentToday, SpendIsWithinLimit, ChargedOnce
    <2>2. CASE ~ \E e \in performed : e.op = p.op
      <3>1. performed' = performed \cup {n} /\ p.op \notin usage.completed
        BY <1>1, <2>2 DEF BooksInv, Inv, EffectsInv
      <3>2. /\ KeptToday' = KeptToday /\ SpentToday' = SpentToday
            /\ {e \in performed' : e.op \in usage.completed} = {e \in performed : e.op \in usage.completed}
        BY <1>1, <1>6, <3>1 DEF KeptToday, SpentToday
      <3>3. TodayIsCounted' /\ ChargedOnce'
        BY <1>1, <3>2 DEF BooksInv, TodayIsCounted, ChargedOnce
      <3>4. ASSUME NEW d \in 0 .. MaxDays
            PROVE  TotalOf({e \in performed' : e.day = d /\ e.op \notin lost}) <= SpendLimit
        <4>1. CASE d # day \/ p.op \in lost
          <5>1. {e \in performed' : e.day = d /\ e.op \notin lost} = {e \in performed : e.day = d /\ e.op \notin lost}
            BY <1>6, <3>1, <4>1
          <5> QED
            BY <5>1 DEF BooksInv, SpendIsWithinLimit
        <4>2. CASE d = day /\ p.op \notin lost
          <5>1. {e \in performed' : e.day = d /\ e.op \notin lost} = {e \in performed : e.day = d /\ e.op \notin lost} \cup {n}
            BY <1>6, <3>1, <4>2
          <5>2. {e \in performed : e.day = d /\ e.op \notin lost} = KeptToday
            <6>1. \A e \in performed : e.op \notin lost => e.op \in usage.completed
              <7>1. \A f \in Callers : calls[f].at # "acted"
                BY <1>1, <1>3 DEF Active
              <7> QED
                BY <7>1 DEF BooksInv, OthersAreCharged
            <6> QED
              BY <4>2, <6>1 DEF KeptToday
          <5>3. IsFiniteSet(Units(KeptToday)) /\ TotalOf(KeptToday) \in Nat
            BY <1>8, MoreCostMore DEF KeptToday
          <5>4. TotalOf(KeptToday \cup {n}) <= TotalOf(KeptToday) + n.amount /\ IsFiniteSet(Units(KeptToday \cup {n}))
            BY <1>5, <1>6, <5>3, OneMoreCosts
          <5>5. TotalOf(KeptToday \cup {n}) \in Nat
            BY <5>4, MoreCostMore
          <5>6. TotalOf(KeptToday) <= SpentToday /\ SpentToday + p.amount <= SpendLimit
            BY <1>1, <3>1 DEF BooksInv, TodayIsCounted, PermittedFits, p
          <5>7. SpentToday \in Nat /\ SpendLimit \in Nat
            BY LimitsAssumption DEF BooksInv, Typed, SpentToday
          <5>8. TotalOf(KeptToday \cup {n}) <= SpendLimit
            BY <1>5, <1>6, <5>3, <5>4, <5>5, <5>6, <5>7
          <5> QED
            BY <5>1, <5>2, <5>8
        <4> QED
          BY <4>1, <4>2
      <3> QED
        BY <1>1, <3>3, <3>4 DEF SpendIsWithinLimit
    <2> QED
      BY <1>1, <2>1, <2>2
  <1> QED
    BY <1>4, <1>9, <1>10, <1>11, <1>12, <1>13 DEF BooksInv

\* What is lost is outside the sums.
LEMMA LosingBooks ==
    ASSUME BooksInv, UNCHANGED <<day, usage, performed>>, lost \subseteq lost'
    PROVE  TodayIsCounted' /\ SpendIsWithinLimit' /\ ChargedOnce'
  <1>1. IsFiniteSet(Units(performed)) /\ SpentToday \in Nat /\ SpendLimit \in Nat /\ SpentToday' = SpentToday
    BY LimitsAssumption DEF BooksInv, Typed, SpentToday
  <1>2. TodayIsCounted'
    <2>1. KeptToday' \subseteq KeptToday /\ KeptToday \subseteq performed
      BY DEF KeptToday
    <2>2. IsFiniteSet(Units(KeptToday)) /\ TotalOf(KeptToday) \in Nat
      BY <1>1, <2>1, MoreCostMore
    <2>3. TotalOf(KeptToday') <= TotalOf(KeptToday) /\ TotalOf(KeptToday') \in Nat
      BY <2>1, <2>2, MoreCostMore
    <2>4. TotalOf(KeptToday) <= SpentToday
      BY DEF BooksInv, TodayIsCounted
    <2>5. TotalOf(KeptToday') <= SpentToday'
      BY <1>1, <2>2, <2>3, <2>4
    <2> QED
      BY <2>5 DEF TodayIsCounted, TotalOf, Units
  <1>3. ASSUME NEW d \in 0 .. MaxDays
        PROVE  TotalOf({e \in performed : e.day = d /\ e.op \notin lost'}) <= SpendLimit
    <2> DEFINE S == {e \in performed : e.day = d /\ e.op \notin lost}
               T == {e \in performed : e.day = d /\ e.op \notin lost'}
    <2>1. T \subseteq S /\ S \subseteq performed
      OBVIOUS
    <2>2. TotalOf(S) <= SpendLimit
      BY DEF BooksInv, SpendIsWithinLimit
    <2> HIDE DEF S, T
    <2>3. IsFiniteSet(Units(S)) /\ TotalOf(S) \in Nat
      BY <1>1, <2>1, MoreCostMore
    <2>4. TotalOf(T) <= TotalOf(S) /\ TotalOf(T) \in Nat
      BY <2>1, <2>3, MoreCostMore
    <2>5. TotalOf(T) <= SpendLimit
      BY <1>1, <2>2, <2>3, <2>4
    <2> QED
      BY <2>5 DEF T
  <1>4. SpendIsWithinLimit'
    BY <1>3 DEF SpendIsWithinLimit
  <1> QED
    BY <1>2, <1>4 DEF BooksInv, ChargedOnce

\* A call that throws after its effect loses it.
LEMMA ThrowBooks ==
    ASSUME BooksInv, Inv', NEW c \in Callers, EffectThrows(c)
    PROVE  BooksInv'
  <1>1. /\ calls[c].at \in {"acting", "acted"} /\ Ends(c) /\ Counted("fail", MaxFails)
        /\ lost' = lost \cup Uncharged(calls[c].for)
        /\ UNCHANGED <<day, standing, receipts, usage, performed>>
    BY DEF EffectThrows, Throws, world
  <1>2. /\ \A d \in Callers : calls'[d].for = calls[d].for
        /\ calls'[c].at = "idle"
        /\ \A d \in Callers : d # c => calls'[d].at = calls[d].at
    BY <1>1, Moves DEF BooksInv, Inv, Ends
  <1>3. Active(c) /\ \A d \in Callers : Active(d) => d = c
    BY <1>1, HeadIsActive DEF Active
  <1>4. LineInv'
    BY <1>1, <1>3, LineShrinks DEF BooksInv, Inv
  <1>5. Typed'
    <2>1. made' \in [{"call", "crash", "fail"} -> Nat]
      BY <1>1, CountedTyped DEF BooksInv, Typed
    <2>2. \A d \in Callers : calls'[d].at \in Stages /\ calls'[d].for \in Operations
      BY <1>2 DEF BooksInv, Typed, Stages
    <2>3. lost' \subseteq Ops
      BY <1>1 DEF BooksInv, Typed, Uncharged, Operations
    <2> QED
      BY <1>1, <2>1, <2>2, <2>3 DEF BooksInv, Typed
  <1>6. EffectsMatch'
    BY <1>1, <1>2 DEF BooksInv, EffectsMatch
  <1>7. OthersAreCharged'
    <2>1. ASSUME NEW e \in performed PROVE e.op \in usage.completed \cup lost'
      <3>1. CASE e.op = calls[c].for.op
        BY <1>1, <3>1 DEF Uncharged
      <3>2. CASE e.op # calls[c].for.op
        <4>1. \A d \in Callers : calls[d].at = "acted" => d = c
          BY <1>3 DEF Active
        <4> QED
          BY <1>1, <3>2, <4>1 DEF BooksInv, OthersAreCharged
      <3> QED
        BY <3>1, <3>2
    <2> QED
      BY <1>1, <2>1 DEF OthersAreCharged
  <1>8. PermittedFits' /\ ReceiptsFollow'
    BY <1>1, <1>2 DEF BooksInv, PermittedFits, ReceiptsFollow, SpentToday
  <1>9. TodayIsCounted' /\ SpendIsWithinLimit' /\ ChargedOnce'
    BY <1>1, LosingBooks
  <1> QED
    BY <1>4, <1>5, <1>6, <1>7, <1>8, <1>9 DEF BooksInv

\* A crash loses the effect that was about to be charged.
LEMMA CrashBooks ==
    ASSUME BooksInv, Inv', Crash
    PROVE  BooksInv'
  <1> DEFINE gone == UNION {Uncharged(calls[c].for) : c \in {c \in Callers : calls[c].at = "acted"}}
  <1>1. /\ calls' = [c \in Callers |-> [calls[c] EXCEPT !.at = "idle"]] /\ tail' = <<>>
        /\ lost' = lost \cup gone /\ Counted("crash", MaxCrashes)
        /\ UNCHANGED <<day, standing, receipts, usage, performed>>
    BY DEF Crash, world
  <1>2. ASSUME NEW c \in Callers PROVE calls'[c].at = "idle" /\ calls'[c].for = calls[c].for
    <2>1. calls[c] = [at |-> calls[c].at, for |-> calls[c].for]
      <3>1. calls = [d \in Callers |-> [at |-> calls[d].at, for |-> calls[d].for]]
        BY DEF BooksInv, Inv, CallsInv
      <3> QED
        BY <3>1
    <2>2. calls'[c] = [calls[c] EXCEPT !.at = "idle"]
      BY <1>1
    <2> DEFINE a == calls[c].at
               f == calls[c].for
    <2> HIDE DEF a, f
    <2>3. [[at |-> a, for |-> f] EXCEPT !.at = "idle"] = [at |-> "idle", for |-> f]
      OBVIOUS
    <2> QED
      BY <2>1, <2>2, <2>3 DEF a, f
  <1>3. gone \subseteq Ops /\ \A c \in Callers : calls[c].at = "acted" => Uncharged(calls[c].for) \subseteq gone
    BY DEF BooksInv, Typed, Uncharged, Operations
  <1> HIDE DEF gone
  <1>4. LineInv'
    <2>1. tail' \in Seq(Callers) /\ Len(tail') = 0
      BY <1>1, EmptySeq
    <2> QED
      BY <1>2, <2>1 DEF LineInv, Active, Contains
  <1>5. Typed'
    <2>1. made' \in [{"call", "crash", "fail"} -> Nat]
      BY <1>1, CountedTyped DEF BooksInv, Typed
    <2>2. \A d \in Callers : calls'[d].at \in Stages /\ calls'[d].for \in Operations
      BY <1>2 DEF BooksInv, Typed, Stages
    <2> QED
      BY <1>1, <1>3, <2>1, <2>2 DEF BooksInv, Typed
  <1>6. EffectsMatch'
    BY <1>1, <1>2 DEF BooksInv, EffectsMatch
  <1>7. OthersAreCharged'
    <2>1. ASSUME NEW e \in performed PROVE e.op \in usage.completed \cup lost'
      <3>1. CASE e.op \in usage.completed \cup lost
        BY <1>1, <3>1
      <3>2. ASSUME NEW c \in Callers, calls[c].at = "acted", calls[c].for.op = e.op PROVE e.op \in usage.completed \cup lost'
        BY <1>1, <1>3, <3>2 DEF Uncharged
      <3> QED
        BY <3>1, <3>2 DEF BooksInv, OthersAreCharged
    <2> QED
      BY <1>1, <2>1 DEF OthersAreCharged
  <1>8. PermittedFits' /\ ReceiptsFollow'
    BY <1>1, <1>2 DEF BooksInv, PermittedFits, ReceiptsFollow
  <1>9. TodayIsCounted' /\ SpendIsWithinLimit' /\ ChargedOnce'
    BY <1>1, LosingBooks
  <1> QED
    BY <1>4, <1>5, <1>6, <1>7, <1>8, <1>9 DEF BooksInv

\* A charge adds to both sides of every account, also when midnight has passed since the effect.
LEMMA ChargeBooks ==
    ASSUME BooksInv, Inv', NEW c \in Callers, Charge(c)
    PROVE  BooksInv'
  <1> DEFINE p == calls[c].for
  <1>1. /\ calls[c].at = "acted" /\ At(c, "receipting") /\ usage' = Charged(usage, p)
        /\ UNCHANGED <<day, standing, receipts, tail, performed, lost, made>>
    BY DEF Charge, world
  <1>2. /\ \A d \in Callers : calls'[d].for = calls[d].for
        /\ calls'[c].at = "receipting"
        /\ \A d \in Callers : d # c => calls'[d].at = calls[d].at
    BY <1>1, Moves DEF BooksInv, Inv
  <1>3. calls[c].at # "idle" /\ tail[1] = c /\ \A d \in Callers : Active(d) => d = c
    BY <1>1, HeadIsActive DEF Active
  <1>4. LineInv'
    BY <1>1, <1>3, LineStays DEF BooksInv, Inv
  <1>5. p \in Operations /\ p.op \in Ops /\ p.amount \in Nat
    BY AmountsAssumption DEF BooksInv, Typed, Operations
  <1>6. /\ SpentToday \in Nat /\ SpentToday <= usage.spent /\ usage.spent \in Nat /\ usage.actions \in Nat
        /\ day \in Nat /\ usage.bucket \in 0 .. day /\ IsFiniteSet(usage.completed)
    BY DEF BooksInv, Typed, SpentToday
  <1>7. PICK e \in performed : e.op = p.op
    BY <1>1 DEF BooksInv, Inv, EffectsInv
  <1>8. e.amount = p.amount /\ \A f \in performed : f.op = p.op => f = e
    BY <1>3, <1>7 DEF BooksInv, EffectsMatch
  <1> HIDE DEF p
  <1>9. /\ usage'.completed = usage.completed \cup {p.op}
        /\ usage'.bucket \in 0 .. day /\ usage'.spent \in Nat /\ usage'.actions \in Nat
        /\ p.op \in usage.completed => usage' = usage
        /\ p.op \notin usage.completed => /\ usage'.bucket = day /\ usage'.spent = SpentToday + p.amount
                                          /\ usage'.actions <= usage.actions + 1
    BY <1>1, <1>5, <1>6 DEF Charged
  <1>10. IsFiniteSet(usage'.completed)
    BY <1>6, <1>9, FS_AddElement
  <1>11. Typed'
    <2>1. \A d \in Callers : calls'[d].at \in Stages /\ calls'[d].for \in Operations
      BY <1>2 DEF BooksInv, Typed, Stages
    <2> QED
      BY <1>1, <1>5, <1>9, <1>10, <2>1 DEF BooksInv, Typed
  <1>12. EffectsMatch'
    BY <1>1, <1>2, <1>3 DEF BooksInv, EffectsMatch
  <1>13. OthersAreCharged'
    <2>1. ASSUME NEW f \in performed PROVE f.op \in usage'.completed \cup lost
      <3>1. \A d \in Callers : calls[d].at = "acted" => d = c
        BY <1>3 DEF Active
      <3> QED
        BY <1>9, <3>1 DEF BooksInv, OthersAreCharged, p
    <2> QED
      BY <1>1, <2>1 DEF OthersAreCharged
  <1>14. PermittedFits' /\ ReceiptsFollow'
    <2>1. \A d \in Callers : calls'[d].at # "acting"
      BY <1>1, <1>2, <1>3 DEF Active
    <2>2. ReceiptsFollow'
      BY <1>1, <1>2, <1>9 DEF BooksInv, ReceiptsFollow, p
    <2> QED
      BY <2>1, <2>2 DEF PermittedFits
  <1>15. IsFiniteSet(Units(performed))
    BY DEF BooksInv, Typed
  <1>16. SpendIsWithinLimit'
    BY <1>1 DEF BooksInv, SpendIsWithinLimit
  <1>17. CASE p.op \in usage.completed
    <2>1. usage' = usage
      BY <1>9, <1>17
    <2>2. TodayIsCounted' /\ ChargedOnce'
      BY <1>1, <2>1 DEF BooksInv, TodayIsCounted, KeptToday, SpentToday, ChargedOnce
    <2> QED
      BY <1>4, <1>11, <1>12, <1>13, <1>14, <1>16, <2>2 DEF BooksInv
  <1>18. CASE p.op \notin usage.completed
    <2> DEFINE S == {f \in performed : f.op \in usage.completed}
    <2>1. SpentToday' = SpentToday + p.amount
      BY <1>1, <1>9, <1>18 DEF SpentToday
    <2>2. KeptToday' \subseteq KeptToday \cup {e} /\ KeptToday \subseteq performed
      BY <1>1, <1>7, <1>8, <1>9 DEF KeptToday
    <2>3. {f \in performed : f.op \in usage'.completed} = S \cup {e} /\ e \notin S /\ S \subseteq performed
      BY <1>7, <1>8, <1>9, <1>18
    <2> HIDE DEF S
    <2>4. TodayIsCounted'
      <3>1. IsFiniteSet(Units(KeptToday)) /\ TotalOf(KeptToday) \in Nat
        BY <1>15, <2>2, MoreCostMore
      <3>2. IsFiniteSet(Units(KeptToday \cup {e})) /\ TotalOf(KeptToday \cup {e}) <= TotalOf(KeptToday) + p.amount
        BY <1>5, <1>8, <3>1, OneMoreCosts
      <3>3. /\ TotalOf(KeptToday') <= TotalOf(KeptToday \cup {e})
            /\ TotalOf(KeptToday') \in Nat /\ TotalOf(KeptToday \cup {e}) \in Nat
        BY <2>2, <3>2, MoreCostMore
      <3>4. TotalOf(KeptToday) <= SpentToday
        BY DEF BooksInv, TodayIsCounted
      <3>5. TotalOf(KeptToday') <= SpentToday'
        BY <1>5, <1>6, <2>1, <3>1, <3>2, <3>3, <3>4
      <3> QED
        BY <3>5 DEF TodayIsCounted, TotalOf, Units
    <2>5. ChargedOnce'
      <3>1. IsFiniteSet(Units(S)) /\ TotalOf(S) \in Nat
        BY <1>15, <2>3, MoreCostMore
      <3>2. TotalOf(S \cup {e}) = TotalOf(S) + p.amount
        BY <1>5, <1>8, <2>3, <3>1, OneMoreCosts
      <3>3. usage.spent <= TotalOf(S) /\ usage.actions <= Cardinality(usage.completed)
        BY DEF BooksInv, ChargedOnce, S
      <3>4. usage'.spent <= TotalOf(S \cup {e})
        BY <1>5, <1>6, <1>9, <1>18, <3>1, <3>2, <3>3
      <3>5. Cardinality(usage.completed) \in Nat /\ Cardinality(usage'.completed) = Cardinality(usage.completed) + 1
        BY <1>6, <1>9, <1>18, FS_AddElement, FS_CardinalityType
      <3>6. usage'.actions <= Cardinality(usage'.completed)
        BY <1>6, <1>9, <1>18, <3>3, <3>5
      <3> QED
        BY <1>1, <2>3, <3>4, <3>6 DEF ChargedOnce
    <2> QED
      BY <1>4, <1>11, <1>12, <1>13, <1>14, <1>16, <2>4, <2>5 DEF BooksInv
  <1> QED
    BY <1>17, <1>18

\* At midnight the day's account is empty, and so is what is to be on it.
LEMMA MidnightBooks ==
    ASSUME BooksInv, Inv', NextDay
    PROVE  BooksInv'
  <1>1. /\ day \in Nat /\ day' = day + 1 /\ day < MaxDays
        /\ UNCHANGED <<standing, receipts, usage, calls, tail, performed, lost, made>>
    BY DEF NextDay, BooksInv, Typed
  <1>2. LineInv' /\ EffectsMatch' /\ OthersAreCharged' /\ ReceiptsFollow' /\ SpendIsWithinLimit' /\ ChargedOnce'
    BY <1>1 DEF BooksInv, LineInv, Active, EffectsMatch, OthersAreCharged, ReceiptsFollow, SpendIsWithinLimit, ChargedOnce
  <1>3. 0 .. day \subseteq 0 .. day' /\ day' \in 0 .. MaxDays /\ MaxDays \in Nat
    BY <1>1, CallBoundsAssumption
  <1>4. Typed'
    BY <1>1, <1>3 DEF BooksInv, Typed
  <1>5. SpentToday' = 0 /\ SpentToday \in Nat
    BY <1>1 DEF BooksInv, Typed, SpentToday
  <1>6. PermittedFits'
    <2> SUFFICES ASSUME NEW c \in Callers, calls[c].at = "acting"
                 PROVE  calls[c].for.op \in usage.completed \/ SpentToday' + calls[c].for.amount <= SpendLimit
      BY <1>1 DEF PermittedFits
    <2>1. calls[c].for.amount \in Nat /\ SpendLimit \in Nat
      BY AmountsAssumption, LimitsAssumption DEF BooksInv, Typed, Operations
    <2>2. calls[c].for.op \in usage.completed \/ SpentToday + calls[c].for.amount <= SpendLimit
      BY DEF BooksInv, PermittedFits
    <2> QED
      BY <1>5, <2>1, <2>2
  <1>7. TodayIsCounted'
    <2>1. ASSUME NEW e \in performed PROVE e.day # day'
      <3>1. e.day \in 0 .. day
        BY DEF BooksInv, Typed
      <3> QED
        BY <1>1, <3>1
    <2>2. {e \in performed : e.day = day' /\ e.op \notin lost /\ e.op \in usage.completed} = {}
      BY <2>1
    <2>3. KeptToday' = {}
      BY <1>1, <2>2 DEF KeptToday
    <2>4. TotalOf(KeptToday') = 0
      BY <2>3, NothingCostsNothing
    <2> QED
      BY <1>5, <2>4 DEF TodayIsCounted, TotalOf, Units
  <1> QED
    BY <1>2, <1>4, <1>6, <1>7 DEF BooksInv

\* The mandate's end, a decision and a stutter move no call.
LEMMA WorldBooks ==
    ASSUME BooksInv, Inv',
           MandateEnds \/ UNCHANGED vars
             \/ \E p \in Operations, decision \in {"approved", "rejected"} : Decided(p, decision)
    PROVE  BooksInv'
  <1>1. /\ UNCHANGED <<day, receipts, usage, calls, tail, performed, lost, made>>
        /\ standing' \in {standing, FALSE}
    BY DEF MandateEnds, Decided, vars
  <1>2. LineInv'
    BY <1>1 DEF BooksInv, LineInv, Active
  <1>3. Leaves
    BY <1>1 DEF Leaves, BooksInv, Typed, ReceiptsFollow
  <1> QED
    BY <1>2, <1>3, LeavesBooks

\* At first nothing is spent.
LEMMA InitBooks == Init => BooksInv
  <1> SUFFICES ASSUME Init PROVE BooksInv
    OBVIOUS
  <1>1. /\ day = 0 /\ standing = TRUE /\ receipts = {} /\ usage = NoUsage /\ tail = <<>>
        /\ performed = {} /\ lost = {} /\ made = [what \in {"call", "crash", "fail"} |-> 0]
    BY DEF Init
  <1>2. ASSUME NEW c \in Callers PROVE calls[c].at = "idle" /\ calls[c].for \in Operations
    <2>1. PICK p : p = (CHOOSE q \in Operations : TRUE)
      OBVIOUS
    <2>2. p \in Operations
      <3>1. PICK o \in Ops, a \in Amounts : TRUE
        BY OperationsAssumption
      <3>2. [op |-> o, amount |-> a] \in Operations
        BY DEF Operations
      <3> QED
        BY <2>1, <3>2
    <2>3. calls \in [Callers -> [at : {"idle"}, for : {p}]]
      BY <2>1 DEF Init
    <2> QED
      BY <2>2, <2>3
  <1>3. LineInv
    <2>1. tail \in Seq(Callers) /\ Len(tail) = 0
      BY <1>1, EmptySeq
    <2> QED
      BY <1>2, <2>1 DEF LineInv, Active, Contains
  <1>4. /\ usage.bucket = 0 /\ usage.spent = 0 /\ usage.actions = 0 /\ usage.completed = {}
        /\ SpentToday = 0 /\ SpendLimit \in Nat /\ 0 \in 0 .. MaxDays
    BY <1>1, LimitsAssumption, CallBoundsAssumption DEF NoUsage, SpentToday
  <1>5. Typed
    <2>1. Units(performed) = {}
      BY <1>1 DEF Units
    <2>2. IsFiniteSet(Units(performed)) /\ IsFiniteSet(usage.completed)
      BY <1>4, <2>1, FS_EmptySet
    <2>3. made \in [{"call", "crash", "fail"} -> Nat]
      BY <1>1
    <2>4. 0 \in 0 .. day /\ "idle" \in Stages
      BY <1>1 DEF Stages
    <2> QED
      BY <1>1, <1>2, <1>4, <2>2, <2>3, <2>4 DEF Typed
  <1>6. EffectsMatch /\ OthersAreCharged /\ PermittedFits /\ ReceiptsFollow
    BY <1>1, <1>2 DEF EffectsMatch, OthersAreCharged, PermittedFits, ReceiptsFollow
  <1>7. TodayIsCounted
    <2>1. KeptToday = {}
      BY <1>1 DEF KeptToday
    <2> QED
      BY <1>4, <2>1, NothingCostsNothing DEF TodayIsCounted
  <1>8. SpendIsWithinLimit
    <2>1. ASSUME NEW d \in 0 .. MaxDays
          PROVE  TotalOf({e \in performed : e.day = d /\ e.op \notin lost}) <= SpendLimit
      <3>1. {e \in performed : e.day = d /\ e.op \notin lost} = {}
        BY <1>1
      <3>2. TotalOf({e \in performed : e.day = d /\ e.op \notin lost}) = 0
        BY <3>1, NothingCostsNothing
      <3> QED
        BY <1>4, <3>2
    <2> QED
      BY <2>1 DEF SpendIsWithinLimit
  <1>9. ChargedOnce
    <2>1. {e \in performed : e.op \in usage.completed} = {}
      BY <1>1
    <2>2. TotalOf({e \in performed : e.op \in usage.completed}) = 0 /\ Cardinality(usage.completed) = 0
      BY <1>4, <2>1, NothingCostsNothing, FS_EmptySet
    <2> QED
      BY <1>4, <2>2 DEF ChargedOnce
  <1> QED
    BY <1>3, <1>5, <1>6, <1>7, <1>8, <1>9, InitInv DEF BooksInv

\* Every step keeps the books.
LEMMA StepBooks == BooksInv /\ [Next]_vars => BooksInv'
  <1> SUFFICES ASSUME BooksInv, [Next]_vars PROVE BooksInv'
    OBVIOUS
  <1>1. Inv'
    BY StepInv DEF BooksInv
  <1>2. ASSUME NEW c \in Callers, Execution(c) PROVE BooksInv'
    BY <1>1, <1>2, CallerBooks, EffectBooks, ChargeBooks DEF Execution
  <1>3. ASSUME NEW c \in Callers, RequestFails(c) \/ EffectThrows(c) \/ ReceiptFails(c) PROVE BooksInv'
    BY <1>1, <1>3, CallerBooks, ThrowBooks
  <1> QED
    BY <1>1, <1>2, <1>3, CallBooks, CrashBooks, MidnightBooks, WorldBooks DEF Next

(* The day's effects stay within the mandate's limit, each completed operation is charged
   once, and a receipt vouches for a charged one, however calls overlap, cross midnight,
   are retried, fail or die: only the head of the line is past waiting, so that nobody
   spends between what the second guard permitted and the charge for it
   (serializedExecution and recordDurableUsage of workrooms.ts; README.md:151). *)
THEOREM BooksStayTrue == Spec => []BooksAgree
  <1>1. BooksInv => BooksAgree
    <2> SUFFICES ASSUME BooksInv PROVE BooksAgree
      OBVIOUS
    <2>1. Inv /\ CallsInv /\ LineInv /\ Typed /\ ReceiptsFollow /\ SpendIsWithinLimit /\ ChargedOnce
      BY DEF BooksInv, Inv
    <2>2. performed \subseteq [op : Ops, amount : Amounts, day : 0 .. MaxDays]
      <3>1. 0 .. day \subseteq 0 .. MaxDays /\ performed \subseteq [op : Ops, amount : Amounts, day : 0 .. day]
        BY <2>1, CallBoundsAssumption DEF Typed
      <3> QED
        BY <3>1
    <2>3. /\ approvals \in [Operations -> {"none", "pending", "approved", "rejected"}]
          /\ answer \in [Callers -> Answers] /\ late \subseteq Callers
      BY <2>1 DEF CallsInv, Inv
    <2>4. tail \in Seq(Callers) /\ \A c \in Callers : Contains(tail, c) <=> calls[c].at # "idle"
      BY <2>1 DEF LineInv
    <2>5. TypeOK
      BY <2>1, <2>2, <2>3, <2>4 DEF TypeOK, Typed
    <2>6. ReceiptedIsCharged
      BY <2>1 DEF ReceiptsFollow, ReceiptedIsCharged
    <2> QED
      BY <2>1, <2>5, <2>6 DEF BooksAgree
  <1> QED
    BY <1>1, InitBooks, StepBooks, PTL DEF Spec

-----------------------------------------------------------------------------
(* Both judge alike.                                                       *)

\* The terms MandateUse stands for are in force for its calls, whose agent is theirs.
LEMMA PlainInForce ==
    ASSUME NEW p, NEW a
    PROVE  /\ ~OutOfForce(Plain, UseOf(p, a)) /\ ~DelegationDenied(Plain, UseOf(p, a))
           /\ ~NeedsPrincipal(Plain, UseOf(p, a))
  <1>1. /\ Plain.terms = "terms" /\ Plain.from = 1 /\ Plain.until = 9 /\ Plain.actor = "agent"
        /\ Plain.ends = {[id |-> "end", type |-> "deadline", at |-> 8]}
    BY DEF Plain
  <1>2. /\ UseOf(p, a).terms = "terms" /\ UseOf(p, a).at = 1 /\ UseOf(p, a).met = {}
        /\ UseOf(p, a).by = "agent" /\ UseOf(p, a).depth = 0
    BY DEF UseOf
  <1>3. ~Ended(Plain, UseOf(p, a))
    <2>1. ASSUME NEW e \in Plain.ends PROVE e.at = 8
      BY <1>1
    <2> QED
      BY <1>2, <2>1 DEF Ended
  <1> QED
    BY <1>1, <1>2, <1>3 DEF OutOfForce, DelegationDenied, NeedsPrincipal, Delegated

\* The limits of both are the same sums.
LEMMA PlainBounds ==
    ASSUME NEW p, NEW a, Due(p) \in Nat, SpentToday \in Nat, usage.actions \in Nat
    PROVE  OutOfBounds(Plain, UseOf(p, a)) <=>
             SpentToday + Due(p) > SpendLimit \/ usage.actions + ActionsDue(p) > ActionLimit
  <1> DEFINE r == UseOf(p, a)
             spend == [currency |-> "EUR", amount |-> Due(p)]
             limit == [each |-> SpendLimit, total |-> SpendLimit]
  <1>1. /\ Plain.participants = {"owner", "agent"} /\ Plain.actions = {"send"}
        /\ Plain.limits = PerKey(limit) /\ Plain.volume = [actions |-> ActionLimit]
    BY DEF Plain
  <1>2. /\ r.participants = {"owner", "agent"} /\ r.action = "send" /\ r.tool = None /\ r.accesses = {}
        /\ r.spend = spend /\ r.used = PerKey(SpentToday)
        /\ r.volumeUsed = [actions |-> usage.actions] /\ r.volumeDelta = [actions |-> ActionsDue(p)]
    BY DEF UseOf
  <1>3. spend # None /\ spend.currency = "EUR" /\ spend.amount = Due(p)
    BY AbsentAssumption
  <1>4. limit.each = SpendLimit /\ limit.total = SpendLimit /\ SpendLimit \in Nat
    BY LimitsAssumption
  <1>5. Key.currency = "EUR"
    BY DEF Key
  <1> HIDE DEF r, spend, limit
  <1>6. /\ DOMAIN Plain.limits = {Key} /\ Plain.limits[Key] = limit /\ r.used[Key] = SpentToday
    BY <1>1, <1>2 DEF PerKey
  <1>7. LimitsOf(Plain, spend.currency) = {Key}
    BY <1>3, <1>5, <1>6 DEF LimitsOf
  <1>8. Overspent(Plain, r) <=> SpentToday + Due(p) > SpendLimit
    <2>1. Overspent(Plain, r) <=> Due(p) > SpendLimit \/ SpentToday + Due(p) > SpendLimit
      BY <1>2, <1>3, <1>4, <1>6, <1>7 DEF Overspent
    <2> QED
      BY <1>4, <2>1
  <1>9. Excessive(Plain, r) <=> usage.actions + ActionsDue(p) > ActionLimit
    <2>1. DOMAIN Plain.volume = {"actions"} /\ Plain.volume["actions"] = ActionLimit
      BY <1>1
    <2>2. r.volumeUsed["actions"] = usage.actions /\ r.volumeDelta["actions"] = ActionsDue(p)
      BY <1>2
    <2> QED
      BY <2>1, <2>2 DEF Excessive
  <1>10. OutOfBounds(Plain, r) <=> Overspent(Plain, r) \/ Excessive(Plain, r)
    BY <1>1, <1>2, <1>3 DEF OutOfBounds
  <1> QED
    BY <1>8, <1>9, <1>10 DEF r

\* And so is what they ask consent for.
LEMMA PlainAsks ==
    ASSUME NEW p, NEW a, Due(p) \in Nat
    PROVE  Missing(Plain, UseOf(p, a)) # {} <=> NeedsApproval(p, a)
  <1> DEFINE r == UseOf(p, a)
             spend == [currency |-> "EUR", amount |-> Due(p)]
             by == IF p \in a.approved THEN {"owner"} ELSE {}
  <1>1. Plain.thresholds = [big |-> Consent] /\ r.spend = spend /\ r.approvals = [big |-> by]
    BY DEF Plain, UseOf
  <1>2. spend # None /\ spend.currency = "EUR" /\ spend.amount = Due(p)
    BY AbsentAssumption
  <1>3. /\ Consent.action = None /\ Consent.tool = None /\ Consent.class = None
        /\ Consent.above = Threshold /\ Consent.currency = "EUR"
        /\ Consent.required = 1 /\ Consent.approvers = {"owner"} /\ Threshold # None
    BY AbsentAssumption, LimitsAssumption DEF Consent
  <1>4. Cardinality(by \cap {"owner"}) < 1 <=> p \notin a.approved
    <2>1. Cardinality({"owner"}) = 1 /\ Cardinality({}) = 0
      BY FS_Singleton, FS_EmptySet
    <2>2. CASE p \in a.approved
      <3>1. by \cap {"owner"} = {"owner"}
        BY <2>2
      <3> QED
        BY <2>1, <2>2, <3>1
    <2>3. CASE p \notin a.approved
      <3>1. by \cap {"owner"} = {}
        BY <2>3
      <3> QED
        BY <2>1, <2>3, <3>1
    <2> QED
      BY <2>2, <2>3
  <1> HIDE DEF r, spend, by
  <1>5. DOMAIN Plain.thresholds = {"big"} /\ Plain.thresholds["big"] = Consent /\ r.approvals["big"] = by
    BY <1>1
  <1>6. Matched(Consent, r) <=> Due(p) > Threshold
    BY <1>1, <1>2, <1>3 DEF Matched
  <1>7. Unmet(Consent, r, "big") <=> NeedsApproval(p, a)
    BY <1>3, <1>4, <1>5, <1>6 DEF Unmet, NeedsApproval
  <1>8. Missing(Plain, r) # {} <=> Unmet(Consent, r, "big")
    BY <1>5 DEF Missing
  <1> QED
    BY <1>7, <1>8 DEF r

(* Every call is judged as evaluateMandateUse judges a use with the counters of the runtime
   state, for any counters, limits and consents: what the theorems above say of the policy
   holds of what the guards of executeMandatedAction decide (guardMandateUse and
   mandateUseRequest of workrooms.ts). *)
THEOREM JudgesAsPolicy == Spec => []JudgedByPolicy
  <1>1. BooksInv => JudgedByPolicy
    <2> SUFFICES ASSUME BooksInv, NEW c \in Callers, answer[c].asked, answer[c].standing
                 PROVE  Verdict(Plain, UseOf(calls[c].for, answer[c])) =
                          IF Denied(calls[c].for, answer[c]) THEN "denied"
                          ELSE IF NeedsApproval(calls[c].for, answer[c]) THEN "threshold" ELSE "permitted"
      BY DEF JudgedByPolicy
    <2> DEFINE p == calls[c].for
               a == answer[c]
    <2>1. Due(p) \in Nat /\ SpentToday \in Nat /\ usage.actions \in Nat
      <3>1. p \in Operations /\ p.amount \in Nat
        BY AmountsAssumption DEF BooksInv, Typed, Operations
      <3> QED
        BY <3>1 DEF BooksInv, Typed, Due, SpentToday
    <2>2. a.standing
      OBVIOUS
    <2> HIDE DEF p, a
    <2>3. OutOfBounds(Plain, UseOf(p, a)) <=> Denied(p, a)
      BY <2>1, <2>2, PlainBounds DEF Denied
    <2>4. Missing(Plain, UseOf(p, a)) # {} <=> NeedsApproval(p, a)
      BY <2>1, PlainAsks
    <2>5. Verdict(Plain, UseOf(p, a)) =
            IF Denied(p, a) THEN "denied" ELSE IF NeedsApproval(p, a) THEN "threshold" ELSE "permitted"
      BY <2>3, <2>4, PlainInForce DEF Verdict
    <2> QED
      BY <2>5 DEF p, a
  <1> QED
    BY <1>1, InitBooks, StepBooks, PTL DEF Spec
=============================================================================
