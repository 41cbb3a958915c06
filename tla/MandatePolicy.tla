--------------------------- MODULE MandatePolicy ---------------------------
(***************************************************************************)
(* The judgement of one proposed use against the signed terms of a mandate *)
(* (evaluateMandateUse of core/protocol/src/mandates.ts) and the schema    *)
(* the terms have to satisfy.  Pure functions; module MandateUse says when *)
(* they are called and with which counters.                                *)
(*                                                                         *)
(* Instants, amounts and volumes are numbers, names are values.  A host is *)
(* the sequence of its labels from the top-level domain down, so that a    *)
(* wildcard is a prefix, and "*" is the empty wildcard.  A spend limit has *)
(* its per-operation maximum always: the total where the terms have none.  *)
(***************************************************************************)
EXTENDS Naturals, FiniteSets, SequencesExt

CONSTANTS
    None,                     \* an optional part of the terms or of a use that is absent
    ToolGrants, DataGrants,   \* what the lists of the terms may hold
    Terms, Uses               \* the terms that were signed and the uses they are asked for

-----------------------------------------------------------------------------
\* unsignedMandateSchema and signedMandateSchema.

ValidDelegation(d) == IF d.allowed THEN d.depth >= 1 ELSE d.depth = 0 /\ d.delegates = {}

ValidTerms(m) ==
    /\ m.principal # m.actor
    /\ {m.principal, m.actor} \subseteq m.participants
    /\ m.from < m.until /\ m.signed < m.until
    /\ m.ends # {}
    /\ ValidDelegation(m.delegation) /\ m.delegation.delegates \subseteq m.participants
    /\ \A i \in DOMAIN m.data : m.data[i].recipients \subseteq m.participants
    /\ \A key \in DOMAIN m.limits : m.limits[key].each <= m.limits[key].total
    /\ \A id \in DOMAIN m.thresholds : LET t == m.thresholds[id] IN
         /\ t.approvers \subseteq m.participants
         /\ t.required \in 1 .. Cardinality(t.approvers)
         /\ \E condition \in {t.action, t.tool, t.above, t.class} : condition # None

\* The types of what the terms and a use are made of.
TypedTerms(m) ==
    /\ {m.from, m.until, m.delegation.depth} \subseteq Nat
    /\ m.tools \in Seq(ToolGrants) /\ m.data \in Seq(DataGrants)
    /\ \A key \in DOMAIN m.limits : {m.limits[key].each, m.limits[key].total} \subseteq Nat
    /\ \A metric \in DOMAIN m.volume : m.volume[metric] \in Nat
    /\ \A id \in DOMAIN m.thresholds :
         /\ m.thresholds[id].required \in Nat /\ IsFiniteSet(m.thresholds[id].approvers)
         /\ m.thresholds[id].above # None => m.thresholds[id].above \in Nat

UseFields == {"terms", "by", "at", "depth", "consented", "met", "participants", "action", "tool", "accesses",
              "spend", "used", "volumeUsed", "volumeDelta", "approvals"}

\* A use of the mandate m: its counters and approvals are looked up by the names m has.
TypedUse(m, r) ==
    /\ DOMAIN r = UseFields /\ r = [field \in UseFields |-> r[field]]
    /\ DOMAIN m.limits \subseteq DOMAIN r.used /\ DOMAIN m.volume \subseteq DOMAIN r.volumeUsed
    /\ DOMAIN m.thresholds \subseteq DOMAIN r.approvals
    /\ {r.at, r.depth} \subseteq Nat
    /\ r.spend # None => r.spend.amount \in Nat
    /\ \A key \in DOMAIN m.limits : r.used[key] \in Nat
    /\ \A metric \in DOMAIN m.volume : {r.volumeUsed[metric], r.volumeDelta[metric]} \subseteq Nat

ASSUME TermsAssumption == \A m \in Terms : TypedTerms(m) /\ ValidTerms(m)
ASSUME UsesAssumption == \A m \in Terms, r \in Uses : TypedUse(m, r)

-----------------------------------------------------------------------------
\* evaluateMandateUse(): what is looked at before delegation ...

Ended(m, r) ==
    \/ \E e \in m.ends : e.type = "deadline" /\ r.at >= e.at
    \/ \E e \in m.ends : e.id \in r.met

OutOfForce(m, r) == r.terms # m.terms \/ r.at < m.from \/ r.at >= m.until \/ Ended(m, r)

Delegated(m, r) == r.by # m.actor

DelegationDenied(m, r) ==
    IF Delegated(m, r)
    THEN ~m.delegation.allowed \/ r.by \notin m.delegation.delegates \/ r.depth \notin 1 .. m.delegation.depth
    ELSE r.depth # 0

NeedsPrincipal(m, r) == Delegated(m, r) /\ m.delegation.ask /\ ~r.consented

\* ... and after it.  A second grant for the same tool or resource is never looked at.

\* Mutant: the last grant overrides the ones before it.
LastOnly(indices) == {i \in indices : \A j \in indices : i >= j}

First(indices) == {i \in indices : \A j \in indices : i <= j}

Matches(entry, host) == IF entry.wild THEN IsPrefix(entry.host, host) ELSE entry.host = host

AudienceAllowed(allowed, host) ==
    allowed # {} => host # None /\ \E entry \in allowed : Matches(entry, host)

ToolGranted(m, tool) ==
    \E i \in First({k \in DOMAIN m.tools : m.tools[k].tool = tool.tool}) :
        tool.action \in m.tools[i].actions /\ AudienceAllowed(m.tools[i].audience, tool.host)

DataGranted(m, access) ==
    \E i \in First({k \in DOMAIN m.data : m.data[k].resource = access.resource}) :
        access.permission \in m.data[i].permissions /\ access.recipients \subseteq m.data[i].recipients

LimitsOf(m, currency) == {key \in DOMAIN m.limits : key.currency = currency}

\* Mutant: the operation's own amount is forgotten.
OverspentBefore(m, r) == \E key \in LimitsOf(m, r.spend.currency) : r.used[key] >= m.limits[key].total

Overspent(m, r) ==
    \/ LimitsOf(m, r.spend.currency) = {}
    \/ \E key \in LimitsOf(m, r.spend.currency) :
         \/ r.spend.amount > m.limits[key].each
         \/ r.used[key] + r.spend.amount > m.limits[key].total

Excessive(m, r) == \E metric \in DOMAIN m.volume : r.volumeUsed[metric] + r.volumeDelta[metric] > m.volume[metric]

OutOfBounds(m, r) ==
    \/ ~(r.participants \subseteq m.participants)
    \/ r.action \notin m.actions
    \/ r.tool # None /\ ~ToolGranted(m, r.tool)
    \/ \E access \in r.accesses : ~DataGranted(m, access)
    \/ r.spend # None /\ Overspent(m, r)
    \/ Excessive(m, r)

\* thresholdMatches(): every part of the condition that is there applies.
Matched(t, r) ==
    /\ t.action # None => t.action = r.action
    /\ t.tool # None => r.tool # None /\ t.tool = r.tool.tool
    /\ t.above # None => r.spend # None /\ r.spend.currency = t.currency /\ r.spend.amount > t.above
    /\ t.class # None => \E access \in r.accesses : access.class = t.class

\* Only the threshold's own approvers count, each of them once.
Unmet(t, r, id) == Matched(t, r) /\ Cardinality(r.approvals[id] \cap t.approvers) < t.required

Missing(m, r) == {id \in DOMAIN m.thresholds : Unmet(m.thresholds[id], r, id)}

Verdict(m, r) ==
    CASE OutOfForce(m, r) \/ DelegationDenied(m, r) -> "denied"
      [] OTHER ->
           IF NeedsPrincipal(m, r) THEN "delegation"
           ELSE IF OutOfBounds(m, r) THEN "denied"
           ELSE IF Missing(m, r) # {} THEN "threshold"
           ELSE "permitted"

-----------------------------------------------------------------------------
\* Orders: n grants at least what m grants, q is at most what r is.

Wider(n, m) ==
    /\ n.terms = m.terms /\ n.actor = m.actor
    /\ n.from <= m.from /\ n.until >= m.until /\ n.ends \subseteq m.ends
    /\ (m.delegation.allowed => n.delegation.allowed) /\ m.delegation.delegates \subseteq n.delegation.delegates
    /\ m.delegation.depth <= n.delegation.depth /\ (n.delegation.ask => m.delegation.ask)
    /\ m.participants \subseteq n.participants /\ m.actions \subseteq n.actions
    /\ IsPrefix(m.tools, n.tools) /\ IsPrefix(m.data, n.data)
    /\ DOMAIN n.limits = DOMAIN m.limits
    /\ \A key \in DOMAIN m.limits :
         m.limits[key].each <= n.limits[key].each /\ m.limits[key].total <= n.limits[key].total
    /\ DOMAIN n.volume \subseteq DOMAIN m.volume
    /\ \A metric \in DOMAIN n.volume : m.volume[metric] <= n.volume[metric]
    /\ DOMAIN n.thresholds \subseteq DOMAIN m.thresholds
    /\ \A id \in DOMAIN n.thresholds : n.thresholds[id] = m.thresholds[id]

Smaller(q, r) ==
    /\ q.terms = r.terms /\ q.by = r.by /\ q.at = r.at /\ q.depth = r.depth /\ q.action = r.action
    /\ q.met \subseteq r.met /\ (r.consented => q.consented)
    /\ q.participants \subseteq r.participants /\ q.accesses \subseteq r.accesses
    /\ q.tool \in {None, r.tool}
    /\ q.spend # None => r.spend # None /\ q.spend.currency = r.spend.currency /\ q.spend.amount <= r.spend.amount
    /\ \A key \in DOMAIN r.used : q.used[key] <= r.used[key]
    /\ \A metric \in DOMAIN r.volumeUsed :
         q.volumeUsed[metric] <= r.volumeUsed[metric] /\ q.volumeDelta[metric] <= r.volumeDelta[metric]
    /\ \A id \in DOMAIN r.approvals : r.approvals[id] \subseteq q.approvals[id]

-----------------------------------------------------------------------------
\* Properties, over any sets of terms and of uses.

(* Who narrows the terms or asks for more never gains by it: a use that is permitted stays
   permitted under wider terms, and so does every smaller use (the order of the checks
   and the grants found first, mandates.ts:599). *)
WiderPermitsMore(terms, uses) ==
    \A m, n \in terms : Wider(n, m) =>
        \A r \in uses : Verdict(m, r) = "permitted" => Verdict(n, r) = "permitted"

SmallerIsPermitted(terms, uses) ==
    \A q, r \in uses : Smaller(q, r) =>
        \A m \in terms : Verdict(m, r) = "permitted" => Verdict(m, q) = "permitted"

(* People are asked only about what their consent decides: a use that waits for thresholds
   is permitted once the approvers of the missing ones have approved it, and consent never
   changes a denial (mandates.ts:641). *)
Approved(m, r) == [r EXCEPT !.approvals =
    [id \in DOMAIN r.approvals |->
        IF id \in Missing(m, r) THEN m.thresholds[id].approvers ELSE r.approvals[id]]]

ConsentDecides(terms, uses) ==
    \A m \in terms, r \in uses :
        /\ Verdict(m, r) = "threshold" => Verdict(m, Approved(m, r)) = "permitted"
        /\ Verdict(m, r) = "denied" => Verdict(m, Approved(m, r)) = "denied"

(* Judging is monotone and its questions are decisive (evaluateMandateUse). *)
SoundPolicy ==
    /\ WiderPermitsMore(Terms, Uses)
    /\ SmallerIsPermitted(Terms, Uses)
    /\ ConsentDecides(Terms, Uses)
=============================================================================
