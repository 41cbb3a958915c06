----------------------------- MODULE MandateUse -----------------------------
(***************************************************************************)
(* Actions an agent takes under a signed mandate (executeMandatedAction    *)
(* and guardMandateUse of sdk/node/src/workrooms.ts, evaluateMandateUse of *)
(* core/protocol/src/mandates.ts).  Calls wait for each other, each is     *)
(* judged twice against what the service answers and what the runtime      *)
(* state counted, the application's effect runs, and its use is charged.   *)
(*                                                                         *)
(* One mandate revision with one spend limit per day, a limit of actions   *)
(* and one approval threshold.  The service is modelled from its answers.  *)
(* What the application does in its callback is idempotent in operationId, *)
(* and an operationId is not reused for another payload (README.md:151).   *)
(***************************************************************************)
EXTENDS Naturals, Sequences, FiniteSets, SequencesExt

CONSTANTS
    Callers,       \* calls of executeMandatedAction that may overlap
    Ops,           \* operationIds
    Amounts,       \* what an operation may spend, in minor units
    SpendLimit,    \* maximumAmountMinor of the day
    ActionLimit,   \* volumeLimits.maxActions
    Threshold,     \* approvalThresholds: amountAboveMinor
    Declares,      \* operations whose input has a volumeDelta (of one action)
    MaxCalls, MaxDays, MaxCrashes, MaxFails   \* bounds

ASSUME AmountsAssumption == Amounts \subseteq Nat /\ Declares \subseteq Ops
ASSUME OperationsAssumption == Ops # {} /\ Amounts # {}
ASSUME LimitsAssumption == {SpendLimit, ActionLimit, Threshold} \subseteq Nat
ASSUME CallBoundsAssumption == {MaxCalls, MaxDays, MaxCrashes, MaxFails} \subseteq Nat

VARIABLES
    day,        \* the clock, in days
    standing,   \* service: the mandate, its parties and the workroom are in force
    approvals,  \* service: approval requests by the operation they are bound to
    receipts,   \* service: operations with a signed receipt
    usage,      \* workroomMandateUsage of the runtime state
    calls,      \* what each call is for and how far it is
    tail,       \* executionTail: calls in the order they run
    answer,     \* what the service answered to a call's last guard
    performed,  \* history: effects that happened, and on which day
    lost,       \* history: operations whose call ended between effect and charge
    late,       \* history: calls whose turn came after the mandate's end
    made        \* how many calls, crashes and failures there were

vars == <<day, standing, approvals, receipts, usage, calls, tail, answer,
          performed, lost, late, made>>
world == <<day, standing, approvals, receipts>>

\* What a consent request is bound to: the complete operation.
Operations == [op : Ops, amount : Amounts]

Stages == {"idle", "waiting", "first", "second", "consent", "acting", "acted", "receipting"}
Answers == [asked : BOOLEAN, standing : BOOLEAN, approved : SUBSET Operations]
NoAnswer == [asked |-> FALSE, standing |-> FALSE, approved |-> {}]
NoUsage == [bucket |-> 0, spent |-> 0, actions |-> 0, completed |-> {}]

TypeOK ==
    /\ day \in 0 .. MaxDays /\ standing \in BOOLEAN
    /\ approvals \in [Operations -> {"none", "pending", "approved", "rejected"}]
    /\ receipts \subseteq Ops
    /\ usage.bucket \in 0 .. day /\ usage.spent \in Nat /\ usage.actions \in Nat
    /\ usage.completed \subseteq Ops
    /\ \A c \in Callers : calls[c].at \in Stages /\ calls[c].for \in Operations
    /\ tail \in Seq(Callers) /\ \A c \in Callers : Contains(tail, c) <=> calls[c].at # "idle"
    /\ answer \in [Callers -> Answers]
    /\ performed \subseteq [op : Ops, amount : Amounts, day : 0 .. MaxDays]
    /\ lost \subseteq Ops /\ late \subseteq Callers
    /\ made \in [{"call", "crash", "fail"} -> Nat]

-----------------------------------------------------------------------------
(* Counting and judging a use.                                             *)

\* spendBucket and withDurableUsage: what an earlier day spent is gone.
SpentToday == IF usage.bucket = day THEN usage.spent ELSE 0

\* An operation that is completed already is judged as using nothing more.
Due(p) == IF p.op \in usage.completed THEN 0 ELSE p.amount
ActionsDue(p) == IF p.op \in usage.completed THEN 0 ELSE 1

\* Mutation: the mandate's end is not looked at.
DeniedByLimit(p, a) ==
    \/ SpentToday + Due(p) > SpendLimit
    \/ usage.actions + ActionsDue(p) > ActionLimit

Denied(p, a) ==
    \/ ~a.standing
    \/ SpentToday + Due(p) > SpendLimit
    \/ usage.actions + ActionsDue(p) > ActionLimit

\* Mutation: consent is bound to what is done, not to the operation.
NeedsSomeApproval(p, a) == Due(p) > Threshold /\ p.amount \notin {q.amount : q \in a.approved}

NeedsApproval(p, a) == Due(p) > Threshold /\ p \notin a.approved

\* recordDurableUsage: a volumeDelta that the input omits adds nothing.
Charged(u, p) ==
    IF p.op \in u.completed THEN u
    ELSE [bucket |-> day,
          spent |-> SpentToday + p.amount,
          actions |-> u.actions + (IF p.op \in Declares THEN 1 ELSE 0),
          completed |-> u.completed \cup {p.op}]

-----------------------------------------------------------------------------
(* The steps of a call.                                                    *)

Counted(what, max) == made[what] < max /\ made' = [made EXCEPT ![what] = @ + 1]

At(c, stage) == calls' = [calls EXCEPT ![c].at = stage]

\* The call returns or rejects, and the next one in line may go on.
Ends(c) == At(c, "idle") /\ \E i \in DOMAIN tail : tail[i] = c /\ tail' = RemoveAt(tail, i)

\* Mutation: a call that throws keeps its place.
ThrowsHolding(c) == Counted("fail", MaxFails) /\ At(c, "idle") /\ UNCHANGED tail

\* Something the call awaits rejects: the finally clause releases its place.
Throws(c) == Counted("fail", MaxFails) /\ Ends(c)

\* The effect of p may have happened and is not charged.
Uncharged(p) ==
    IF p.op \in usage.completed \/ ~ \E e \in performed : e.op = p.op THEN {} ELSE {p.op}

Call(c, p) ==
    /\ calls[c].at = "idle" /\ Counted("call", MaxCalls)
    /\ \A e \in performed : e.op = p.op => e.amount = p.amount
    /\ \A d \in Callers : calls[d].at # "idle" /\ calls[d].for.op = p.op => calls[d].for = p
    /\ calls' = [calls EXCEPT ![c] = [at |-> "waiting", for |-> p]]
    /\ tail' = Append(tail, c)
    /\ UNCHANGED <<world, usage, answer, performed, lost, late>>

\* Mutation: calls do not wait for each other.
TurnAtOnce(c) ==
    /\ calls[c].at = "waiting"
    /\ At(c, "first")
    /\ late' = IF standing THEN late \ {c} ELSE late \cup {c}
    /\ UNCHANGED <<world, usage, tail, answer, performed, lost, made>>

\* Every earlier call has ended: the first guard asks the service.
TurnComes(c) ==
    /\ calls[c].at = "waiting" /\ Head(tail) = c
    /\ At(c, "first")
    /\ late' = IF standing THEN late \ {c} ELSE late \cup {c}
    /\ UNCHANGED <<world, usage, tail, answer, performed, lost, made>>

ServiceAnswers(c) ==
    /\ calls[c].at \in {"first", "second"} /\ ~answer[c].asked
    /\ answer' = [answer EXCEPT ![c] =
          [asked |-> TRUE, standing |-> standing,
           approved |-> {p \in Operations : approvals[p] = "approved"}]]
    /\ UNCHANGED <<world, usage, calls, tail, performed, lost, late, made>>

RequestFails(c) ==
    /\ calls[c].at \in {"first", "second", "consent"} /\ ~answer[c].asked
    /\ Throws(c)
    /\ UNCHANGED <<world, usage, answer, performed, lost, late>>

JudgeUnchanged == UNCHANGED <<world, usage, performed, lost, late, made>>

GuardDenies(c) ==
    /\ answer[c].asked /\ calls[c].at \in {"first", "second"}
    /\ Denied(calls[c].for, answer[c])
    /\ Ends(c) /\ answer' = [answer EXCEPT ![c] = NoAnswer]
    /\ JudgeUnchanged

\* Only the first guard creates the consent request.
GuardAsksConsent(c) ==
    /\ answer[c].asked /\ calls[c].at \in {"first", "second"}
    /\ ~Denied(calls[c].for, answer[c]) /\ NeedsApproval(calls[c].for, answer[c])
    /\ answer' = [answer EXCEPT ![c] = NoAnswer]
    /\ IF calls[c].at = "first" THEN At(c, "consent") /\ UNCHANGED tail ELSE Ends(c)
    /\ JudgeUnchanged

\* Its id is derived from the operation: publishing it again changes nothing.
ConsentRequested(c) ==
    /\ calls[c].at = "consent"
    /\ approvals' = [approvals EXCEPT ![calls[c].for] = IF @ = "none" THEN "pending" ELSE @]
    /\ Ends(c)
    /\ UNCHANGED <<day, standing, receipts, usage, answer, performed, lost, late, made>>

\* The second guard starts, or the effect does in the same turn of the loop.
GuardPermits(c) ==
    /\ answer[c].asked /\ calls[c].at \in {"first", "second"}
    /\ ~Denied(calls[c].for, answer[c]) /\ ~NeedsApproval(calls[c].for, answer[c])
    /\ answer' = [answer EXCEPT ![c] = NoAnswer]
    /\ At(c, IF calls[c].at = "first" THEN "second" ELSE "acting")
    /\ UNCHANGED tail /\ JudgeUnchanged

\* The application's effect, idempotent in operationId.
EffectHappens(c) ==
    /\ calls[c].at = "acting"
    /\ At(c, "acted")
    /\ LET p == calls[c].for
       IN  performed' = IF \E e \in performed : e.op = p.op THEN performed
                        ELSE performed \cup {[op |-> p.op, amount |-> p.amount, day |-> day]}
    /\ UNCHANGED <<world, usage, tail, answer, lost, late, made>>

\* The callback rejects, before or after what it does has happened, or the
\* runtime state is not saved.
EffectThrows(c) ==
    /\ calls[c].at \in {"acting", "acted"}
    /\ Throws(c)
    /\ lost' = lost \cup Uncharged(calls[c].for)
    /\ UNCHANGED <<world, usage, answer, performed, late>>

Charge(c) ==
    /\ calls[c].at = "acted"
    /\ usage' = Charged(usage, calls[c].for)
    /\ At(c, "receipting")
    /\ UNCHANGED <<world, tail, answer, performed, lost, late, made>>

\* Costs and the receipt: three attempts, each on the latest receipt's hash.
ReceiptAppended(c) ==
    /\ calls[c].at = "receipting"
    /\ receipts' = receipts \cup {calls[c].for.op}
    /\ Ends(c)
    /\ UNCHANGED <<day, standing, approvals, usage, answer, performed, lost, late, made>>

ReceiptFails(c) ==
    /\ calls[c].at = "receipting"
    /\ Throws(c)
    /\ UNCHANGED <<world, usage, answer, performed, lost, late>>

-----------------------------------------------------------------------------
(* The world around the calls.                                             *)

\* The process dies; the runtime state is the file's.
Crash ==
    /\ Counted("crash", MaxCrashes)
    /\ lost' = lost \cup UNION {Uncharged(calls[c].for) : c \in {c \in Callers : calls[c].at = "acted"}}
    /\ calls' = [c \in Callers |-> [calls[c] EXCEPT !.at = "idle"]]
    /\ tail' = <<>> /\ answer' = [c \in Callers |-> NoAnswer]
    /\ UNCHANGED <<world, usage, performed, late>>

NextDay ==
    /\ day < MaxDays /\ day' = day + 1
    /\ UNCHANGED <<standing, approvals, receipts, usage, calls, tail, answer, performed, lost, late, made>>

\* A revocation, a party that leaves or becomes an observer, the workroom's end.
MandateEnds ==
    /\ standing /\ standing' = FALSE
    /\ UNCHANGED <<day, approvals, receipts, usage, calls, tail, answer, performed, lost, late, made>>

Decided(p, decision) ==
    /\ approvals[p] = "pending"
    /\ approvals' = [approvals EXCEPT ![p] = decision]
    /\ UNCHANGED <<day, standing, receipts, usage, calls, tail, answer, performed, lost, late, made>>

Guard(c) == GuardDenies(c) \/ GuardAsksConsent(c) \/ GuardPermits(c) \/ ConsentRequested(c)

Execution(c) ==
    \/ TurnComes(c) \/ ServiceAnswers(c) \/ Guard(c)
    \/ EffectHappens(c) \/ Charge(c) \/ ReceiptAppended(c)

Init ==
    /\ day = 0 /\ standing = TRUE
    /\ approvals = [p \in Operations |-> "none"] /\ receipts = {}
    /\ usage = NoUsage
    /\ calls \in [Callers -> [at : {"idle"}, for : {CHOOSE p \in Operations : TRUE}]]
    /\ tail = <<>> /\ answer = [c \in Callers |-> NoAnswer]
    /\ performed = {} /\ lost = {} /\ late = {}
    /\ made = [what \in {"call", "crash", "fail"} |-> 0]

Next ==
    \/ \E c \in Callers, p \in Operations : Call(c, p)
    \/ \E c \in Callers : \/ Execution(c) \/ RequestFails(c) \/ EffectThrows(c)
                          \/ ReceiptFails(c)
    \/ \E p \in Operations, decision \in {"approved", "rejected"} : Decided(p, decision)
    \/ Crash \/ NextDay \/ MandateEnds

Spec == Init /\ [][Next]_vars

\* The event loop runs, the service answers, the application's effects end.
FairSpec == Spec /\ \A c \in Callers : WF_vars(Execution(c))

-----------------------------------------------------------------------------
(* Properties.                                                             *)

\* The minor units that effects cost, each one by itself.
Units(effects) == UNION {{e} \X (1 .. e.amount) : e \in effects}
TotalOf(effects) == Cardinality(Units(effects))

\* The effects of one day never cost more than the mandate's limit, however
\* calls overlap, cross midnight or are retried; an effect whose call ended
\* before the charge is outside (serializedExecution, recordDurableUsage).
SpendIsWithinLimit ==
    \A d \in 0 .. MaxDays : TotalOf({e \in performed : e.day = d /\ e.op \notin lost}) <= SpendLimit

\* README.md:151: "The local sidecar charges a completed operation only once":
\* the counters never exceed what the completed operations come to, each of
\* them counted once; and a signed receipt vouches for an operation the
\* counters have, also when the process dies between recordDurableUsage() and
\* appendExecutionReceipt().
ChargedOnce ==
    /\ usage.spent <= TotalOf({e \in performed : e.op \in usage.completed})
    /\ usage.actions <= Cardinality(usage.completed)

ReceiptedIsCharged == receipts \subseteq usage.completed

BooksAgree == TypeOK /\ SpendIsWithinLimit /\ ChargedOnce /\ ReceiptedIsCharged

\* README.md:151: "an approval cannot authorize changed targets, data, tools,
\* or financial impact": what people consented to is what happened.
HappenedAsApproved ==
    \A e \in performed :
        e.amount > Threshold => approvals[[op |-> e.op, amount |-> e.amount]] = "approved"

\* A call that waited in line while the mandate ended has no effect: it is
\* judged when its turn comes (guardMandateUse inside serializedExecution).
EndedMandateStopsTheLine ==
    \A c \in late : calls[c].at \notin {"acting", "acted", "receipting"}

\* No call waits forever behind another, whatever that one died of.
EveryCallReturns == \A c \in Callers : calls[c].at = "waiting" ~> calls[c].at = "idle"
=============================================================================
