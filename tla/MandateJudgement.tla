-------------------------- MODULE MandateJudgement --------------------------
(***************************************************************************)
(* MandateUse composed with MandatePolicy: the terms MandateUse stands     *)
(* for, what a guard of it asks of evaluateMandateUse (withDurableUsage    *)
(* and mandateUseRequest of sdk/node/src/workrooms.ts), and that both      *)
(* modules judge alike.                                                    *)
(***************************************************************************)
EXTENDS MandateUse, MandatePolicy

\* What is absent is no amount and no spend.
ASSUME AbsentAssumption == None \notin Nat /\ None \notin [currency : {"EUR"}, amount : Nat]

Key == [currency |-> "EUR", period |-> "day"]
PerKey(value) == [key \in {Key} |-> value]

Consent == [action |-> None, tool |-> None, above |-> Threshold, currency |-> "EUR", class |-> None,
            required |-> 1, approvers |-> {"owner"}]

\* One spend limit, one limit of actions, one threshold.
Plain ==
    [terms |-> "terms", principal |-> "owner", actor |-> "agent", signed |-> 0, from |-> 1, until |-> 9,
     ends |-> {[id |-> "end", type |-> "deadline", at |-> 8]},
     delegation |-> [allowed |-> FALSE, depth |-> 0, delegates |-> {}, ask |-> TRUE],
     participants |-> {"owner", "agent"}, actions |-> {"send"}, tools |-> <<>>, data |-> <<>>,
     limits |-> PerKey([each |-> SpendLimit, total |-> SpendLimit]),
     volume |-> [actions |-> ActionLimit],
     thresholds |-> [big |-> Consent]]

UseOf(p, a) ==
    [terms |-> "terms", by |-> "agent", at |-> 1, depth |-> 0, consented |-> FALSE, met |-> {},
     participants |-> {"owner", "agent"}, action |-> "send", tool |-> None, accesses |-> {},
     spend |-> [currency |-> "EUR", amount |-> Due(p)], used |-> PerKey(SpentToday),
     volumeUsed |-> [actions |-> usage.actions], volumeDelta |-> [actions |-> ActionsDue(p)],
     approvals |-> [big |-> IF p \in a.approved THEN {"owner"} ELSE {}]]

(* MandateUse judges every call as the policy judges it under the counters of that moment
   (withDurableUsage and mandateUseRequest, workrooms.ts:1128 and 1460). *)
JudgedByPolicy ==
    \A c \in Callers : answer[c].asked /\ answer[c].standing =>
        LET p == calls[c].for IN
        Verdict(Plain, UseOf(p, answer[c])) =
            IF Denied(p, answer[c]) THEN "denied"
            ELSE IF NeedsApproval(p, answer[c]) THEN "threshold" ELSE "permitted"

(* Whatever call asks, the policy that judges it is monotone and its questions are decisive
   (evaluateMandateUse). *)
PolicyIsSound == \A c \in Callers : answer[c].asked => SoundPolicy
=============================================================================
