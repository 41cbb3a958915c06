---------------------------- MODULE MCMandateUse ----------------------------
(***************************************************************************)
(* Instances of MandateUse and of MandatePolicy for TLC.                   *)
(***************************************************************************)
EXTENDS MandateJudgement, TLC

Grant(actions, audience) == [tool |-> "mail", actions |-> actions, audience |-> audience]
Example == [wild |-> TRUE, host |-> <<"com", "example">>]
Files == [resource |-> "files", permissions |-> {"read"}, recipients |-> {"owner"}]

MCToolGrants == {Grant({"read"}, {Example}), Grant({"write"}, {})}
MCDataGrants == {Files}

-----------------------------------------------------------------------------
\* Terms and uses the policy is checked on.

Limit(each, total) == [each |-> each, total |-> total]

AllTerms ==
    {[Plain EXCEPT !.participants = who, !.delegation = d, !.tools = tools, !.data = data,
                   !.limits = PerKey(limit), !.thresholds = thresholds] :
        who \in {{"owner", "agent"}, {"owner", "agent", "helper"}},
        d \in {Plain.delegation,
               [allowed |-> TRUE, depth |-> 1, delegates |-> {"helper"}, ask |-> TRUE],
               [allowed |-> TRUE, depth |-> 1, delegates |-> {"helper"}, ask |-> FALSE]},
        tools \in {<<>>, <<Grant({"read"}, {Example})>>, <<Grant({"read"}, {Example}), Grant({"write"}, {})>>},
        data \in {<<>>, <<Files>>},
        limit \in {Limit(1, 2), Limit(2, 2)},
        thresholds \in {<<>>, [big |-> Consent],
                        [big |-> [Consent EXCEPT !.above = None, !.currency = None, !.class = "secret"]]}}

MCTerms == {m \in AllTerms : ValidTerms(m)}

Mail(host) == [tool |-> "mail", action |-> "read", host |-> host]
Access(class) == [resource |-> "files", permission |-> "read", recipients |-> {"owner"}, class |-> class]

MCUses ==
    {[terms |-> "terms", by |-> who.by, at |-> who.at, depth |-> who.depth, consented |-> who.consented, met |-> {},
      participants |-> {"owner"}, action |-> "send", tool |-> tool, accesses |-> accesses,
      spend |-> IF amount = 0 THEN None ELSE [currency |-> "EUR", amount |-> amount],
      used |-> PerKey(used), volumeUsed |-> [actions |-> 0], volumeDelta |-> [actions |-> 1],
      approvals |-> [big |-> by]] :
        who \in {[by |-> "agent", depth |-> 0, consented |-> FALSE, at |-> 1],
                 [by |-> "agent", depth |-> 0, consented |-> FALSE, at |-> 8],
                 [by |-> "helper", depth |-> 1, consented |-> FALSE, at |-> 1],
                 [by |-> "helper", depth |-> 1, consented |-> TRUE, at |-> 1]},
        tool \in {None, Mail(<<"com", "example", "mail">>), Mail(<<"com">>)},
        accesses \in {{}, {Access("secret")}}, amount \in 0 .. 2, used \in 0 .. 1,
        by \in {{}, {"helper"}, {"owner"}}}
=============================================================================
