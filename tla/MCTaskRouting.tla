--------------------------- MODULE MCTaskRouting ---------------------------
(***************************************************************************)
(* Instances of TaskRouting for TLC: a founder, an agent that polls and a  *)
(* second peer; what is published names the agent in every way that        *)
(* matters.                                                                *)
(***************************************************************************)
EXTENDS TaskRouting

CONSTANTS founder, agent, other

Direct(p) == [peer |-> p, handle |-> p, intent |-> "direct"]
Fyi(p) == [peer |-> p, handle |-> p, intent |-> "fyi"]
Misnamed(p) == [peer |-> p, handle |-> founder, intent |-> "direct"]

Message(mentions) == [mentions |-> mentions, steps |-> <<>>]
Plan(steps) == [mentions |-> <<>>, steps |-> steps]
Step(p, executing) == [assigned |-> {p}, executing |-> executing]

MCContents ==
    {Message(<<Direct(agent)>>), Message(<<Misnamed(agent)>>),
     Message(<<Fyi(agent), Direct(agent)>>),
     Plan(<<Step(agent, FALSE)>>), Plan(<<Step(agent, FALSE), Step(agent, TRUE)>>)}
=============================================================================
