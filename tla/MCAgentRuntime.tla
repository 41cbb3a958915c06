--------------------------- MODULE MCAgentRuntime ---------------------------
(***************************************************************************)
(* Instances of AgentRuntime for TLC.                                      *)
(***************************************************************************)
EXTENDS AgentRuntime

Spent(kinds) == [kind \in DOMAIN NoFaults |-> IF kind \in kinds THEN 1 ELSE 0]

\* Liveness of receiving and of sending on one instance each: an agent nobody writes to
\* that has its sends and most faults ahead, ...
OnlySends ==
    /\ disk = EmptyState /\ mailbox = {} /\ got = {}
    /\ sends = [o \in Sends |-> "idle"]
    /\ faults = Spent({"fail"})

\* ... and one that died after its envelopes and their copies had got their receipts, and
\* has its messages ahead.
OnlyMessages ==
    /\ disk = EmptyState /\ mailbox = Incoming
    /\ sends = [o \in Sends |-> "returned"] /\ got = Sends \cup {Copy(o) : o \in Sends \cap Mirrored}
    /\ faults = Spent({"crash", "stop", "drop"})

MCInit ==
    /\ OnlySends \/ OnlyMessages
    /\ mem = EmptyState
    /\ phase = "dead" /\ loaded = EmptyState /\ conn = FALSE
    /\ queue = <<>> /\ saved = FALSE
    /\ work = Idle /\ drain = NoDrain /\ timer = FALSE /\ sent = {}
    /\ toRelay = {} /\ toAgent = {} /\ pushed = {} /\ owed = {}
    /\ handled = {} /\ early = {}

MCFairSpec == MCInit /\ [][Next]_vars /\ Fairness
=============================================================================
