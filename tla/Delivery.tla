------------------------------ MODULE Delivery ------------------------------
(***************************************************************************)
(* What an agent runtime promises the relay, its application and its       *)
(* supervisor about direct messages, whatever crashes or is repeated:      *)
(* a message is discarded only when it was handled, and an envelope that   *)
(* was promised stays in the runtime's keeping until the relay has it.     *)
(* Promised are the envelopes whose send() returned, and the supervisor's  *)
(* copies of what was handled.                                             *)
(***************************************************************************)
EXTENDS Naturals

CONSTANTS Messages, Outgoing

VARIABLES waiting, handled, promised, kept, relayed

Init ==
    /\ waiting = Messages /\ handled = {}
    /\ promised = {} /\ kept = {} /\ relayed = {}

\* A handler returns; it may have been promised copies before.
Handle(m) ==
    /\ m \in waiting \cup handled
    /\ handled' = handled \cup {m}
    /\ promised \subseteq promised' /\ promised' \subseteq promised \cup kept \cup relayed
    /\ UNCHANGED <<waiting, kept, relayed>>

\* The relay discards a message.
Discard(m) ==
    /\ m \in handled
    /\ waiting' = waiting \ {m}
    /\ UNCHANGED <<handled, promised, kept, relayed>>

\* A send() returns.
Promise(e) ==
    /\ e \in kept \cup relayed
    /\ promised' = promised \cup {e}
    /\ UNCHANGED <<waiting, handled, kept, relayed>>

\* The runtime writes its state file.
Rewrite ==
    /\ kept' \subseteq Outgoing
    /\ promised \subseteq kept' \cup relayed
    /\ UNCHANGED <<waiting, handled, promised, relayed>>

\* The relay takes an envelope.
Relay(e) ==
    /\ e \in kept
    /\ relayed' = relayed \cup {e}
    /\ UNCHANGED <<waiting, handled, promised, kept>>

Next ==
    \/ \E m \in Messages : Handle(m) \/ Discard(m)
    \/ \E e \in Outgoing : Promise(e) \/ Relay(e)
    \/ Rewrite

Spec == Init /\ [][Next]_<<waiting, handled, promised, kept, relayed>>
=============================================================================
