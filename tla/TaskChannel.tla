---------------------------- MODULE TaskChannel ----------------------------
(***************************************************************************)
(* The OpenClaw channel (integrations/openclaw/src/channel.ts): the sweep  *)
(* over all Tasks, the turn of the model it starts for a directed event,   *)
(* what the turn reads and publishes under the agent's permission, and the *)
(* turn it starts for a direct message.                                    *)
(*                                                                         *)
(* poll() commits an event when its handler has returned and brings it     *)
(* again otherwise (module WorkroomEvents); a mandated call executes, is   *)
(* denied, or asks for consent, and its operation id makes a repetition    *)
(* harmless (module MandateUse).  The turn itself is OpenClaw's: it calls  *)
(* deliver() block by block and passes on what deliver() throws.           *)
(*                                                                         *)
(* Names that module TaskRouting has too are prefixed here: the proofs     *)
(* about both are in one module.                                           *)
(***************************************************************************)
EXTENDS Naturals, FiniteSets, SequencesExt

CONSTANTS
    Tasks,          \* number of Tasks, in the order of the list
    ListSize,       \* Tasks per page of the list
    Events,         \* number of events of each Task
    Silent,         \* <<task, event>> pairs not directed to this agent
    Files,          \* <<task, event>> pairs with an attachment
    Blocks,         \* deliveries of one turn
    Words,          \* what the model may write as a block
    NeedsConsent,   \* Tasks whose permission has an approval threshold
    Direct,         \* direct messages
    ReuseFails,     \* the relay refuses a key used again for another ciphertext
    MaxFaults       \* bound on failures, crashes, revocations and rejected requests

ASSUME ChannelAssumption ==
    /\ {Tasks, ListSize, Events, Blocks} \subseteq Nat \ {0} /\ MaxFaults \in Nat
    /\ Silent \cup Files \subseteq (1 .. Tasks) \X (1 .. Events)
    /\ NeedsConsent \subseteq 1 .. Tasks /\ Words # {} /\ ReuseFails \in BOOLEAN

VARIABLES
    turn,           \* of the sweep: where it is, its Task, the operation it comes to
    committed,      \* durable: events of each Task that are committed
    effects,        \* relay: operations that took effect, in order
    consent,        \* relay: what became of each operation that needed consent
    revoked,        \* Tasks whose permission has ended
    denied,         \* history: operations a permission refused
    mail,           \* the delivery each direct message's turn comes to; 0: no turn
    faults          \* counter of the faults

channelVars == <<turn, committed, effects, consent, revoked, denied, mail, faults>>

\* stableUuid(): the event, the delivery and its text name an operation.  Part 0 reads the
\* event's file; its descriptor stands for the text.
Operations == [task : 1 .. Tasks, event : 1 .. Events, part : 0 .. Blocks, text : Words]
Idle == [at |-> "waiting", task |-> 1, part |-> 0]

ChannelTypeOK ==
    /\ turn \in [at : {"waiting", "listing", "polling", "acting", "committing"},
                 task : 1 .. Tasks + 1, part : 0 .. Blocks + 1]
    /\ committed \in [1 .. Tasks -> 0 .. Events]
    /\ effects \in Seq(Operations) /\ IsInjective(effects)
    /\ consent \in [Operations -> {"none", "pending", "approved", "rejected"}]
    /\ revoked \subseteq 1 .. Tasks /\ denied \subseteq Operations
    /\ mail \in [Direct -> 0 .. Blocks + 1]
    /\ faults \in 0 .. MaxFaults

Fault == faults < MaxFaults /\ faults' = faults + 1

-----------------------------------------------------------------------------
\* pollWorkrooms(): the list page by page, every Task of a page in turn.

\* Two seconds after the last sweep, or when the channel has started.
Sweep ==
    /\ turn.at = "waiting"
    /\ turn' = [Idle EXCEPT !.at = "listing"]
    /\ UNCHANGED <<committed, effects, consent, revoked, denied, mail, faults>>

\* A page arrives, or the sweep is over.
List ==
    /\ turn.at = "listing"
    /\ turn' = IF turn.task <= Tasks THEN [turn EXCEPT !.at = "polling"] ELSE Idle
    /\ UNCHANGED <<committed, effects, consent, revoked, denied, mail, faults>>

\* The Task after t: on the same page, or on the next one.
After(t) == [Idle EXCEPT !.at = IF t % ListSize = 0 \/ t = Tasks THEN "listing" ELSE "polling", !.task = t + 1]

Here == <<turn.task, committed[turn.task] + 1>>

\* poll() calls the handler with the next event, or has none and returns.  An event that is
\* not directed to this agent starts no turn.
PollTask ==
    /\ turn.at = "polling"
    /\ turn' = IF committed[turn.task] = Events THEN After(turn.task)
               ELSE IF Here \in Silent THEN [turn EXCEPT !.at = "committing"]
               ELSE [turn EXCEPT !.at = "acting", !.part = IF Here \in Files THEN 0 ELSE 1]
    /\ UNCHANGED <<committed, effects, consent, revoked, denied, mail, faults>>

Commit ==
    /\ turn.at = "committing"
    /\ committed' = [committed EXCEPT ![turn.task] = @ + 1]
    /\ turn' = [turn EXCEPT !.at = "polling"]
    /\ UNCHANGED <<effects, consent, revoked, denied, mail, faults>>

\* The list, a poll, a download or a turn rejects: the sweep ends there.
Throws == turn' = Idle

SweepFails ==
    /\ turn.at # "waiting" /\ Fault /\ Throws
    /\ UNCHANGED <<committed, effects, consent, revoked, denied, mail>>

-----------------------------------------------------------------------------
\* dispatchWorkroomEvent(): files first, then the deliveries of the turn.

Operation(text) == [task |-> turn.task, event |-> committed[turn.task] + 1, part |-> turn.part, text |-> text]

GoesOn ==
    turn' = IF turn.part = Blocks THEN [turn EXCEPT !.at = "committing"] ELSE [turn EXCEPT !.part = @ + 1]

\* mandateFailureMode(): a denial is passed over, a request for consent is thrown.
Denied(op) == op.task \in revoked
Permitted(op) == ~Denied(op) /\ (op.task \in NeedsConsent => consent[op] = "approved")

\* A repeated publication has the key of the first one and is encrypted anew.
Conflicts(op) == ReuseFails /\ op.part > 0 /\ op \in Range(effects)

\* The operation takes effect, once whatever its repetitions.  Its answer may be lost.
Executes(op) ==
    /\ Permitted(op)
    /\ IF Conflicts(op)
       THEN Throws /\ UNCHANGED <<effects, faults>>
       ELSE /\ effects' = IF op \in Range(effects) THEN effects ELSE Append(effects, op)
            /\ \/ GoesOn /\ UNCHANGED faults
               \/ Fault /\ Throws
    /\ UNCHANGED <<consent, denied>>

PassesOver(op) ==
    /\ Denied(op)
    /\ denied' = denied \cup {op} /\ GoesOn
    /\ UNCHANGED <<effects, consent, faults>>

\* Mutants: a request for consent is passed over like a denial; a sweep goes on after it.
PassesConsent(op) ==
    /\ ~Denied(op) /\ ~Permitted(op)
    /\ consent' = [consent EXCEPT ![op] = IF @ = "none" THEN "pending" ELSE @]
    /\ GoesOn
    /\ UNCHANGED <<effects, denied, faults>>
AsksAgain(op) ==
    /\ ~Denied(op) /\ ~Permitted(op)
    /\ Throws
    /\ UNCHANGED <<effects, consent, denied, faults>>

\* The encrypted request is published, unless there is one.
AsksConsent(op) ==
    /\ ~Denied(op) /\ ~Permitted(op)
    /\ consent' = [consent EXCEPT ![op] = IF @ = "none" THEN "pending" ELSE @]
    /\ Throws
    /\ UNCHANGED <<effects, denied, faults>>

\* A file is read, or one block is delivered: the model may write another text each time.
Act ==
    /\ turn.at = "acting"
    /\ \E text \in Words : LET op == Operation(text) IN
        /\ turn.part = 0 => text = CHOOSE w \in Words : TRUE
        /\ Executes(op) \/ PassesOver(op) \/ AsksConsent(op)
    /\ UNCHANGED <<committed, revoked, mail>>

-----------------------------------------------------------------------------
\* The owner, who decides on requests and may end a permission.

Decide(op) ==
    /\ consent[op] = "pending"
    /\ \/ consent' = [consent EXCEPT ![op] = "approved"] /\ UNCHANGED faults
       \/ Fault /\ consent' = [consent EXCEPT ![op] = "rejected"]
    /\ UNCHANGED <<turn, committed, effects, revoked, denied, mail>>

Revoke(t) ==
    /\ Fault /\ t \notin revoked /\ revoked' = revoked \cup {t}
    /\ UNCHANGED <<turn, committed, effects, consent, denied, mail>>

-----------------------------------------------------------------------------
\* dispatchIncoming(): media are staged and the turn delivers its replies one by one.
\* markRead() only chooses the acknowledgement: a turn that fails leaves the message in the
\* runtime's inbox (module AgentRuntime), and its next turn starts over.

Answered == Blocks + 1

Begin(m) ==
    /\ mail[m] = 0 /\ mail' = [mail EXCEPT ![m] = 1]
    /\ UNCHANGED <<turn, committed, effects, consent, revoked, denied, faults>>

\* deliverReply(): one block is sent, to the sender or to whom a supervisor's message is for.
Reply(m) ==
    /\ mail[m] \in 1 .. Blocks
    /\ \/ mail' = [mail EXCEPT ![m] = @ + 1] /\ UNCHANGED faults
       \/ Fault /\ mail' = [mail EXCEPT ![m] = 0]
    /\ UNCHANGED <<turn, committed, effects, consent, revoked, denied>>

\* The host dies, or the channel is stopped, and starts again.
Crash ==
    /\ Fault /\ turn' = Idle
    /\ mail' = [m \in Direct |-> IF mail[m] = Answered THEN Answered ELSE 0]
    /\ UNCHANGED <<committed, effects, consent, revoked, denied>>

-----------------------------------------------------------------------------

ChannelInit ==
    /\ turn = Idle /\ committed = [t \in 1 .. Tasks |-> 0]
    /\ effects = <<>> /\ consent = [op \in Operations |-> "none"]
    /\ revoked = {} /\ denied = {}
    /\ mail = [m \in Direct |-> 0] /\ faults = 0

Step == Sweep \/ List \/ PollTask \/ Act \/ Commit

ChannelNext ==
    \/ Step \/ SweepFails
    \/ \E op \in Operations : Decide(op)
    \/ \E t \in 1 .. Tasks : Revoke(t)
    \/ \E m \in Direct : Begin(m) \/ Reply(m)
    \/ Crash

ChannelSpec == ChannelInit /\ [][ChannelNext]_channelVars

\* The loop goes on, and the owner decides on what is asked.
FairChannelSpec ==
    /\ ChannelSpec
    /\ WF_channelVars(Step)
    /\ WF_channelVars(\E op \in Operations : Decide(op))
    /\ \A m \in Direct : WF_channelVars(Begin(m) \/ Reply(m))

-----------------------------------------------------------------------------
\* Properties.

Parts(t, e) == {part \in 0 .. Blocks : <<t, e>> \notin Silent /\ (part = 0 => <<t, e>> \in Files)}
IsPart(op, t, e, part) == op.task = t /\ op.event = e /\ op.part = part
Done(t, e, part) == \E op \in Range(effects) : IsPart(op, t, e, part)
Refused(t, e, part) == \E op \in denied : IsPart(op, t, e, part)

(* A committed event was worked through: each file was read and each block of its turn
   published, unless the permission refused it.  Consent that is asked for, an answer
   that is lost, a crash between two blocks or a failed sweep leave none out, and no
   event is answered before the ones committed ahead of it, nor a later block alone
   (dispatchWorkroomEvent's retry and stop modes, channel.ts:238). *)
CommittedIsAnswered ==
    /\ ChannelTypeOK
    /\ \A t \in 1 .. Tasks : \A e \in 1 .. Events : \A part \in Parts(t, e) :
         \/ Done(t, e, part) \/ Refused(t, e, part)
         \/ committed[t] < e /\ \A later \in e .. Events : \A p \in Parts(t, later) :
              (later > e \/ p > part) => ~Done(t, later, p)

(* A consent that is pending in one Task holds up the Tasks after it, but not for ever:
   as long as no request is rejected, every Task is worked through, although a sweep ends
   at the first poll that rejects and the next starts at the first Task again
   (pollWorkrooms, channel.ts:406).  And every direct message gets its whole answer,
   although a turn that fails between two replies starts over (dispatchIncoming). *)
EveryTaskIsServed ==
    /\ [](\A op \in Operations : consent[op] # "rejected") =>
         \A t \in 1 .. Tasks : <>(committed[t] = Events)
    /\ \A m \in Direct : <>(mail[m] = Answered)

(* sdk/node/README.md:151: "Publication and receipts are retry-safe": the event whose turn
   published something is committed in the end, whatever was lost after the publication. *)
PublicationIsRetrySafe ==
    \A op \in Operations : op \in Range(effects) ~> committed[op.task] >= op.event
=============================================================================
