----------------------------- MODULE TaskRouting -----------------------------
(***************************************************************************)
(* Who is addressed by an event of a Task, and who acts on it: publishing  *)
(* for the members of the moment (publish() of sdk/node/src/workrooms.ts   *)
(* with core/protocol/src/workrooms.ts), and reading at any later time,    *)
(* while members come, go, change roles, are suspended or change keys.     *)
(*                                                                         *)
(* The relay accepts an event if it is encrypted for exactly the members   *)
(* it has then, and keeps what it knows of them with the event.  Members   *)
(* are managed by other clients.  Module WorkroomEvents has the runtime's  *)
(* bookkeeping; here a cursor moves when the handler is through.           *)
(***************************************************************************)
EXTENDS Naturals, Sequences, FiniteSets

CONSTANTS
    Peers,
    Founder,      \* manages the members, and wrote the descriptor
    Members,      \* of the Task when it begins, contributors all
    Readers,      \* agents that poll
    Writers,      \* peers that publish
    Unchecked,    \* writers whose client does not validate what it publishes, and may sign
                  \* no fingerprints of the keys it wraps for
    Rotates,      \* peers whose keys may change
    Contents,     \* what they publish: records of a sequence of mentions and one of plan steps
    PageSize, MaxEventFailures,
    MaxEvents, MaxChanges, MaxThrows   \* bounds

Intents == {"direct", "fyi", "approval_requested"}

ASSUME RoutingAssumption ==
    /\ Founder \in Members /\ Members \cup Readers \cup Writers \cup Rotates \subseteq Peers
    /\ \A c \in Contents : /\ \A i \in DOMAIN c.mentions : c.mentions[i] \in [peer : Peers, handle : Peers, intent : Intents]
                           /\ \A i \in DOMAIN c.steps : IsFiniteSet(c.steps[i].assigned)
    /\ {PageSize, MaxEventFailures} \subseteq Nat \ {0}
    /\ {MaxEvents, MaxChanges, MaxThrows} \subseteq Nat

VARIABLES
    role,         \* relay: of each peer in the Task; "none" if it is no member
    key,          \* relay: the current keys of each peer, by their number
    suspended,    \* relay: peers that are not ACTIVE
    epoch,        \* relay: currentKeyEpoch
    descriptor,   \* relay: the keys it was written with, and those it is encrypted for
    log,          \* relay: accepted events, each with the members of that moment
    draft,        \* the event each writer has encrypted and not sent, or <<>>
    cursor,       \* of each reader
    poll,         \* how far each poll() is
    failed,       \* failures of the record at the cursor
    handled,      \* history: records whose handler returned
    fit,          \* history: readers that were contributors at some time since they last asked
    changed,      \* history: peers whose role or keys were changed
    bounds        \* how many changes and throwing handlers there were

relay == <<role, key, suspended, epoch, descriptor>>
reading == <<cursor, poll, failed, handled>>
history == <<fit, changed>>
vars == <<relay, log, draft, reading, history, bounds>>

Roles == {"contributor", "observer"}   \* owners and supervisors count as contributors here
MembersNow == {p \in Peers : role[p] # "none"}

\* What the relay tells of the members, and keeps with an event it accepts.
View == [p \in MembersNow |-> [role |-> role[p], key |-> key[p]]]
Wraps == [p \in MembersNow |-> key[p]]

NoPoll == [at |-> "idle", role |-> "none", upto |-> 0]

TypeOK ==
    /\ role \in [Peers -> Roles \cup {"none"}] /\ key \in [Peers -> Nat]
    /\ suspended \subseteq Peers /\ epoch \in Nat
    /\ descriptor.by \in Nat /\ DOMAIN descriptor.to = MembersNow
    /\ \A i \in DOMAIN log : /\ log[i].actor \in DOMAIN log[i].view /\ log[i].content \in Contents
                             /\ DOMAIN log[i].view \subseteq Peers
    /\ \A p \in Writers : Len(draft[p]) <= 1
    /\ cursor \in [Readers -> 0 .. Len(log)] /\ failed \in [Readers -> 0 .. MaxEventFailures - 1]
    /\ \A r \in Readers : /\ poll[r].at \in {"idle", "page", "handling"} /\ poll[r].upto <= Len(log)
                          /\ poll[r].at = "handling" => cursor[r] < poll[r].upto
                          /\ handled[r] \subseteq 1 .. cursor[r]
    /\ fit \subseteq Readers /\ changed \subseteq Peers
    /\ bounds.change <= MaxChanges /\ bounds.throw <= MaxThrows

-----------------------------------------------------------------------------
\* core/protocol/src/workrooms.ts: what routing is valid, and whom it addresses.

MentionedTwice(c) == \E i, j \in DOMAIN c.mentions : i < j /\ c.mentions[i].peer = c.mentions[j].peer

\* validateWorkroomContentRouting: the author directs nothing to itself, every target is a
\* member under its own name, and one that is to act is no observer.  A step cannot name a
\* peer twice, as its assignments are a set here.
Valid(c, view, actor, allowObservers) ==
    LET May(p) == allowObservers \/ view[p].role # "observer"
    IN  /\ ~MentionedTwice(c)
        /\ \A i \in DOMAIN c.mentions : LET m == c.mentions[i] IN
              /\ ~(m.peer = actor /\ m.intent = "direct")
              /\ m.peer \in DOMAIN view /\ m.handle = m.peer
              /\ m.intent = "direct" => May(m.peer)
        /\ \A i \in DOMAIN c.steps : \A p \in c.steps[i].assigned : p \in DOMAIN view /\ May(p)

\* resolveWorkroomRouting: direct mentions and the steps the peer is to execute.
DirectMentions(c, p) ==
    {i \in DOMAIN c.mentions : c.mentions[i].peer = p /\ c.mentions[i].intent = "direct"}
AssignedSteps(c, p) ==
    {i \in DOMAIN c.steps : c.steps[i].executing /\ p \in c.steps[i].assigned}

DirectedTo(c, p, actor, recipientRole) ==
    /\ p # actor /\ recipientRole # "observer"
    /\ DirectMentions(c, p) # {} \/ AssignedSteps(c, p) # {}

-----------------------------------------------------------------------------
\* Publishing.

\* get() opens the descriptor: with the current keys of its author, and one's own.
Opened(p) ==
    /\ role[p] # "none"
    /\ descriptor.by = key[Founder] /\ descriptor.to[p] = key[p]

\* get() and what follows it up to the request: the members of the moment are all active,
\* the routing is valid for them, the writer is no observer, and the event is encrypted
\* for them at their epoch.  Whatever fails rejects the call and leaves nothing.
Publish(p, c) ==
    /\ draft[p] = <<>> /\ Len(log) + Cardinality({q \in Writers : draft[q] # <<>>}) < MaxEvents
    /\ Opened(p) /\ MembersNow \cap suspended = {}
    /\ p \in Unchecked \/ Valid(c, View, p, FALSE)
    /\ role[p] # "observer"
    /\ \E hashed \in BOOLEAN :
        /\ hashed \/ p \in Unchecked
        /\ draft' = [draft EXCEPT ![p] = <<[content |-> c, epoch |-> epoch, wraps |-> Wraps,
                                           hashed |-> hashed]>>]
    /\ UNCHANGED <<relay, log, reading, history, bounds>>

\* The relay accepts what is encrypted for its members, or publish() rejects: its retries
\* send the same body again.
Post(p) ==
    /\ draft[p] # <<>>
    /\ LET d == draft[p][1]
           current == d.epoch = epoch /\ role[p] = "contributor"
               /\ DOMAIN d.wraps = MembersNow /\ (d.hashed => d.wraps = Wraps)
       IN  log' = IF current
                  THEN Append(log, [actor |-> p, content |-> d.content, view |-> View,
                                    wraps |-> d.wraps, hashed |-> d.hashed])
                  ELSE log
    /\ draft' = [draft EXCEPT ![p] = <<>>]
    /\ UNCHANGED <<relay, reading, history, bounds>>

-----------------------------------------------------------------------------
\* Reading.

\* exactEventMembershipSnapshot throws.
Contradicts(e) ==
    \/ DOMAIN e.wraps # DOMAIN e.view \/ e.actor \notin DOMAIN e.view
    \/ e.hashed /\ \E p \in DOMAIN e.wraps : e.wraps[p] # e.view[p].key

\* isLegacyAuditOnlyWorkroomEvent: such an event is put aside unread.
AuditOnly(e) == ~e.hashed

\* Mutation: routing is validated against the members there are now.
DecryptsForNow(e, r) ==
    /\ r \in DOMAIN e.wraps /\ e.wraps[r] = key[r]
    /\ Valid(e.content, View, e.actor, TRUE)

\* decryptEvent: the author's keys are those kept with the event, the reader's its own.
Decrypts(e, r) ==
    /\ r \in DOMAIN e.wraps /\ e.wraps[r] = key[r]
    /\ Valid(e.content, e.view, e.actor, TRUE)

\* Mutation: the role of the moment the event was accepted is not looked at.
RoutedNow(e, r) == poll[r].role

\* The role decryptEvent routes with.
RoutedAs(e, r) ==
    IF poll[r].role = "observer" \/ e.view[r].role = "observer" THEN "observer" ELSE poll[r].role

\* A page, and the Task's detail if there is work in it.  (The page may be older than the
\* detail: it ends anywhere.)
ReadPage(r) ==
    /\ poll[r].at = "idle" /\ cursor[r] < Len(log) /\ role[r] # "none"
    /\ \E upto \in cursor[r] + 1 .. cursor[r] + PageSize :
        /\ upto <= Len(log)
        /\ \A i \in cursor[r] + 1 .. upto : ~Contradicts(log[i])
        /\ Opened(r) \/ \A i \in cursor[r] + 1 .. upto : AuditOnly(log[i])
        /\ poll' = [poll EXCEPT ![r] = [at |-> "page", role |-> role[r], upto |-> upto]]
    /\ fit' = IF role[r] = "contributor" THEN fit \cup {r} ELSE fit \ {r}
    /\ UNCHANGED <<relay, log, draft, cursor, failed, handled, changed, bounds>>

\* The record is done with: the next one, or the next page.
Passes(r) ==
    /\ cursor' = [cursor EXCEPT ![r] = @ + 1]
    /\ failed' = [failed EXCEPT ![r] = 0]
    /\ poll' = [poll EXCEPT ![r] = IF cursor[r] + 1 = @.upto THEN NoPoll ELSE [@ EXCEPT !.at = "page"]]

\* Mutation: a failure rejects the poll, however often it comes.
RejectsForEver(r) ==
    /\ failed' = [failed EXCEPT ![r] = IF @ + 1 < MaxEventFailures THEN @ + 1 ELSE @]
    /\ poll' = [poll EXCEPT ![r] = NoPoll] /\ UNCHANGED cursor

\* A failure that is not the last one rejects the poll; the last one puts the event aside.
Fails(r) ==
    IF failed[r] + 1 < MaxEventFailures
    THEN /\ failed' = [failed EXCEPT ![r] = @ + 1]
         /\ poll' = [poll EXCEPT ![r] = NoPoll] /\ UNCHANGED cursor
    ELSE Passes(r)

\* The next record is put aside, fails, is handled or passed over.
NextRecord(r) ==
    /\ poll[r].at = "page"
    /\ LET e == log[cursor[r] + 1] IN
       IF AuditOnly(e) THEN Passes(r)
       ELSE IF ~Decrypts(e, r) THEN Fails(r)
       ELSE IF DirectedTo(e.content, r, e.actor, RoutedAs(e, r))
       THEN poll' = [poll EXCEPT ![r].at = "handling"] /\ UNCHANGED <<cursor, failed>>
       ELSE Passes(r)
    /\ UNCHANGED <<relay, log, draft, handled, history, bounds>>

HandlerReturns(r) ==
    /\ poll[r].at = "handling"
    /\ Passes(r) /\ handled' = [handled EXCEPT ![r] = @ \cup {cursor[r] + 1}]
    /\ UNCHANGED <<relay, log, draft, history, bounds>>

\* A handler that throws, or dies with its process, has the event again.
HandlerThrows(r) ==
    /\ poll[r].at = "handling" /\ bounds.throw < MaxThrows
    /\ bounds' = [bounds EXCEPT !.throw = @ + 1]
    /\ poll' = [poll EXCEPT ![r] = NoPoll]
    /\ UNCHANGED <<relay, log, draft, cursor, failed, handled, history>>

-----------------------------------------------------------------------------
\* What others do at the relay.

Change(p) ==
    /\ bounds.change < MaxChanges /\ bounds' = [bounds EXCEPT !.change = @ + 1]
    /\ changed' = changed \cup {p}
    /\ UNCHANGED <<log, draft, reading>>

\* A change of role leaves the epoch.
RoleChanges(p, to) ==
    /\ p # Founder /\ role[p] \in Roles \ {to} /\ to \in Roles
    /\ role' = [role EXCEPT ![p] = to]
    /\ fit' = IF to = "contributor" THEN fit \cup ({p} \cap Readers) ELSE fit
    /\ Change(p) /\ UNCHANGED <<key, suspended, epoch, descriptor>>

\* A peer joins or leaves: the Founder encrypts the descriptor anew, at the next epoch.
MembershipChanges(p, to) ==
    /\ p # Founder /\ (role[p] = "none") # (to = "none")
    /\ role' = [role EXCEPT ![p] = to]
    /\ epoch' = epoch + 1
    /\ descriptor' = [by |-> key[Founder], to |-> [q \in {q \in Peers : role'[q] # "none"} |-> key[q]]]
    /\ fit' = IF to = "contributor" THEN fit \cup ({p} \cap Readers) ELSE fit
    /\ Change(p) /\ UNCHANGED <<key, suspended>>

Suspends(p) ==
    /\ suspended' = (suspended \ {p}) \cup ({p} \ suspended)
    /\ Change(p) /\ UNCHANGED <<role, key, epoch, descriptor, fit>>

KeysRotate(p) ==
    /\ p \in Rotates
    /\ key' = [key EXCEPT ![p] = @ + 1]
    /\ Change(p) /\ UNCHANGED <<role, suspended, epoch, descriptor, fit>>

-----------------------------------------------------------------------------

Init ==
    /\ role = [p \in Peers |-> IF p \in Members THEN "contributor" ELSE "none"]
    /\ key = [p \in Peers |-> 0] /\ suspended = {} /\ epoch = 0
    /\ descriptor = [by |-> 0, to |-> [p \in Members |-> 0]]
    /\ log = <<>> /\ draft = [p \in Writers |-> <<>>]
    /\ cursor = [r \in Readers |-> 0] /\ poll = [r \in Readers |-> NoPoll]
    /\ failed = [r \in Readers |-> 0] /\ handled = [r \in Readers |-> {}]
    /\ fit = {} /\ changed = {}
    /\ bounds = [change |-> 0, throw |-> 0]

Poll(r) == ReadPage(r) \/ NextRecord(r) \/ HandlerReturns(r)

World(p) ==
    \/ \E to \in Roles : RoleChanges(p, to)
    \/ \E to \in Roles \cup {"none"} : MembershipChanges(p, to)
    \/ Suspends(p) \/ KeysRotate(p)

Next ==
    \/ \E p \in Writers : Post(p) \/ \E c \in Contents : Publish(p, c)
    \/ \E r \in Readers : Poll(r) \/ HandlerThrows(r)
    \/ \E p \in Peers : World(p)

Spec == Init /\ [][Next]_vars

\* Agents keep polling, and their handlers end.
FairSpec == Spec /\ \A r \in Readers : WF_vars(Poll(r))

-----------------------------------------------------------------------------
\* Properties.

Starts(r) == poll[r].at # "handling" /\ poll'[r].at = "handling"

Addresses(c, p) ==
    \/ \E i \in DOMAIN c.mentions : c.mentions[i] = [peer |-> p, handle |-> p, intent |-> "direct"]
    \/ \E i \in DOMAIN c.steps : c.steps[i].executing /\ p \in c.steps[i].assigned

(* An agent starts to work only on what another peer addressed to it by its own name,
   when it was a contributor at the time the relay accepted the event, and again at some
   time since it asked for the Task ("The event-time role and the recipient's current role
   must both permit execution", docs/workrooms-and-mandates.md:53), whoever joined, left or
   changed roles between the two and whatever the writer's client checked.  (Its role is
   looked at once per page: a demotion does not stop the rest of the page.) *)
WorkIsAuthorised ==
    [][\A r \in Readers : Starts(r) =>
          LET e == log[cursor[r] + 1]
          IN  /\ e.actor # r /\ Addresses(e.content, r)
              /\ r \in DOMAIN e.view /\ e.view[r].role = "contributor" /\ r \in fit]_vars

(* What the SDK published stays readable for those it was published for, as long as they keep
   their own keys: "valid history after a member leaves, is suspended, rotates keys or
   changes role" (docs/workrooms-and-mandates.md:26), also when a target became an observer
   between validation and acceptance.  And what it addresses to an agent that nobody changed
   is not passed over. *)
AcceptedReachesMembers ==
    /\ TypeOK
    /\ \A i \in DOMAIN log : log[i].actor \notin Unchecked =>
          /\ \A r \in DOMAIN log[i].view \ Rotates : Decrypts(log[i], r) /\ ~Contradicts(log[i])
          /\ \A r \in (Readers \cap DOMAIN log[i].view) \ (changed \cup {log[i].actor}) :
                Addresses(log[i].content, r) /\ i <= cursor[r] => i \in handled[r]

(* No member holds up another one's cursor: whatever was accepted is handled, passed over or put
   aside in the end ("A later removal, suspension, key rotation or role change therefore cannot
   poison another member's durable cursor", sdk/node/README.md:111).  It holds where the
   Founder is not among those that rotate their keys. *)
EveryCursorMoves ==
    \A r \in Readers : \A i \in 1 .. MaxEvents :
        Len(log) >= i ~> cursor[r] >= i \/ role[r] = "none"
=============================================================================
