----------------------------- MODULE TaskProofs -----------------------------
(***************************************************************************)
(* Two theorems about the routing of a Task's events (module TaskRouting)  *)
(* and one about the channel that answers them (module TaskChannel).       *)
(*                                                                         *)
(* Routing: an agent works only on what was addressed to it with           *)
(* authority, and what was addressed to it reaches it, for any peers,      *)
(* contents, changes of the membership and number of events.  The argument *)
(* follows an event from the client that encrypts it to the readers: the   *)
(* draft is valid and encrypted for the members the writer saw, the relay  *)
(* accepts it only for the same members, and a peer that nobody changed    *)
(* has had its role and its keys from the beginning.                       *)
(*                                                                         *)
(* Channel: no event is committed before its turn is through, for any      *)
(* Tasks, events, texts, failures and consents.  CommittedIsAnswered is    *)
(* not inductive: WorkInv adds what the turn in progress has worked        *)
(* through, and that what is done of a Task is a beginning of its events   *)
(* and of the parts of each.                                               *)
(***************************************************************************)
EXTENDS TaskRouting, TaskChannel, SequenceTheorems, TLAPS

Snapshots == UNION {[D -> [role : Roles, key : Nat]] : D \in SUBSET Peers}
KeySets == UNION {[D -> Nat] : D \in SUBSET Peers}
Entries == [actor : Peers, content : Contents, view : Snapshots, wraps : KeySets, hashed : BOOLEAN]
Drafts == [content : Contents, epoch : Nat, wraps : KeySets, hashed : BOOLEAN]
Polls == [at : {"idle", "page", "handling"}, role : Roles \cup {"none"}, upto : Nat]

Typed ==
    /\ role \in [Peers -> Roles \cup {"none"}] /\ key \in [Peers -> Nat]
    /\ suspended \subseteq Peers /\ epoch \in Nat
    /\ descriptor.by \in Nat /\ DOMAIN descriptor.to = MembersNow
    /\ log \in Seq(Entries) /\ draft \in [Writers -> Seq(Drafts)]
    /\ cursor \in [Readers -> Nat] /\ poll \in [Readers -> Polls]
    /\ failed \in [Readers -> 0 .. MaxEventFailures - 1]
    /\ handled \in [Readers -> SUBSET Nat]
    /\ fit \subseteq Readers /\ changed \subseteq Peers
    /\ bounds \in [change : 0 .. MaxChanges, throw : 0 .. MaxThrows]

\* A poll is within the log and ahead of the cursor, and its role was the reader's.
PollIsAhead ==
    \A r \in Readers :
        /\ cursor[r] <= Len(log) /\ poll[r].upto <= Len(log) /\ handled[r] \subseteq 1 .. cursor[r]
        /\ poll[r].at # "idle" =>
              /\ cursor[r] < poll[r].upto /\ poll[r].role \in Roles
              /\ poll[r].role = "contributor" => r \in fit
              /\ r \notin changed => poll[r].role = role[r]

\* A peer that nobody changed is what it was in the beginning.
Unchanged ==
    \A p \in Peers : /\ p \notin changed => role[p] = IF p \in Members THEN "contributor" ELSE "none"
                     /\ p \notin changed \cap Rotates => key[p] = 0

\* What a writer has encrypted: for the keys of the moment, and valid for the members
\* it is encrypted for.
ValidDraft(d, p, touched) ==
    /\ \A q \in DOMAIN d.wraps : q \notin touched \cap Rotates => d.wraps[q] = 0
    /\ p \notin Unchecked => d.hashed /\ Valid(d.content, d.wraps, p, TRUE)
DraftIsValid ==
    \A p \in Writers : Len(draft[p]) <= 1 /\ (draft[p] # <<>> => ValidDraft(draft[p][1], p, changed))

\* What the relay has accepted: encrypted for the members kept with it, and of the
\* author that was a member.
EntryIsValid(e, touched) ==
    /\ e.actor \in DOMAIN e.view /\ DOMAIN e.wraps = DOMAIN e.view
    /\ e.hashed => \A p \in DOMAIN e.wraps : e.wraps[p] = e.view[p].key
    /\ \A p \in DOMAIN e.view : /\ p \notin touched => e.view[p].role = "contributor" /\ p \in Members
                                /\ p \notin touched \cap Rotates => e.wraps[p] = 0
    /\ e.actor \notin Unchecked => e.hashed /\ Valid(e.content, e.view, e.actor, TRUE)

LogIsValid == \A i \in DOMAIN log : EntryIsValid(log[i], changed)

\* What is addressed to a reader that nobody changed.
Owes(e, r, touched) ==
    /\ e.actor \notin Unchecked /\ r \in DOMAIN e.view
    /\ r \notin touched \cup {e.actor} /\ Addresses(e.content, r)

NothingPassed ==
    \A r \in Readers : \A i \in DOMAIN log : Owes(log[i], r, changed) /\ i <= cursor[r] => i \in handled[r]

RoutingInv == Typed /\ PollIsAhead /\ Unchanged /\ DraftIsValid /\ LogIsValid /\ NothingPassed

-----------------------------------------------------------------------------
\* Who is a target does not depend on roles where observers are allowed.
LEMMA ValidForMembers ==
    ASSUME NEW c, NEW v, NEW w, NEW actor, NEW allow, Valid(c, v, actor, allow), DOMAIN v = DOMAIN w
    PROVE  Valid(c, w, actor, TRUE)
BY DEF Valid

\* What the relay tells, and what a client encrypts for, is of the members.
LEMMA SnapshotTypes ==
    ASSUME Typed
    PROVE  /\ View \in Snapshots /\ Wraps \in KeySets /\ MembersNow \subseteq Peers
           /\ DOMAIN View = MembersNow /\ DOMAIN Wraps = MembersNow
<1>1. MembersNow \in SUBSET Peers /\ \A p \in MembersNow : role[p] \in Roles /\ key[p] \in Nat
  BY DEF MembersNow, Typed
<1>2. View \in [MembersNow -> [role : Roles, key : Nat]] /\ Wraps \in [MembersNow -> Nat]
  BY <1>1 DEF View, Wraps
<1> QED BY <1>1, <1>2 DEF Snapshots, KeySets

LEMMA EntryTypes ==
    ASSUME NEW e \in Entries
    PROVE  /\ DOMAIN e.view \subseteq Peers /\ DOMAIN e.wraps \subseteq Peers /\ e.content \in Contents
           /\ e.hashed \in BOOLEAN
           /\ \A p \in DOMAIN e.view : e.view[p].role \in Roles
BY DEF Entries, Snapshots, KeySets

LEMMA RoutingInit == Init => RoutingInv
<1> SUFFICES ASSUME Init PROVE RoutingInv
  OBVIOUS
<1> USE RoutingAssumption DEF Init
<1>1. Members = MembersNow
  BY DEF MembersNow, Roles
<1>2. Typed
  <2>1. \A p \in Writers : draft[p] = <<>>
    OBVIOUS
  <2>2. draft \in [Writers -> Seq(Drafts)] /\ log \in Seq(Entries)
    OBVIOUS
  <2> QED BY <1>1, <2>2 DEF Typed, Roles, Polls, NoPoll
<1>3. PollIsAhead /\ Unchanged /\ DraftIsValid /\ LogIsValid /\ NothingPassed
  BY DEF PollIsAhead, Unchanged, DraftIsValid, LogIsValid, NothingPassed, NoPoll
<1> QED BY <1>2, <1>3 DEF RoutingInv

-----------------------------------------------------------------------------
\* What an event, and a draft, is found to be stays so: changes are remembered.
LEMMA ValidityStays ==
    ASSUME NEW before, NEW after, before \subseteq after
    PROVE  /\ \A e : EntryIsValid(e, before) => EntryIsValid(e, after)
           /\ \A d, p : ValidDraft(d, p, before) => ValidDraft(d, p, after)
BY DEF EntryIsValid, ValidDraft

-----------------------------------------------------------------------------
(* Types.                                                                  *)

\* A poll that is done with a record.
LEMMA PassedTypes ==
    ASSUME Typed, NEW r \in Readers, Passes(r) \/ Fails(r)
    PROVE  /\ cursor' \in [Readers -> Nat] /\ poll' \in [Readers -> Polls]
           /\ failed' \in [Readers -> 0 .. MaxEventFailures - 1]
<1>1. cursor[r] \in Nat /\ poll[r] \in Polls /\ failed[r] \in 0 .. MaxEventFailures - 1
  BY DEF Typed
<1>2. NoPoll \in Polls /\ [poll[r] EXCEPT !.at = "page"] \in Polls
  BY <1>1 DEF NoPoll, Polls
<1>3. MaxEventFailures \in Nat \ {0}
  BY RoutingAssumption
<1>4. CASE Passes(r)
  <2>1. cursor' \in [Readers -> Nat]
    BY <1>1, <1>4 DEF Passes, Typed
  <2>2. failed' \in [Readers -> 0 .. MaxEventFailures - 1]
    BY <1>1, <1>3, <1>4 DEF Passes, Typed
  <2>3. poll' \in [Readers -> Polls]
    <3>1. (IF cursor[r] + 1 = poll[r].upto THEN NoPoll ELSE [poll[r] EXCEPT !.at = "page"]) \in Polls
      BY <1>2
    <3>2. poll' = [poll EXCEPT ![r] = IF cursor[r] + 1 = poll[r].upto THEN NoPoll
                                      ELSE [poll[r] EXCEPT !.at = "page"]]
      BY <1>4 DEF Passes
    <3> QED BY <3>1, <3>2 DEF Typed
  <2> QED BY <2>1, <2>2, <2>3
<1>5. CASE Fails(r) /\ ~Passes(r)
  <2>1. /\ failed[r] + 1 < MaxEventFailures /\ UNCHANGED cursor
        /\ failed' = [failed EXCEPT ![r] = failed[r] + 1] /\ poll' = [poll EXCEPT ![r] = NoPoll]
    BY <1>5 DEF Fails
  <2>2. failed' \in [Readers -> 0 .. MaxEventFailures - 1]
    BY <1>1, <1>3, <2>1 DEF Typed
  <2> QED BY <1>2, <2>1, <2>2 DEF Typed
<1> QED BY <1>4, <1>5

\* What the relay accepts is the draft, with the members it has.
Posted(p) == [actor |-> p, content |-> draft[p][1].content, view |-> View,
              wraps |-> draft[p][1].wraps, hashed |-> draft[p][1].hashed]

LEMMA PostEffect ==
    ASSUME Typed, NEW p \in Writers, Post(p)
    PROVE  /\ draft[p] # <<>> /\ draft[p][1] \in Drafts /\ Posted(p) \in Entries
           /\ \/ log' = log
              \/ /\ log' = Append(log, Posted(p)) /\ role[p] = "contributor"
                 /\ DOMAIN draft[p][1].wraps = MembersNow /\ (draft[p][1].hashed => draft[p][1].wraps = Wraps)
           /\ draft' = [draft EXCEPT ![p] = <<>>]
           /\ UNCHANGED <<relay, reading, history, bounds>>
<1>1. draft[p] \in Seq(Drafts) /\ draft[p] # <<>>
  BY DEF Post, Typed
<1>2. draft[p][1] \in Drafts
  BY <1>1
<1>3. p \in Peers
  BY RoutingAssumption
<1>4. Posted(p) \in Entries
  BY <1>2, <1>3, SnapshotTypes DEF Posted, Entries, Drafts
<1> QED BY <1>1, <1>2, <1>4 DEF Post, Posted

LEMMA TypedStep == Typed /\ Next => Typed'
<1> SUFFICES ASSUME Typed, Next PROVE Typed'
  OBVIOUS
<1>1. ASSUME NEW p \in Writers, NEW c \in Contents, Publish(p, c) PROVE Typed'
  <2>1. PICK hashed \in BOOLEAN :
          draft' = [draft EXCEPT ![p] = <<[content |-> c, epoch |-> epoch, wraps |-> Wraps, hashed |-> hashed]>>]
    BY <1>1 DEF Publish
  <2>2. [content |-> c, epoch |-> epoch, wraps |-> Wraps, hashed |-> hashed] \in Drafts
    BY SnapshotTypes DEF Drafts, Typed
  <2>3. draft' \in [Writers -> Seq(Drafts)]
    BY <2>1, <2>2 DEF Typed
  <2> QED BY <1>1, <2>3 DEF Publish, Typed, relay, reading, history, MembersNow
<1>2. ASSUME NEW p \in Writers, Post(p) PROVE Typed'
  <2>1. log \in Seq(Entries) /\ draft \in [Writers -> Seq(Drafts)] /\ <<>> \in Seq(Drafts)
    BY DEF Typed
  <2>2. log' \in Seq(Entries)
    <3>1. Posted(p) \in Entries /\ (log' = log \/ log' = Append(log, Posted(p)))
      BY <1>2, PostEffect
    <3>2. PICK x \in Entries : log' = log \/ log' = Append(log, x)
      BY ONLY <3>1
    <3>3. Append(log, x) \in Seq(Entries)
      BY ONLY <2>1, x \in Entries, AppendProperties
    <3> QED BY ONLY <2>1, <3>2, <3>3
  <2>3. draft' \in [Writers -> Seq(Drafts)]
    BY <1>2, <2>1, PostEffect
  <2> QED BY <1>2, <2>2, <2>3 DEF Post, Typed, relay, reading, history, MembersNow
<1>3. ASSUME NEW r \in Readers, ReadPage(r) PROVE Typed'
  <2>1. PICK upto \in cursor[r] + 1 .. cursor[r] + PageSize :
          poll' = [poll EXCEPT ![r] = [at |-> "page", role |-> role[r], upto |-> upto]]
    BY <1>3 DEF ReadPage
  <2>2. upto \in Nat /\ role[r] \in Roles \cup {"none"}
    <3>1. cursor[r] \in Nat /\ PageSize \in Nat /\ r \in Peers
      BY RoutingAssumption DEF Typed
    <3>2. role[r] \in Roles \cup {"none"}
      BY <3>1 DEF Typed
    <3> QED BY <3>1, <3>2
  <2>3. [at |-> "page", role |-> role[r], upto |-> upto] \in Polls
    BY <2>2 DEF Polls
  <2>4. poll' \in [Readers -> Polls]
    BY <2>1, <2>3 DEF Typed
  <2> QED BY <1>3, <2>4 DEF ReadPage, Typed, relay, MembersNow
<1>4. ASSUME NEW r \in Readers, NextRecord(r) PROVE Typed'
  <2>1. CASE Passes(r) \/ Fails(r)
    BY <1>4, <2>1, PassedTypes DEF NextRecord, Typed, relay, history, MembersNow
  <2>2. CASE poll' = [poll EXCEPT ![r].at = "handling"] /\ UNCHANGED <<cursor, failed>>
    <3>1. poll' \in [Readers -> Polls]
      BY <2>2 DEF Typed, Polls
    <3> QED BY <1>4, <2>2, <3>1 DEF NextRecord, Typed, relay, history, MembersNow
  <2> QED BY <1>4, <2>1, <2>2 DEF NextRecord
<1>5. ASSUME NEW r \in Readers, HandlerReturns(r) PROVE Typed'
  <2>1. handled' \in [Readers -> SUBSET Nat]
    BY <1>5 DEF HandlerReturns, Typed
  <2> QED BY <1>5, <2>1, PassedTypes DEF HandlerReturns, Typed, relay, history, MembersNow
<1>6. ASSUME NEW r \in Readers, HandlerThrows(r) PROVE Typed'
  <2>1. bounds' \in [change : 0 .. MaxChanges, throw : 0 .. MaxThrows]
    <3>1. bounds.throw + 1 \in 0 .. MaxThrows
      <4>1. bounds.throw \in 0 .. MaxThrows /\ bounds.throw < MaxThrows /\ MaxThrows \in Nat
        BY <1>6, RoutingAssumption DEF HandlerThrows, Typed
      <4> QED BY <4>1
    <3> QED BY <1>6, <3>1 DEF HandlerThrows, Typed
  <2>2. poll' \in [Readers -> Polls]
    BY <1>6 DEF HandlerThrows, Typed, NoPoll, Polls
  <2> QED BY <1>6, <2>1, <2>2 DEF HandlerThrows, Typed, relay, history, MembersNow
<1>7. ASSUME NEW p \in Peers, World(p) PROVE Typed'
  <2>1. Change(p)
    BY <1>7 DEF World, RoleChanges, MembershipChanges, Suspends, KeysRotate
  <2>2. bounds' \in [change : 0 .. MaxChanges, throw : 0 .. MaxThrows] /\ changed' \subseteq Peers
    <3>1. bounds.change + 1 \in 0 .. MaxChanges
      BY <2>1, RoutingAssumption DEF Change, Typed
    <3> QED BY <2>1, <3>1 DEF Change, Typed
  <2>3. ASSUME NEW to \in Roles, RoleChanges(p, to) PROVE Typed'
    <3>1. role' \in [Peers -> Roles \cup {"none"}] /\ MembersNow' = MembersNow
      BY <2>3 DEF RoleChanges, Typed, MembersNow, Roles
    <3> QED BY <2>1, <2>2, <2>3, <3>1 DEF RoleChanges, Change, Typed, reading
  <2>4. ASSUME NEW to \in Roles \cup {"none"}, MembershipChanges(p, to) PROVE Typed'
    <3>1. role' \in [Peers -> Roles \cup {"none"}] /\ epoch' \in Nat
      BY <2>4 DEF MembershipChanges, Typed
    <3>2. descriptor'.by \in Nat /\ DOMAIN descriptor'.to = MembersNow'
      BY <2>4, RoutingAssumption DEF MembershipChanges, Typed, MembersNow
    <3> QED BY <2>1, <2>2, <2>4, <3>1, <3>2 DEF MembershipChanges, Change, Typed, reading
  <2>5. CASE Suspends(p)
    <3>1. suspended' \subseteq Peers
      BY <2>5 DEF Suspends, Typed
    <3> QED BY <2>1, <2>2, <2>5, <3>1 DEF Suspends, Change, Typed, MembersNow, reading
  <2>6. CASE KeysRotate(p)
    <3>1. key' \in [Peers -> Nat]
      BY <2>6 DEF KeysRotate, Typed
    <3> QED BY <2>1, <2>2, <2>6, <3>1 DEF KeysRotate, Change, Typed, MembersNow, reading
  <2> QED BY <1>7, <2>3, <2>4, <2>5, <2>6 DEF World
<1> QED BY <1>1, <1>2, <1>3, <1>4, <1>5, <1>6, <1>7 DEF Next, Poll

-----------------------------------------------------------------------------
(* The reader's bookkeeping.                                               *)

\* The effect of passing over a record, or failing at it.
LEMMA PassedEffect ==
    ASSUME Typed, PollIsAhead, NEW r \in Readers, poll[r].at # "idle"
    PROVE  /\ Passes(r) => /\ cursor'[r] = cursor[r] + 1
                           /\ \/ poll'[r] = NoPoll
                              \/ poll'[r] = [poll[r] EXCEPT !.at = "page"] /\ cursor[r] + 1 < poll[r].upto
           /\ Fails(r) /\ ~Passes(r) => cursor' = cursor /\ poll'[r] = NoPoll
           /\ Passes(r) \/ Fails(r) =>
                 \A q \in Readers \ {r} : cursor'[q] = cursor[q] /\ poll'[q] = poll[q]
           /\ cursor[r] \in Nat /\ cursor[r] + 1 <= Len(log) /\ cursor[r] + 1 \in DOMAIN log
           /\ log[cursor[r] + 1] \in Entries
<1>1. /\ cursor[r] \in Nat /\ poll[r].upto \in Nat /\ log \in Seq(Entries)
      /\ cursor[r] < poll[r].upto /\ poll[r].upto <= Len(log)
  BY DEF Typed, PollIsAhead, Polls
<1>2. cursor[r] + 1 <= Len(log) /\ cursor[r] + 1 \in DOMAIN log /\ log[cursor[r] + 1] \in Entries
  BY <1>1
<1>3. ASSUME Passes(r)
      PROVE  /\ cursor'[r] = cursor[r] + 1
             /\ \/ poll'[r] = NoPoll
                \/ poll'[r] = [poll[r] EXCEPT !.at = "page"] /\ cursor[r] + 1 < poll[r].upto
             /\ \A q \in Readers \ {r} : cursor'[q] = cursor[q] /\ poll'[q] = poll[q]
  BY <1>1, <1>3 DEF Passes, Typed
<1>4. ASSUME Fails(r), ~Passes(r)
      PROVE  /\ cursor' = cursor /\ poll'[r] = NoPoll
             /\ \A q \in Readers \ {r} : cursor'[q] = cursor[q] /\ poll'[q] = poll[q]
  BY <1>4 DEF Fails, Typed
<1> QED BY <1>1, <1>2, <1>3, <1>4

LEMMA PassedRests ==
    ASSUME Typed, PollIsAhead, NEW r \in Readers, poll[r].at # "idle", Passes(r) \/ Fails(r)
    PROVE  poll'[r].at # "handling"
<1>1. poll[r] \in Polls
  BY DEF Typed
<1>2. NoPoll.at # "handling" /\ [poll[r] EXCEPT !.at = "page"].at # "handling"
  BY <1>1 DEF NoPoll, Polls
<1>3. poll'[r] = NoPoll \/ poll'[r] = [poll[r] EXCEPT !.at = "page"]
  BY PassedEffect
<1> QED BY <1>2, <1>3

LEMMA PollStep == Typed /\ PollIsAhead /\ Next => PollIsAhead'
<1> SUFFICES ASSUME Typed, PollIsAhead, Next, NEW q \in Readers
             PROVE  (/\ cursor[q] <= Len(log) /\ poll[q].upto <= Len(log) /\ handled[q] \subseteq 1 .. cursor[q]
                     /\ poll[q].at # "idle" =>
                           /\ cursor[q] < poll[q].upto /\ poll[q].role \in Roles
                           /\ poll[q].role = "contributor" => q \in fit
                           /\ q \notin changed => poll[q].role = role[q])'
  BY DEF PollIsAhead
<1>0. /\ cursor[q] \in Nat /\ poll[q] \in Polls /\ Len(log) \in Nat /\ handled[q] \subseteq 1 .. cursor[q]
      /\ cursor[q] <= Len(log) /\ poll[q].upto <= Len(log)
      /\ poll[q].at # "idle" =>
            /\ cursor[q] < poll[q].upto /\ poll[q].role \in Roles
            /\ poll[q].role = "contributor" => q \in fit
            /\ q \notin changed => poll[q].role = role[q]
  BY DEF Typed, PollIsAhead
<1> USE DEF relay, reading, history
<1>1. ASSUME NEW p \in Writers, Post(p) \/ \E c \in Contents : Publish(p, c)
      PROVE  Len(log') \in Nat /\ Len(log) <= Len(log') /\ UNCHANGED <<relay, reading, history>>
  <2>1. CASE Post(p)
    <3>1. log \in Seq(Entries)
      BY DEF Typed
    <3>2. Len(log') \in Nat /\ Len(log) <= Len(log')
      BY ONLY <1>0, <2>1, <3>1, PostEffect, Typed
    <3> QED BY <2>1, <3>2, PostEffect
  <2>2. CASE \E c \in Contents : Publish(p, c)
    BY <1>0, <2>2 DEF Publish
  <2> QED BY <1>1, <2>1, <2>2
<1>2. ASSUME ReadPage(q)
      PROVE  /\ poll'[q].at = "page" /\ cursor[q] < poll'[q].upto /\ poll'[q].upto <= Len(log)
             /\ poll'[q].role = role[q] /\ role[q] \in Roles /\ (role[q] = "contributor" => q \in fit')
  <2>1. PICK upto \in cursor[q] + 1 .. cursor[q] + PageSize :
          upto <= Len(log) /\ poll' = [poll EXCEPT ![q] = [at |-> "page", role |-> role[q], upto |-> upto]]
    BY <1>2 DEF ReadPage
  <2>2. poll'[q] = [at |-> "page", role |-> role[q], upto |-> upto]
    BY <2>1 DEF Typed
  <2>3. q \in Peers /\ role[q] \in Roles
    BY <1>2, RoutingAssumption DEF ReadPage, Typed
  <2> QED BY <1>0, <1>2, <2>1, <2>2, <2>3, RoutingAssumption DEF ReadPage
<1>3. ASSUME NextRecord(q) \/ HandlerReturns(q)
      PROVE  /\ cursor'[q] \in {cursor[q], cursor[q] + 1} /\ cursor'[q] <= Len(log)
             /\ handled'[q] \subseteq 1 .. cursor'[q]
             /\ \/ poll'[q] = NoPoll
                \/ /\ cursor'[q] < poll[q].upto /\ poll'[q].role = poll[q].role
                   /\ poll'[q].upto = poll[q].upto /\ poll[q].at # "idle"
             /\ UNCHANGED <<relay, log, history>>
  <2>1. poll[q].at # "idle"
    BY <1>3 DEF NextRecord, HandlerReturns
  <2>2. CASE Passes(q) /\ handled'[q] \subseteq handled[q] \cup {cursor[q] + 1}
    <3>1. /\ cursor'[q] = cursor[q] + 1 /\ cursor[q] + 1 <= Len(log)
          /\ \/ poll'[q] = NoPoll
             \/ poll'[q] = [poll[q] EXCEPT !.at = "page"] /\ cursor[q] + 1 < poll[q].upto
      BY <2>1, <2>2, PassedEffect
    <3>2. handled'[q] \subseteq 1 .. (cursor[q] + 1)
      BY <1>0, <2>2
    <3>3. UNCHANGED <<relay, log, history>>
      BY <1>3 DEF NextRecord, HandlerReturns
    <3> QED BY <1>0, <2>1, <3>1, <3>2, <3>3 DEF Polls
  <2>3. CASE Fails(q) /\ ~Passes(q) /\ handled' = handled
    BY <1>0, <1>3, <2>1, <2>3, PassedEffect DEF NextRecord, HandlerReturns
  <2>4. CASE poll' = [poll EXCEPT ![q].at = "handling"] /\ UNCHANGED <<cursor, handled>>
    <3>1. poll'[q] = [poll[q] EXCEPT !.at = "handling"]
      BY <2>4 DEF Typed
    <3> QED BY <1>0, <1>3, <2>1, <2>4, <3>1 DEF Polls, NextRecord, HandlerReturns
  <2> QED BY <1>3, <2>2, <2>3, <2>4 DEF NextRecord, HandlerReturns, Typed
<1>4. ASSUME NEW r \in Readers, Poll(r) \/ HandlerThrows(r), r # q
      PROVE  /\ cursor'[q] = cursor[q] /\ poll'[q] = poll[q] /\ handled'[q] = handled[q]
             /\ (q \in fit => q \in fit') /\ UNCHANGED <<relay, log, changed>>
  <2>1. CASE ReadPage(r)
    BY <1>4, <2>1 DEF ReadPage, Typed, history
  <2>2. CASE NextRecord(r)
    BY <1>4, <2>2, PassedEffect DEF NextRecord, Typed, history
  <2>3. CASE HandlerReturns(r)
    BY <1>4, <2>3, PassedEffect DEF HandlerReturns, Typed, history
  <2>4. CASE HandlerThrows(r)
    BY <1>4, <2>4, PassedEffect DEF HandlerThrows, Typed, history
  <2> QED BY <1>4, <2>1, <2>2, <2>3, <2>4 DEF Poll
<1>5. ASSUME HandlerThrows(q) PROVE poll'[q] = NoPoll /\ UNCHANGED <<relay, log, cursor, handled, history>>
  BY <1>5 DEF HandlerThrows, Typed
<1>6. ASSUME NEW p \in Peers, World(p)
      PROVE  /\ UNCHANGED <<log, reading>> /\ fit \subseteq fit' /\ changed' = changed \cup {p}
             /\ p # q => role'[q] = role[q]
  <2>1. UNCHANGED <<log, reading>> /\ changed' = changed \cup {p}
    BY <1>6 DEF World, RoleChanges, MembershipChanges, Suspends, KeysRotate, Change
  <2>2. fit \subseteq fit'
    BY <1>6 DEF World, RoleChanges, MembershipChanges, Suspends, KeysRotate
  <2>3. p # q => role'[q] = role[q]
    <3>1. role' = role \/ \E to : role' = [role EXCEPT ![p] = to]
      BY <1>6 DEF World, RoleChanges, MembershipChanges, Suspends, KeysRotate
    <3>2. q \in Peers /\ role \in [Peers -> Roles \cup {"none"}]
      BY RoutingAssumption DEF Typed
    <3> QED BY <3>1, <3>2
  <2> QED BY <2>1, <2>2, <2>3
<1> USE DEF NoPoll
<1>7. CASE \E p \in Writers : Post(p) \/ \E c \in Contents : Publish(p, c)
  BY <1>0, <1>1, <1>7 DEF Polls
<1>8. CASE \E r \in Readers : Poll(r) \/ HandlerThrows(r)
  <2>1. CASE \E r \in Readers : r # q /\ (Poll(r) \/ HandlerThrows(r))
    BY <1>0, <1>4, <2>1
  <2>2. CASE ReadPage(q)
    BY <1>0, <1>2, <2>2 DEF ReadPage
  <2>3. CASE NextRecord(q) \/ HandlerReturns(q)
    BY <1>0, <1>3, <2>3
  <2>4. CASE HandlerThrows(q)
    BY <1>0, <1>5, <2>4
  <2> QED BY <1>8, <2>1, <2>2, <2>3, <2>4 DEF Poll
<1>9. CASE \E p \in Peers : World(p)
  BY <1>0, <1>6, <1>9
<1> QED BY <1>7, <1>8, <1>9 DEF Next

-----------------------------------------------------------------------------
(* What is published.                                                      *)

LEMMA ChangesAreRemembered == Next => changed \subseteq changed'
BY DEF Next, World, RoleChanges, MembershipChanges, Suspends, KeysRotate, Change, Poll, ReadPage, NextRecord,
       HandlerReturns, HandlerThrows, Post, Publish, history

LEMMA UnchangedStep == Typed /\ Unchanged /\ Next => Unchanged'
<1> SUFFICES ASSUME Typed, Unchanged, Next, NEW q \in Peers
             PROVE  (/\ q \notin changed => role[q] = IF q \in Members THEN "contributor" ELSE "none"
                     /\ q \notin changed \cap Rotates => key[q] = 0)'
  BY DEF Unchanged
<1>1. CASE UNCHANGED <<role, key>>
  BY <1>1, ChangesAreRemembered DEF Unchanged
<1>2. ASSUME NEW p \in Peers, World(p) PROVE (role'[q] = role[q] \/ q \in changed')
                                          /\ (key'[q] = key[q] \/ q \in changed' \cap Rotates)
  <2>1. changed' = changed \cup {p}
    BY <1>2 DEF World, RoleChanges, MembershipChanges, Suspends, KeysRotate, Change
  <2>2. \/ UNCHANGED <<role, key>>
        \/ UNCHANGED key /\ \E to : role' = [role EXCEPT ![p] = to]
        \/ UNCHANGED role /\ p \in Rotates /\ key' = [key EXCEPT ![p] = @ + 1]
    BY <1>2 DEF World, RoleChanges, MembershipChanges, Suspends, KeysRotate
  <2> QED BY <2>1, <2>2 DEF Typed
<1>3. CASE \E p \in Peers : World(p)
  BY <1>2, <1>3, ChangesAreRemembered DEF Unchanged
<1> QED BY <1>1, <1>3 DEF Next, Poll, ReadPage, NextRecord, HandlerReturns, HandlerThrows, Post, Publish, relay

\* A client that validates encrypts what is valid for the members it encrypts for.
LEMMA DraftStep == Typed /\ Unchanged /\ DraftIsValid /\ Next => DraftIsValid'
<1> SUFFICES ASSUME Typed, Unchanged, DraftIsValid, Next, NEW q \in Writers
             PROVE  Len(draft'[q]) <= 1 /\ (draft'[q] # <<>> => ValidDraft(draft'[q][1], q, changed'))
  BY DEF DraftIsValid
<1>1. ASSUME draft'[q] = draft[q] PROVE Len(draft'[q]) <= 1 /\ (draft'[q] # <<>> => ValidDraft(draft'[q][1], q, changed'))
  BY <1>1, ChangesAreRemembered, ValidityStays DEF DraftIsValid
<1>2. ASSUME NEW p \in Writers, Post(p) PROVE draft'[q] \in {draft[q], <<>>}
  BY <1>2, PostEffect DEF Typed
<1>3. ASSUME NEW p \in Writers, NEW c \in Contents, Publish(p, c), p = q
      PROVE  draft'[q] # draft[q] => Len(draft'[q]) = 1 /\ ValidDraft(draft'[q][1], q, changed')
  <2>1. PICK hashed \in BOOLEAN :
          /\ hashed \/ q \in Unchecked
          /\ draft' = [draft EXCEPT ![q] = <<[content |-> c, epoch |-> epoch, wraps |-> Wraps, hashed |-> hashed]>>]
    BY <1>3 DEF Publish
  <2> DEFINE d == [content |-> c, epoch |-> epoch, wraps |-> Wraps, hashed |-> hashed]
  <2>2. draft'[q] = <<d>>
    BY <2>1 DEF Typed
  <2>3. q \in Unchecked \/ Valid(c, View, q, FALSE)
    BY <1>3 DEF Publish
  <2>4. q \notin Unchecked => Valid(c, Wraps, q, TRUE)
    BY <2>3, ValidForMembers, SnapshotTypes
  <2>5. \A p2 \in DOMAIN Wraps : p2 \notin changed \cap Rotates => Wraps[p2] = 0
    BY SnapshotTypes DEF Unchanged, Wraps
  <2>6. d.content = c /\ d.wraps = Wraps /\ d.hashed = hashed
    OBVIOUS
  <2> HIDE DEF d
  <2>7. ValidDraft(d, q, changed)
    BY <2>1, <2>4, <2>5, <2>6 DEF ValidDraft
  <2>8. ValidDraft(d, q, changed')
    BY <2>7, ChangesAreRemembered, ValidityStays
  <2>9. draft'[q][1] = d /\ Len(draft'[q]) = 1
    BY <2>2
  <2>10. ValidDraft(draft'[q][1], q, changed')
    BY <2>8, <2>9
  <2> QED BY <2>9, <2>10
<1>4. ASSUME NEW p \in Writers, NEW c \in Contents, Publish(p, c), p # q PROVE draft'[q] = draft[q]
  BY <1>4 DEF Publish, Typed
<1>5. CASE \E p \in Writers : Post(p) \/ \E c \in Contents : Publish(p, c)
  <2>1. CASE draft'[q] = <<>>
    BY <2>1
  <2>2. CASE draft'[q] = draft[q]
    BY <1>1, <2>2
  <2>3. CASE draft'[q] # <<>> /\ draft'[q] # draft[q]
    <3>1. Len(draft'[q]) = 1 /\ ValidDraft(draft'[q][1], q, changed')
      BY <1>2, <1>3, <1>4, <1>5, <2>3
    <3> QED BY <3>1
  <2> QED BY <2>1, <2>2, <2>3
<1>6. CASE UNCHANGED draft
  BY <1>1, <1>6
<1> QED BY <1>5, <1>6 DEF Next, Poll, ReadPage, NextRecord, HandlerReturns, HandlerThrows,
                          World, RoleChanges, MembershipChanges, Suspends, KeysRotate, Change

\* The relay accepts a draft for the members it has, which are those of the draft.
LEMMA LogStep == Typed /\ Unchanged /\ DraftIsValid /\ LogIsValid /\ Next => LogIsValid'
<1> SUFFICES ASSUME Typed, Unchanged, DraftIsValid, LogIsValid, Next, NEW i \in DOMAIN log'
             PROVE  EntryIsValid(log'[i], changed')
  BY DEF LogIsValid
<1>1. ASSUME i \in DOMAIN log, log'[i] = log[i] PROVE EntryIsValid(log'[i], changed')
  <2>1. EntryIsValid(log[i], changed')
    BY <1>1, ChangesAreRemembered, ValidityStays DEF LogIsValid
  <2> QED BY <1>1, <2>1
<1>2. ASSUME NEW p \in Writers, Post(p), log' # log PROVE EntryIsValid(Posted(p), changed')
  <2> DEFINE d == draft[p][1]
  <2>1. /\ d \in Drafts /\ role[p] = "contributor" /\ DOMAIN d.wraps = MembersNow
        /\ d.hashed => d.wraps = Wraps
    BY <1>2, PostEffect
  <2>2. ValidDraft(d, p, changed)
    BY <1>2, PostEffect DEF DraftIsValid
  <2>3. p \in MembersNow
    BY <2>1, RoutingAssumption DEF MembersNow
  <2>4. \A q \in MembersNow : View[q].key = Wraps[q] /\ View[q].role = role[q]
    BY DEF View, Wraps
  <2>5. /\ Posted(p).actor = p /\ Posted(p).content = d.content /\ Posted(p).view = View
        /\ Posted(p).wraps = d.wraps /\ Posted(p).hashed = d.hashed
    BY DEF Posted
  <2>6. \A q \in MembersNow : q \notin changed => role[q] = "contributor" /\ q \in Members
    BY DEF Unchanged, MembersNow
  <2>7. p \notin Unchecked => Valid(d.content, View, p, TRUE)
    BY <2>1, <2>2, SnapshotTypes, ValidForMembers DEF ValidDraft
  <2> HIDE DEF d
  <2>8. \A q \in MembersNow : q \notin changed \cap Rotates => d.wraps[q] = 0
    BY <2>1, <2>2 DEF ValidDraft
  <2>9. d.hashed => \A q \in MembersNow : d.wraps[q] = View[q].key
    BY <2>1, <2>4
  <2>10. EntryIsValid(Posted(p), changed)
    <3> DEFINE e == Posted(p)
    <3>1. e.actor \in DOMAIN e.view /\ DOMAIN e.wraps = DOMAIN e.view
      BY <2>1, <2>3, <2>5, SnapshotTypes
    <3>2. e.hashed => \A q \in DOMAIN e.wraps : e.wraps[q] = e.view[q].key
      BY <2>1, <2>5, <2>9
    <3>3. \A q \in DOMAIN e.view : /\ q \notin changed => e.view[q].role = "contributor" /\ q \in Members
                                   /\ q \notin changed \cap Rotates => e.wraps[q] = 0
      BY <2>4, <2>5, <2>6, <2>8, SnapshotTypes
    <3>4. p \notin Unchecked => d.hashed
      BY <2>2 DEF ValidDraft
    <3>5. e.actor \notin Unchecked => e.hashed /\ Valid(e.content, e.view, e.actor, TRUE)
      BY <2>5, <2>7, <3>4
    <3> QED BY <3>1, <3>2, <3>3, <3>5 DEF EntryIsValid
  <2> QED BY <2>10, ChangesAreRemembered, ValidityStays
<1>3. ASSUME NEW p \in Writers, Post(p) PROVE EntryIsValid(log'[i], changed')
  <2>1. CASE log' = log
    BY <1>1, <2>1
  <2>2. CASE log' = Append(log, Posted(p)) /\ log' # log
    <3>1. log \in Seq(Entries)
      BY DEF Typed
    <3>2. CASE i = Len(log) + 1
      <4>1. log'[i] = Posted(p)
        BY <2>2, <3>1, <3>2
      <4>2. EntryIsValid(log'[i], changed')
        BY <1>2, <1>3, <2>2, <4>1
      <4> QED BY <4>2, ChangesAreRemembered, ValidityStays DEF EntryIsValid, Valid, MentionedTwice
    <3>3. CASE i # Len(log) + 1
      <4>1. i \in DOMAIN log /\ log'[i] = log[i]
        BY <2>2, <3>1, <3>3
      <4> QED BY <1>1, <4>1
    <3> QED BY <3>2, <3>3
  <2> QED BY <1>3, <2>1, <2>2, PostEffect
<1>4. CASE UNCHANGED log
  BY <1>1, <1>4
<1> QED BY <1>3, <1>4 DEF Next, Poll, ReadPage, NextRecord, HandlerReturns, HandlerThrows, Publish,
                          World, RoleChanges, MembershipChanges, Suspends, KeysRotate, Change

-----------------------------------------------------------------------------
(* Who acts on it.                                                         *)

LEMMA AddressedIsDirected ==
    ASSUME NEW c \in Contents, NEW p, Addresses(c, p)
    PROVE  DirectMentions(c, p) # {} \/ AssignedSteps(c, p) # {}
<1>1. ASSUME NEW i \in DOMAIN c.mentions,
             c.mentions[i] = [peer |-> p, handle |-> p, intent |-> "direct"]
      PROVE  i \in DirectMentions(c, p)
  BY <1>1 DEF DirectMentions
<1>2. ASSUME NEW i \in DOMAIN c.steps, c.steps[i].executing, p \in c.steps[i].assigned
      PROVE  i \in AssignedSteps(c, p)
  BY <1>2 DEF AssignedSteps
<1> QED BY <1>1, <1>2 DEF Addresses

\* In valid routing a mention has its target's name.
LEMMA DirectedIsAddressed ==
    ASSUME NEW c \in Contents, NEW view, NEW actor, NEW p, NEW allow, Valid(c, view, actor, allow),
           DirectMentions(c, p) # {} \/ AssignedSteps(c, p) # {}
    PROVE  Addresses(c, p)
<1>1. ASSUME NEW i \in DirectMentions(c, p) PROVE Addresses(c, p)
  <2>1. i \in DOMAIN c.mentions /\ c.mentions[i].peer = p /\ c.mentions[i].intent = "direct"
    BY DEF DirectMentions
  <2>2. c.mentions[i].handle = p
    BY <2>1 DEF Valid
  <2>3. c.mentions[i] \in [peer : Peers, handle : Peers, intent : Intents]
    BY <2>1, RoutingAssumption
  <2>4. c.mentions[i] = [peer |-> p, handle |-> p, intent |-> "direct"]
    BY <2>1, <2>2, <2>3
  <2> QED BY <2>1, <2>4 DEF Addresses
<1>2. ASSUME NEW i \in AssignedSteps(c, p) PROVE Addresses(c, p)
  BY DEF AssignedSteps, Addresses
<1> QED BY <1>1, <1>2

\* What is owed to a reader is not put aside, not passed over, and does not fail.
LEMMA OwedIsTaken ==
    ASSUME RoutingInv, NEW r \in Readers, NextRecord(r), Owes(log[cursor[r] + 1], r, changed)
    PROVE  UNCHANGED cursor
<1> DEFINE e == log[cursor[r] + 1]
<1>1. poll[r].at = "page"
  BY DEF NextRecord
<1>2. cursor[r] + 1 \in DOMAIN log /\ e \in Entries /\ e.content \in Contents
  BY <1>1, PassedEffect, EntryTypes DEF RoutingInv
<1>3. EntryIsValid(e, changed)
  BY <1>2 DEF RoutingInv, LogIsValid
<1>4. e.actor \notin Unchecked /\ r \in DOMAIN e.view /\ r \notin changed /\ r # e.actor
      /\ Addresses(e.content, r)
  BY DEF Owes
<1> HIDE DEF e
<1>5. e.hashed /\ Valid(e.content, e.view, e.actor, TRUE) /\ r \in DOMAIN e.wraps
      /\ e.view[r].role = "contributor" /\ r \in Members /\ e.wraps[r] = 0
  BY <1>3, <1>4 DEF EntryIsValid
<1>6. r \in Peers /\ key[r] = 0 /\ role[r] = "contributor"
  BY <1>4, <1>5, RoutingAssumption DEF RoutingInv, Unchanged
<1>7. ~AuditOnly(e) /\ Decrypts(e, r)
  BY <1>5, <1>6 DEF AuditOnly, Decrypts
<1>8. poll[r].role = "contributor"
  BY <1>1, <1>4, <1>6 DEF RoutingInv, PollIsAhead
<1>9. RoutedAs(e, r) # "observer"
  BY <1>5, <1>8 DEF RoutedAs
<1>10. DirectedTo(e.content, r, e.actor, RoutedAs(e, r))
  BY <1>2, <1>4, <1>9, AddressedIsDirected DEF DirectedTo
<1> QED BY <1>7, <1>10 DEF NextRecord, e

LEMMA PassStep == RoutingInv /\ Next => NothingPassed'
<1> SUFFICES ASSUME RoutingInv, Next, NEW q \in Readers, NEW i \in DOMAIN log',
                    Owes(log'[i], q, changed'), i <= cursor'[q]
             PROVE  i \in handled'[q]
  BY DEF NothingPassed
<1>0. /\ log \in Seq(Entries) /\ cursor[q] \in Nat /\ cursor[q] <= Len(log)
      /\ i \in DOMAIN log /\ log[i] = log'[i] => Owes(log[i], q, changed)
      /\ i \in DOMAIN log /\ Owes(log[i], q, changed) /\ i <= cursor[q] => i \in handled[q]
  BY ChangesAreRemembered DEF RoutingInv, Typed, PollIsAhead, NothingPassed, Owes
<1>1. CASE UNCHANGED <<log, cursor, handled>>
  BY <1>0, <1>1
<1>2. ASSUME NEW p \in Writers, Post(p) PROVE i \in handled'[q]
  <2>1. UNCHANGED <<cursor, handled>> /\ (log' = log \/ log' = Append(log, Posted(p)))
    BY <1>2, PostEffect DEF RoutingInv, reading
  <2>2. i \in DOMAIN log /\ log[i] = log'[i]
    BY <1>0, <2>1
  <2> QED BY <1>0, <2>1, <2>2
<1>3. ASSUME NextRecord(q) PROVE i \in handled'[q]
  <2>1. UNCHANGED <<log, handled>> /\ poll[q].at # "idle"
    BY <1>3 DEF NextRecord
  <2>2. CASE i = cursor[q] + 1
    <3>1. cursor' = cursor
      BY <1>0, <1>3, <2>1, <2>2, OwedIsTaken
    <3> QED BY <1>0, <2>1, <2>2, <3>1
  <2>3. CASE i # cursor[q] + 1
    <3>1. cursor'[q] \in {cursor[q], cursor[q] + 1}
      BY <1>3, <2>1, PassedEffect DEF NextRecord, RoutingInv
    <3>2. i <= cursor[q]
      BY <1>0, <2>1, <2>3, <3>1
    <3> QED BY <1>0, <2>1, <3>2
  <2> QED BY <2>2, <2>3
<1>4. ASSUME HandlerReturns(q) PROVE i \in handled'[q]
  <2>1. UNCHANGED log /\ poll[q].at # "idle" /\ handled' = [handled EXCEPT ![q] = @ \cup {cursor[q] + 1}]
    BY <1>4 DEF HandlerReturns
  <2>2. cursor'[q] = cursor[q] + 1 /\ handled'[q] = handled[q] \cup {cursor[q] + 1}
    BY <1>4, <2>1, PassedEffect DEF HandlerReturns, RoutingInv, Typed
  <2> QED BY <1>0, <2>1, <2>2
<1>5. ASSUME NEW r \in Readers, r # q, Poll(r)
      PROVE  log' = log /\ cursor'[q] = cursor[q] /\ handled'[q] = handled[q]
  <2>1. CASE ReadPage(r)
    BY <1>5, <2>1 DEF ReadPage
  <2>2. CASE NextRecord(r)
    BY <1>5, <2>2, PassedEffect DEF NextRecord, RoutingInv
  <2>3. CASE HandlerReturns(r)
    BY <1>5, <2>3, PassedEffect DEF HandlerReturns, RoutingInv, Typed
  <2> QED BY <1>5, <2>1, <2>2, <2>3 DEF Poll
<1>6. CASE \E r \in Readers : Poll(r)
  <2>1. CASE \E r \in Readers : r # q /\ Poll(r)
    BY <1>0, <1>5, <2>1
  <2>2. CASE ReadPage(q)
    BY <1>1, <2>2 DEF ReadPage
  <2> QED BY <1>3, <1>4, <1>6, <2>1, <2>2 DEF Poll
<1>7. CASE \E r \in Readers : HandlerThrows(r)
  BY <1>1, <1>7 DEF HandlerThrows
<1>8. CASE \E p \in Peers : World(p)
  BY <1>1, <1>8 DEF World, RoleChanges, MembershipChanges, Suspends, KeysRotate, Change, reading
<1>9. CASE \E p \in Writers, c \in Contents : Publish(p, c)
  BY <1>1, <1>9 DEF Publish, reading
<1> QED BY <1>2, <1>6, <1>7, <1>8, <1>9 DEF Next

LEMMA RoutingStep == RoutingInv /\ [Next]_vars => RoutingInv'
<1> SUFFICES ASSUME RoutingInv, [Next]_vars PROVE RoutingInv'
  OBVIOUS
<1>1. CASE Next
  BY <1>1, TypedStep, PollStep, UnchangedStep, DraftStep, LogStep, PassStep DEF RoutingInv
<1>2. CASE UNCHANGED vars
  BY <1>2 DEF vars, relay, reading, history, RoutingInv, Typed, PollIsAhead, Unchanged, DraftIsValid, LogIsValid,
              NothingPassed, MembersNow
<1> QED BY <1>1, <1>2

LEMMA RoutingAlways == Spec => []RoutingInv
BY RoutingInit, RoutingStep, PTL DEF Spec

LEMMA TypesOfRouting == RoutingInv => TypeOK
<1> SUFFICES ASSUME RoutingInv PROVE TypeOK
  OBVIOUS
<1>1. ASSUME NEW i \in DOMAIN log PROVE log[i] \in Entries /\ log[i].actor \in DOMAIN log[i].view
  <2>1. log \in Seq(Entries) /\ EntryIsValid(log[i], changed)
    BY DEF RoutingInv, Typed, LogIsValid
  <2> QED BY <2>1 DEF EntryIsValid
<1>2. \A i \in DOMAIN log : log[i].content \in Contents /\ DOMAIN log[i].view \subseteq Peers
  BY <1>1, EntryTypes
<1>3. \A r \in Readers : poll[r] \in Polls /\ cursor[r] \in 0 .. Len(log) /\ poll[r].upto <= Len(log)
                         /\ (poll[r].at # "idle" => cursor[r] < poll[r].upto) /\ handled[r] \subseteq 1 .. cursor[r]
  BY DEF RoutingInv, Typed, PollIsAhead
<1>4. bounds.change <= MaxChanges /\ bounds.throw <= MaxThrows
  BY RoutingAssumption DEF RoutingInv, Typed
<1> QED BY <1>1, <1>2, <1>3, <1>4 DEF TypeOK, RoutingInv, Typed, DraftIsValid, Polls

\* An agent starts to work only on what another peer addressed to it, and with
\* authority at the event's time and since it last asked (decryptEvent,
\* resolveWorkroomRouting, exactEventMembershipSnapshot).
THEOREM WorkHasAuthority == Spec => WorkIsAuthorised
<1>1. RoutingInv /\ [Next]_vars =>
        [\A r \in Readers : Starts(r) =>
          LET e == log[cursor[r] + 1]
          IN  /\ e.actor # r /\ Addresses(e.content, r)
              /\ r \in DOMAIN e.view /\ e.view[r].role = "contributor" /\ r \in fit]_vars
  <2> SUFFICES ASSUME RoutingInv, Next, NEW r \in Readers, Starts(r)
               PROVE  LET e == log[cursor[r] + 1]
                      IN  /\ e.actor # r /\ Addresses(e.content, r)
                          /\ r \in DOMAIN e.view /\ e.view[r].role = "contributor" /\ r \in fit
    OBVIOUS
  <2> DEFINE e == log[cursor[r] + 1]
  <2>1. NextRecord(r)
    <3>1. ASSUME NEW q \in Readers, Poll(q) \/ HandlerThrows(q), q # r PROVE poll'[r] = poll[r]
      <4>1. CASE ReadPage(q)
        BY <3>1, <4>1 DEF ReadPage, RoutingInv, Typed
      <4>2. CASE NextRecord(q)
        BY <3>1, <4>2, PassedEffect DEF NextRecord, RoutingInv, Typed
      <4>3. CASE HandlerReturns(q)
        BY <3>1, <4>3, PassedEffect DEF HandlerReturns, RoutingInv
      <4>4. CASE HandlerThrows(q)
        BY <3>1, <4>4, PassedEffect DEF HandlerThrows, RoutingInv, Typed
      <4> QED BY <3>1, <4>1, <4>2, <4>3, <4>4 DEF Poll
    <3>2. ASSUME ReadPage(r) \/ HandlerReturns(r) \/ HandlerThrows(r) PROVE poll'[r].at # "handling"
      <4>1. CASE ReadPage(r)
        BY <4>1 DEF ReadPage, RoutingInv, Typed
      <4>2. CASE HandlerReturns(r)
        BY <4>2, PassedRests DEF HandlerReturns, RoutingInv
      <4>3. CASE HandlerThrows(r)
        BY <4>3 DEF HandlerThrows, RoutingInv, Typed, NoPoll
      <4> QED BY <3>2, <4>1, <4>2, <4>3
    <3>3. ~UNCHANGED poll
      BY DEF Starts
    <3> QED BY <3>1, <3>2, <3>3 DEF Starts, Next, Poll, Post, Publish, World, RoleChanges, MembershipChanges,
                                    Suspends, KeysRotate, Change, reading
  <2>2. poll[r].at = "page" /\ poll[r].role \in Roles /\ (poll[r].role = "contributor" => r \in fit)
    BY <2>1 DEF NextRecord, RoutingInv, PollIsAhead
  <2>3. cursor[r] + 1 \in DOMAIN log /\ e \in Entries
    BY <2>2, PassedEffect DEF RoutingInv
  <2>4. EntryIsValid(e, changed)
    BY <2>3 DEF RoutingInv, LogIsValid
  <2>5. /\ ~AuditOnly(e) => Decrypts(e, r) /\ DirectedTo(e.content, r, e.actor, RoutedAs(e, r))
        /\ ~AuditOnly(e)
    <3>1. ASSUME Passes(r) \/ Fails(r) PROVE poll'[r].at # "handling"
      BY <2>2, <3>1, PassedRests DEF RoutingInv
    <3> QED BY <2>1, <3>1 DEF NextRecord, Starts
  <2> HIDE DEF e
  <2>6. e.actor # r /\ RoutedAs(e, r) # "observer" /\ r \in DOMAIN e.view
    BY <2>4, <2>5 DEF DirectedTo, Decrypts, EntryIsValid
  <2>7. poll[r].role = "contributor" /\ e.view[r].role = "contributor"
    BY <2>2, <2>3, <2>6, EntryTypes DEF RoutedAs, Roles
  <2>8. Addresses(e.content, r)
    BY <2>3, <2>5, EntryTypes, DirectedIsAddressed DEF DirectedTo, Decrypts
  <2> QED BY <2>2, <2>6, <2>7, <2>8 DEF e
<1> QED BY <1>1, RoutingAlways, PTL DEF Spec, WorkIsAuthorised

\* What the SDK published is readable for whom it was published for, and is not
\* passed over by an agent that nobody changed (publish, get, decryptEvent, poll).
THEOREM AcceptedIsReached == Spec => []AcceptedReachesMembers
<1>1. RoutingInv => AcceptedReachesMembers
  <2> SUFFICES ASSUME RoutingInv, NEW i \in DOMAIN log, log[i].actor \notin Unchecked
               PROVE  /\ \A r \in DOMAIN log[i].view \ Rotates : Decrypts(log[i], r) /\ ~Contradicts(log[i])
                      /\ \A r \in (Readers \cap DOMAIN log[i].view) \ (changed \cup {log[i].actor}) :
                            Addresses(log[i].content, r) /\ i <= cursor[r] => i \in handled[r]
    BY TypesOfRouting DEF AcceptedReachesMembers
  <2>1. log[i] \in Entries /\ EntryIsValid(log[i], changed)
    BY DEF RoutingInv, Typed, LogIsValid
  <2>2. ASSUME NEW r \in DOMAIN log[i].view \ Rotates PROVE Decrypts(log[i], r) /\ ~Contradicts(log[i])
    <3>1. r \in Peers
      BY <2>1, EntryTypes
    <3>2. key[r] = 0
      BY <3>1 DEF RoutingInv, Unchanged
    <3> QED BY <2>1, <3>2 DEF EntryIsValid, Decrypts, Contradicts
  <2>3. ASSUME NEW r \in (Readers \cap DOMAIN log[i].view) \ (changed \cup {log[i].actor}),
               Addresses(log[i].content, r), i <= cursor[r]
        PROVE  i \in handled[r]
    BY <2>3 DEF RoutingInv, NothingPassed, Owes
  <2> QED BY <2>2, <2>3
<1> QED BY <1>1, RoutingAlways, PTL

-----------------------------------------------------------------------------
(* The channel.                                                            *)

Worked(t, e, part) == Done(t, e, part) \/ Refused(t, e, part)

\* The turn is at an event that is not committed, and the parts before its own are worked.
TurnInOrder ==
    /\ turn.at \in {"polling", "acting", "committing"} => turn.task \in 1 .. Tasks
    /\ turn.at \in {"acting", "committing"} => committed[turn.task] < Events
    /\ turn.at = "acting" => turn.part \in Parts(turn.task, committed[turn.task] + 1)
    /\ turn.at = "acting" =>
         \A part \in Parts(turn.task, committed[turn.task] + 1) :
             part < turn.part => Worked(turn.task, committed[turn.task] + 1, part)
    /\ turn.at = "committing" =>
         \A part \in Parts(turn.task, committed[turn.task] + 1) : Worked(turn.task, committed[turn.task] + 1, part)

CommittedIsWorked ==
    \A t \in 1 .. Tasks : \A e \in 1 .. Events : \A part \in Parts(t, e) :
        e <= committed[t] => Worked(t, e, part)

DoneInOrder ==
    \A t \in 1 .. Tasks : \A e \in 1 .. Events : \A part \in Parts(t, e) :
        Done(t, e, part) =>
            /\ e <= committed[t] + 1
            /\ \A earlier \in Parts(t, e) : earlier < part => Worked(t, e, earlier)

WorkInv == ChannelTypeOK /\ TurnInOrder /\ CommittedIsWorked /\ DoneInOrder

-----------------------------------------------------------------------------

LEMMA Counts ==
    /\ Tasks \in Nat /\ Tasks >= 1 /\ ListSize \in Nat /\ ListSize >= 1
    /\ Events \in Nat /\ Events >= 1 /\ Blocks \in Nat /\ Blocks >= 1 /\ MaxFaults \in Nat
  BY ChannelAssumption

\* An operation that is logged joins the others.
LEMMA LogGrows ==
    ASSUME effects \in Seq(Operations), IsInjective(effects), NEW op \in Operations, op \notin Range(effects)
    PROVE  /\ Append(effects, op) \in Seq(Operations) /\ IsInjective(Append(effects, op))
           /\ Range(Append(effects, op)) = Range(effects) \cup {op}
  <1>1. /\ Append(effects, op) \in Seq(Operations) /\ Len(Append(effects, op)) = Len(effects) + 1
        /\ Append(effects, op)[Len(effects) + 1] = op
        /\ \A i \in 1 .. Len(effects) : Append(effects, op)[i] = effects[i]
    BY AppendProperties
  <1>2. /\ Len(effects) \in Nat /\ DOMAIN effects = 1 .. Len(effects)
        /\ DOMAIN Append(effects, op) = 1 .. Len(effects) + 1
    BY <1>1, LenProperties
  <1>3. 1 .. Len(effects) + 1 = (1 .. Len(effects)) \cup {Len(effects) + 1}
    BY <1>2
  <1>4. Range(Append(effects, op)) = Range(effects) \cup {op}
    BY <1>1, <1>2, <1>3 DEF Range
  <1>5. \A i \in 1 .. Len(effects) : effects[i] # op
    BY <1>2 DEF Range
  <1>6. IsInjective(Append(effects, op))
    BY <1>1, <1>2, <1>3, <1>5 DEF IsInjective
  <1> QED
    BY <1>1, <1>4, <1>6

\* The log and the refusals only grow, so what is worked stays so.
LEMMA WorkStays ==
    ASSUME Range(effects) \subseteq Range(effects'), denied \subseteq denied',
           NEW t, NEW e, NEW part, Worked(t, e, part)
    PROVE  Worked(t, e, part)'
  BY DEF Worked, Done, Refused, IsPart

\* A step that leaves log, refusals and cursors alone only has to answer for its turn.
LEMMA TurnMoves ==
    ASSUME WorkInv, ChannelTypeOK', TurnInOrder', UNCHANGED <<committed, effects, denied>>
    PROVE  WorkInv'
  BY DEF WorkInv, CommittedIsWorked, DoneInOrder, Worked, Done, Refused, IsPart, Parts

LEMMA InitWork == ChannelInit => WorkInv
  <1> SUFFICES ASSUME ChannelInit PROVE WorkInv
    OBVIOUS
  <1>1. effects = <<>> /\ effects \in Seq(Operations) /\ IsInjective(effects) /\ Range(effects) = {}
    BY EmptySeq DEF ChannelInit, IsInjective, Range
  <1>2. ChannelTypeOK
    BY <1>1, Counts DEF ChannelInit, ChannelTypeOK, Idle
  <1>3. TurnInOrder
    BY DEF ChannelInit, Idle, TurnInOrder
  <1>4. CommittedIsWorked /\ DoneInOrder
    BY <1>1, Counts DEF ChannelInit, CommittedIsWorked, DoneInOrder, Done
  <1> QED
    BY <1>2, <1>3, <1>4 DEF WorkInv

\* The sweep ends, whatever it was at: nothing is in progress.
LEMMA IdleIsInOrder == turn' = Idle => TurnInOrder'
  BY DEF Idle, TurnInOrder

LEMMA IdleIsTyped ==
    Idle \in [at : {"waiting", "listing", "polling", "acting", "committing"},
              task : 1 .. Tasks + 1, part : 0 .. Blocks + 1]
  BY Counts DEF Idle

-----------------------------------------------------------------------------
\* The sweep.

LEMMA SweepWork == ASSUME WorkInv, Sweep \/ List \/ SweepFails PROVE WorkInv'
  <1>1. ChannelTypeOK'
    <2>1. /\ turn' \in [at : {"waiting", "listing", "polling", "acting", "committing"},
                        task : 1 .. Tasks + 1, part : 0 .. Blocks + 1]
          /\ faults' \in 0 .. MaxFaults
      <3>1. CASE Sweep
        BY <3>1, IdleIsTyped DEF WorkInv, ChannelTypeOK, Sweep
      <3>2. CASE List
        BY <3>2, IdleIsTyped DEF WorkInv, ChannelTypeOK, List
      <3>3. CASE SweepFails
        BY <3>3, IdleIsTyped, Counts DEF WorkInv, ChannelTypeOK, SweepFails, Throws, Fault
      <3> QED
        BY <3>1, <3>2, <3>3
    <2> QED
      BY <2>1 DEF WorkInv, ChannelTypeOK, Sweep, List, SweepFails
  <1>2. TurnInOrder'
    <2>1. CASE Sweep
      BY <2>1 DEF Sweep, Idle, TurnInOrder
    <2>2. CASE List
      BY <2>2, IdleIsInOrder, Counts DEF List, TurnInOrder, WorkInv, ChannelTypeOK
    <2>3. CASE SweepFails
      BY <2>3, IdleIsInOrder DEF SweepFails, Throws
    <2> QED
      BY <2>1, <2>2, <2>3
  <1> QED
    BY <1>1, <1>2, TurnMoves DEF Sweep, List, SweepFails

LEMMA AfterIsInOrder ==
    ASSUME NEW t \in 1 .. Tasks, turn' = After(t)
    PROVE  /\ turn' \in [at : {"waiting", "listing", "polling", "acting", "committing"},
                         task : 1 .. Tasks + 1, part : 0 .. Blocks + 1]
           /\ TurnInOrder'
  <1>1. turn'.task = t + 1 /\ turn'.part = 0 /\ turn'.at \in {"listing", "polling"}
        /\ turn' = [at |-> turn'.at, task |-> t + 1, part |-> 0]
    BY DEF After, Idle
  <1>2. turn'.at = "polling" => t # Tasks
    BY DEF After, Idle
  <1> QED
    BY <1>1, <1>2, Counts DEF TurnInOrder

LEMMA PollWork == ASSUME WorkInv, PollTask PROVE WorkInv'
  <1>1. turn.at = "polling" /\ turn.task \in 1 .. Tasks /\ committed[turn.task] \in 0 .. Events
        /\ UNCHANGED <<committed, effects, consent, revoked, denied, mail, faults>>
    BY DEF PollTask, WorkInv, TurnInOrder, ChannelTypeOK
  <1>2. /\ turn' \in [at : {"waiting", "listing", "polling", "acting", "committing"},
                      task : 1 .. Tasks + 1, part : 0 .. Blocks + 1]
        /\ TurnInOrder'
    <2>1. CASE committed[turn.task] = Events
      BY <1>1, <2>1, AfterIsInOrder DEF PollTask
    <2>2. CASE committed[turn.task] # Events /\ Here \in Silent
      <3>1. turn' = [turn EXCEPT !.at = "committing"]
        BY <2>2 DEF PollTask
      <3>2. Parts(turn.task, committed[turn.task] + 1) = {}
        BY <2>2 DEF Here, Parts
      <3>3. /\ turn'.at = "committing" /\ turn'.task = turn.task
            /\ turn' \in [at : {"waiting", "listing", "polling", "acting", "committing"},
                          task : 1 .. Tasks + 1, part : 0 .. Blocks + 1]
        BY <3>1 DEF WorkInv, ChannelTypeOK
      <3> QED
        BY <1>1, <2>2, <3>2, <3>3, Counts DEF TurnInOrder
    <2>3. CASE committed[turn.task] # Events /\ Here \notin Silent
      <3> DEFINE first == IF Here \in Files THEN 0 ELSE 1
      <3>1. turn' = [turn EXCEPT !.at = "acting", !.part = first]
        BY <2>3 DEF PollTask
      <3>2. first \in Parts(turn.task, committed[turn.task] + 1)
        BY <2>3, Counts DEF Here, Parts
      <3>3. \A part \in Parts(turn.task, committed[turn.task] + 1) : part \in Nat /\ (part = 0 => first = 0)
        BY <2>3, Counts DEF Here, Parts
      <3>0. first \in {0, 1}
        OBVIOUS
      <3> HIDE DEF first
      <3>4. first \in 0 .. Blocks + 1
        BY <3>0, Counts
      <3>5. /\ turn'.at = "acting" /\ turn'.task = turn.task /\ turn'.part = first
            /\ turn' \in [at : {"waiting", "listing", "polling", "acting", "committing"},
                          task : 1 .. Tasks + 1, part : 0 .. Blocks + 1]
        BY <3>1, <3>4 DEF WorkInv, ChannelTypeOK
      <3>6. \A part \in Parts(turn.task, committed[turn.task] + 1) : ~(part < first)
        BY <3>0, <3>3
      <3> QED
        BY <1>1, <2>3, <3>2, <3>5, <3>6, Counts DEF TurnInOrder
    <2> QED
      BY <2>1, <2>2, <2>3
  <1>3. ChannelTypeOK'
    BY <1>1, <1>2 DEF WorkInv, ChannelTypeOK
  <1> QED
    BY <1>1, <1>2, <1>3, TurnMoves

LEMMA CommitWork == ASSUME WorkInv, Commit PROVE WorkInv'
  <1> DEFINE t == turn.task
  <1>1. /\ turn.at = "committing" /\ t \in 1 .. Tasks /\ committed[t] \in 0 .. Events /\ committed[t] < Events
        /\ committed' = [committed EXCEPT ![t] = @ + 1] /\ turn' = [turn EXCEPT !.at = "polling"]
        /\ UNCHANGED <<effects, consent, revoked, denied, mail, faults>>
    BY DEF Commit, WorkInv, TurnInOrder, ChannelTypeOK
  <1>2. \A part \in Parts(t, committed[t] + 1) : Worked(t, committed[t] + 1, part)
    BY <1>1 DEF WorkInv, TurnInOrder
  <1>3. /\ committed' \in [1 .. Tasks -> 0 .. Events] /\ committed'[t] = committed[t] + 1
        /\ \A u \in 1 .. Tasks : u # t => committed'[u] = committed[u]
    BY <1>1, Counts DEF WorkInv, ChannelTypeOK
  <1>4. ChannelTypeOK'
    BY <1>1, <1>3 DEF WorkInv, ChannelTypeOK
  <1>5. TurnInOrder'
    BY <1>1 DEF WorkInv, ChannelTypeOK, TurnInOrder
  <1>6. CommittedIsWorked'
    <2> SUFFICES ASSUME NEW u \in 1 .. Tasks, NEW e \in 1 .. Events, NEW part \in Parts(u, e), e <= committed'[u]
                 PROVE  Worked(u, e, part)'
      BY DEF CommittedIsWorked, Parts
    <2>1. Worked(u, e, part)
      <3>1. CASE u = t /\ e = committed[t] + 1
        BY <1>2, <3>1
      <3>2. CASE ~(u = t /\ e = committed[t] + 1)
        BY <1>1, <1>3, <3>2, Counts DEF WorkInv, CommittedIsWorked
      <3> QED
        BY <3>1, <3>2
    <2> QED
      BY <1>1, <2>1, WorkStays
  <1>7. DoneInOrder'
    <2> SUFFICES ASSUME NEW u \in 1 .. Tasks, NEW e \in 1 .. Events, NEW part \in Parts(u, e), Done(u, e, part)'
                 PROVE  /\ e <= committed'[u] + 1
                        /\ \A earlier \in Parts(u, e) : earlier < part => Worked(u, e, earlier)'
      BY DEF DoneInOrder, Parts
    <2>1. Done(u, e, part)
      BY <1>1 DEF Done, IsPart
    <2>2. e <= committed[u] + 1 /\ \A earlier \in Parts(u, e) : earlier < part => Worked(u, e, earlier)
      BY <2>1 DEF WorkInv, DoneInOrder
    <2>3. committed[u] \in Nat /\ committed'[u] \in Nat /\ committed[u] <= committed'[u]
      <3>1. committed[u] \in 0 .. Events /\ committed'[u] \in 0 .. Events
        BY <1>3 DEF WorkInv, ChannelTypeOK
      <3>2. committed'[u] = committed[u] \/ u = t
        BY <1>3
      <3> QED
        BY <1>1, <1>3, <3>1, <3>2, Counts
    <2> QED
      BY <1>1, <2>2, <2>3, WorkStays
  <1> QED
    BY <1>4, <1>5, <1>6, <1>7 DEF WorkInv

-----------------------------------------------------------------------------
\* The turn.  An operation that has taken effect, or was refused, is worked.

\* What is worked now was worked before, or is the part p the turn is at.
LEMMA ActWork ==
    ASSUME WorkInv, ChannelTypeOK', turn.at = "acting",
           NEW t \in 1 .. Tasks, NEW e \in 1 .. Events, NEW p \in Parts(t, e),
           t = turn.task, e = committed[t] + 1, p = turn.part,
           NEW op \in Operations, IsPart(op, t, e, p),
           Range(effects') \in {Range(effects), Range(effects) \cup {op}}, denied \subseteq denied',
           \/ turn' = Idle
           \/ GoesOn /\ (op \in Range(effects') \/ op \in denied'),
           UNCHANGED committed
    PROVE  WorkInv'
  <1>1. /\ committed[t] \in Nat /\ committed[t] < Events /\ p \in 0 .. Blocks
        /\ \A part \in Parts(t, e) : part < p => Worked(t, e, part)
    <2>1. committed \in [1 .. Tasks -> 0 .. Events]
      BY DEF WorkInv, ChannelTypeOK
    <2>2. committed[t] < Events /\ \A part \in Parts(t, e) : part < p => Worked(t, e, part)
      BY DEF WorkInv, TurnInOrder
    <2>3. p \in 0 .. Blocks
      BY DEF Parts
    <2> QED
      BY <2>1, <2>2, <2>3, Counts
  <1>2. Range(effects) \subseteq Range(effects')
    OBVIOUS
  <1>3. \A part \in Parts(t, e) : part < p => Worked(t, e, part)'
    BY <1>1, <1>2, WorkStays
  <1>4. CommittedIsWorked'
    <2> SUFFICES ASSUME NEW u \in 1 .. Tasks, NEW d \in 1 .. Events, NEW part \in Parts(u, d), d <= committed[u]
                 PROVE  Worked(u, d, part)'
      BY DEF CommittedIsWorked, Parts
    <2>1. Worked(u, d, part)
      BY DEF WorkInv, CommittedIsWorked
    <2> QED
      BY <1>2, <2>1, WorkStays
  <1>5. DoneInOrder'
    <2> SUFFICES ASSUME NEW u \in 1 .. Tasks, NEW d \in 1 .. Events, NEW part \in Parts(u, d), Done(u, d, part)'
                 PROVE  /\ d <= committed[u] + 1
                        /\ \A earlier \in Parts(u, d) : earlier < part => Worked(u, d, earlier)'
      BY DEF DoneInOrder, Parts
    <2>1. CASE Done(u, d, part)
      <3>1. d <= committed[u] + 1 /\ \A earlier \in Parts(u, d) : earlier < part => Worked(u, d, earlier)
        BY <2>1 DEF WorkInv, DoneInOrder
      <3> QED
        BY <1>2, <3>1, WorkStays
    <2>2. CASE ~Done(u, d, part)
      <3>1. u = t /\ d = e /\ part = p
        BY <2>2 DEF Done, IsPart
      <3> QED
        BY <1>1, <1>3, <3>1
    <2> QED
      BY <2>1, <2>2
  <1>6. TurnInOrder'
    <2>1. CASE turn' = Idle
      BY <2>1, IdleIsInOrder
    <2>2. CASE GoesOn /\ (op \in Range(effects') \/ op \in denied')
      <3>1. Worked(t, e, p)'
        BY <2>2 DEF Worked, Done, Refused
      <3>2. \A part \in Parts(t, e) : part \in 0 .. Blocks
        BY DEF Parts
      <3>3. CASE p = Blocks
        <4>1. turn'.at = "committing" /\ turn'.task = t
          BY <2>2, <3>3 DEF GoesOn, WorkInv, ChannelTypeOK
        <4>2. \A part \in Parts(t, e) : Worked(t, e, part)'
          BY <1>3, <3>1, <3>2, <3>3, Counts
        <4> QED
          BY <1>1, <4>1, <4>2 DEF TurnInOrder
      <3>4. CASE p # Blocks
        <4>1. turn'.at = "acting" /\ turn'.task = t /\ turn'.part = p + 1
          BY <2>2, <3>4 DEF GoesOn, WorkInv, ChannelTypeOK
        <4>2. p + 1 \in Parts(t, e)
          BY <1>1, <3>4, Counts DEF Parts
        <4>3. \A part \in Parts(t, e) : part < p + 1 => Worked(t, e, part)'
          BY <1>1, <1>3, <3>1, <3>2, Counts
        <4> QED
          BY <1>1, <4>1, <4>2, <4>3 DEF TurnInOrder
      <3> QED
        BY <3>3, <3>4
    <2> QED
      BY <2>1, <2>2
  <1> QED
    BY <1>4, <1>5, <1>6 DEF WorkInv

\* The turn's next place has its type.
LEMMA GoesOnTyped ==
    ASSUME WorkInv, turn.at = "acting", GoesOn \/ turn' = Idle
    PROVE  turn' \in [at : {"waiting", "listing", "polling", "acting", "committing"},
                      task : 1 .. Tasks + 1, part : 0 .. Blocks + 1]
  <1>1. turn.part \in 0 .. Blocks
    BY DEF WorkInv, TurnInOrder, Parts
  <1>2. turn.part + 1 \in 0 .. Blocks + 1
    BY <1>1, Counts
  <1> QED
    BY <1>2, IdleIsTyped DEF GoesOn, WorkInv, ChannelTypeOK

LEMMA TurnWork == ASSUME WorkInv, Act PROVE WorkInv'
  <1>1. turn.at = "acting" /\ UNCHANGED <<committed, revoked, mail>>
    BY DEF Act
  <1>2. /\ turn.task \in 1 .. Tasks /\ committed[turn.task] + 1 \in 1 .. Events
        /\ turn.part \in Parts(turn.task, committed[turn.task] + 1) /\ turn.part \in 0 .. Blocks
    BY <1>1, Counts DEF WorkInv, TurnInOrder, ChannelTypeOK, Parts
  <1>3. PICK t \in 1 .. Tasks, e \in 1 .. Events, p \in 0 .. Blocks :
             t = turn.task /\ e = committed[t] + 1 /\ p = turn.part /\ p \in Parts(t, e)
    BY <1>2
  <1>4. PICK op \in Operations : IsPart(op, t, e, p) /\ (Executes(op) \/ PassesOver(op) \/ AsksConsent(op))
    <2>1. PICK text \in Words : LET o == Operation(text) IN Executes(o) \/ PassesOver(o) \/ AsksConsent(o)
      BY DEF Act
    <2>2. Operation(text) \in Operations /\ IsPart(Operation(text), t, e, p)
      BY <1>3 DEF Operation, Operations, IsPart
    <2> QED
      BY <2>1, <2>2
  <1>5. CASE Executes(op)
    <2>1. CASE Conflicts(op)
      <3>1. turn' = Idle /\ UNCHANGED <<effects, faults, consent, denied>>
        BY <1>5, <2>1 DEF Executes, Throws
      <3>2. ChannelTypeOK'
        BY <1>1, <3>1, IdleIsTyped DEF WorkInv, ChannelTypeOK
      <3> QED
        BY <1>1, <1>3, <1>4, <3>1, <3>2, ActWork
    <2>2. CASE ~Conflicts(op)
      <3>1. /\ effects' = IF op \in Range(effects) THEN effects ELSE Append(effects, op)
            /\ UNCHANGED <<consent, denied>> /\ (GoesOn \/ turn' = Idle)
            /\ faults' \in 0 .. MaxFaults
        BY <1>5, <2>2, Counts DEF Executes, Throws, Fault, WorkInv, ChannelTypeOK
      <3>2. /\ effects' \in Seq(Operations) /\ IsInjective(effects') /\ op \in Range(effects')
            /\ Range(effects') \in {Range(effects), Range(effects) \cup {op}}
        BY <1>3, <3>1, LogGrows DEF WorkInv, ChannelTypeOK
      <3>3. ChannelTypeOK'
        BY <1>1, <3>1, <3>2, GoesOnTyped DEF WorkInv, ChannelTypeOK
      <3> QED
        BY <1>1, <1>3, <1>4, <3>1, <3>2, <3>3, ActWork
    <2> QED
      BY <2>1, <2>2
  <1>6. CASE PassesOver(op)
    <2>1. denied' = denied \cup {op} /\ GoesOn /\ UNCHANGED <<effects, consent, faults>>
      BY <1>6 DEF PassesOver
    <2>2. ChannelTypeOK'
      BY <1>1, <1>3, <2>1, GoesOnTyped DEF WorkInv, ChannelTypeOK
    <2> QED
      BY <1>1, <1>3, <1>4, <2>1, <2>2, ActWork
  <1>7. CASE AsksConsent(op)
    <2>1. turn' = Idle /\ UNCHANGED <<effects, denied, faults>>
          /\ consent' = [consent EXCEPT ![op] = IF @ = "none" THEN "pending" ELSE @]
      BY <1>7 DEF AsksConsent, Throws
    <2>2. ChannelTypeOK'
      BY <1>1, <1>3, <2>1, IdleIsTyped DEF WorkInv, ChannelTypeOK
    <2> QED
      BY <1>1, <1>3, <1>4, <2>1, <2>2, ActWork
  <1> QED
    BY <1>4, <1>5, <1>6, <1>7

-----------------------------------------------------------------------------
\* The owner, the direct messages and the process.

LEMMA OtherWork ==
    ASSUME WorkInv,
           \/ \E op \in Operations : Decide(op)
           \/ \E t \in 1 .. Tasks : Revoke(t)
           \/ \E m \in Direct : Begin(m) \/ Reply(m)
           \/ Crash
    PROVE  WorkInv'
  <1>1. UNCHANGED <<committed, effects, denied>> /\ (turn' = turn \/ turn' = Idle)
    BY DEF Decide, Revoke, Begin, Reply, Crash
  <1>2. TurnInOrder'
    <2>1. CASE turn' = turn
      BY <1>1, <2>1 DEF WorkInv, TurnInOrder, Worked, Done, Refused, IsPart, Parts
    <2>2. CASE turn' = Idle
      BY <2>2, IdleIsInOrder
    <2> QED
      BY <1>1, <2>1, <2>2
  <1>3. ChannelTypeOK'
    <2>1. ASSUME NEW op \in Operations, Decide(op) PROVE ChannelTypeOK'
      <3>1. faults' \in 0 .. MaxFaults
        BY <2>1, Counts DEF Decide, Fault, WorkInv, ChannelTypeOK
      <3> QED
        BY <2>1, <3>1 DEF Decide, WorkInv, ChannelTypeOK
    <2>2. ASSUME NEW t \in 1 .. Tasks, Revoke(t) PROVE ChannelTypeOK'
      BY <2>2, Counts DEF Revoke, Fault, WorkInv, ChannelTypeOK
    <2>3. ASSUME NEW m \in Direct, Begin(m) \/ Reply(m) PROVE ChannelTypeOK'
      <3>1. faults' \in 0 .. MaxFaults
        <4>1. CASE Begin(m)
          BY <4>1, Counts DEF Begin, Fault, WorkInv, ChannelTypeOK
        <4>2. CASE Reply(m)
          <5>1. faults \in 0 .. MaxFaults /\ (faults' = faults \/ (faults < MaxFaults /\ faults' = faults + 1))
            <6>1. faults \in 0 .. MaxFaults
              BY DEF WorkInv, ChannelTypeOK
            <6> QED
              BY <4>2, <6>1 DEF Reply, Fault
          <5> QED
            BY <5>1, Counts
        <4> QED
          BY <2>3, <4>1, <4>2
      <3>2. PICK n \in 0 .. Blocks + 1 : mail' = [mail EXCEPT ![m] = n]
        BY <2>3, Counts DEF Begin, Reply
      <3>3. mail' \in [Direct -> 0 .. Blocks + 1]
        BY <3>2 DEF WorkInv, ChannelTypeOK
      <3> QED
        BY <2>3, <3>1, <3>3 DEF Begin, Reply, WorkInv, ChannelTypeOK
    <2>4. CASE Crash
      <3>1. mail' \in [Direct -> 0 .. Blocks + 1]
        <4>1. Answered \in 0 .. Blocks + 1 /\ 0 \in 0 .. Blocks + 1
          BY Counts DEF Answered
        <4> QED
          BY <2>4, <4>1 DEF Crash
      <3>2. faults' \in 0 .. MaxFaults
        BY <2>4, Counts DEF Crash, Fault, WorkInv, ChannelTypeOK
      <3> QED
        BY <2>4, <3>1, <3>2, IdleIsTyped DEF Crash, WorkInv, ChannelTypeOK
    <2> QED
      BY <2>1, <2>2, <2>3, <2>4
  <1> QED
    BY <1>1, <1>2, <1>3, TurnMoves

LEMMA WorkStep == WorkInv /\ [ChannelNext]_channelVars => WorkInv'
  <1> SUFFICES ASSUME WorkInv, [ChannelNext]_channelVars PROVE WorkInv'
    OBVIOUS
  <1>1. CASE UNCHANGED channelVars
    <2>1. ChannelTypeOK'
      BY <1>1 DEF channelVars, WorkInv, ChannelTypeOK
    <2>2. TurnInOrder'
      BY <1>1 DEF channelVars, WorkInv, TurnInOrder, Worked, Done, Refused, IsPart, Parts
    <2> QED
      BY <1>1, <2>1, <2>2, TurnMoves DEF channelVars
  <1>2. CASE ChannelNext
    BY <1>2, SweepWork, PollWork, CommitWork, TurnWork, OtherWork DEF ChannelNext, Step
  <1> QED
    BY <1>1, <1>2

\* What the invariant says of what is done leaves no gap before it.
LEMMA WorkedIsAnswered == WorkInv => CommittedIsAnswered
  <1> SUFFICES ASSUME WorkInv,
                      NEW t \in 1 .. Tasks, NEW e \in 1 .. Events, NEW part \in Parts(t, e),
                      ~Done(t, e, part), ~Refused(t, e, part)
               PROVE  /\ committed[t] < e
                      /\ \A later \in e .. Events : \A p \in Parts(t, later) :
                           (later > e \/ p > part) => ~Done(t, later, p)
    BY DEF WorkInv, CommittedIsAnswered
  <1>1. ~Worked(t, e, part) /\ committed[t] \in Nat /\ e \in Nat
    BY Counts DEF Worked, WorkInv, ChannelTypeOK
  <1>2. committed[t] < e
    BY <1>1 DEF WorkInv, CommittedIsWorked
  <1>3. ASSUME NEW later \in e .. Events, NEW p \in Parts(t, later), later > e \/ p > part, Done(t, later, p)
        PROVE  FALSE
    <2>1. later \in 1 .. Events /\ later <= committed[t] + 1
          /\ \A earlier \in Parts(t, later) : earlier < p => Worked(t, later, earlier)
      BY <1>1, <1>3, Counts DEF WorkInv, DoneInOrder
    <2>2. later = e
      BY <1>1, <1>2, <2>1
    <2>3. part < p
      BY <1>1, <1>3, <2>2, Counts DEF Parts
    <2> QED
      BY <1>1, <2>1, <2>2, <2>3
  <1> QED
    BY <1>2, <1>3

(* The channel commits no event before each file of it was read and each block of its turn
   published, or refused by the permission, and answers events and blocks in their order,
   for any number of Tasks, failures, crashes, revocations and decisions (channel.ts:238). *)
THEOREM CommittedStaysAnswered == ChannelSpec => []CommittedIsAnswered
  BY InitWork, WorkStep, WorkedIsAnswered, PTL DEF ChannelSpec
=============================================================================
