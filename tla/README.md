# Verification of aTalk: messaging, sessions, Task events, mandates, files, the gateway, runtime updates

TLA+ models of the stateful parts of the aTalk developer repository (`src/`), TLC configurations that check them on
small instances, and TLAPS proofs about the direct messaging runtime, sessions and credentials, the polling and routing of Tasks,
mandates, files, the Runtime Manager, the gateway's inbox and webhook and the OpenClaw channel.

The system's servers (the relay and the control plane) are not in the repository. Wherever a model needs them it has
the least they must do for the code to work, taken from the frames and answers the code exchanges with them; such
definitions are marked external in `PROJECT.json`.

## 1. The system

An agent is a process that uses an SDK (`sdk/node`, a second implementation in `sdk/python`), directly or through an
adapter: the gateway (`integrations/gateway`: HTTP and CLI), the MCP server, the OpenClaw channel, the Hermes adapter.
The SDK keeps one WebSocket to the relay for direct messages and talks HTTP to the control plane for everything about
Tasks (*workrooms*). `core/protocol` and `core/rust` hold formats, cryptography and the evaluation of permissions and
mandates. One JSON file, the runtime state beside the credential file, is all that survives a restart; the gateway has
a second one for its inbox. The gateway can run under a supervisor, the Runtime Manager, which installs new versions of it.

| Component | State | Operations | Hard behaviours | What makes it correct |
|---|---|---|---|---|
| Direct messaging (`sdk/node/src/agent.ts`) | outbox, inbox and ledger in the runtime state; processing promises, drains, timers, what this connection has sent | `start`, `stop`, `send`, message handlers, `markRead`, frames MESSAGE / ACK_RECEIVED / RECEIPT, drains on connect | one event loop, many tasks interleaved at each `await`; crash at every await; frames lost, repeated, overtaken; saves that fail | nothing accepted is lost; nothing is acknowledged that was not handled; no second handling; the supervisor's copy comes first |
| Runtime state store (`runtime-state-store.ts`, `mutateRuntimeState`) | file and memory, the chain of mutations | clone, mutate, save (temporary file, rename), swap | a save may fail before or after its rename; memory lags the file | memory shows nothing that a restart would undo |
| Activation, credentials and session (`agent.ts` 251-511 and 1158-1278, `credential-store.ts`) | credential file with a pending refresh id, pending activation in the runtime state; the refresh in progress; reconnect timer | activate, refresh, recover a rejected session, reconnect | lost answer of an activation or a refresh that spent its code or token; concurrent refreshes; a second activation; `stop()` during any of them | no code or token is wasted, the identity keys stay, one connection, no loss looks like a revocation, the agent comes back |
| Task events (`workrooms.ts` 258-430, 862-879, 1311-1337) | cursor, ledger of processed events, table of failures, per Task | `poll`, `watch`, `listQuarantinedEvents`, `retryQuarantinedEvent` | overlapping polls (gateway, MCP), crash between handler and commit, transient failures, malformed records, pruning | no directed event is skipped, none is handled twice once committed, dead letters are listed, polling gets on |
| Task publishing and routing (`workrooms.ts` 389-440, 780-842, 1276-1376; `core/protocol/src/workrooms.ts` 461-528) | none at the client; members, roles, keys and epoch at the relay | `publish`, decryption and routing of an event | members come, go, change roles, keys or status between `get()`, acceptance, reading and the end of a handler; clients that check less | an agent works only on what is addressed to it and it may do; accepted events stay readable; no member holds up the others |
| Mandated execution (`workrooms.ts` 697-778, 991-1192) | usage counters and completed operations per mandate revision; the line of executions | `executeMandatedAction`, `publishMandated`, consent requests, receipts | overlapping calls, revocation while waiting, midnight, crash between effect and charge | limits, consent and receipts agree with what happened |
| Mandate evaluation (`core/protocol/src/mandates.ts`) | none | `evaluateMandateUse` | a dozen checks whose order and defaults interact | narrower terms and larger requests never permit more; consent decides what it is asked about |
| Attachment transfer (`agent.ts` 817-1004, `workrooms.ts` 533-687, `gateway.ts` 588-793) | parts at the relay; staged directories, `.part` files | send, upload, submit, download, read, save | lost answers of chunks, abortion, a client that hangs up, crash | what is published is complete, what failed is deleted, staged files go |
| Gateway inbox and webhook (`inbox.ts`, `gateway.ts`) | inbox file, capacity, chain of saves, message objects, deliveries in progress | `push`, `take`, `peek`, `ack`, webhook | full inbox, destructive take, lost acknowledgements, webhook beside the inbox | pushed is kept until taken or acknowledged; a full inbox recovers; one answer per handling |
| OpenClaw channel (`integrations/openclaw/src/channel.ts`) | none of its own beside the sweep's place | sweep over Tasks, turn per event, turn per message | a turn repeated after consent, failure or crash; one Task holding up the others | no event is committed before its turn is through; each Task gets served |
| Runtime Manager (`runtime-manager.ts`) | version trees, `active.json`, quarantine, retry, approval, two locks, the sidecar the gateway writes | `run`, `updateRunning`, `update`, `initialize` | supervisor, operator and gateway are separate processes; each can die between two files | a version that is known to work is always brought back; no downgrade while `active.json` stands; one launch per approval |
| MCP inbox, Hermes, Python SDK; permissions, crypto | as their Node counterparts; none | | | (not modelled separately) |

How they interact: the relay pushes MESSAGE frames; the agent stages each in the runtime state, sends a copy to the
supervisor (the human principal) through its own outbox, runs the application's handler, records it in the ledger and
acknowledges. The gateway's handler is `inbox.push`: one that throws because the inbox is full leaves the message
staged, and it comes again. `poll()`, the mandate counters and the pending activation use the same chain of mutations
(`mutateRuntimeState`) as messaging, on other fields of the record. The channel's sweep runs `poll()` per Task and its
turns call the mandated methods; the gateway's file routes stage a body, call the agent's transfer, and stream the result.
The gateway's check-in leaves an advisory in a sidecar file, from which the Runtime Manager decides.

## 2. The modules

| Module | Models | Role |
|---|---|---|
| `AgentStore` | the messaging part of the runtime state and its mutators | values and pure operators, used by the next |
| `AgentRuntime` | `agent.ts`: start/stop/connect/drop, frames, staging, processing, mirroring, sending, drains, retry timer, the mutation chain; relay as environment | state machine |
| `Delivery` | what the runtime promises about messages | abstract specification, implemented by `AgentRuntime` |
| `Session` | `agent.ts` and `credential-store.ts`: start/stop, activation, connect, reconnect timer, recovery of a rejected session, requests, and the refresh they share; issuer as environment | state machine |
| `WorkroomStore` | cursor, ledger and failures of one Task, and their mutators | values and operators |
| `WorkroomEvents` | `poll()` and `watch()`, several at once | state machine |
| `TaskRouting` | `publish()`, and `poll()` seen from the members: who may read, who is addressed, who acts; members managed by other clients | state machine |
| `MandatePolicy` | `evaluateMandateUse` and what the schemas ask of terms | pure operators |
| `MandateUse` | `executeMandatedAction` with its two guards, consent, charge and receipt | state machine |
| `MandateJudgement` | the terms and the use that `withDurableUsage` and `mandateUseRequest` put to the policy | composition of `MandateUse` and `MandatePolicy` |
| `Attachments` | uploads, downloads and the gateway's file routes; the relay's store of parts | state machine |
| `Gateway` | inbox, consumers and webhook, on a runtime that redelivers | state machine |
| `TaskChannel` | sweep and turns of the OpenClaw channel, on polls that commit after their handler | state machine |
| `RuntimeManager` | supervisor, operator's `update()`, gateway process | state machine |
| `MC...` | instances for TLC | |
| `AgentRuntimeProofs`, `SessionProofs`, `WorkroomEventsProofs`, `TaskProofs`, `MandateProofs`, `AttachmentsProofs`, `GatewayProofs`, `RuntimeManagerProofs` | theorems about the module each is named for, `AgentRuntimeProofs` also about the store, `MandateProofs` about the policy and its use, `TaskProofs` about `TaskRouting` and `TaskChannel` | proofs |

Each model has the code's own steps: what one task runs between two `await`s that really wait is one action.

**AgentRuntime.** `disk` is the state file, `mem` is `this.runtimeState`, `queue` the chain of pending mutations and
`saved` says that the head of the chain is on disk and not yet in memory. `work[m]` is how far
`processIncomingMessage(m)` is (`processingIncoming` holds the promise while it is not idle): `fetching` keys,
`mirroring` the supervisor's copy, `handling`, `completing` the ledger entry. `drain` is `inboxDrain` with the snapshot
it works through, `timer` the retry timer, `sent` is `sentThisConnection`. `Save` and `Swap...` are the two halves of
`mutateRuntimeState`; each `Swap` continues the task that asked for the mutation, up to its next await. `SaveFails`
covers both a save that fails before its rename and one that fails after it.
Abstractions: an `await` of a settled promise is not a point of interleaving; `drainOutbox` is one step (nothing in it waits);
`connect()` up to READY is one step; fetching the sender's keys succeeds or not; there is one supervisor; channels are
sets, so frames overtake each other, and a drop loses both; `MarkRead` is a call of the handle's `markRead()`
after the handler returned or of `agent.markMessageRead(id)`, for messages some handler returned from and memory does not have as READ. `early` remembers the ones marked
before their completion was on its way (`Completing`).

**Session.** `jobs` are the asynchronous calls in progress: `start` (with the credentials it found, or as a `pair` that
activates with the owner's connection code), a request (`authorizedFetch`), the reconnect timer's
`connectWithRefresh` and `recoverRejectedSession`; `at` is the await a job is at, `for` which attempt it makes.
`refresh` is `refreshPromise` with its steps: saving the request id (`intent`), the exchange (`asking`), its answer
(`answered`), saving the new credentials (`keeping`) or, after a refusal, the old ones without the id (`restoring`).
An activation remembers its request id and identity keys in the runtime state (`pend`), takes the code, saves the
credentials and forgets what it remembered; a `start()` whose persisted session is rejected activates again.
`socks` are all sockets, `cur` is `this.socket`; a socket is `late` when its ten seconds are over and its close event has
not come. `file` and `mem` are the credentials, a token being the number of the exchange it came from. The issuer
exchanges the newest token once and repeats its last exchange for the same token and id (`issuer.from`) until its window
ends; it takes a code once and repeats the same activation (`code`), and `issuer.keys` are the identity keys it was shown.
`AgentRuntime` has the messaging on top of a connection, with `connect()` as one step; the two modules share no
variable, as credentials and messages do not in the code. Abstractions: the issuer's window of two minutes ends only when the runtime is
through with the exchange; an expired token is refused when it is used; with `LongLived` a token expires neither while its exchange
may be repeated nor before the call that got it to connect again has connected (minutes and seconds, of the issuer's hours); every credential has a refresh token; the fetch
of the supervisors in `start()` and the periodic check-in are left out; the application always passes the owner's last code.

**WorkroomEvents.** `poll[p]` is the stage of one call, its own cursor and the page it has left; `disk` and `mem` are
this Task's part of the runtime state. The relay is a growing log. The four mutators (quarantine, failure, clear,
commit) are `WorkroomStore`'s; here save and swap are one action, at any time after the poll asked for it. The role of
the runtime in the Task is fixed, so "directed to this runtime" is a property of the event. A page is read by the size of its records; its records are
checked against their membership snapshots before the first is looked at, so a `Malformed` one rejects the whole page.

**TaskRouting.** `role`, `key`, `suspended`, `epoch` and `descriptor` are what the relay keeps of a Task, `log` the accepted
events, each with the `view` of the members at that moment (the membership snapshot) and the keys it was encrypted for (`wraps`). A `draft` is
an event between `get()` and its acceptance, so members may change in between; the relay then refuses it (epoch, recipients or
fingerprints differ) unless only roles changed. `poll[r]` is a page with the role `get()` told of. `cursor` moves when the
handler is through: the runtime's bookkeeping is `WorkroomEvents`'. Content is its mentions and plan steps; the `handle` of a mention
is the peer whose name it gives. `Unchecked` writers use a client that validates nothing and may leave out fingerprints. Roles other than
observer are one. Left out: organizations as members, two clients of one identity, the thread and the projection of an event; events
without a snapshot behave as those without fingerprints.

**MandatePolicy.** `Verdict(m, r)` is the result of `evaluateMandateUse` with its checks in the code's order: in force,
delegation, participants, action, the first grant for the tool and for each resource, spend, volume, thresholds. A host
is the sequence of its labels from the top-level domain down, so a wildcard is a prefix. `ValidTerms` is what the schemas
ask. Left out: matching the terms' commitment, signatures and encryption.

**MandateUse.** `tail` is `executionTail`, `calls[c]` how far a call is: `waiting` for its turn, `first` and `second`
guard, `consent`, `acting`, `acted`, `receipting`. A guard is two steps: the service's answer, and the judgement of it
against the counters. `lost` are operations whose call ended between effect and charge. One mandate revision with one
spend limit per day, a limit of actions and one threshold. `standing` becomes false for revocation, a party that leaves
or becomes an observer, and the end of the Task alike. The receipt is one step with its three attempts. `MandateJudgement`
composes it with `MandatePolicy` and adds `JudgedByPolicy`: in every state the judgement of `MandateUse` is `Verdict` of the terms and the counters there.
Not modelled: counters the caller supplies, a second revision, the pruning of `completedOperations` at 10,000, a charge
that is on disk although its save failed after the rename (treated as not charged), consent that expires.

**Attachments.** A request is a job with a kind (`send` in a message, `upload` for later, `submit` to a Task under a
mandate, `download` to a client, `read` under a mandate, `save` to a file); `at` is its place in the route and the transfer
below it. `plain` says that the headers of an answer can be written (name and type of the file, id of the operation are put into them as they are). `parts` is the relay's store, `late` holds POSTs that were given up and may still arrive, `artifact` the event under the
submission's idempotency key. `dirs` are staged directories, `temps` `.part` files. A descriptor is a number; a part is
`<<descriptor, index>>` and opens only as that. Version 1 descriptors (`Legacy`) are fetched whole and written in place. The
mandate is a guard that passes or not, one mandated call at a time (`MandateUse` has the rest). Left out: the variants that keep the data in memory. Removing a
directory, and closing a file that was written, succeed.

**Gateway.** `file`, `queued`, `chain` and `saving` are the inbox and its chain of saves, as in the code: clone,
mutate, save, swap. `sdk[m]` is what the runtime below knows of a message: a handler that throws leaves it `staged`, a
completion that cannot be saved makes it `staged` again (`rerun`), a crash too. `live` are message objects for replies,
evicted beyond twice the capacity; `request[c]` and `seen[c]` are an HTTP client's; `hooks` are webhook deliveries.
`gone` and `owed` are history. A rename and the swap after it are one step unless a failure or a crash tells them apart.

**TaskChannel.** `turn` is the sweep's place: waiting, listing a page, polling a Task, acting on an event, committing.
An operation is named by event, delivery and text, as `stableUuid()` names it, so a model that writes another text
makes another operation (`Words`). `consent` and `effects` are at the relay. `poll()` is reduced to what `WorkroomEvents`
shows of it (the handler runs before the commit, a rejected one comes again), a mandated call to executed, denied or asking for consent.
`mail` is the turn of a direct message. `ReuseFails` says whether the relay refuses a key used again for another
ciphertext: `docs/workrooms-and-mandates.md:174` has it do so, and `channel_retry` shows what follows; `task_channel`
assumes that a repetition is taken for the first one, to check the rest of the design.

**RuntimeManager.** `disk` has the four small files, `trees` the verified version directories, `sup` the supervisor's
place in `run`/`updateRunning`, `op` the operator's `update()`, `lock` who holds `update.lock`. A version is its rank.
`Lost` is an `active.json` or a `quarantine.json` that is deleted, emptied or damaged (it reads as if never written), `Rot` a damaged tree.
`update()` calls `initialize()` twice: the first, unlocked, may read no marker (`packaging`) and write the packaged version only after a supervisor
started and committed another (`OpPackages`). Verification of npm artifacts is the outcome of staging; health is `Bad` plus a fault `flake`. Simplifications: an orphan
gateway dies with its supervisor, a stale lock is recognised at once, attempt counts and the sidecar's age are left out.

## 3. Runs

All passing runs cover their full state space; deadlock is not
checked because bounded runs do stop (no more messages, faults or calls).

| Run | Question | Bounds |
|---|---|---|
| `agent_messages` | receiving: does every interleaving of staging, mirroring, handling, `markRead` (by handle and by id), completion, redelivery, crash and failing save keep inbox, ledger and acknowledgements right, and implement `Delivery`? | one mirrored message that is read, one crash, one repeated frame, one failed save (either side of its rename), two pending mutations; 1,177,000 states |
| `agent_live` | sending: is an accepted envelope kept until its receipt, and receipted in the end? receiving: does every message get handled and acknowledged although the ledger forgets? | two initial states, each an instance of its own: one send with a copy, one crash, one drop, one `stop()`/`start()` of the same object; and two messages, ledger of one, one throwing handler; 70,000 states |
| `session` | do activation, refreshes, reconnects, recoveries and requests that overlap keep the credentials good, one connection, and the agent alive until it is revoked? | two jobs, two sockets, two starts, two codes, any three happenings (crash, stop, failing network, slow connection, failing save, expired token, early refresh, request), a revocation; 234,000 states |
| `workroom_polls` | two polls of one Task: skipped, doubled, early-quarantined or unlisted events, and do they get on? | a legacy, an undecryptable, a good and a malformed event, page and table of failures of two, three of six faults (crash, abort, failing save, throwing handler, two transient failures); promised to be passed are the undecryptable one and the good one, whose handler may throw, fail to decrypt for a while, or be cut off from its commit; 532,000 states |
| `workroom_receive` (violation) | does the caller of a collecting route get what was committed? | three events, one poll |
| `task_routing` | does an agent start only what it is entitled to, miss nothing, and read everything published for it, whoever joins, leaves, changes role, status or keys meanwhile? | an agent, a founder with an unchecked client, a second writer whose keys change; two events of five contents (direct, under a wrong name, addressed twice, a plan step not executing, one executing behind it), two changes, one throwing handler; 393,000 states |
| `mandate_use` | do limits, consent, receipts and the line of calls hold, as the policy judges, and is the policy sound? | two callers, two operations of 1 or 2 units under a limit of 2, threshold 1, three calls, one midnight, one crash, one failure; 144 terms and 432 uses for the policy; 340,000 states |
| `attachments` | is what is published complete, what failed deleted, and what was staged removed? | two requests of any kind (symmetric), two parts, two tries, two faults, one crash, a client that hangs up anywhere, file names that no header takes; 1,275,000 states |
| `gateway_inbox` | is what was acknowledged or seen kept until it is consumed, does a full inbox recover, does the webhook answer once? | two messages, room for one, an explicit and a destructive consumer, two webhook tries, any two of: crash, stop, failing save, lost completion; 453,000 states |
| `task_channel` | is an event committed only after its whole turn, and is every Task and message served? | two Tasks on two pages, two events each, one of them with a file, two blocks, two texts, consent for the first Task, one direct message, one failure, crash, revocation or rejection; 187,000 states |
| `channel_retry` (violation) | is a repeated publication accepted by a relay that holds keys to their content? | as above, one text, no consent |
| `runtime_manager` | does the supervisor always come back with a proven version, whatever dies? | four versions over two lines (one bad), two advisories at a time, one `update()`, any three faults (crashes of either process, failing steps, a lost marker or quarantine, damaged trees); 264,000 states |

Why these bounds are enough for the questions: the hazards of messaging are per message (two tasks on the same message,
one crash between two of its steps), so one message with all faults covers them, and the one that needs two messages
(a ledger that forgets one while the drain is at the other) has a run with two. For Tasks two polls, a page
smaller than the log, one failure more than the quarantine threshold and three events that fail in a table of two make every mutator meet every other one's
state; the ledger of processed events is never pruned there (10,000 entries in the code): with a ledger smaller than what an
overlapping poll goes back over, TLC finds an event handled again. For routing two changes let a member leave and return, or be demoted and
promoted again, around acceptance and reading, and two events make a page whose second event is met after a handler. For sessions two jobs are enough for every pair of calls that can meet at the refresh or the socket; three
happenings combine a loss, a crash and a failing save in one exchange. For mandates two operations that exceed the limit together and a third call that retries one are what can go
wrong; the terms differ in every field the policy looks at. For files two parts give a first and a last one and two requests an
upload beside the download of what it published. For the inbox, room for one makes the second message meet a full inbox. For the channel two Tasks on
two pages let the first hold up the second. For the manager two versions beyond the active one are needed for a change of advisory, and a third for the
approval across lines. The inbox and an attachment meet any two faults, a session and the manager any three, the same one more than once if it comes to that; elsewhere each kind of fault occurs at most once or twice.

**Conditions under which properties hold.** They are in the formulas or the constants and deliberate:
- `LedgerIsHeeded` holds until a save fails: after a failed completion the ledger lacks the
  message and a later `markRead()` or redelivery starts over.
- `LedgerIsHeeded` excuses messages marked by id before their completion was on its way (`early`): after a crash between handler and completion the message is
  at work again when the application marks the id it kept; TLC finds that the handler starts although the ledger now has it, and that a DELIVERED follows the READ.
- `LedgerIsHeeded` also needs a ledger with room for every message that comes (10,000 entries in the code): with two messages and a ledger
  of one TLC finds the repeated message whose entry the other one pushed out (`LedgerHasRoom` in the theorem).
- `MemoryIsDurable` needs a quiet restart too, and excuses what is not undone: an envelope the relay has, a staged message the relay discarded, and
  the oldest entry of a ledger of which the file already has the next entry (in `agent_messages` the ledger is never full of others, so the excuse is not used there;
  with the two messages and the ledger of one of `agent_live`, where it is, TLC finds the property true as well).
- `RemovedOnlyAfterReceipt` needs a quiet restart (`QuietRestart`: `start()` of a stopped agent only when its tasks have
  ended), and excuses an envelope that only a save which failed after its rename wrote: memory lacks it, and the next save removes it.
- `EveryMessageIsAcknowledged` is for messages whose handler fails finitely often, beside no other kind.
- `Session` is checked with `QuietStart` (one `start()` at a time, requests wait for it), with `LongLived` (no access token
  expires between its exchange and what it was got for) and without `LateReady` (no READY
  between the ten seconds of a connection attempt and the close of its socket).
- Of `NothingSkipped`, that dead letters stay listed is for polls that never overlapped, for tables that never overflowed and for
  dead letters that the cursor passed and that were not handled since. The last two conditions were found by the proof: a quarantine whose
  save fails after its rename is on disk and not in memory, so the poll that follows, if the event decrypts this time, clears the failure and
  handles the event, and the next save takes the dead letter from the disk, rightly.
- `CommittedIsNotHandledAgain` needs a ledger of processed events as long as what an overlapping poll goes back over (10,000 entries in
  the code), or one caller per Task; `HandledOnce` has exactly these two cases as its hypothesis.
- `EveryEventIsPassed` is for events that cannot share a page with a malformed one, wherever a poll's cursor is (`e + PageSize <= m`); those that can may still
  be passed, before the malformed one is appended or from a cursor that splits the page elsewhere: a malformed membership snapshot holds its Task up for ever
  (`workrooms.ts:319`), while `sdk/node/README.md:113` describes quarantine for events that fail repeatedly.
- `AcceptedReachesMembers` is for writers that check, readers that keep their own keys and, for what is addressed to them, that nobody changed; `EveryCursorMoves` is, in `task_routing`, for
  Tasks whose founder keeps its keys (`Rotates`).
- `WorkIsAuthorised` asks for an executable role at acceptance and at some time since the page was asked for, which is what
  the code looks at (section 4 has the difference).
- `ApprovalIsOneShot` excludes an advisory that changes between the decision and the lock (`turn`), `NoWayBack`
  lets `active.json` go back in the two ways of section 4 and no other, lets a failed version be tried again once its quarantine is gone (restaged, another version
  failed or was adopted, `runtime-manager.ts:693`, or `quarantine.json` could not be saved or was lost), and `KeepsServing` excludes a
  damaged tree that is newer than the packaged version (`rot`).
- The limit in `BooksAgree` excludes operations in `lost`: no local store commits a foreign effect and its charge together.
- `PublishedIsComplete` excludes `unsure`, `FailedIsDeleted` `strays`, `FilesAreCleanedUp` `missed`: history variables for
  the cases of section 4 in which the code leaves something behind.
- `HeldUntilConsumed` counts what `take()` removed as consumed, though its answer may be lost; `WebhookAnswersOnce` counts
  per handler run, and a `send()` that rejected after queueing as not sent.
- `EveryTaskIsServed` is for owners who decide and do not reject, and a finite number of texts.

**Fairness.** `FairSpec` of each module (`MCFairSpec` of `MCAgentRuntime` is the same from two other initial states) has weak fairness of the program's own steps (the event loop runs each ready
task), of the environment's answers (relay, file system, key service, handlers return or throw), and of reconnecting and
restarting. It has none for faults, for calls of the application, or for the choice between success and failure where
only success would lead on; faults are bounded instead, so a request fails finitely often. The code sets no timeout on
the requests of `processIncomingMessage` (`agent.ts:664`): without the assumption that a request ends, one that hangs
keeps the drain waiting, and no liveness of messages holds. `gateway_inbox` assumes consumers that keep polling and
acknowledge what they see, as the gateway's README asks of them, and that the gateway is started again; `task_channel`
that the owner decides on what is asked; `task_routing` only that the agent keeps polling and its handlers end.
`runtime_manager` assumes that a dead supervisor is started again (by systemd or the user), which
`docs/runtime-updates.md` asks for. `Attachments` has safety properties only: its jobs wait for nothing but the relay's answers.

## 4. Findings

Two have a violation run, and `PROJECT.json` quotes what the documentation or a comment says.
1. `channel_retry`: `publish()` encrypts anew under the key of the first attempt (`workrooms.ts:405`); where the relay holds keys to
   their content, the event whose turn published something is refused each time it comes again, and never committed.
2. `workroom_receive`: events committed by `poll()` and then dropped with the request's array.

Seen while modelling, found by TLC when a constant is changed or a condition dropped, without a run of their own:
- Messaging. With a message that always fails (`Poison`), `drainInbox` ends there and starts there again, and a handler that threw
  once behind it is not retried (`agent.ts:1119`). Without `QuietRestart`, `start()` overwrites memory with what it read
  before the await, and an envelope queued meanwhile by a task that `stop()` left running is written over (`agent.ts:257`).
- Tasks. A poll deletes a failure record that an overlapping poll has just turned into a dead letter (`workrooms.ts:344`).
- Routing. `poll()` asks for its role once per page (`workrooms.ts:323`), so an agent demoted while it handles an event goes on
  with the rest of the page, up to 500 events, while `docs/workrooms-and-mandates.md:54` says "demoting a contributor stops current
  automation". Mandated effects have a fresh guard and do stop. Events are opened with the keys kept with them, but before them the
  descriptor with its author's current keys (`workrooms.ts:784`): with `Rotates = {founder}` nobody's `poll()` gets on after that change until the
  descriptor is encrypted anew, while `sdk/node/README.md:111` says a key rotation "cannot poison another member's durable cursor"
  (`docs/architecture.md:106` defers key rotation). One suspended member makes every `publish()` throw (`workrooms.ts:1278`) until it is removed.
- Sessions. With `LateReady` there are two connections: a READY that arrives after the ten seconds makes the closing socket
  ready, and its close event (`agent.ts:494`) schedules an attempt although the next one is under way; a `start()` before the
  stopped agent's socket has closed does the same. `connect()` does not look at `stopped`, so a
  `stop()` during a `start()`, a refresh, or between the two attempts of `connectWithRefresh`, is followed by a connection that stays,
  while `sdk/node/README.md:80` says "`agent.stop()` closes the connection". If the save of exchanged credentials fails and the
  issuer's window has ended before the repetition, the refusal makes `restoring` the last word: only a new activation helps.
  Without `QuietStart`, a request made while `start()` activates again after a revocation has its refresh save the old
  credentials over the new ones.
- Runtime Manager. The comment in `initialize()` says "Never silently downgrade a missing or corrupted verified runtime"
  (`runtime-manager.ts:397`), which holds for a damaged tree only. An `active.json` that is missing, empty or malformed reads as a first start
  (lines 908, 1741), so the packaged version is written without the comparison. And the operator's `update()` runs `initialize()` before it looks at
  the supervisor's lock (458, 479): if it read no marker, as at the first start, and writes late, it puts the packaged version over one that a supervisor
  committed meanwhile; the running supervisor keeps its own, and its successor starts the old one. Adopting any version lifts any quarantine (line 693), also adopting
  an older one, while `docs/runtime-updates.md:64` says "quarantined by exact version until the operator restages it or a newer recommendation arrives".
- Files. `submitFileMandated` deletes its parts although the relay took the event, when all answers of the publication were
  lost (`workrooms.ts:619`): the artifact is published without parts, and a retry uploads a new descriptor that the key refuses.
  A response closed between the last look at the abort signal and `response.once("close", cleanup)` (`gateway.ts:790`, 746), or while the directory is
  made, leaves the staged, decrypted file. So does a name, type or operation id with characters no header takes (beyond Latin-1, or control characters;
  `safeFileName`, 215, replaces five characters): `writeHead` throws before the listener that cleans up is registered (`gateway.ts:686`, 736, 781). A directory stays when
  the file in it cannot be opened (`gateway.ts:155`) or an optional field of a mandated read is refused after it was made (716). Version 1 downloads are not abortable. `integrations/gateway/README.md:114` says
  otherwise: "temporary files are removed after success, failure, or a closed download". A message that cannot be queued leaves its
  parts; a DELETE is not repeated, and a POST that arrives after it leaves a part.
- Gateway. `take()` removes events before its answer arrives; a refused push keeps its message object, so `live` grows beyond twice the
  capacity until the next one succeeds; an acknowledgement whose save failed after the rename answers 500 and is effective after a crash.
- Channel. A rejected or undecided consent keeps the sweep stuck at its Task (`channel.ts:420`). Consent is bound to the text, so a model that
  words a block differently asks again, and may publish both answers. A turn that fails repeats its direct replies.
- Mandates. An input without `volumeDelta` is judged as one action
  (`workrooms.ts:1477`) and charged as none (`workrooms.ts:1157`), so that calls that omit it never use up `maxActions`
  (`Declares` in `MandateUse`). A rejected consent request keeps its id, so that the operation cannot be asked for again.
  The consent a principal gives to a delegation is never among the verified approvals, and the guard always names the actor itself as the
  acting peer, so the delegation branch of the policy is not reached by it. An effect that awaits a mandated method of the
  same client waits for itself (`workrooms.ts:1186`). A retried receipt has a new timestamp and predecessor under the old idempotency key.

Read off the code: a failed "remove" or "remember" save is repaired only at the next
connection; a READ acknowledgement that is lost after the inbox entry is gone never reaches the relay; an envelope the
relay refuses (ERROR frame) stays in the outbox; `send()` may reject although the envelope is queued and will go out; a
transient failure to fetch an actor's keys counts towards quarantine (`workrooms.ts:803`); the MCP server's inbox in memory
drops its oldest messages, acknowledged ones, beyond its capacity (`integrations/mcp/src/inbox.ts:26`).

## 5. What is proved

Each theorem is for every value of its module's constants under the module's named assumptions (names are
distinct, bounds are numbers, capacities are positive; TLC evaluates them on every run), and under the hypotheses named here.

About `AgentRuntime`, for every `Incoming`, `Sends`, `Mirrored`, `Poison`, `Reads`, every bound of the ledger and every number of faults:

- **`ApplyProperties`** (`AgentRuntimeProofs`). Every mutator maps a well-formed state to a well-formed one and adds to or takes
  from outbox and inbox only what it names. All later proofs use the store through this lemma and the few like it.
- **`TypeCorrectness`**: `Spec => []TypeOK`. `Typed` adds that the head of the chain exists while it
  is saved, and the head of the snapshot while a drain works.
- **`AcknowledgedWasHandled`**: `Spec => []AckedWasHandled`. Alone it is not inductive: an acknowledgement is sent on
  the word of a ledger. `HandledInv` adds that every ledger (file, memory, being loaded) lists only handled messages,
  that a pending completion is for a handled one, and that a pending `forget` and an ACK_RECEIVED in flight are for
  messages the relay has dropped.
- **`StagedStays`**: `Spec => StagedUntilConfirmed`, an action property, from `HandledInv`: only `forget` takes from the
  inbox, and a pending one is for a message the relay no longer has.
- **`AcceptedStaysKept`** and **`CopiesPrecedeHandlers`**: under `QuietRestart`, an envelope whose `send()` returned, and
  the supervisor's copy of a message that is or was handled, is in the file or at the relay. `CustodyInv` follows an
  envelope: it is `Safe` (in the file, and in the memory the next mutation starts from, unless the relay has it), a
  pending removal is for something the relay has, the file is the head of the chain applied to memory while `saved`,
  and a process that is not running has nothing in progress (`Quiet`). `QuietRestart` is needed: without it TLC finds the envelope that section 4 describes.
- **`MemoryStaysDurable`**: under `QuietRestart`, `Spec => []MemoryIsDurable`. `DurableInv` adds to `CustodyInv` and `HandledInv` that the inbox in memory is in the
  file but for what the relay discarded, that the ledger in memory is in the file's but for what its last mutation pruned (`LedgerKept`, which every mutator
  keeps: `ApplyKeepsLedger`), and that file and memory are the same as long as no save failed after its rename and none is half done.
- **`ReceiptsComeFirst`**: under `QuietRestart`, `Spec => RemovedOnlyAfterReceipt`: as every mutation keeps what memory has in the outbox (`HeadKeeps`), the file
  loses only what it had beyond memory, and that takes a save that failed after its rename.
- **`DeliveryIsImplemented`**: under `QuietRestart`, `Spec => ImplementsDelivery`: the initial states of `AgentRuntime` map to those of `Delivery`, and each
  action maps to one step of it or a stutter; handlers returning map to its handling, writes of the file to its promise or discarding, the relay's frames to its delivery.
- **`LedgerIsObeyed`**: `Spec => LedgerIsHeeded` under `QuietRestart` and `LedgerHasRoom` (no more messages than entries), from `LedgerInv`. The check of
  the ledger and the start of the handler are apart, with a mutation or the fetching of keys between them; what keeps the check true is the order of the chain
  (`Ordered`, for every message that is not `early`): at most one pending mutation works for a message, and it fits the stage the message is at; no completion is before a pending `remember`, and one is
  before a pending `markRead` unless it is done. `AcksTrue` says that acknowledgements in flight, and confirmations of them, are of completed messages.

About `Session` (`SessionProofs`), for any numbers of calls, sockets, starts and codes. `CallsInv` is common to both: what a call of each kind may be doing
(`JobFits`), that a socket which opens has one call and that call waits for it (`SocksInv`), and that nothing else works beside a `start()` (`Alone`, which is what
`QuietStart` gives).

- **`ConnectionStaysOne`**: `Spec => []OneConnection` under `QuietStart` and without `LateReady`; without either TLC finds the second connection of section 4.
  `Lone` is the count behind it: calls that are to connect and sockets that are ready are together at most one, and none while the reconnect timer runs; only
  `stop()` leaves a socket closing. A ready socket is the agent's own, and a request opens none.
- **`CredentialsAreKept`**: `Spec => []CredentialsStayGood` under `QuietStart` and `LongLived`, with the types. What is on file says too little to be inductive: a refresh or an
  activation goes through stages at which the file is old and something else must be right. `Continues` says how far it came, unless the session is revoked:
  `Unborn`, no activation yet; `Lost`, the last activation is remembered and nobody has seen its token; `Saved`, its token is on file and the request not forgotten yet;
  `Good`, file, memory, the refresh in progress and what each call has in hand are the newest token, or a request whose exchange gave it. `KeysInv` has the identity keys: whoever
  has keys (file, memory, remembered request, a call with its answer) has those the issuer was shown. `FreshLives` is what `LongLived` gives: while an exchange can be repeated, its token is accepted. Without `LongLived` it is not true: a
  `start()` whose remembered request outlived its own activation (the save that forgets it failed) repeats that activation if its token is refused twice, and that writes
  an old token over a newer one; TLC finds it in 24 states.
- **`GivesUpForAReason`**: `Spec => GivesUpOnlyIfRevoked` under `QuietStart` and `LongLived`, from the same invariant. Where a timer or a recovery is at work a session
  that is not revoked is `Good`. Such a call gives up at a refused refresh, which `Good` excludes, or at a second refused socket; but a call that connects again does so with the
  token of the refresh it waited for, or a newer one, and that one is accepted (`GoodJob`). The number of faults and expiries is not limited.

About `WorkroomEvents` (`WorkroomEventsProofs`), for every log, page size, table size, threshold, number of callers and faults; the lemmas on `WorkroomStore`
say what each mutator leaves in the two bounded tables (`Effect`), and the steps of a poll are of three kinds: those that write nothing (`Wanders`), those whose
write is swapped in (`Swaps`) and those whose write failed after its rename (`Renames`). `PollsInv` is inductive; TLC checked it first.

- **`GivenUpIsEarned`**: `Spec => []QuarantineIsEarned`, with the types. `AttemptsAreReal`: the attempts a record counts, with the polls that are about
  to count another, are at most the failures that happened; the second term is what overlapping polls need.
- **`NothingIsSkipped`**: `Spec => []NothingSkipped`. First part, `WorkIsSettled`: no cursor (memory, file or any poll), no ledger and no poll about to
  commit is at or past a directed event that was neither handled nor given up. Second part, `DeadLettersAreFiled` with `OnlyStruckAreFiled` (a table lists
  only events that failed, so it does not overflow) and `Uncontested` (while no two polls overlapped the one in progress is where the cursor is).
- **`HandledOnce`**: `Spec => CommittedIsNotHandledAgain` if `Events <= MaxProcessed` or there is one poller. In the first case the ledger names
  every committed event for good (`CommittedIsKept`), in the second the cursor is past it.

About `TaskRouting` (`TaskProofs`), for every set of members, clients, contents, page size and number of changes:

- **`WorkHasAuthority`**: `Spec => WorkIsAuthorised`. `RoutingInv` says of the log what the relay recorded at acceptance (`LogIsValid`), of a draft what
  its client had checked (`DraftIsValid`), and of a page what its reader was told when it asked for it; the three meet where a handler starts.
- **`AcceptedIsReached`**: `Spec => []AcceptedReachesMembers`, with the types. A draft of a checking client stays valid for the members it read (`DraftIsValid`)
  until the relay accepts it or notices that they changed; a page keeps the events after the cursor in their order.

About `RuntimeManager` (`RuntimeManagerProofs`), for any number of versions, lines, advisories and updates, and any combination of faults:

- **`RestartStaysSafe`**: `Spec => []RestartIsSafe`. What the supervisor believes at each of its stages (active, candidate, what it saw) agrees with the files, so that what is
  written next is proven, and what `stage()` and cleaning up remove is not what runs. The two processes exclude each other by `update.lock` alone, which
  had been part of the type invariant and is now stated as a property (`LockIsExclusive`).
- **`ApprovalsAreOneShot`**: `Spec => []ApprovalIsOneShot`: launches on an approval and the approval file, if it is still there, are within what was granted.
- **`NeverBack`**: `Spec => NoWayBack`, an action property, from the same invariant. `MarkerGoesBack` is the step that takes `active.json` back: a loss, or an
  `update()` that writes what it took for a first start; every other write has at least what was there. `ActiveGrows` is the same of the running supervisor.

About `MandatePolicy` (`MandateProofs`), for every set of terms and of uses whose fields have the schema's types
(`TypedTerms`, `TypedUse`; TLC evaluates these assumptions on the instance):

- **`JudgingIsSound`**: `SoundPolicy`, and `Spec => []PolicyIsSound`: the three theorems that follow, for the constants `Terms` and `Uses`, of which the
  run enumerates 144 and 432.
- **`WideningIsSafe`**: a use that is permitted stays permitted under wider terms (longer in force, more grants after the
  ones there are, higher limits, fewer thresholds). The argument goes check by check; the one that is not monotone by its shape is
  the lookup of grants, where `FirstStaysFirst` shows that the first grant of a prefix is the first of the whole.
- **`AskingLessIsSafe`**: with a use every smaller one is permitted: less spent or used so far, fewer accesses and
  participants, more approvals. Thresholds need that more approvals of the same approvers count at least as many (`FS_Subset`).
- **`ConsentIsDecisive`**: for valid terms, the approvals a use waits for are enough to permit it, and none turns a denial. It needs
  `ValidTerms`: a threshold that requires more approvers than it names could never be met.

About `MandateUse` (`MandateProofs`), for any callers, operations, amounts, limits and bounds; `Inv` is inductive:

- **`ConsentedOrSmall`**: `Spec => []HappenedAsApproved`. `ConsentInv` says that an answer of the service names only what is
  consented to now (a consent is not taken back), and that a call that acts beyond the threshold has its consent or was
  completed before; `EffectsInv`, that every completed operation happened, so that the second case adds no effect.
- **`LateCallsDoNothing`**: `Spec => []EndedMandateStopsTheLine`. `LateInv`: a mandate that ended stays ended, so the
  answer a late call has, or is still to get, says so, and its first guard denies.
- **`BooksStayTrue`**: `Spec => []BooksAgree`. The limit alone is not inductive: `BooksInv` adds that nobody stands in line twice and only its
  head is past `waiting` (`LineInv`), so that an effect which is neither charged nor lost is that of the one call about to charge
  it (`OthersAreCharged`), what the second guard permitted still fits when the effect happens (`PermittedFits`; midnight in
  between only frees), and today's account holds what was charged of today (`TodayIsCounted`). That calls and effects of one operation
  agree is the guard of `Call`. A sum is the number of minor units in a set (`Units`), so `OneMoreCosts` and `MoreCostMore`
  follow from the library's facts on cardinalities, without induction over data.
- **`JudgesAsPolicy`**: `Spec => []JudgedByPolicy`. The terms `MandateUse` stands for (`Plain`) are in force for its calls, their bounds are
  its two sums and their threshold its consent (`PlainInForce`, `PlainBounds`, `PlainAsks`), so that the three theorems about
  the policy hold of what its guards decide. The counters are numbers by `BooksInv`; `None` is no amount and no spend.

About `Attachments` (`AttachmentsProofs`), for any requests at once, kinds, parts, tries, faults and crashes:

- **`PublicationsStayComplete`** and **`FailuresAreUndone`**: `Spec => []PublishedIsComplete` and `Spec => []FailedIsDeleted`, from `RelayInv`. No two
  uploads share a descriptor (`OwnDescriptors`), and an upload has nothing at the relay before its first POST, the parts before its current one while it posts, all of
  them while it publishes, and is nobody else's while its parts are being deleted, unless `unsure` says so (`UploadsAreTrue`). A step of a request is `Local` to its
  descriptor, so that only that one is to be looked at (`LocalStep`); most steps are `Calm`, they change nothing at the relay. A part that arrives late was
  counted as a stray when its POST was given up (`LateAreStrays`).
- **`FilesStayTidy`**: `Spec => []FilesAreCleanedUp`, with the types: each step touches the files of its own request only (`Tidies`). The property is not
  inductive: that a `save` has no directory and an upload no ".part" file is needed where they end without the cleanup of the other.
  `missed` grows in three actions only: `Sends` (a closed client, or a header that cannot be written), `StagingFails` (a failure just after the directory was made), `Crash`.

About `Gateway` (`GatewayProofs`), for any messages, consumers, sizes, retries and faults:

- **`AnswersAreOwed`**: `Spec => []WebhookAnswersOnce`. The property alone is not inductive, as an accepted answer lowers
  the count it bounds. `HookInv` counts: the deliveries of a message in progress are at most what is owed for it; starting
  one adds to both, ending one takes from both or from the first. `ChainInv` types the chain of mutations.
- **`InboxHolds`**: `Spec => []HeldUntilConsumed`. `InboxInv` follows a record from memory through the chain to the file: what is
  being saved is the head of the chain applied to the memory of now (`SavedIsApplied`: nobody else changes the memory while
  a save is out); memory is on file but for what is gone (`MemoryIsFiled`); nothing is done with an inbox that was not read
  (`ReadFirst`). `SplicedOut` and `PartOfList` are the lemmas about the lists, `IdsAreFresh` that a delivery finds an id.

About `TaskChannel` (`TaskProofs`), for any numbers of Tasks, events, blocks and texts and any faults:

- **`CommittedStaysAnswered`**: `ChannelSpec => []CommittedIsAnswered`. `WorkInv` adds the turn in progress: the event it is at is
  the one after the cursor, and the parts before its own are worked through (`TurnInOrder`); what is done of a Task is a beginning
  of its events and of each event's parts (`DoneInOrder`). `LogGrows` is the lemma about the log of operations.

Only model-checked: liveness and the fairness it needs (out of the prover's reach: `ComesBack` and the other properties of the form `~>`).
Every invariant and every action property of the passing runs is a theorem.

## 6. Plan

Done: messaging, sessions with activation, polling, publishing and routing, mandates with their policy, files, the gateway's inbox, the channel, the manager. Next:

1. Over what exists: the ERROR frame, `retryQuarantinedEvent`, a second mandate revision, the
   periodic check-in.
2. The Python SDK and Hermes, where their asyncio code interleaves differently from the Node code.

## 7. Not modelled, and why

Cryptography, the schemas of fields and permissions are pure functions over byte strings; native bindings are generated or thin;
the other HTTP routes, MCP tools and CLI commands forward one request each; the MCP inbox is a list in memory;
Hermes runs the sweep of `TaskChannel` in Python; the Python SDK
implements the same design a second time with asyncio locks, and the models are of the Node code; release scripts are not part of the
running system.

## 8. Running

`tlc -config Agent_messages.cfg MCAgentRuntime.tla` and so on: the module of each configuration is in `PROJECT.json`.
`tlapm AgentRuntimeProofs.tla` checks the proofs of a module; each of the eight stands alone.
