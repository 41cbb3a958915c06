------------------------------- MODULE Session -------------------------------
(***************************************************************************)
(* Activation, credentials and connection of one agent runtime             *)
(* (sdk/node/src/agent.ts: start, stop, activate, prepareAndConnect,       *)
(* connect, scheduleReconnect, refreshCredentialsIfNeeded, authorizedFetch,*)
(* connectWithRefresh, recoverRejectedSession).  A job is                  *)
(* one asynchronous call of these that is in progress: jobs interleave at  *)
(* every await, share one refresh and the field this.socket, and go on     *)
(* after stop().  An action is what runs between two awaits that wait.     *)
(*                                                                         *)
(* The issuer of tokens is not part of the repository.  As the SDK expects *)
(* (sdk/node/README.md:161) a refresh token is exchanged once, and the     *)
(* last exchange is repeated for the same token and request id.  A token   *)
(* is the number of its exchange; an access token is accepted until it     *)
(* expires or the owner revokes the runtime.  The owner's connection code  *)
(* is taken once; the same activation is repeated (sdk/node/README.md:50). *)
(* The application always passes the owner's last code to the agent.       *)
(***************************************************************************)
EXTENDS Naturals, FiniteSets

CONSTANTS
    Jobs,            \* calls that may be in progress at once
    Socks,           \* sockets that may exist at once
    QuietStart,      \* start() finds the agent at rest, and requests wait for it
    LateReady,       \* READY may come between the ten seconds and the close
    MaxStarts,       \* bound on calls of start()
    MaxCodes,        \* bound on the connection codes the owner issues
    LongLived,       \* an access token lives longer than what it was just got for
    MaxHappenings    \* bound on faults, expiries and calls of stop() and request()

None == "none"

ASSUME NamesAssumption == None \notin Jobs \cup Socks /\ {QuietStart, LateReady, LongLived} \subseteq BOOLEAN
ASSUME LimitsAssumption == {MaxStarts, MaxHappenings} \subseteq Nat /\ MaxCodes \in Nat \ {0}

VARIABLES
    file,       \* the credential file: token, request id of its exchange, keys
    pend,       \* pendingActivation of the runtime state: request id and keys
    mem,        \* this.credentials
    refresh,    \* the refresh in progress (refreshPromise)
    jobs,       \* what each job is doing
    socks,      \* every socket, also those that were replaced
    cur,        \* this.socket
    stopped, timer,   \* this.stopped; reconnectTimer is set
    wanted,     \* the application started the agent and has not stopped it
    issuer,     \* newest token, the exchange it came from, revoked or not,
                \* and the identity keys it was ever shown for the agent
    code,       \* the owner's last code: its number, and what it was taken for
    live,       \* access tokens that are accepted
    ids,        \* request ids used so far
    starts, happened    \* how often start() was called; how much happened so far

appVars == <<jobs, socks, cur, stopped, timer, wanted>>
vars == <<file, mem, pend, refresh, appVars, issuer, code, live, ids, starts, happened>>

\* token = 0: no credentials.  req = 0: no exchange, no activation is pending.
Credentials == [token : Nat, req : Nat, keys : Nat]
NoCredentials == [token |-> 0, req |-> 0, keys |-> 0]
NoActivation == [req |-> 0, keys |-> 0]

NoJob == [kind |-> None, at |-> "idle", for |-> None, token |-> 0]
NoSock == [at |-> "free", job |-> None, token |-> 0]
NoRefresh == [at |-> None, creds |-> NoCredentials, reply |-> None]

\* Calls that connect again by themselves when they fail.
Chains == {"timer", "recover"}
\* start() with the credentials it found, and start() that activates.
Starters == {"start", "pair"}
JobKinds == {None, "request"} \cup Starters \cup Chains
JobStages == {"idle", "loading", "pairing", "taking", "taken", "forgetting", "checking", "joining", "waiting", "granted", "refused",
              "broken", "connecting", "opening", "asking"}
Purposes == {None, "prepare", "first", "again", "recover", "retry"}

TypeOK ==
    /\ file \in Credentials /\ mem \in Credentials
    /\ refresh \in [at : {None, "intent", "asking", "answered", "keeping", "restoring"},
                    creds : Credentials, reply : {None, "ok", "session"}]
    /\ jobs \in [Jobs -> [kind : JobKinds, at : JobStages, for : Purposes, token : Nat]]
    /\ socks \in [Socks -> [at : {"free", "opening", "late", "ready", "closing"},
                            job : Jobs \cup {None}, token : Nat]]
    /\ \A j \in Jobs : jobs[j].at = "opening" <=> \E s \in Socks : socks[s].job = j
    /\ \A j \in Jobs : jobs[j].at = "waiting" => refresh.at # None
    /\ cur \in Socks \cup {None}
    /\ cur # None => socks[cur].at # "free"
    /\ {stopped, timer, wanted} \subseteq BOOLEAN
    /\ issuer \in [token : Nat, from : Credentials, revoked : BOOLEAN, keys : SUBSET Nat]
    /\ pend \in [req : Nat, keys : Nat]
    /\ code \in [n : 1 .. MaxCodes, open : BOOLEAN, by : [req : Nat, keys : Nat], gave : Nat]
    /\ live \subseteq 0 .. issuer.token /\ ids \in Nat
    /\ starts \in 0 .. MaxStarts /\ happened \in 0 .. MaxHappenings

-----------------------------------------------------------------------------
(* The pieces calls are made of.                                           *)

Counted == happened < MaxHappenings /\ happened' = happened + 1 /\ UNCHANGED starts

Connected == cur # None /\ socks[cur].at = "ready"

FreeJobs == {j \in Jobs : jobs[j] = NoJob}

\* A call begins.
Begins(kind, at, for) ==
    \E j \in {CHOOSE j \in FreeJobs : TRUE} :
        jobs' = [jobs EXCEPT ![j] = [kind |-> kind, at |-> at, for |-> for, token |-> 0]]

GoesTo(j, at, for) == jobs' = [jobs EXCEPT ![j] = [@ EXCEPT !.at = at, !.for = for]]

Sends(j, for) ==
    jobs' = [jobs EXCEPT ![j] = [@ EXCEPT !.at = "asking", !.for = for, !.token = mem.token]]

\* Mutation: a failed attempt is the last.
FailsForGood(j, session) ==
    /\ jobs' = [jobs EXCEPT ![j] = NoJob]
    /\ stopped' = (stopped \/ (session /\ jobs[j].kind \in Chains))
    /\ wanted' = (wanted /\ jobs[j].kind \notin Starters)
    /\ UNCHANGED timer

\* Mutation: every error gives the session up.
FailsOnce(j, session) ==
    /\ jobs' = [jobs EXCEPT ![j] = NoJob]
    /\ stopped' = (stopped \/ jobs[j].kind \in Chains)
    /\ wanted' = (wanted /\ jobs[j].kind \notin Starters)
    /\ UNCHANGED timer

\* The call rejects.  The timer's and the recovery's own handlers give the
\* session up, or try again later; start() and a request throw to their caller,
\* but a start() whose persisted session is rejected activates again.
Fails(j, session) ==
  IF session /\ jobs[j].kind = "start"
  THEN /\ jobs' = [jobs EXCEPT ![j] = [NoJob EXCEPT !.kind = "pair", !.at = "pairing"]]
       /\ UNCHANGED <<stopped, timer, wanted>>
  ELSE
    /\ jobs' = [jobs EXCEPT ![j] = NoJob]
    /\ stopped' = (stopped \/ (session /\ jobs[j].kind \in Chains))
    /\ timer' = (timer \/ (jobs[j].kind \in Chains /\ ~stopped'))
    /\ wanted' = (wanted /\ jobs[j].kind \notin Starters)

\* The socket is gone; this.socket forgets it if it is the current one.
SockGone(s) ==
    /\ socks' = [socks EXCEPT ![s] = NoSock]
    /\ cur' = IF cur = s THEN None ELSE cur

\* A socket that was ready has closed: scheduleReconnect.
Rescheduled == timer' = (timer \/ ~stopped)

-----------------------------------------------------------------------------
(* The application, and the process.                                       *)

AtRest ==
    /\ FreeJobs = Jobs /\ refresh = NoRefresh
    /\ \A s \in Socks : socks[s] = NoSock

Start ==
    /\ (~wanted \/ stopped) /\ starts < MaxStarts /\ FreeJobs # {} /\ (QuietStart => AtRest)
    /\ wanted' = TRUE /\ stopped' = FALSE /\ timer' = FALSE /\ starts' = starts + 1
    /\ Begins("start", "loading", "prepare")
    /\ UNCHANGED <<file, mem, pend, refresh, socks, cur, issuer, code, live, ids, happened>>

\* credentialStore.load() resolves; without credentials start() activates.
Loaded(j) ==
    /\ jobs[j].at = "loading"
    /\ IF file.token # 0
       THEN mem' = file /\ GoesTo(j, "checking", "prepare")
       ELSE /\ jobs' = [jobs EXCEPT ![j] = [@ EXCEPT !.kind = "pair", !.at = "pairing"]]
            /\ UNCHANGED mem
    /\ UNCHANGED <<file, pend, refresh, socks, cur, stopped, timer, wanted, issuer, code, live,
                   ids, starts, happened>>

\* Jobs go on, and so does the refresh; an open socket starts to close.
Stop ==
    /\ wanted /\ Counted
    /\ wanted' = FALSE /\ stopped' = TRUE /\ timer' = FALSE
    /\ socks' = IF cur = None THEN socks ELSE [socks EXCEPT ![cur].at = "closing"]
    /\ UNCHANGED <<file, mem, pend, refresh, jobs, cur, issuer, code, live, ids>>

Crash ==
    /\ Counted
    /\ wanted' = FALSE /\ stopped' = FALSE /\ timer' = FALSE
    /\ mem' = file /\ refresh' = NoRefresh
    /\ jobs' = [j \in Jobs |-> NoJob] /\ socks' = [s \in Socks |-> NoSock] /\ cur' = None
    /\ UNCHANGED <<file, pend, issuer, code, live, ids>>

\* A request to the control plane (authorizedFetch).
Request ==
    /\ wanted /\ ~stopped /\ FreeJobs # {} /\ Counted
    /\ mem.token # 0 /\ (QuietStart => \A j \in Jobs : jobs[j].kind \notin Starters)
    /\ Begins("request", "checking", "prepare")
    /\ UNCHANGED <<file, mem, pend, refresh, socks, cur, stopped, timer, wanted, issuer, code, live, ids>>

-----------------------------------------------------------------------------
(* Activation: the pending request is durable before the code is exchanged,*)
(* and forgotten once the credentials are.  start() is not called twice at *)
(* once here: what it remembers is what the runtime state holds.           *)

ActivationUnchanged == UNCHANGED <<refresh, socks, cur, starts>>

\* The remembered request, unless it is for other keys than the agent's.
Remembered == pend.req # 0 /\ mem.keys \in {0, pend.keys}

\* A request, with the agent's keys or its first, written or not.
Remembers(written) ==
    /\ ids' = ids + 1
    /\ pend' = IF written THEN [req |-> ids', keys |-> IF mem.keys = 0 THEN ids' ELSE mem.keys]
               ELSE pend

\* mutateRuntimeState resolves.
Pairs(j) ==
    /\ jobs[j].at = "pairing"
    /\ IF Remembered THEN UNCHANGED <<pend, ids>> ELSE Remembers(TRUE)
    /\ GoesTo(j, "taking", "prepare")
    /\ UNCHANGED <<file, mem, stopped, timer, wanted, issuer, code, live, happened>>
    /\ ActivationUnchanged

\* The issuer: a code is taken once, and repeated for what took it.
Activated(j) ==
    /\ jobs[j].at = "taking"
    /\ IF code.open
       THEN /\ code' = [code EXCEPT !.open = FALSE, !.by = pend, !.gave = issuer.token + 1]
            /\ issuer' = [token |-> issuer.token + 1, from |-> NoCredentials, revoked |-> FALSE,
                          keys |-> issuer.keys \cup {pend.keys}]
            /\ live' = {issuer.token + 1}
       ELSE UNCHANGED <<code, issuer, live>>
    /\ jobs' = [jobs EXCEPT ![j] = [@ EXCEPT !.at = "taken",
                   !.token = IF code'.by = pend /\ ~issuer'.revoked THEN code'.gave ELSE 0]]
    /\ UNCHANGED <<file, mem, pend, stopped, timer, wanted, ids, happened>>
    /\ ActivationUnchanged

\* The answer: credentialStore.save() resolves, or the code is refused.
ActivationSaved(j) ==
    /\ jobs[j].at = "taken"
    /\ IF jobs[j].token # 0
       THEN /\ file' = [token |-> jobs[j].token, req |-> 0, keys |-> pend.keys]
            /\ GoesTo(j, "forgetting", "prepare")
            /\ UNCHANGED <<stopped, timer, wanted>>
       ELSE Fails(j, FALSE) /\ UNCHANGED file
    /\ UNCHANGED <<mem, pend, issuer, code, live, ids, happened>>
    /\ ActivationUnchanged

\* pendingActivation is deleted, and start() goes on.
Forgets(j) ==
    /\ jobs[j].at = "forgetting"
    /\ mem' = [token |-> jobs[j].token, req |-> 0, keys |-> pend.keys]
    /\ pend' = NoActivation
    /\ GoesTo(j, "checking", "prepare")
    /\ UNCHANGED <<file, stopped, timer, wanted, issuer, code, live, ids, happened>>
    /\ ActivationUnchanged

\* The exchange, or its answer, is lost.
ActivationLost(j) ==
    /\ jobs[j].at \in {"taking", "taken"} /\ Counted
    /\ Fails(j, FALSE)
    /\ UNCHANGED <<file, mem, pend, refresh, socks, cur, issuer, code, live, ids>>

\* One of the three writes fails, before its rename or after it.
ActivationSaveFails(j, renamed) ==
    /\ Counted /\ Fails(j, FALSE)
    /\ \/ jobs[j].at = "pairing" /\ ~Remembered /\ Remembers(renamed) /\ UNCHANGED file
       \/ /\ jobs[j].at = "taken" /\ jobs[j].token # 0
          /\ file' = IF renamed THEN [token |-> jobs[j].token, req |-> 0, keys |-> pend.keys] ELSE file
          /\ UNCHANGED <<pend, ids>>
       \/ /\ jobs[j].at = "forgetting"
          /\ pend' = IF renamed THEN NoActivation ELSE pend
          /\ UNCHANGED <<file, ids>>
    /\ UNCHANGED <<mem, refresh, socks, cur, issuer, code, live>>

Activation(j) == Pairs(j) \/ Activated(j) \/ ActivationSaved(j) \/ Forgets(j)

-----------------------------------------------------------------------------
(* Jobs.                                                                   *)

JobUnchanged == UNCHANGED <<file, mem, pend, issuer, code, live>>

\* The access token is not about to expire: on to the connection or the request.
NotExpiring(j) ==
    /\ jobs[j].at = "checking"
    /\ IF jobs[j].kind \in Starters THEN GoesTo(j, "connecting", "first") ELSE Sends(j, "first")
    /\ UNCHANGED <<refresh, socks, cur, stopped, timer, wanted, ids, starts, happened>> /\ JobUnchanged

Expiring(j) ==
    /\ jobs[j].at = "checking" /\ Counted
    /\ GoesTo(j, "joining", "prepare")
    /\ UNCHANGED <<refresh, socks, cur, stopped, timer, wanted, ids>> /\ JobUnchanged

\* Mutation: the request id is not saved before it is used.
JoinsUnsaved(j) ==
    /\ jobs[j].at = "joining"
    /\ GoesTo(j, "waiting", jobs[j].for)
    /\ IF refresh.at # None THEN UNCHANGED <<refresh, ids>>
       ELSE /\ refresh' = [at |-> "asking", reply |-> None,
                           creds |-> IF mem.req # 0 THEN mem ELSE [mem EXCEPT !.req = ids + 1]]
            /\ ids' = IF mem.req # 0 THEN ids ELSE ids + 1
    /\ UNCHANGED <<socks, cur, stopped, timer, wanted, starts, happened>> /\ JobUnchanged

\* refreshCredentialsIfNeeded: the refresh in progress, or one of its own with
\* the pending request id, or with a new one that is saved first.
Joins(j) ==
    /\ jobs[j].at = "joining"
    /\ GoesTo(j, "waiting", jobs[j].for)
    /\ IF refresh.at # None THEN UNCHANGED <<refresh, ids>>
       ELSE IF mem.req # 0
       THEN refresh' = [at |-> "asking", creds |-> mem, reply |-> None] /\ UNCHANGED ids
       ELSE /\ ids' = ids + 1
            /\ refresh' = [at |-> "intent", creds |-> [mem EXCEPT !.req = ids'], reply |-> None]
    /\ UNCHANGED <<socks, cur, stopped, timer, wanted, starts, happened>> /\ JobUnchanged

\* The refresh a job waited for was granted.
GoesOn(j) ==
    /\ jobs[j].at = "granted"
    /\ CASE jobs[j].for = "again" -> GoesTo(j, "connecting", "again")
         [] jobs[j].for = "recover" ->
                IF stopped THEN jobs' = [jobs EXCEPT ![j] = NoJob]
                ELSE GoesTo(j, "connecting", "first")
         [] jobs[j].for = "retry" -> Sends(j, "again")
         [] jobs[j].for = "prepare" ->
                IF jobs[j].kind \in Starters THEN GoesTo(j, "connecting", "first") ELSE Sends(j, "first")
    /\ UNCHANGED <<refresh, socks, cur, stopped, timer, wanted, ids, starts, happened>> /\ JobUnchanged

\* It was rejected, by the issuer or otherwise.
GivesUp(j) ==
    /\ jobs[j].at \in {"refused", "broken"}
    /\ Fails(j, jobs[j].at = "refused")
    /\ UNCHANGED <<refresh, socks, cur, ids, starts, happened>> /\ JobUnchanged

\* connect(): nothing here looks at stopped, or at the socket it replaces.
Opens(j) ==
    /\ jobs[j].at = "connecting"
    /\ \E s \in {s \in Socks : socks[s] = NoSock} :
          /\ socks' = [socks EXCEPT ![s] = [at |-> "opening", job |-> j, token |-> mem.token]]
          /\ cur' = s
    /\ GoesTo(j, "opening", jobs[j].for)
    /\ UNCHANGED <<refresh, stopped, timer, wanted, ids, starts, happened>> /\ JobUnchanged

RequestServed(j) ==
    /\ jobs[j].at = "asking" /\ jobs[j].token \in live
    /\ jobs' = [jobs EXCEPT ![j] = NoJob]
    /\ UNCHANGED <<refresh, socks, cur, stopped, timer, wanted, ids, starts, happened>> /\ JobUnchanged

\* 401, once answered by a refresh and the same request again.
RequestUnauthorized(j) ==
    /\ jobs[j].at = "asking" /\ jobs[j].token \notin live
    /\ IF jobs[j].for = "first" THEN GoesTo(j, "joining", "retry")
       ELSE jobs' = [jobs EXCEPT ![j] = NoJob]
    /\ UNCHANGED <<refresh, socks, cur, stopped, timer, wanted, ids, starts, happened>> /\ JobUnchanged

Job(j) ==
    \/ Loaded(j) \/ NotExpiring(j) \/ Joins(j) \/ GoesOn(j) \/ GivesUp(j)
    \/ Opens(j) \/ RequestServed(j) \/ RequestUnauthorized(j) \/ Activation(j)

-----------------------------------------------------------------------------
(* Sockets.                                                                *)

SockUnchanged == UNCHANGED <<file, mem, pend, refresh, issuer, code, live, ids>>

\* READY on the current socket: the call that opened it resolves, if the ten
\* seconds are not over; a socket that is late is closing already.
SockReady(s) ==
    /\ cur = s /\ socks[s].token \in live
    /\ socks[s].at = "opening" \/ (LateReady /\ socks[s].at = "late")
    /\ jobs' = [j \in Jobs |-> IF j = socks[s].job THEN NoJob ELSE jobs[j]]
    /\ socks' = [socks EXCEPT ![s].job = None,
                             ![s].at = IF socks[s].at = "late" THEN "closing" ELSE "ready"]
    /\ UNCHANGED <<cur, stopped, timer, wanted, starts, happened>> /\ SockUnchanged

\* Closed as 4001 or 1008 before READY: connectWithRefresh refreshes once.
SockRefused(s) ==
    /\ socks[s].at = "opening" /\ socks[s].token \notin live
    /\ SockGone(s)
    /\ IF jobs[socks[s].job].for = "first"
       THEN GoesTo(socks[s].job, "joining", "again") /\ UNCHANGED <<stopped, timer, wanted>>
       ELSE Fails(socks[s].job, TRUE)
    /\ UNCHANGED <<starts, happened>> /\ SockUnchanged

\* An error or a close before READY.
SockFails(s) ==
    /\ socks[s].at = "opening" /\ Counted
    /\ SockGone(s) /\ Fails(socks[s].job, FALSE)
    /\ SockUnchanged

\* No READY in ten seconds: the call rejects, the socket starts to close.  One
\* that was replaced never gets its READY.
SockTimesOut(s) ==
    /\ socks[s].at = "opening"
    /\ IF cur = s THEN Counted ELSE UNCHANGED <<starts, happened>>
    /\ socks' = [socks EXCEPT ![s] = [@ EXCEPT !.at = "late", !.job = None]]
    /\ Fails(socks[s].job, FALSE)
    /\ UNCHANGED cur /\ SockUnchanged

\* The connection breaks.
Drop(s) ==
    /\ socks[s].at = "ready" /\ Counted
    /\ SockGone(s) /\ Rescheduled
    /\ UNCHANGED <<jobs, stopped, wanted>> /\ SockUnchanged

\* Mutation: the recovery does not ask whether another call connects.
KickedTwice(s) ==
    /\ socks[s].at = "ready" /\ socks[s].token \notin live /\ FreeJobs # {}
    /\ SockGone(s) /\ Rescheduled
    /\ Begins("recover", "joining", "recover")
    /\ UNCHANGED <<stopped, wanted, starts, happened>> /\ SockUnchanged

\* The relay closes a session it no longer accepts: recoverRejectedSession.
Kicked(s) ==
    /\ socks[s].at = "ready" /\ socks[s].token \notin live /\ FreeJobs # {}
    /\ SockGone(s)
    /\ Begins("recover", "joining", "recover")
    /\ UNCHANGED <<stopped, timer, wanted, starts, happened>> /\ SockUnchanged

\* A socket the runtime closes is closed.
SockClosed(s) ==
    /\ socks[s].at \in {"closing", "late"}
    /\ SockGone(s)
    /\ IF socks[s].job # None THEN Fails(socks[s].job, FALSE)
       ELSE /\ IF socks[s].at = "late" THEN UNCHANGED timer ELSE Rescheduled
            /\ UNCHANGED <<jobs, stopped, wanted>>
    /\ UNCHANGED <<starts, happened>> /\ SockUnchanged

TimerFires ==
    /\ timer /\ FreeJobs # {}
    /\ timer' = FALSE
    /\ IF stopped THEN UNCHANGED jobs ELSE Begins("timer", "connecting", "first")
    /\ UNCHANGED <<socks, cur, stopped, wanted, starts, happened>> /\ SockUnchanged

Socket(s) ==
    \/ SockReady(s) \/ SockRefused(s) \/ SockTimesOut(s)
    \/ Kicked(s) \/ SockClosed(s)

-----------------------------------------------------------------------------
(* The refresh, and the issuer.                                            *)

RefreshUnchanged == UNCHANGED <<pend, socks, cur, stopped, timer, wanted, code, ids>>

\* refreshPromise settles, and with it every job that waits.
Settles(outcome) ==
    /\ refresh' = NoRefresh
    /\ jobs' = [j \in Jobs |-> IF jobs[j].at = "waiting" THEN [jobs[j] EXCEPT !.at = outcome]
                               ELSE jobs[j]]

\* credentialStore.save() resolves: the intent before the exchange, what the
\* issuer gave, or the credentials without the id it refused.
CredentialsSaved ==
    /\ refresh.at \in {"intent", "keeping", "restoring"}
    /\ file' = refresh.creds /\ mem' = refresh.creds
    /\ CASE refresh.at = "intent" ->
                refresh' = [refresh EXCEPT !.at = "asking"] /\ UNCHANGED jobs
         [] refresh.at = "keeping" -> Settles("granted")
         [] refresh.at = "restoring" -> Settles("refused")
    /\ UNCHANGED <<issuer, live, starts, happened>> /\ RefreshUnchanged

\* ... or rejects, before its rename or after it.
SaveFails(renamed) ==
    /\ refresh.at \in {"intent", "keeping", "restoring"} /\ Counted
    /\ file' = IF renamed THEN refresh.creds ELSE file
    /\ Settles("broken")
    /\ UNCHANGED <<mem, issuer, live>> /\ RefreshUnchanged

\* The issuer takes the exchange: new, a repetition of the last one, or refused.
Exchanged ==
    /\ refresh.at = "asking"
    /\ LET known == refresh.creds.token = issuer.token \/ refresh.creds = issuer.from
       IN  refresh' = [refresh EXCEPT !.at = "answered",
                          !.reply = IF known /\ ~issuer.revoked THEN "ok" ELSE "session"]
    /\ IF refresh.creds.token = issuer.token /\ ~issuer.revoked
       THEN /\ issuer' = [issuer EXCEPT !.token = @ + 1, !.from = refresh.creds]
            /\ live' = live \cup {issuer'.token}
       ELSE UNCHANGED <<issuer, live>>
    /\ UNCHANGED <<file, mem, jobs, starts, happened>> /\ RefreshUnchanged

\* The exchange, or its answer, is lost, or a check-in's deadline aborts it.
ExchangeLost ==
    /\ refresh.at \in {"asking", "answered"} /\ Counted
    /\ Settles("broken")
    /\ UNCHANGED <<file, mem, issuer, live>> /\ RefreshUnchanged

\* The answer: new credentials, or the ones before without the refused id.
Answered ==
    /\ refresh.at = "answered"
    /\ refresh' = IF refresh.reply = "ok"
                  THEN [at |-> "keeping", reply |-> None,
                        creds |-> [refresh.creds EXCEPT !.token = @ + 1, !.req = 0]]
                  ELSE [at |-> "restoring", reply |-> None,
                        creds |-> [refresh.creds EXCEPT !.req = 0]]
    /\ UNCHANGED <<file, mem, jobs, issuer, live, starts, happened>> /\ RefreshUnchanged

Refreshing == CredentialsSaved \/ Exchanged \/ Answered

\* The issuer's recovery window ends; the runtime has repeated within it what
\* was lost, in the file and in memory.
WindowEnds ==
    /\ {file.token, mem.token} = {issuer.token} /\ refresh = NoRefresh
    /\ issuer.from.req # 0 \/ code.by.req # 0
    /\ issuer' = [issuer EXCEPT !.from = NoCredentials]
    /\ code' = [code EXCEPT !.by = NoActivation, !.gave = 0]
    /\ UNCHANGED <<file, mem, pend, refresh, appVars, live, ids, starts, happened>>

\* A token whose exchange may still be repeated, minutes old, or one got to try
\* again a moment ago: the issuer gives it longer.
Again(j) == jobs[j].for = "again"
Fresh(t) ==
    \/ t = issuer.token /\ (issuer.from.req # 0 \/ code.by.req # 0)
    \/ t = mem.token /\ \E j \in Jobs : Again(j) /\ jobs[j].at \in {"granted", "connecting"}
    \/ \E s \in Socks : socks[s].job # None /\ Again(socks[s].job) /\ socks[s].token = t

AccessExpires ==
    /\ Counted
    /\ \E t \in live : ~(LongLived /\ Fresh(t)) /\ live' = live \ {t}
    /\ UNCHANGED <<file, mem, pend, refresh, appVars, issuer, code, ids>>

Revoke ==
    /\ issuer.token # 0 /\ ~issuer.revoked
    /\ issuer' = [issuer EXCEPT !.revoked = TRUE] /\ live' = {}
    /\ UNCHANGED <<file, mem, pend, refresh, appVars, code, ids, starts, happened>>

\* A new code for the runtime whose sessions were revoked; a start() in
\* progress has the code the agent was made with.
NewCode ==
    /\ issuer.revoked /\ ~code.open /\ code.n < MaxCodes
    /\ \A j \in Jobs : jobs[j].kind \notin Starters
    /\ code' = [n |-> code.n + 1, open |-> TRUE, by |-> NoActivation, gave |-> 0]
    /\ UNCHANGED <<file, mem, pend, refresh, appVars, issuer, live, ids, starts, happened>>

Init ==
    /\ file = NoCredentials /\ mem = file /\ pend = NoActivation
    /\ refresh = NoRefresh
    /\ jobs = [j \in Jobs |-> NoJob] /\ socks = [s \in Socks |-> NoSock] /\ cur = None
    /\ stopped = FALSE /\ timer = FALSE /\ wanted = FALSE
    /\ issuer = [token |-> 0, from |-> NoCredentials, revoked |-> FALSE, keys |-> {}]
    /\ code = [n |-> 1, open |-> TRUE, by |-> NoActivation, gave |-> 0]
    /\ live = {} /\ ids = 0 /\ starts = 0 /\ happened = 0

Next ==
    \/ Start \/ Stop \/ Crash \/ Request \/ TimerFires
    \/ \E j \in Jobs : Job(j) \/ Expiring(j)
    \/ \E s \in Socks : Socket(s) \/ SockFails(s) \/ Drop(s)
    \/ Refreshing \/ (\E renamed \in BOOLEAN : SaveFails(renamed)) \/ ExchangeLost
    \/ \E j \in Jobs : ActivationLost(j) \/ \E renamed \in BOOLEAN : ActivationSaveFails(j, renamed)
    \/ WindowEnds \/ AccessExpires \/ Revoke \/ NewCode

Spec == Init /\ [][Next]_vars

\* The event loop and the disk work, the servers answer, timers fire.
Fairness ==
    /\ WF_vars(TimerFires) /\ WF_vars(Refreshing)
    /\ \A j \in Jobs : WF_vars(Job(j))
    /\ \A s \in Socks : WF_vars(Socket(s))

FairSpec == Spec /\ Fairness

-----------------------------------------------------------------------------
(* Properties.                                                             *)

\* sdk/node/README.md:50 and 161: the token of an activation or an exchange is
\* never wasted, and the agent stays who it is.  Whatever is lost or crashes, a
\* session that is not revoked can be continued with the file, for a new
\* exchange or the pending one, or with the activation that is remembered; the
\* issuer is never shown a second pair of identity keys.
CredentialsStayGood ==
    /\ TypeOK
    /\ Cardinality(issuer.keys) <= 1 /\ (file.token # 0 => issuer.keys = {file.keys})
    /\ \/ issuer.revoked \/ file.token = issuer.token
       \/ file.req # 0 /\ file = issuer.from
       \/ pend.req # 0 /\ pend = code.by /\ code.gave = issuer.token

\* The agent gives its session up only when the owner took it away: no loss,
\* race of refreshes or expiry looks like a revocation (recoverRejectedSession,
\* scheduleReconnect).
GivesUpOnlyIfRevoked ==
    [][~stopped /\ stopped' /\ wanted' => issuer.revoked]_stopped

\* Calls that connect never race each other into two connections of one
\* runtime: as long as the application restarts an agent at rest, a socket that
\* connects or is connected is replaced only when it is gone or closing.
OneConnection ==
    \A s, t \in Socks :
        {socks[s].at, socks[t].at} \subseteq {"opening", "ready"} => s = t

\* A runtime the application wants to run gets its connection back, gives up
\* for a reason, or its start() rejected.
ComesBack == (wanted /\ ~stopped) ~> (Connected \/ stopped \/ ~wanted)
=============================================================================
