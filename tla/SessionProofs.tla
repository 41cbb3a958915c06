--------------------------- MODULE SessionProofs ---------------------------
(***************************************************************************)
(* One connection, and credentials that can always be continued, for any   *)
(* numbers of calls, sockets, starts and connection codes.                 *)
(*                                                                         *)
(* CallsInv is common to both: what a call of each kind may be doing, that *)
(* a socket that opens belongs to one call, and that start() is alone.     *)
(* With it one connection follows from a count (Lone).  The credentials    *)
(* need to know how far an activation or a refresh came (Continues): while *)
(* the runtime is not revoked there is no activation yet, or the last one  *)
(* is remembered and its answer was not seen, or the token it gave is on   *)
(* file, or file and memory hold what the issuer continues.  Where calls   *)
(* connect again by themselves it is the last, and the one that was        *)
(* refused once connects with an access token that is accepted (GoodJob):  *)
(* a session is given up only when it was revoked.                         *)
(***************************************************************************)
EXTENDS Session, FiniteSetTheorems, TLAPS

-----------------------------------------------------------------------------
(* The calls.                                                              *)

JobType == [kind : JobKinds, at : JobStages, for : Purposes, token : Nat]
SockType == [at : {"free", "opening", "late", "ready", "closing"}, job : Jobs \cup {None}, token : Nat]
RefreshType == [at : {None, "intent", "asking", "answered", "keeping", "restoring"},
                creds : Credentials, reply : {None, "ok", "session"}]

\* What TypeOK says of the rest: credentials, issuer, flags and counters.
RestTyped ==
    /\ file \in Credentials /\ mem \in Credentials /\ refresh \in RefreshType
    /\ stopped \in BOOLEAN /\ timer \in BOOLEAN /\ wanted \in BOOLEAN
    /\ issuer \in [token : Nat, from : Credentials, revoked : BOOLEAN, keys : SUBSET Nat]
    /\ pend \in [req : Nat, keys : Nat]
    /\ code \in [n : 1 .. MaxCodes, open : BOOLEAN, by : [req : Nat, keys : Nat], gave : Nat]
    /\ live \subseteq 0 .. issuer.token /\ ids \in Nat
    /\ starts \in 0 .. MaxStarts /\ happened \in 0 .. MaxHappenings

Activating == {"pairing", "taking", "taken", "forgetting"}
Over(j) == jobs[j].kind = None
Starter(j) == jobs[j].kind \in Starters

\* What a call of each kind may be doing.
JobFits(j) ==
    /\ jobs[j].kind = None <=> jobs[j].at = "idle"
    /\ jobs[j].at \in Activating \cup {"loading"} => Starter(j)
    /\ jobs[j].at = "asking" => ~Starter(j)
    /\ jobs[j].at \in {"connecting", "opening"} => jobs[j].kind # "request" /\ jobs[j].for \in {"first", "again"}
    /\ jobs[j].at \in {"joining", "waiting", "granted"} =>
         /\ jobs[j].for \in {"prepare", "again", "recover", "retry"}
         /\ jobs[j].kind = "request" => jobs[j].for \in {"prepare", "retry"}
         /\ Starter(j) => jobs[j].for \in {"prepare", "again"}

JobsFit == \A j \in Jobs : JobFits(j)

\* A socket belongs to the call that opened it until that one is answered.
SocksInv ==
    /\ \A s \in Socks : socks[s].at = "opening" => socks[s].job # None
    /\ \A s \in Socks : socks[s].job # None => socks[s].at \in {"opening", "closing"}
    /\ \A s, t \in Socks : socks[s].job = socks[t].job /\ socks[s].job # None => s = t

\* start() works alone.
Alone ==
    \A j \in Jobs : Starter(j) =>
        /\ \A k \in Jobs : k # j => Over(k)
        /\ ~timer /\ \A s \in Socks : socks[s].at # "free" => socks[s].job = j

CallsInv == TypeOK /\ JobsFit /\ SocksInv /\ Alone

-----------------------------------------------------------------------------
\* A call waits for a socket exactly while one is its own.
Linked == \A j \in Jobs : jobs[j].at = "opening" <=> \E s \in Socks : socks[s].job = j

LEMMA Types ==
    TypeOK <=>
      /\ RestTyped /\ jobs \in [Jobs -> JobType] /\ socks \in [Socks -> SockType]
      /\ Linked
      /\ \A j \in Jobs : jobs[j].at = "waiting" => refresh.at # None
      /\ cur \in Socks \cup {None}
      /\ cur # None => socks[cur].at # "free"
  BY DEF TypeOK, Linked, RestTyped, JobType, SockType, RefreshType

LEMMA TypesAfter ==
    TypeOK' <=>
      /\ RestTyped' /\ jobs' \in [Jobs -> JobType] /\ socks' \in [Socks -> SockType]
      /\ Linked'
      /\ \A j \in Jobs : jobs'[j].at = "waiting" => refresh'.at # None
      /\ cur' \in Socks \cup {None}
      /\ cur' # None => socks'[cur'].at # "free"
  BY DEF TypeOK, Linked, RestTyped, JobType, SockType, RefreshType

\* All jobs but one are what they were.
Others(j) == \A k \in Jobs \ {j} : jobs'[k] = jobs[k]

LEMMA KindsAndStages ==
    /\ None = "none" /\ JobKinds = {None, "request", "start", "pair", "timer", "recover"}
    /\ Starters = {"start", "pair"} /\ Chains = {"timer", "recover"} /\ None \in Purposes
    /\ NoJob \in JobType /\ NoSock \in SockType /\ NoJob.at = "idle" /\ NoJob.kind = None
    /\ NoSock.at = "free" /\ NoSock.job = None
  BY DEF None, JobKinds, Starters, Chains, Purposes, NoJob, NoSock, JobType, SockType, JobStages

LEMMA JobGoes ==
    ASSUME TypeOK, NEW j \in Jobs, NEW at \in JobStages, NEW for \in Purposes, GoesTo(j, at, for)
    PROVE  /\ jobs' \in [Jobs -> JobType] /\ Others(j)
           /\ jobs'[j].at = at /\ jobs'[j].for = for
           /\ jobs'[j].kind = jobs[j].kind /\ jobs'[j].token = jobs[j].token
  <1>1. jobs \in [Jobs -> JobType] /\ jobs[j] \in JobType
    BY Types
  <1>2. [jobs[j] EXCEPT !.at = at, !.for = for] \in JobType
    BY <1>1 DEF JobType
  <1> QED
    BY <1>1, <1>2 DEF GoesTo, Others, JobType

LEMMA JobSends ==
    ASSUME TypeOK, NEW j \in Jobs, NEW for \in Purposes, Sends(j, for)
    PROVE  /\ jobs' \in [Jobs -> JobType] /\ Others(j)
           /\ jobs'[j].at = "asking" /\ jobs'[j].for = for
           /\ jobs'[j].kind = jobs[j].kind
  <1>1. jobs \in [Jobs -> JobType] /\ jobs[j] \in JobType /\ mem.token \in Nat
    BY Types DEF RestTyped, Credentials
  <1>2. [jobs[j] EXCEPT !.at = "asking", !.for = for, !.token = mem.token] \in JobType
    BY <1>1 DEF JobType, JobStages
  <1> QED
    BY <1>1, <1>2 DEF Sends, Others, JobType

LEMMA Beginnings ==
    /\ {"start", "request", "timer", "recover"} \subseteq JobKinds
    /\ {"loading", "checking", "connecting", "joining"} \subseteq JobStages
    /\ {"prepare", "first", "recover"} \subseteq Purposes
  BY KindsAndStages DEF JobStages, Purposes

LEMMA JobBegins ==
    ASSUME TypeOK, FreeJobs # {}, NEW kind \in JobKinds, NEW at \in JobStages, NEW for \in Purposes,
           Begins(kind, at, for)
    PROVE  \E j \in Jobs : /\ jobs[j] = NoJob /\ Others(j) /\ jobs' \in [Jobs -> JobType]
                           /\ jobs'[j] = [kind |-> kind, at |-> at, for |-> for, token |-> 0]
  <1>1. PICK j \in {CHOOSE j \in FreeJobs : TRUE} :
             jobs' = [jobs EXCEPT ![j] = [kind |-> kind, at |-> at, for |-> for, token |-> 0]]
    BY DEF Begins
  <1>2. j \in FreeJobs
    BY <1>1
  <1>3. jobs \in [Jobs -> JobType] /\ [kind |-> kind, at |-> at, for |-> for, token |-> 0] \in JobType
    BY Types DEF JobType
  <1> QED
    BY <1>1, <1>2, <1>3 DEF FreeJobs, Others

\* A call is over.
LEMMA JobEnds ==
    ASSUME TypeOK, NEW j \in Jobs, jobs' = [jobs EXCEPT ![j] = NoJob]
    PROVE  jobs' \in [Jobs -> JobType] /\ Others(j) /\ jobs'[j] = NoJob
  BY Types, KindsAndStages DEF Others

LEMMA JobFails ==
    ASSUME TypeOK, NEW j \in Jobs, NEW session \in BOOLEAN, Fails(j, session)
    PROVE  /\ jobs' \in [Jobs -> JobType] /\ Others(j)
           /\ {stopped', timer', wanted'} \subseteq BOOLEAN
           /\ \/ /\ session /\ jobs[j].kind = "start" /\ jobs'[j] = [NoJob EXCEPT !.kind = "pair", !.at = "pairing"]
                 /\ UNCHANGED <<stopped, timer, wanted>>
              \/ /\ ~(session /\ jobs[j].kind = "start") /\ jobs'[j] = NoJob
                 /\ (wanted' <=> wanted /\ jobs[j].kind \notin Starters)
                 /\ (stopped' <=> stopped \/ (session /\ jobs[j].kind \in Chains))
                 /\ (timer' <=> timer \/ (jobs[j].kind \in Chains /\ ~stopped'))
  <1>1. jobs \in [Jobs -> JobType] /\ jobs[j] \in JobType /\ NoJob \in JobType
        /\ stopped \in BOOLEAN /\ timer \in BOOLEAN /\ wanted \in BOOLEAN
    BY Types, KindsAndStages DEF RestTyped
  <1>2. CASE session /\ jobs[j].kind = "start"
    <2>1. [NoJob EXCEPT !.kind = "pair", !.at = "pairing"] \in JobType
      BY KindsAndStages DEF JobType, NoJob, JobStages
    <2> QED
      BY <1>1, <1>2, <2>1 DEF Fails, Others
  <1>3. CASE ~(session /\ jobs[j].kind = "start")
    <2>1. /\ jobs' = [jobs EXCEPT ![j] = NoJob]
          /\ stopped' = (stopped \/ (session /\ jobs[j].kind \in Chains))
          /\ timer' = (timer \/ (jobs[j].kind \in Chains /\ ~stopped'))
          /\ wanted' = (wanted /\ jobs[j].kind \notin Starters)
      BY <1>3 DEF Fails
    <2>2. jobs' \in [Jobs -> JobType] /\ Others(j) /\ jobs'[j] = NoJob
      BY <2>1, JobEnds
    <2> QED
      BY <1>1, <1>3, <2>1, <2>2
  <1> QED
    BY <1>2, <1>3

-----------------------------------------------------------------------------
(* Steps of the calls.                                                     *)

LEMMA FitStays == ASSUME NEW k, JobFits(k), jobs'[k] = jobs[k] PROVE JobFits(k)'
  BY DEF JobFits, Starter

\* A call that is at work, and has no socket, goes on.
LEMMA CallMoves ==
    ASSUME CallsInv, NEW j \in Jobs, jobs' \in [Jobs -> JobType], Others(j), RestTyped',
           ~Over(j), jobs[j].at # "opening", jobs'[j].at # "opening", JobFits(j)',
           jobs'[j].at = "waiting" => refresh'.at # None, refresh.at # None => refresh'.at # None,
           Starter(j)' => Starter(j), Starter(j) => timer' = timer,
           UNCHANGED <<socks, cur>>
    PROVE  CallsInv'
  <1>1. TypeOK'
    BY Types, TypesAfter DEF CallsInv, Linked, Others
  <1>2. JobsFit'
    BY FitStays DEF CallsInv, JobsFit, Others
  <1>3. SocksInv'
    BY DEF CallsInv, SocksInv
  <1>4. Alone'
    BY DEF CallsInv, Alone, Others, Starter, Over
  <1> QED
    BY <1>1, <1>2, <1>3, <1>4 DEF CallsInv

LEMMA CallsStay ==
    ASSUME CallsInv, RestTyped', UNCHANGED <<jobs, socks, cur, timer>>, refresh.at # None => refresh'.at # None
    PROVE  CallsInv'
  <1>1. TypeOK'
    BY Types, TypesAfter DEF CallsInv, Linked
  <1>2. JobsFit' /\ SocksInv' /\ Alone'
    BY FitStays DEF CallsInv, JobsFit, SocksInv, Alone, Starter, Over
  <1> QED
    BY <1>1, <1>2 DEF CallsInv

\* A call with a stage and a purpose it may have.
LEMMA AtWork ==
    ASSUME CallsInv, NEW j \in Jobs
    PROVE  /\ jobs[j] \in JobType /\ RestTyped /\ TypeOK /\ JobFits(j) /\ jobs \in [Jobs -> JobType]
           /\ jobs[j].at # "idle" => ~Over(j)
  BY Types DEF CallsInv, JobsFit, JobFits, Over

LEMMA LoadedCalls == ASSUME CallsInv, NEW j \in Jobs, Loaded(j) PROVE CallsInv'
  <1>1. jobs[j].at = "loading" /\ Starter(j)
    BY AtWork DEF Loaded, JobFits
  <1>2. RestTyped'
    BY AtWork DEF Loaded, RestTyped
  <1>3. /\ jobs' \in [Jobs -> JobType] /\ Others(j) /\ Starter(j)'
        /\ jobs'[j].at \in {"checking", "pairing"}
    <2>1. CASE file.token # 0
      BY <1>1, <2>1, AtWork, JobGoes DEF Loaded, JobStages, Purposes, Starter
    <2>2. CASE file.token = 0
      <3>1. [jobs[j] EXCEPT !.kind = "pair", !.at = "pairing"] \in JobType
        BY AtWork DEF JobType, JobKinds, JobStages, Starters
      <3>2. jobs' = [jobs EXCEPT ![j] = [jobs[j] EXCEPT !.kind = "pair", !.at = "pairing"]]
        BY <2>2 DEF Loaded
      <3>3. [jobs[j] EXCEPT !.kind = "pair", !.at = "pairing"].kind \in Starters
            /\ [jobs[j] EXCEPT !.kind = "pair", !.at = "pairing"].at = "pairing"
        BY AtWork, KindsAndStages DEF JobType
      <3> QED
        BY <3>1, <3>2, <3>3, AtWork DEF Others, Starter
    <2> QED
      BY <2>1, <2>2
  <1>4. JobFits(j)'
    BY <1>3, KindsAndStages DEF JobFits, Starter, Activating
  <1> QED
    BY <1>1, <1>2, <1>3, <1>4, AtWork, CallMoves DEF Loaded

LEMMA CheckedCalls ==
    ASSUME CallsInv, NEW j \in Jobs, NotExpiring(j) \/ Expiring(j)
    PROVE  CallsInv'
  <1>1. jobs[j].at = "checking" /\ UNCHANGED <<refresh, socks, cur, stopped, timer, wanted>>
    BY DEF NotExpiring, Expiring
  <1>2. RestTyped'
    BY AtWork, LimitsAssumption DEF NotExpiring, Expiring, Counted, JobUnchanged, RestTyped
  <1>3. /\ jobs' \in [Jobs -> JobType] /\ Others(j) /\ jobs'[j].kind = jobs[j].kind
        /\ \/ jobs[j].kind \in Starters /\ jobs'[j].at = "connecting" /\ jobs'[j].for = "first"
           \/ jobs[j].kind \notin Starters /\ jobs'[j].at = "asking"
           \/ jobs'[j].at = "joining" /\ jobs'[j].for = "prepare"
    BY AtWork, JobGoes, JobSends DEF NotExpiring, Expiring, JobStages, Purposes
  <1>4. JobFits(j)'
    BY <1>1, <1>3, AtWork, KindsAndStages DEF JobFits, Starter, Activating
  <1> QED
    BY <1>1, <1>2, <1>3, <1>4, AtWork, CallMoves DEF Starter

LEMMA JoinedCalls == ASSUME CallsInv, NEW j \in Jobs, Joins(j) PROVE CallsInv'
  <1>1. /\ jobs[j].at = "joining" /\ UNCHANGED <<file, mem, pend, issuer, code, live>>
        /\ UNCHANGED <<socks, cur, stopped, timer, wanted, starts, happened>>
    BY DEF Joins, JobUnchanged
  <1>2. RestTyped' /\ refresh'.at # None
    <2>1. CASE refresh.at # None
      BY <1>1, <2>1, AtWork DEF Joins, RestTyped
    <2>2. CASE refresh.at = None
      <3>1. mem \in Credentials /\ ids \in Nat /\ [mem EXCEPT !.req = ids + 1] \in Credentials
        BY AtWork DEF RestTyped, Credentials
      <3>2. \/ ids' = ids /\ refresh' = [at |-> "asking", creds |-> mem, reply |-> None]
            \/ ids' = ids + 1 /\ refresh' = [at |-> "intent", creds |-> [mem EXCEPT !.req = ids + 1], reply |-> None]
        BY <2>2 DEF Joins
      <3>3. refresh' \in RefreshType /\ ids' \in Nat /\ refresh'.at # None
        BY <3>1, <3>2 DEF RefreshType, None
      <3> QED
        BY <1>1, <3>3, AtWork DEF RestTyped
    <2> QED
      BY <2>1, <2>2
  <1>3. /\ jobs' \in [Jobs -> JobType] /\ Others(j) /\ jobs'[j].kind = jobs[j].kind
        /\ jobs'[j].at = "waiting" /\ jobs'[j].for = jobs[j].for
    BY AtWork, JobGoes DEF Joins, JobStages, JobType
  <1>4. JobFits(j)'
    BY <1>1, <1>3, AtWork, KindsAndStages DEF JobFits, Starter, Activating
  <1> QED
    BY <1>1, <1>2, <1>3, <1>4, AtWork, CallMoves DEF Starter

\* What a call does once the refresh it waited for was granted.
LEMMA GrantedGoes ==
    ASSUME CallsInv, NEW j \in Jobs, GoesOn(j)
    PROVE  /\ jobs[j].at = "granted" /\ jobs' \in [Jobs -> JobType] /\ Others(j)
           /\ \/ /\ jobs[j].for = "again" /\ jobs'[j].at = "connecting" /\ jobs'[j].for = "again"
                 /\ jobs'[j].kind = jobs[j].kind /\ jobs[j].kind # "request"
              \/ jobs[j].for = "recover" /\ stopped /\ jobs'[j] = NoJob /\ jobs[j].kind \notin Starters
              \/ /\ jobs[j].for \in {"recover", "prepare"} /\ jobs'[j].at = "connecting" /\ jobs'[j].for = "first"
                 /\ jobs'[j].kind = jobs[j].kind /\ jobs[j].kind # "request"
                 /\ jobs[j].for = "prepare" => jobs[j].kind \in Starters
              \/ /\ jobs[j].for \in {"retry", "prepare"} /\ jobs'[j].at = "asking" /\ jobs'[j].kind = jobs[j].kind
                 /\ jobs[j].kind \notin Starters
  <1>1. jobs[j].at = "granted" /\ jobs[j].for \in {"prepare", "again", "recover", "retry"}
    BY AtWork DEF GoesOn, JobFits
  <1>2. /\ jobs[j].kind = "request" => jobs[j].for \in {"prepare", "retry"}
        /\ jobs[j].kind \in Starters => jobs[j].for \in {"prepare", "again"}
    BY <1>1, AtWork DEF JobFits, Starter
  <1>3. CASE jobs[j].for = "again"
    BY <1>1, <1>2, <1>3, AtWork, JobGoes DEF GoesOn, JobStages, Purposes
  <1>4. CASE jobs[j].for = "recover" /\ stopped
    BY <1>1, <1>2, <1>4, AtWork, JobEnds DEF GoesOn
  <1>5. CASE jobs[j].for = "recover" /\ ~stopped
    BY <1>1, <1>2, <1>5, AtWork, JobGoes DEF GoesOn, JobStages, Purposes
  <1>6. CASE jobs[j].for = "retry"
    BY <1>1, <1>2, <1>6, AtWork, JobSends DEF GoesOn, Purposes
  <1>7. CASE jobs[j].for = "prepare" /\ jobs[j].kind \in Starters
    BY <1>1, <1>7, AtWork, JobGoes, KindsAndStages DEF GoesOn, JobStages, Purposes
  <1>8. CASE jobs[j].for = "prepare" /\ jobs[j].kind \notin Starters
    BY <1>1, <1>8, AtWork, JobSends DEF GoesOn, Purposes
  <1> QED
    BY <1>1, <1>3, <1>4, <1>5, <1>6, <1>7, <1>8

LEMMA GrantedCalls == ASSUME CallsInv, NEW j \in Jobs, GoesOn(j) PROVE CallsInv'
  <1>1. UNCHANGED <<refresh, socks, cur, stopped, timer, wanted, ids, starts, happened>> /\ JobUnchanged
    BY DEF GoesOn
  <1>2. RestTyped'
    BY <1>1, AtWork DEF JobUnchanged, RestTyped
  <1>3. /\ jobs[j].at = "granted" /\ jobs' \in [Jobs -> JobType] /\ Others(j)
        /\ \/ jobs'[j] = NoJob
           \/ /\ jobs'[j].kind = jobs[j].kind /\ jobs'[j].at = "connecting" /\ jobs[j].kind # "request"
              /\ jobs'[j].for \in {"first", "again"}
           \/ jobs'[j].kind = jobs[j].kind /\ jobs'[j].at = "asking" /\ ~Starter(j)
    BY GrantedGoes, AtWork DEF JobFits, Starter
  <1>4. JobFits(j)' /\ (Starter(j)' => Starter(j)) /\ jobs'[j].at \notin {"opening", "waiting"}
    BY <1>3, AtWork, KindsAndStages DEF JobFits, Starter, Activating
  <1> QED
    BY <1>1, <1>2, <1>3, <1>4, AtWork, CallMoves

\* A failed call has no place any more, or is the activation of its start().
LEMMA FailedCalls ==
    ASSUME CallsInv, NEW j \in Jobs, NEW session \in BOOLEAN, Fails(j, session), RestTyped',
           ~Over(j), jobs[j].at # "opening", refresh.at # None => refresh'.at # None, UNCHANGED <<socks, cur>>
    PROVE  CallsInv'
  <1>1. /\ jobs' \in [Jobs -> JobType] /\ Others(j)
        /\ \/ jobs'[j] = NoJob
           \/ jobs'[j] = [NoJob EXCEPT !.kind = "pair", !.at = "pairing"] /\ jobs[j].kind = "start"
        /\ jobs[j].kind \in Starters => timer' = timer
    <2>1. timer \in BOOLEAN /\ timer' \in BOOLEAN
      BY AtWork DEF RestTyped
    <2> QED
      BY <2>1, AtWork, JobFails, KindsAndStages
  <1>2. JobFits(j)' /\ (Starter(j)' => Starter(j)) /\ jobs'[j].at \notin {"opening", "waiting"}
    BY <1>1, AtWork, KindsAndStages DEF JobFits, Starter, Activating, NoJob
  <1> QED
    BY <1>1, <1>2, AtWork, CallMoves DEF Starter

LEMMA GivenUpCalls == ASSUME CallsInv, NEW j \in Jobs, GivesUp(j) PROVE CallsInv'
  <1>1. /\ jobs[j].at \in {"refused", "broken"} /\ Fails(j, jobs[j].at = "refused")
        /\ UNCHANGED <<refresh, socks, cur, ids, starts, happened>> /\ JobUnchanged
    BY DEF GivesUp
  <1>2. RestTyped'
    BY <1>1, AtWork, JobFails DEF JobUnchanged, RestTyped
  <1> QED
    BY <1>1, <1>2, AtWork, FailedCalls

LEMMA ServedCalls == ASSUME CallsInv, NEW j \in Jobs, RequestServed(j) \/ RequestUnauthorized(j) PROVE CallsInv'
  <1>1. /\ jobs[j].at = "asking"
        /\ UNCHANGED <<refresh, socks, cur, stopped, timer, wanted, ids, starts, happened>> /\ JobUnchanged
    BY DEF RequestServed, RequestUnauthorized
  <1>2. RestTyped'
    BY <1>1, AtWork DEF JobUnchanged, RestTyped
  <1>3. /\ jobs' \in [Jobs -> JobType] /\ Others(j)
        /\ \/ jobs'[j] = NoJob
           \/ jobs'[j].at = "joining" /\ jobs'[j].for = "retry" /\ jobs'[j].kind = jobs[j].kind
    BY AtWork, JobGoes, JobEnds DEF RequestServed, RequestUnauthorized, JobStages, Purposes
  <1>4. JobFits(j)' /\ (Starter(j)' => Starter(j)) /\ jobs'[j].at \notin {"opening", "waiting"}
    BY <1>1, <1>3, AtWork, KindsAndStages DEF JobFits, Starter, Activating
  <1> QED
    BY <1>1, <1>2, <1>3, <1>4, AtWork, CallMoves

-----------------------------------------------------------------------------
(* Activation.                                                             *)

LEMMA RememberedTypes ==
    ASSUME RestTyped, NEW written \in BOOLEAN, Remembers(written)
    PROVE  ids' \in Nat /\ pend' \in [req : Nat, keys : Nat]
  BY DEF RestTyped, Remembers, Credentials

LEMMA PairedCalls == ASSUME CallsInv, NEW j \in Jobs, Pairs(j) PROVE CallsInv'
  <1>1. /\ jobs[j].at = "pairing" /\ GoesTo(j, "taking", "prepare")
        /\ UNCHANGED <<file, mem, stopped, timer, wanted, issuer, code, live, happened, refresh, socks, cur, starts>>
        /\ (UNCHANGED <<pend, ids>> \/ Remembers(TRUE))
    BY DEF Pairs, ActivationUnchanged
  <1>2. ids' \in Nat /\ pend' \in [req : Nat, keys : Nat]
    BY <1>1, AtWork, RememberedTypes DEF RestTyped
  <1>3. RestTyped'
    BY <1>1, <1>2, AtWork DEF RestTyped
  <1>4. /\ jobs' \in [Jobs -> JobType] /\ Others(j) /\ jobs'[j].kind = jobs[j].kind
        /\ jobs'[j].at = "taking"
    BY <1>1, AtWork, JobGoes DEF JobStages, Purposes
  <1>5. JobFits(j)' /\ Starter(j)
    BY <1>1, <1>4, AtWork, KindsAndStages DEF JobFits, Starter, Activating
  <1> QED
    BY <1>1, <1>3, <1>4, <1>5, AtWork, CallMoves

LEMMA TakenGoes ==
    ASSUME CallsInv, NEW j \in Jobs, Activated(j), code'.gave \in Nat
    PROVE  /\ jobs' \in [Jobs -> JobType] /\ Others(j) /\ jobs'[j].kind = jobs[j].kind
           /\ jobs'[j].at = "taken" /\ jobs'[j].for = jobs[j].for
           /\ jobs'[j].token = IF code'.by = pend /\ ~issuer'.revoked THEN code'.gave ELSE 0
  <1> DEFINE token == IF code'.by = pend /\ ~issuer'.revoked THEN code'.gave ELSE 0
  <1>1. token \in Nat /\ jobs' = [jobs EXCEPT ![j] = [@ EXCEPT !.at = "taken", !.token = token]]
    BY DEF Activated
  <1>2. jobs \in [Jobs -> JobType] /\ jobs[j] \in JobType
    BY AtWork
  <1> HIDE DEF token
  <1>3. [jobs[j] EXCEPT !.at = "taken", !.token = token] \in JobType
    BY <1>1, <1>2 DEF JobType, JobStages
  <1>4. /\ jobs' \in [Jobs -> JobType] /\ Others(j) /\ jobs'[j].kind = jobs[j].kind
        /\ jobs'[j].at = "taken" /\ jobs'[j].for = jobs[j].for /\ jobs'[j].token = token
    BY <1>1, <1>2, <1>3 DEF Others, JobType
  <1> QED
    BY <1>4 DEF token

LEMMA ActivatedKinds ==
    ASSUME CallsInv, NEW j \in Jobs, Activated(j)
    PROVE  \A k \in Jobs : jobs'[k].kind = jobs[k].kind
  <1>1. \A k \in Jobs : jobs[k] \in JobType
    BY AtWork
  <1>2. PICK token : jobs' = [jobs EXCEPT ![j] = [@ EXCEPT !.at = "taken", !.token = token]]
    BY DEF Activated
  <1> QED
    BY <1>1, <1>2, Types DEF CallsInv, JobType

LEMMA ActivatedCalls == ASSUME CallsInv, NEW j \in Jobs, Activated(j) PROVE CallsInv'
  <1>1. /\ jobs[j].at = "taking"
        /\ UNCHANGED <<file, mem, pend, stopped, timer, wanted, ids, happened, refresh, socks, cur, starts>>
    BY DEF Activated, ActivationUnchanged
  <1>2. RestTyped' /\ code'.gave \in Nat
    <2>1. CASE code.open
      <3>1. /\ code' = [code EXCEPT !.open = FALSE, !.by = pend, !.gave = issuer.token + 1]
            /\ issuer' = [token |-> issuer.token + 1, from |-> NoCredentials, revoked |-> FALSE,
                          keys |-> issuer.keys \cup {pend.keys}]
            /\ live' = {issuer.token + 1}
        BY <2>1 DEF Activated
      <3>2. issuer.token + 1 \in Nat /\ pend.keys \in Nat /\ NoCredentials \in Credentials /\ issuer.keys \in SUBSET Nat
        BY AtWork DEF RestTyped, NoCredentials, Credentials
      <3>3. issuer' \in [token : Nat, from : Credentials, revoked : BOOLEAN, keys : SUBSET Nat]
        BY <3>1, <3>2
      <3>4. code' \in [n : 1 .. MaxCodes, open : BOOLEAN, by : [req : Nat, keys : Nat], gave : Nat]
        BY <3>1, <3>2, AtWork DEF RestTyped
      <3>5. live' \subseteq 0 .. issuer'.token
        BY <3>1, <3>2
      <3> QED
        BY <1>1, <3>3, <3>4, <3>5, AtWork DEF RestTyped
    <2>2. CASE ~code.open
      BY <1>1, <2>2, AtWork DEF Activated, RestTyped
    <2> QED
      BY <2>1, <2>2
  <1>3. /\ jobs' \in [Jobs -> JobType] /\ Others(j) /\ jobs'[j].kind = jobs[j].kind
        /\ jobs'[j].at = "taken"
    BY <1>2, TakenGoes
  <1>4. JobFits(j)' /\ Starter(j)
    BY <1>1, <1>3, AtWork, KindsAndStages DEF JobFits, Starter, Activating
  <1> QED
    BY <1>1, <1>2, <1>3, <1>4, AtWork, CallMoves

LEMMA CredentialsTyped ==
    ASSUME RestTyped, NEW token \in Nat
    PROVE  [token |-> token, req |-> 0, keys |-> pend.keys] \in Credentials
  BY DEF RestTyped, Credentials

LEMMA SavedCalls == ASSUME CallsInv, NEW j \in Jobs, ActivationSaved(j) PROVE CallsInv'
  <1>1. /\ jobs[j].at = "taken"
        /\ UNCHANGED <<mem, pend, issuer, code, live, ids, happened, refresh, socks, cur, starts>>
    BY DEF ActivationSaved, ActivationUnchanged
  <1>2. CASE jobs[j].token # 0
    <2>1. /\ file' = [token |-> jobs[j].token, req |-> 0, keys |-> pend.keys]
          /\ GoesTo(j, "forgetting", "prepare") /\ UNCHANGED <<stopped, timer, wanted>>
      BY <1>2 DEF ActivationSaved
    <2>2. file' \in Credentials
      BY <2>1, AtWork, CredentialsTyped DEF JobType
    <2>3. RestTyped'
      BY <1>1, <2>1, <2>2, AtWork DEF RestTyped
    <2>4. /\ jobs' \in [Jobs -> JobType] /\ Others(j) /\ jobs'[j].kind = jobs[j].kind
          /\ jobs'[j].at = "forgetting"
      BY <2>1, AtWork, JobGoes DEF JobStages, Purposes
    <2>5. JobFits(j)' /\ Starter(j)
      BY <1>1, <2>4, AtWork, KindsAndStages DEF JobFits, Starter, Activating
    <2> QED
      BY <1>1, <2>1, <2>3, <2>4, <2>5, AtWork, CallMoves
  <1>3. CASE jobs[j].token = 0
    <2>1. Fails(j, FALSE) /\ UNCHANGED file
      BY <1>3 DEF ActivationSaved
    <2>2. RestTyped'
      BY <1>1, <2>1, AtWork, JobFails DEF RestTyped
    <2> QED
      BY <1>1, <2>1, <2>2, AtWork, FailedCalls
  <1> QED
    BY <1>2, <1>3

LEMMA ForgottenCalls == ASSUME CallsInv, NEW j \in Jobs, Forgets(j) PROVE CallsInv'
  <1>1. /\ jobs[j].at = "forgetting" /\ GoesTo(j, "checking", "prepare")
        /\ mem' = [token |-> jobs[j].token, req |-> 0, keys |-> pend.keys] /\ pend' = NoActivation
        /\ UNCHANGED <<file, stopped, timer, wanted, issuer, code, live, ids, happened, refresh, socks, cur, starts>>
    BY DEF Forgets, ActivationUnchanged
  <1>2. mem' \in Credentials /\ pend' \in [req : Nat, keys : Nat]
    BY <1>1, AtWork, CredentialsTyped DEF JobType, NoActivation
  <1>3. RestTyped'
    BY <1>1, <1>2, AtWork DEF RestTyped
  <1>4. /\ jobs' \in [Jobs -> JobType] /\ Others(j) /\ jobs'[j].kind = jobs[j].kind
        /\ jobs'[j].at = "checking"
    BY <1>1, AtWork, JobGoes DEF JobStages, Purposes
  <1>5. JobFits(j)' /\ Starter(j)
    BY <1>1, <1>4, AtWork, KindsAndStages DEF JobFits, Starter, Activating
  <1> QED
    BY <1>1, <1>3, <1>4, <1>5, AtWork, CallMoves

LEMMA CountedTypes ==
    ASSUME RestTyped, Counted
    PROVE  starts' \in 0 .. MaxStarts /\ happened' \in 0 .. MaxHappenings
  BY LimitsAssumption DEF RestTyped, Counted

LEMMA ActivationFailsCalls ==
    ASSUME CallsInv, NEW j \in Jobs, ActivationLost(j) \/ \E renamed \in BOOLEAN : ActivationSaveFails(j, renamed)
    PROVE  CallsInv'
  <1>1. /\ jobs[j].at \in Activating /\ Fails(j, FALSE) /\ Counted
        /\ UNCHANGED <<mem, refresh, socks, cur, issuer, code, live>>
    BY DEF ActivationLost, ActivationSaveFails, Activating
  <1>2. file' \in Credentials /\ pend' \in [req : Nat, keys : Nat] /\ ids' \in Nat
    <2>1. CASE ActivationLost(j)
      BY <2>1, AtWork DEF ActivationLost, RestTyped
    <2>2. ASSUME NEW renamed \in BOOLEAN, ActivationSaveFails(j, renamed)
          PROVE  file' \in Credentials /\ pend' \in [req : Nat, keys : Nat] /\ ids' \in Nat
      <3>1. CASE Remembers(renamed) /\ UNCHANGED file
        BY <3>1, AtWork, RememberedTypes DEF RestTyped
      <3>2. CASE UNCHANGED <<pend, ids>> /\ file' \in {file, [token |-> jobs[j].token, req |-> 0, keys |-> pend.keys]}
        BY <3>2, AtWork, CredentialsTyped DEF RestTyped, JobType
      <3>3. CASE pend' \in {pend, NoActivation} /\ UNCHANGED <<file, ids>>
        BY <3>3, AtWork DEF RestTyped, NoActivation
      <3> QED
        BY <2>2, <3>1, <3>2, <3>3 DEF ActivationSaveFails
    <2> QED
      BY <2>1, <2>2
  <1>3. RestTyped'
    BY <1>1, <1>2, AtWork, JobFails, CountedTypes DEF RestTyped
  <1>4. jobs[j].at # "idle" /\ jobs[j].at # "opening"
    BY <1>1 DEF Activating
  <1> QED
    BY <1>1, <1>3, <1>4, AtWork, FailedCalls

-----------------------------------------------------------------------------
(* The application and the process.                                        *)

\* A call begins, and no start() is in progress unless this is one.
LEMMA BegunCalls ==
    ASSUME CallsInv, NEW j \in Jobs, jobs[j] = NoJob, jobs' \in [Jobs -> JobType], Others(j), RestTyped',
           jobs'[j].at \notin {"opening", "waiting"}, JobFits(j)', UNCHANGED <<socks, cur, refresh>>,
           \A k \in Jobs : ~Starter(k),
           Starter(j)' => ~timer' /\ AtRest
    PROVE  CallsInv'
  <1>1. TypeOK'
    BY Types, TypesAfter, KindsAndStages DEF CallsInv, Linked, Others
  <1>2. JobsFit' /\ SocksInv'
    BY FitStays DEF CallsInv, JobsFit, SocksInv, Others
  <1>3. Alone'
    <2>1. AtRest => (\A k \in Jobs : Over(k)) /\ \A s \in Socks : socks[s].at = "free"
      BY KindsAndStages DEF AtRest, FreeJobs, Over
    <2> QED
      BY <2>1 DEF Alone, Others, Starter, Over
  <1> QED
    BY <1>1, <1>2, <1>3 DEF CallsInv

LEMMA StartedCalls == ASSUME QuietStart, CallsInv, Start PROVE CallsInv'
  <1>1. /\ AtRest /\ wanted' = TRUE /\ stopped' = FALSE /\ timer' = FALSE /\ starts' = starts + 1 /\ starts < MaxStarts
        /\ FreeJobs # {} /\ Begins("start", "loading", "prepare")
        /\ UNCHANGED <<file, mem, pend, refresh, socks, cur, issuer, code, live, ids, happened>>
    BY DEF Start
  <1>2. PICK j \in Jobs : /\ jobs[j] = NoJob /\ Others(j) /\ jobs' \in [Jobs -> JobType]
                          /\ jobs'[j] = [kind |-> "start", at |-> "loading", for |-> "prepare", token |-> 0]
    BY <1>1, JobBegins, Beginnings DEF CallsInv
  <1>3. starts' \in 0 .. MaxStarts
    BY <1>1, Types, LimitsAssumption DEF CallsInv, RestTyped
  <1>4. RestTyped'
    BY <1>1, <1>3, Types DEF CallsInv, RestTyped
  <1>5. \A k \in Jobs : ~Starter(k)
    BY <1>1, KindsAndStages DEF AtRest, FreeJobs, Starter
  <1>6. JobFits(j)'
    BY <1>2, KindsAndStages DEF JobFits, Starter, Activating
  <1> QED
    BY <1>1, <1>2, <1>4, <1>5, <1>6, BegunCalls

LEMMA RequestedCalls == ASSUME QuietStart, CallsInv, Request PROVE CallsInv'
  <1>1. /\ FreeJobs # {} /\ Begins("request", "checking", "prepare") /\ Counted
        /\ \A k \in Jobs : ~Starter(k)
        /\ UNCHANGED <<file, mem, pend, refresh, socks, cur, stopped, timer, wanted, issuer, code, live, ids>>
    BY DEF Request, Starter
  <1>2. PICK j \in Jobs : /\ jobs[j] = NoJob /\ Others(j) /\ jobs' \in [Jobs -> JobType]
                          /\ jobs'[j] = [kind |-> "request", at |-> "checking", for |-> "prepare", token |-> 0]
    BY <1>1, JobBegins, Beginnings DEF CallsInv
  <1>3. RestTyped'
    BY <1>1, CountedTypes, Types DEF CallsInv, RestTyped
  <1>4. JobFits(j)' /\ ~Starter(j)'
    BY <1>2, KindsAndStages DEF JobFits, Starter, Activating
  <1> QED
    BY <1>1, <1>2, <1>3, <1>4, BegunCalls

LEMMA TimedCalls == ASSUME CallsInv, TimerFires PROVE CallsInv'
  <1>1. /\ timer /\ FreeJobs # {} /\ timer' = FALSE
        /\ UNCHANGED <<socks, cur, stopped, wanted, starts, happened>> /\ SockUnchanged
        /\ IF stopped THEN UNCHANGED jobs ELSE Begins("timer", "connecting", "first")
    BY DEF TimerFires
  <1>2. RestTyped'
    BY <1>1, Types DEF CallsInv, RestTyped, SockUnchanged
  <1>3. \A k \in Jobs : ~Starter(k)
    BY <1>1 DEF CallsInv, Alone
  <1>4. CASE stopped
    <2>1. TypeOK'
      BY <1>1, <1>2, <1>4, Types, TypesAfter DEF CallsInv, Linked, SockUnchanged
    <2>2. JobsFit' /\ SocksInv' /\ Alone'
      BY <1>1, <1>3, <1>4, FitStays DEF CallsInv, JobsFit, SocksInv, Alone, Starter
    <2> QED
      BY <2>1, <2>2 DEF CallsInv
  <1>5. CASE ~stopped
    <2>1. PICK j \in Jobs : /\ jobs[j] = NoJob /\ Others(j) /\ jobs' \in [Jobs -> JobType]
                            /\ jobs'[j] = [kind |-> "timer", at |-> "connecting", for |-> "first", token |-> 0]
      BY <1>1, <1>5, JobBegins, Beginnings DEF CallsInv
    <2>2. JobFits(j)' /\ ~Starter(j)'
      BY <2>1, KindsAndStages DEF JobFits, Starter, Activating
    <2> QED
      BY <1>1, <1>2, <1>3, <2>1, <2>2, BegunCalls DEF SockUnchanged
  <1> QED
    BY <1>4, <1>5

\* A socket that starts to close.
LEMMA StoppedCalls == ASSUME CallsInv, Stop PROVE CallsInv'
  <1>1. /\ wanted' = FALSE /\ stopped' = TRUE /\ timer' = FALSE /\ Counted
        /\ socks' = IF cur = None THEN socks ELSE [socks EXCEPT ![cur].at = "closing"]
        /\ UNCHANGED <<file, mem, pend, refresh, jobs, cur, issuer, code, live, ids>>
    BY DEF Stop
  <1>2. RestTyped'
    BY <1>1, CountedTypes, Types DEF CallsInv, RestTyped
  <1>3. /\ socks' \in [Socks -> SockType] /\ (cur # None => socks'[cur].at = "closing")
        /\ \A s \in Socks : /\ socks'[s].job = socks[s].job
                            /\ socks'[s].at = socks[s].at \/ (s = cur /\ socks'[s].at = "closing" /\ socks[s].at # "free")
    <2>1. socks \in [Socks -> SockType] /\ cur \in Socks \cup {None} /\ (cur # None => socks[cur].at # "free")
      BY Types DEF CallsInv
    <2> QED
      BY <1>1, <2>1 DEF SockType
  <1>4. TypeOK'
    <2>1. Linked'
      BY <1>1, <1>3, Types DEF CallsInv, Linked
    <2>2. cur' \in Socks \cup {None} /\ (cur' # None => socks'[cur'].at # "free")
      BY <1>1, <1>3, Types DEF CallsInv
    <2>3. jobs' \in [Jobs -> JobType] /\ \A j \in Jobs : jobs'[j].at = "waiting" => refresh'.at # None
      BY <1>1, Types DEF CallsInv
    <2> QED
      BY <1>2, <1>3, <2>1, <2>2, <2>3, TypesAfter
  <1>5. SocksInv'
    BY <1>3 DEF CallsInv, SocksInv
  <1>6. JobsFit' /\ Alone'
    BY <1>1, <1>3, FitStays DEF CallsInv, JobsFit, Alone, Starter, Over
  <1> QED
    BY <1>4, <1>5, <1>6 DEF CallsInv

LEMMA CrashedCalls == ASSUME CallsInv, Crash PROVE CallsInv'
  <1>1. /\ wanted' = FALSE /\ stopped' = FALSE /\ timer' = FALSE /\ Counted
        /\ mem' = file /\ refresh' = NoRefresh
        /\ jobs' = [j \in Jobs |-> NoJob] /\ socks' = [s \in Socks |-> NoSock] /\ cur' = None
        /\ UNCHANGED <<file, pend, issuer, code, live, ids>>
    BY DEF Crash
  <1>2. NoRefresh \in RefreshType
    BY DEF NoRefresh, RefreshType, NoCredentials, Credentials
  <1>3. RestTyped'
    BY <1>1, <1>2, CountedTypes, Types DEF CallsInv, RestTyped
  <1>4. TypeOK'
    BY <1>1, <1>3, TypesAfter, KindsAndStages, NamesAssumption DEF Linked
  <1>5. JobsFit' /\ SocksInv' /\ Alone'
    BY <1>1, KindsAndStages DEF JobsFit, JobFits, SocksInv, Alone, Starter, Activating
  <1> QED
    BY <1>4, <1>5 DEF CallsInv

-----------------------------------------------------------------------------
(* The refresh and the issuer.                                             *)

\* The calls that wait go on, with what the refresh came to.
LEMMA JobsSettle ==
    ASSUME TypeOK, NEW outcome \in {"granted", "refused", "broken"}, Settles(outcome)
    PROVE  /\ refresh' = NoRefresh /\ refresh' \in RefreshType /\ jobs' \in [Jobs -> JobType]
           /\ \A j \in Jobs : /\ jobs'[j].kind = jobs[j].kind /\ jobs'[j].for = jobs[j].for /\ jobs'[j].token = jobs[j].token
                              /\ jobs'[j].at = IF jobs[j].at = "waiting" THEN outcome ELSE jobs[j].at
                              /\ jobs[j].at # "waiting" => jobs'[j] = jobs[j]
  <1>1. refresh' = NoRefresh /\ NoRefresh \in RefreshType
    BY DEF Settles, NoRefresh, RefreshType, NoCredentials, Credentials
  <1>2. \A j \in Jobs : jobs[j] \in JobType
    BY Types
  <1>3. \A j \in Jobs : [jobs[j] EXCEPT !.at = outcome] \in JobType
    BY <1>2 DEF JobType, JobStages
  <1>4. jobs' = [j \in Jobs |-> IF jobs[j].at = "waiting" THEN [jobs[j] EXCEPT !.at = outcome] ELSE jobs[j]]
    BY DEF Settles
  <1>5. jobs' \in [Jobs -> JobType]
    BY <1>2, <1>3, <1>4
  <1>6. ASSUME NEW j \in Jobs
        PROVE  /\ jobs'[j].kind = jobs[j].kind /\ jobs'[j].for = jobs[j].for /\ jobs'[j].token = jobs[j].token
               /\ jobs'[j].at = IF jobs[j].at = "waiting" THEN outcome ELSE jobs[j].at
               /\ jobs[j].at # "waiting" => jobs'[j] = jobs[j]
    BY <1>2, <1>4 DEF JobType
  <1> QED
    BY <1>1, <1>5, <1>6

LEMMA SettledCalls ==
    ASSUME CallsInv, NEW outcome \in {"granted", "refused", "broken"}, Settles(outcome), RestTyped',
           UNCHANGED <<socks, cur, timer>>
    PROVE  CallsInv'
  <1>1. TypeOK'
    <2>1. \A j \in Jobs : jobs'[j].at # "waiting" /\ (jobs'[j].at = "opening" <=> jobs[j].at = "opening")
      BY JobsSettle DEF CallsInv
    <2> QED
      BY <2>1, JobsSettle, Types, TypesAfter DEF CallsInv, Linked
  <1>2. JobsFit'
    <2> SUFFICES ASSUME NEW j \in Jobs PROVE JobFits(j)'
      BY DEF JobsFit
    <2>1. CASE jobs[j].at = "waiting"
      BY <2>1, JobsSettle, KindsAndStages DEF CallsInv, JobsFit, JobFits, Starter, Activating
    <2>2. CASE jobs[j].at # "waiting"
      BY <2>2, JobsSettle, FitStays DEF CallsInv, JobsFit
    <2> QED
      BY <2>1, <2>2
  <1>3. SocksInv' /\ Alone'
    BY JobsSettle DEF CallsInv, SocksInv, Alone, Starter, Over
  <1> QED
    BY <1>1, <1>2, <1>3 DEF CallsInv

LEMMA SavingCalls ==
    ASSUME CallsInv, CredentialsSaved \/ \E renamed \in BOOLEAN : SaveFails(renamed)
    PROVE  CallsInv'
  <1>1. /\ refresh.at \in {"intent", "keeping", "restoring"}
        /\ file' \in {file, refresh.creds} /\ mem' \in {mem, refresh.creds}
        /\ UNCHANGED <<issuer, live, pend, socks, cur, stopped, timer, wanted, code, ids>>
        /\ starts' \in 0 .. MaxStarts /\ happened' \in 0 .. MaxHappenings
    <2>1. CASE CredentialsSaved
      BY <2>1, Types DEF CredentialsSaved, RefreshUnchanged, CallsInv, RestTyped
    <2>2. ASSUME NEW renamed \in BOOLEAN, SaveFails(renamed)
          PROVE  /\ refresh.at \in {"intent", "keeping", "restoring"}
                 /\ file' \in {file, refresh.creds} /\ mem' \in {mem, refresh.creds}
                 /\ UNCHANGED <<issuer, live, pend, socks, cur, stopped, timer, wanted, code, ids>>
                 /\ starts' \in 0 .. MaxStarts /\ happened' \in 0 .. MaxHappenings
      BY <2>2, Types, CountedTypes DEF SaveFails, RefreshUnchanged, CallsInv
    <2> QED
      BY <2>1, <2>2
  <1>2. refresh \in RefreshType /\ file' \in Credentials /\ mem' \in Credentials
    BY <1>1, Types DEF CallsInv, RestTyped, RefreshType
  <1>3. CASE refresh.at = "intent" /\ CredentialsSaved
    <2>1. refresh' = [refresh EXCEPT !.at = "asking"] /\ UNCHANGED jobs
      BY <1>3 DEF CredentialsSaved
    <2>2. refresh' \in RefreshType /\ refresh'.at # None
      BY <1>2, <2>1 DEF RefreshType, None
    <2>3. RestTyped'
      BY <1>1, <1>2, <2>2, Types DEF CallsInv, RestTyped
    <2> QED
      BY <1>1, <2>1, <2>2, <2>3, CallsStay
  <1>4. CASE ~(refresh.at = "intent" /\ CredentialsSaved)
    <2>1. PICK outcome \in {"granted", "refused", "broken"} : Settles(outcome)
      BY <1>1, <1>4 DEF CredentialsSaved, SaveFails
    <2>2. RestTyped'
      BY <1>1, <1>2, <2>1, JobsSettle, Types DEF CallsInv, RestTyped
    <2> QED
      BY <1>1, <2>1, <2>2, SettledCalls
  <1> QED
    BY <1>3, <1>4

LEMMA ExchangeCalls == ASSUME CallsInv, Exchanged \/ Answered \/ ExchangeLost PROVE CallsInv'
  <1>1. /\ UNCHANGED <<file, mem, pend, socks, cur, stopped, timer, wanted, code, ids>>
        /\ refresh.at \in {"asking", "answered"} /\ refresh \in RefreshType /\ RestTyped
    BY Types DEF Exchanged, Answered, ExchangeLost, RefreshUnchanged, CallsInv, RestTyped
  <1>2. CASE Exchanged
    <2>1. refresh' \in RefreshType /\ refresh'.at # None
      <3>1. PICK reply \in {"ok", "session"} : refresh' = [refresh EXCEPT !.at = "answered", !.reply = reply]
        BY <1>2 DEF Exchanged
      <3> QED
        BY <1>1, <3>1 DEF RefreshType, None
    <2>2. /\ issuer' \in [token : Nat, from : Credentials, revoked : BOOLEAN, keys : SUBSET Nat]
          /\ live' \subseteq 0 .. issuer'.token
      <3>1. CASE refresh.creds.token = issuer.token /\ ~issuer.revoked
        <4>1. /\ issuer' = [issuer EXCEPT !.token = @ + 1, !.from = refresh.creds]
              /\ live' = live \cup {issuer'.token}
          BY <1>2, <3>1 DEF Exchanged
        <4>2. /\ issuer \in [token : Nat, from : Credentials, revoked : BOOLEAN, keys : SUBSET Nat]
              /\ refresh.creds \in Credentials /\ issuer.token + 1 \in Nat
          BY <1>1 DEF RestTyped, RefreshType
        <4>3. issuer'.token = issuer.token + 1 /\ issuer.token \in Nat
              /\ issuer' \in [token : Nat, from : Credentials, revoked : BOOLEAN, keys : SUBSET Nat]
          BY <4>1, <4>2
        <4> QED
          BY <1>1, <4>1, <4>3 DEF RestTyped
      <3>2. CASE ~(refresh.creds.token = issuer.token /\ ~issuer.revoked)
        BY <1>1, <1>2, <3>2 DEF Exchanged, RestTyped
      <3> QED
        BY <3>1, <3>2
    <2>3. UNCHANGED <<jobs, starts, happened>>
      BY <1>2 DEF Exchanged
    <2>4. RestTyped'
      BY <1>1, <2>1, <2>2, <2>3 DEF RestTyped
    <2> QED
      BY <1>1, <2>1, <2>3, <2>4, CallsStay
  <1>3. CASE Answered
    <2>1. /\ refresh' \in {[at |-> "keeping", reply |-> None, creds |-> [refresh.creds EXCEPT !.token = @ + 1, !.req = 0]],
                          [at |-> "restoring", reply |-> None, creds |-> [refresh.creds EXCEPT !.req = 0]]}
          /\ UNCHANGED <<jobs, issuer, live, starts, happened>>
      BY <1>3 DEF Answered
    <2>2. refresh' \in RefreshType /\ refresh'.at # None
      <3>1. refresh.creds \in Credentials /\ refresh.creds.token + 1 \in Nat
        BY <1>1 DEF RefreshType, Credentials
      <3>2. /\ [refresh.creds EXCEPT !.token = @ + 1, !.req = 0] \in Credentials
            /\ [refresh.creds EXCEPT !.req = 0] \in Credentials
        BY <3>1 DEF Credentials
      <3> QED
        BY <2>1, <3>2 DEF RefreshType, None
    <2>3. RestTyped'
      BY <1>1, <2>1, <2>2 DEF RestTyped
    <2> QED
      BY <1>1, <2>1, <2>2, <2>3, CallsStay
  <1>4. CASE ExchangeLost
    <2>1. Counted /\ Settles("broken") /\ UNCHANGED <<issuer, live>>
      BY <1>4 DEF ExchangeLost
    <2>2. RestTyped'
      BY <1>1, <2>1, JobsSettle, CountedTypes DEF RestTyped, CallsInv
    <2> QED
      BY <1>1, <2>1, <2>2, SettledCalls
  <1> QED
    BY <1>2, <1>3, <1>4

LEMMA OwnerCalls == ASSUME CallsInv, WindowEnds \/ AccessExpires \/ Revoke \/ NewCode PROVE CallsInv'
  <1>1. UNCHANGED <<file, mem, pend, refresh, jobs, socks, cur, stopped, timer, wanted, ids>> /\ RestTyped
    BY Types DEF WindowEnds, AccessExpires, Revoke, NewCode, appVars, CallsInv
  <1>2. /\ issuer' \in [token : Nat, from : Credentials, revoked : BOOLEAN, keys : SUBSET Nat]
        /\ live' \subseteq 0 .. issuer'.token
    <2>1. CASE WindowEnds
      <3>1. NoCredentials \in Credentials
        BY DEF NoCredentials, Credentials
      <3> QED
        BY <1>1, <2>1, <3>1 DEF WindowEnds, RestTyped
    <2>2. CASE AccessExpires
      BY <1>1, <2>2 DEF AccessExpires, RestTyped
    <2>3. CASE Revoke
      BY <1>1, <2>3 DEF Revoke, RestTyped
    <2>4. CASE NewCode
      BY <1>1, <2>4 DEF NewCode, RestTyped
    <2> QED
      BY <2>1, <2>2, <2>3, <2>4
  <1>3. code' \in [n : 1 .. MaxCodes, open : BOOLEAN, by : [req : Nat, keys : Nat], gave : Nat]
    <2>1. NoActivation \in [req : Nat, keys : Nat]
      BY DEF NoActivation
    <2>2. CASE WindowEnds
      BY <1>1, <2>1, <2>2 DEF WindowEnds, RestTyped
    <2>3. CASE NewCode
      <3>1. code.n + 1 \in 1 .. MaxCodes
        BY <1>1, <2>3, LimitsAssumption DEF NewCode, RestTyped
      <3> QED
        BY <1>1, <2>1, <2>3, <3>1 DEF NewCode, RestTyped
    <2>4. CASE AccessExpires \/ Revoke
      BY <1>1, <2>4 DEF AccessExpires, Revoke, RestTyped
    <2> QED
      BY <2>2, <2>3, <2>4
  <1>4. starts' \in 0 .. MaxStarts /\ happened' \in 0 .. MaxHappenings
    BY <1>1, CountedTypes DEF WindowEnds, AccessExpires, Revoke, NewCode, RestTyped
  <1>5. RestTyped'
    BY <1>1, <1>2, <1>3, <1>4 DEF RestTyped
  <1> QED
    BY <1>1, <1>5, CallsStay

-----------------------------------------------------------------------------
(* Sockets.                                                                *)

OtherSocks(s) == \A t \in Socks \ {s} : socks'[t] = socks[t]

LEMMA SockOwned ==
    ASSUME CallsInv, NEW s \in Socks
    PROVE  /\ socks[s] \in SockType /\ socks \in [Socks -> SockType]
           /\ socks[s].at = "opening" => socks[s].job # None
           /\ socks[s].at \notin {"opening", "closing"} => socks[s].job = None
           /\ socks[s].job # None =>
                /\ socks[s].job \in Jobs /\ jobs[socks[s].job].at = "opening" /\ ~Over(socks[s].job)
                /\ socks[s].at \in {"opening", "closing"}
                /\ \A t \in Socks \ {s} : socks[t].job # socks[s].job
                /\ \A k \in Jobs \ {socks[s].job} : ~Starter(k)
           /\ socks[s].job = None /\ socks[s].at # "free" => \A k \in Jobs : ~Starter(k)
  <1>1. socks[s] \in SockType /\ socks \in [Socks -> SockType] /\ Linked
    BY Types DEF CallsInv
  <1>2. /\ socks[s].at = "opening" => socks[s].job # None
        /\ socks[s].job # None => socks[s].at \in {"opening", "closing"}
    BY DEF CallsInv, SocksInv
  <1>3. ASSUME socks[s].job # None
        PROVE  /\ socks[s].job \in Jobs /\ jobs[socks[s].job].at = "opening" /\ ~Over(socks[s].job)
               /\ \A t \in Socks \ {s} : socks[t].job # socks[s].job
               /\ \A k \in Jobs \ {socks[s].job} : ~Starter(k)
    <2>1. socks[s].job \in Jobs
      BY <1>1, <1>3 DEF SockType
    <2>2. jobs[socks[s].job].at = "opening"
      BY <1>1, <2>1 DEF Linked
    <2>3. ~Over(socks[s].job)
      BY <2>1, <2>2, AtWork
    <2>4. \A t \in Socks \ {s} : socks[t].job # socks[s].job
      BY <1>3 DEF CallsInv, SocksInv
    <2> QED
      BY <2>1, <2>2, <2>3, <2>4 DEF CallsInv, Alone
  <1>4. socks[s].job = None /\ socks[s].at # "free" => \A k \in Jobs : ~Starter(k)
    BY NamesAssumption DEF CallsInv, Alone
  <1> QED
    BY <1>1, <1>2, <1>3, <1>4

LEMMA SockGoes ==
    ASSUME CallsInv, NEW s \in Socks, SockGone(s)
    PROVE  /\ socks' \in [Socks -> SockType] /\ OtherSocks(s) /\ socks'[s] = NoSock
           /\ cur' \in Socks \cup {None} /\ (cur' # None => socks'[cur'].at # "free")
  BY Types, KindsAndStages DEF CallsInv, SockGone, OtherSocks

\* The call of a socket has its answer.
LEMMA SocketAnswers ==
    ASSUME CallsInv, NEW s \in Socks, NEW q \in Jobs, socks[s].job = q,
           socks' \in [Socks -> SockType], OtherSocks(s), socks'[s].job = None, socks'[s].at # "opening",
           cur' \in Socks \cup {None}, cur' # None => socks'[cur'].at # "free",
           jobs' \in [Jobs -> JobType], Others(q), JobFits(q)', jobs'[q].at \notin {"opening", "waiting"},
           Starter(q)' => Starter(q) /\ socks'[s].at = "free", Starter(q) => timer' = timer,
           RestTyped', UNCHANGED refresh
    PROVE  CallsInv'
  <1>1. /\ \A t \in Socks \ {s} : socks[t].job # q
        /\ \A k \in Jobs \ {q} : ~Starter(k)
        /\ None \notin Jobs
    BY SockOwned, NamesAssumption
  <1>2. Linked'
    BY <1>1, Types DEF CallsInv, Linked, Others, OtherSocks
  <1>3. TypeOK'
    BY <1>2, Types, TypesAfter DEF CallsInv, Others
  <1>4. JobsFit'
    BY FitStays DEF CallsInv, JobsFit, Others
  <1>5. SocksInv'
    BY DEF CallsInv, SocksInv, OtherSocks
  <1>6. Alone'
    <2> SUFFICES ASSUME NEW k \in Jobs, Starter(k)'
                 PROVE  /\ \A l \in Jobs : l # k => Over(l)'
                        /\ ~timer' /\ \A t \in Socks : socks'[t].at # "free" => socks'[t].job = k
      BY DEF Alone
    <2>1. k = q /\ Starter(q)
      BY <1>1 DEF Starter, Others
    <2>2. /\ \A l \in Jobs : l # q => Over(l)
          /\ ~timer /\ \A t \in Socks : socks[t].at # "free" => socks[t].job = q
      BY <2>1 DEF CallsInv, Alone
    <2>3. timer' = timer /\ socks'[s].at = "free"
      BY <2>1
    <2> QED
      BY <1>1, <2>1, <2>2, <2>3 DEF Over, Others, OtherSocks
  <1> QED
    BY <1>3, <1>4, <1>5, <1>6 DEF CallsInv

\* A socket whose call has its answer.
LEMMA SocketGoes ==
    ASSUME CallsInv, NEW s \in Socks, socks[s].job = None, socks[s].at # "free",
           socks' \in [Socks -> SockType], OtherSocks(s), socks'[s].job = None, socks'[s].at # "opening",
           cur' \in Socks \cup {None}, cur' # None => socks'[cur'].at # "free",
           RestTyped', UNCHANGED <<jobs, refresh>>
    PROVE  CallsInv'
  <1>1. (\A k \in Jobs : ~Starter(k)) /\ None \notin Jobs
    BY SockOwned, NamesAssumption
  <1>2. Linked'
    BY <1>1, Types DEF CallsInv, Linked, OtherSocks
  <1>3. TypeOK'
    BY <1>2, Types, TypesAfter DEF CallsInv
  <1>4. JobsFit' /\ Alone'
    BY <1>1, FitStays DEF CallsInv, JobsFit, Alone, Starter
  <1>5. SocksInv'
    BY DEF CallsInv, SocksInv, OtherSocks
  <1> QED
    BY <1>3, <1>4, <1>5 DEF CallsInv

LEMMA OpenedCalls == ASSUME CallsInv, NEW j \in Jobs, Opens(j) PROVE CallsInv'
  <1>1. /\ jobs[j].at = "connecting" /\ GoesTo(j, "opening", jobs[j].for)
        /\ UNCHANGED <<refresh, stopped, timer, wanted, ids, starts, happened>> /\ JobUnchanged
    BY DEF Opens
  <1>2. PICK s \in Socks : /\ socks[s] = NoSock /\ cur' = s
                           /\ socks' = [socks EXCEPT ![s] = [at |-> "opening", job |-> j, token |-> mem.token]]
    BY DEF Opens
  <1>3. /\ socks' \in [Socks -> SockType] /\ OtherSocks(s)
        /\ socks'[s] = [at |-> "opening", job |-> j, token |-> mem.token]
    <2>1. [at |-> "opening", job |-> j, token |-> mem.token] \in SockType
      BY AtWork DEF RestTyped, Credentials, SockType
    <2> QED
      BY <1>2, <2>1, SockOwned DEF OtherSocks
  <1>4. /\ jobs' \in [Jobs -> JobType] /\ Others(j) /\ jobs'[j].kind = jobs[j].kind
        /\ jobs'[j].at = "opening" /\ jobs'[j].for = jobs[j].for
    BY <1>1, AtWork, JobGoes DEF JobStages, JobType
  <1>5. RestTyped'
    BY <1>1, AtWork DEF JobUnchanged, RestTyped
  <1>6. None \notin Jobs /\ \A t \in Socks : socks[t].job # j
    BY <1>1, NamesAssumption, Types DEF CallsInv, Linked
  <1>7. Linked'
    BY <1>2, <1>3, <1>4, <1>6, KindsAndStages, Types DEF CallsInv, Linked, Others, OtherSocks
  <1>8. TypeOK'
    BY <1>1, <1>2, <1>3, <1>4, <1>5, <1>7, Types, TypesAfter DEF CallsInv, Others
  <1>9. JobsFit'
    <2>1. JobFits(j)'
      BY <1>1, <1>4, AtWork, KindsAndStages DEF JobFits, Starter, Activating
    <2> QED
      BY <1>4, <2>1, FitStays DEF CallsInv, JobsFit, Others
  <1>10. SocksInv'
    BY <1>3, <1>6 DEF CallsInv, SocksInv, OtherSocks
  <1>11. Alone'
    <2>1. ~Over(j) /\ timer' = timer
      BY <1>1, AtWork
    <2> QED
      BY <1>3, <1>4, <2>1 DEF CallsInv, Alone, Over, Starter, Others, OtherSocks
  <1> QED
    BY <1>8, <1>9, <1>10, <1>11 DEF CallsInv

LEMMA ReadyCalls == ASSUME CallsInv, NEW s \in Socks, SockReady(s) PROVE CallsInv'
  <1>1. /\ cur = s /\ socks[s].at \in {"opening", "late"}
        /\ jobs' = [j \in Jobs |-> IF j = socks[s].job THEN NoJob ELSE jobs[j]]
        /\ socks' = [socks EXCEPT ![s].job = None, ![s].at = IF socks[s].at = "late" THEN "closing" ELSE "ready"]
        /\ UNCHANGED <<cur, stopped, timer, wanted, starts, happened>> /\ SockUnchanged
    BY DEF SockReady
  <1>2. RestTyped'
    BY <1>1, Types DEF CallsInv, SockUnchanged, RestTyped
  <1>3. /\ socks' \in [Socks -> SockType] /\ OtherSocks(s) /\ socks'[s].job = None
        /\ socks'[s].at \in {"closing", "ready"}
    <2>1. socks \in [Socks -> SockType]
      BY SockOwned
    <2> QED
      BY <1>1, <2>1 DEF OtherSocks, SockType
  <1>4. cur' \in Socks \cup {None} /\ (cur' # None => socks'[cur'].at # "free")
    BY <1>1, <1>3
  <1>5. CASE socks[s].at = "opening"
    <2>1. PICK q \in Jobs : socks[s].job = q /\ jobs[q].at = "opening"
      BY <1>5, SockOwned
    <2>2. /\ jobs' \in [Jobs -> JobType] /\ Others(q) /\ jobs'[q] = NoJob /\ timer' = timer
      BY <1>1, <2>1, Types, KindsAndStages DEF CallsInv, Others
    <2>3. JobFits(q)' /\ ~Starter(q)' /\ jobs'[q].at \notin {"opening", "waiting"}
      BY <2>2, KindsAndStages DEF JobFits, Starter, Activating
    <2> QED
      BY <1>1, <1>2, <1>3, <1>4, <2>1, <2>2, <2>3, SocketAnswers DEF SockUnchanged
  <1>6. CASE socks[s].at = "late"
    <2>1. socks[s].job = None
      BY <1>6, SockOwned
    <2>2. jobs' = jobs
      <3>1. DOMAIN jobs = Jobs
        BY Types DEF CallsInv
      <3> QED
        BY <1>1, <2>1, <3>1, NamesAssumption, Types DEF CallsInv
    <2> QED
      BY <1>1, <1>2, <1>3, <1>4, <1>6, <2>1, <2>2, SocketGoes DEF SockUnchanged
  <1> QED
    BY <1>1, <1>5, <1>6

\* A socket's call fails, at an end of the socket.
LEMMA SocketFails ==
    ASSUME CallsInv, NEW s \in Socks, NEW q \in Jobs, socks[s].job = q, NEW session \in BOOLEAN, Fails(q, session),
           socks' \in [Socks -> SockType], OtherSocks(s), socks'[s].job = None,
           \/ socks'[s].at = "free"
           \/ ~session /\ socks'[s].at = "late",
           cur' \in Socks \cup {None}, cur' # None => socks'[cur'].at # "free",
           starts' \in 0 .. MaxStarts, happened' \in 0 .. MaxHappenings, SockUnchanged
    PROVE  CallsInv'
  <1>1. RestTyped'
    BY AtWork, JobFails DEF RestTyped, SockUnchanged
  <1>2. /\ jobs' \in [Jobs -> JobType] /\ Others(q)
        /\ \/ jobs'[q] = NoJob
           \/ jobs'[q] = [NoJob EXCEPT !.kind = "pair", !.at = "pairing"] /\ jobs[q].kind = "start" /\ session
        /\ jobs[q].kind \in Starters => timer' = timer
    <2>1. timer \in BOOLEAN /\ timer' \in BOOLEAN
      BY <1>1, AtWork DEF RestTyped
    <2> QED
      BY <2>1, AtWork, JobFails, KindsAndStages
  <1>3. /\ JobFits(q)' /\ (Starter(q)' => Starter(q) /\ session) /\ jobs'[q].at \notin {"opening", "waiting"}
    BY <1>2, KindsAndStages DEF JobFits, Starter, Activating, NoJob
  <1> QED
    BY <1>1, <1>2, <1>3, SocketAnswers DEF SockUnchanged, Starter

LEMMA RefusedCalls == ASSUME CallsInv, NEW s \in Socks, SockRefused(s) PROVE CallsInv'
  <1>1. /\ socks[s].at = "opening" /\ SockGone(s) /\ UNCHANGED <<starts, happened>> /\ SockUnchanged
        /\ IF jobs[socks[s].job].for = "first"
           THEN GoesTo(socks[s].job, "joining", "again") /\ UNCHANGED <<stopped, timer, wanted>>
           ELSE Fails(socks[s].job, TRUE)
    BY DEF SockRefused
  <1>2. PICK q \in Jobs : socks[s].job = q /\ jobs[q].at = "opening"
    BY <1>1, SockOwned
  <1>3. /\ socks' \in [Socks -> SockType] /\ OtherSocks(s) /\ socks'[s].job = None /\ socks'[s].at = "free"
        /\ cur' \in Socks \cup {None} /\ (cur' # None => socks'[cur'].at # "free")
    BY <1>1, SockGoes, KindsAndStages
  <1>4. CASE jobs[q].for = "first"
    <2>1. GoesTo(q, "joining", "again") /\ UNCHANGED <<stopped, timer, wanted>>
      BY <1>1, <1>2, <1>4
    <2>2. /\ jobs' \in [Jobs -> JobType] /\ Others(q) /\ jobs'[q].kind = jobs[q].kind
          /\ jobs'[q].at = "joining" /\ jobs'[q].for = "again"
      BY <2>1, AtWork, JobGoes DEF JobStages, Purposes
    <2>3. JobFits(q)' /\ (Starter(q)' => Starter(q))
      BY <1>2, <2>2, AtWork, KindsAndStages DEF JobFits, Starter, Activating
    <2>4. RestTyped'
      BY <1>1, <2>1, AtWork DEF RestTyped, SockUnchanged
    <2> QED
      BY <1>1, <1>2, <1>3, <2>1, <2>2, <2>3, <2>4, SocketAnswers DEF SockUnchanged
  <1>5. CASE jobs[q].for # "first"
    <2>1. Fails(q, TRUE) /\ starts' \in 0 .. MaxStarts /\ happened' \in 0 .. MaxHappenings
      BY <1>1, <1>2, <1>5, AtWork DEF RestTyped
    <2> QED
      BY <1>1, <1>2, <1>3, <2>1, SocketFails
  <1> QED
    BY <1>4, <1>5

LEMMA BrokenCalls == ASSUME CallsInv, NEW s \in Socks, SockFails(s) \/ SockTimesOut(s) PROVE CallsInv'
  <1>1. socks[s].at = "opening" /\ Fails(socks[s].job, FALSE) /\ SockUnchanged
    BY DEF SockFails, SockTimesOut
  <1>2. PICK q \in Jobs : socks[s].job = q /\ jobs[q].at = "opening"
    BY <1>1, SockOwned
  <1>3. starts' \in 0 .. MaxStarts /\ happened' \in 0 .. MaxHappenings
    BY <1>2, AtWork, CountedTypes DEF SockFails, SockTimesOut, RestTyped
  <1>4. CASE SockFails(s)
    <2>1. /\ socks' \in [Socks -> SockType] /\ OtherSocks(s) /\ socks'[s].job = None /\ socks'[s].at = "free"
          /\ cur' \in Socks \cup {None} /\ (cur' # None => socks'[cur'].at # "free")
      BY <1>4, SockGoes, KindsAndStages DEF SockFails
    <2> QED
      BY <1>1, <1>2, <1>3, <2>1, SocketFails
  <1>5. CASE SockTimesOut(s)
    <2>1. socks' = [socks EXCEPT ![s] = [@ EXCEPT !.at = "late", !.job = None]] /\ cur' = cur
      BY <1>5 DEF SockTimesOut
    <2>2. [socks[s] EXCEPT !.at = "late", !.job = None] \in SockType
      <3>1. socks[s] \in SockType
        BY SockOwned
      <3> QED
        BY <3>1 DEF SockType
    <2>3. /\ socks' \in [Socks -> SockType] /\ OtherSocks(s) /\ socks'[s].job = None /\ socks'[s].at = "late"
      BY <2>1, <2>2, SockOwned DEF OtherSocks, SockType
    <2>4. cur' \in Socks \cup {None} /\ (cur' # None => socks'[cur'].at # "free")
      BY <2>1, <2>3, Types DEF CallsInv, OtherSocks
    <2> QED
      BY <1>1, <1>2, <1>3, <2>3, <2>4, SocketFails
  <1> QED
    BY <1>4, <1>5

LEMMA RescheduledTypes ==
    ASSUME RestTyped, Rescheduled
    PROVE  timer' \in BOOLEAN
  BY DEF RestTyped, Rescheduled

LEMMA ClosedCalls == ASSUME CallsInv, NEW s \in Socks, Drop(s) \/ SockClosed(s) PROVE CallsInv'
  <1>1. /\ socks[s].at \in {"ready", "closing", "late"} /\ SockGone(s) /\ SockUnchanged
        /\ starts' \in 0 .. MaxStarts /\ happened' \in 0 .. MaxHappenings
    BY Types, CountedTypes DEF CallsInv, Drop, SockClosed, RestTyped
  <1>2. /\ socks' \in [Socks -> SockType] /\ OtherSocks(s) /\ socks'[s].job = None /\ socks'[s].at = "free"
        /\ cur' \in Socks \cup {None} /\ (cur' # None => socks'[cur'].at # "free")
    BY <1>1, SockGoes, KindsAndStages
  <1>3. CASE socks[s].job # None
    <2>1. Fails(socks[s].job, FALSE)
      BY <1>3, SockOwned DEF Drop, SockClosed
    <2> QED
      BY <1>1, <1>2, <1>3, <2>1, SockOwned, SocketFails
  <1>4. CASE socks[s].job = None
    <2>1. UNCHANGED <<jobs, stopped, wanted>> /\ (timer' = timer \/ Rescheduled)
      BY <1>4 DEF Drop, SockClosed
    <2>2. RestTyped'
      BY <1>1, <2>1, Types, RescheduledTypes DEF CallsInv, RestTyped, SockUnchanged
    <2> QED
      BY <1>1, <1>2, <1>4, <2>1, <2>2, SocketGoes DEF SockUnchanged
  <1> QED
    BY <1>3, <1>4

LEMMA KickedCalls == ASSUME CallsInv, NEW s \in Socks, Kicked(s) PROVE CallsInv'
  <1>1. /\ socks[s].at = "ready" /\ SockGone(s) /\ FreeJobs # {} /\ Begins("recover", "joining", "recover")
        /\ UNCHANGED <<stopped, timer, wanted, starts, happened>> /\ SockUnchanged
    BY DEF Kicked
  <1>2. socks[s].job = None /\ None \notin Jobs /\ \A k \in Jobs : ~Starter(k)
    BY <1>1, SockOwned, NamesAssumption
  <1>3. /\ socks' \in [Socks -> SockType] /\ OtherSocks(s) /\ socks'[s].job = None /\ socks'[s].at = "free"
        /\ cur' \in Socks \cup {None} /\ (cur' # None => socks'[cur'].at # "free")
    BY <1>1, SockGoes, KindsAndStages
  <1>4. PICK j \in Jobs : /\ jobs[j] = NoJob /\ Others(j) /\ jobs' \in [Jobs -> JobType]
                          /\ jobs'[j] = [kind |-> "recover", at |-> "joining", for |-> "recover", token |-> 0]
    BY <1>1, JobBegins, Beginnings DEF CallsInv
  <1>5. RestTyped'
    BY <1>1, Types DEF CallsInv, RestTyped, SockUnchanged
  <1>6. JobFits(j)' /\ ~Starter(j)'
    BY <1>4, KindsAndStages DEF JobFits, Starter, Activating
  <1>7. Linked'
    BY <1>2, <1>3, <1>4, KindsAndStages, Types DEF CallsInv, Linked, Others, OtherSocks
  <1>8. TypeOK'
    BY <1>1, <1>3, <1>4, <1>5, <1>7, Types, TypesAfter DEF CallsInv, Others, SockUnchanged
  <1>9. JobsFit' /\ Alone'
    BY <1>2, <1>4, <1>6, FitStays DEF CallsInv, JobsFit, Alone, Others, Starter
  <1>10. SocksInv'
    BY <1>3 DEF CallsInv, SocksInv, OtherSocks
  <1> QED
    BY <1>8, <1>9, <1>10 DEF CallsInv

LEMMA InitCalls == Init => CallsInv
  <1> SUFFICES ASSUME Init PROVE CallsInv
    OBVIOUS
  <1>1. RestTyped
    <2>1. NoCredentials \in Credentials /\ NoRefresh \in RefreshType /\ NoActivation \in [req : Nat, keys : Nat]
      BY DEF RefreshType, Credentials, NoCredentials, NoActivation, NoRefresh
    <2>2. 1 \in 1 .. MaxCodes /\ 0 \in 0 .. MaxStarts /\ 0 \in 0 .. MaxHappenings
      BY LimitsAssumption
    <2>3. issuer \in [token : Nat, from : Credentials, revoked : BOOLEAN, keys : SUBSET Nat]
      BY <2>1 DEF Init
    <2>4. code \in [n : 1 .. MaxCodes, open : BOOLEAN, by : [req : Nat, keys : Nat], gave : Nat]
      BY <2>1, <2>2 DEF Init
    <2> QED
      BY <2>1, <2>2, <2>3, <2>4 DEF Init, RestTyped
  <1>2. TypeOK
    BY <1>1, Types, KindsAndStages, NamesAssumption DEF Init, Linked
  <1>3. JobsFit /\ SocksInv /\ Alone
    BY KindsAndStages DEF Init, JobsFit, JobFits, SocksInv, Alone, Starter, Activating
  <1> QED
    BY <1>2, <1>3 DEF CallsInv

LEMMA NextCalls == ASSUME QuietStart, CallsInv, [Next]_vars PROVE CallsInv'
  <1>1. CASE UNCHANGED vars
    <2>1. RestTyped'
      BY <1>1, Types DEF vars, appVars, CallsInv, RestTyped
    <2> QED
      BY <1>1, <2>1, CallsStay DEF vars, appVars
  <1>2. CASE Next
    <2>1. CASE Start \/ Stop \/ Crash \/ Request \/ TimerFires
      BY <2>1, StartedCalls, StoppedCalls, CrashedCalls, RequestedCalls, TimedCalls
    <2>2. ASSUME NEW j \in Jobs, Job(j) \/ Expiring(j) PROVE CallsInv'
      BY <2>2, LoadedCalls, CheckedCalls, JoinedCalls, GrantedCalls, GivenUpCalls, OpenedCalls, ServedCalls,
         PairedCalls, ActivatedCalls, SavedCalls, ForgottenCalls DEF Job, Activation
    <2>3. ASSUME NEW s \in Socks, Socket(s) \/ SockFails(s) \/ Drop(s) PROVE CallsInv'
      BY <2>3, ReadyCalls, RefusedCalls, BrokenCalls, KickedCalls, ClosedCalls DEF Socket
    <2>4. CASE Refreshing \/ (\E renamed \in BOOLEAN : SaveFails(renamed)) \/ ExchangeLost
      BY <2>4, SavingCalls, ExchangeCalls DEF Refreshing
    <2>5. ASSUME NEW j \in Jobs, ActivationLost(j) \/ \E renamed \in BOOLEAN : ActivationSaveFails(j, renamed)
          PROVE CallsInv'
      BY <2>5, ActivationFailsCalls
    <2>6. CASE WindowEnds \/ AccessExpires \/ Revoke \/ NewCode
      BY <2>6, OwnerCalls
    <2> QED
      BY <1>2, <2>1, <2>2, <2>3, <2>4, <2>5, <2>6 DEF Next
  <1> QED
    BY <1>1, <1>2

-----------------------------------------------------------------------------
(* One connection.                                                         *)

\* Calls that are to connect, sockets that are connected.
Connects(j) == jobs[j].kind \in Starters \cup Chains
IsReady(s) == socks[s].at = "ready"

\* There is one of them, and none while the timer runs; only stop() closes a socket.
Lone ==
    /\ \A j, k \in Jobs : Connects(j) /\ Connects(k) => j = k
    /\ \A s, t \in Socks : IsReady(s) /\ IsReady(t) => s = t
    /\ \A j \in Jobs, s \in Socks : ~(Connects(j) /\ IsReady(s))
    /\ timer => (\A j \in Jobs : ~Connects(j)) /\ (\A s \in Socks : ~IsReady(s))
    /\ \A s \in Socks : socks[s].at = "closing" => stopped

LoneInv == CallsInv /\ Lone

LEMMA LoneStays ==
    ASSUME Lone, \A j \in Jobs : Connects(j)' => Connects(j), \A s \in Socks : IsReady(s)' => IsReady(s),
           \A s \in Socks : socks'[s].at = "closing" => socks[s].at = "closing", stopped => stopped',
           timer' => timer \/ ((\A j \in Jobs : ~Connects(j)') /\ (\A s \in Socks : ~IsReady(s)'))
    PROVE  Lone'
  BY DEF Lone

LEMMA LoneFails ==
    ASSUME LoneInv, NEW j \in Jobs, NEW session \in BOOLEAN, Fails(j, session),
           \A s \in Socks : IsReady(s)' => IsReady(s),
           \A s \in Socks : socks'[s].at = "closing" => socks[s].at = "closing"
    PROVE  Lone'
  <1>1. /\ Others(j) /\ (Connects(j)' => jobs[j].kind = "start" /\ timer' = timer)
        /\ stopped => stopped'
        /\ timer' => timer \/ (jobs[j].kind \in Chains /\ jobs'[j] = NoJob)
    BY AtWork, JobFails, KindsAndStages DEF LoneInv, Connects, RestTyped, NoJob
  <1>2. \A k \in Jobs : Connects(k)' => Connects(k)
    BY <1>1, KindsAndStages DEF Connects, Others
  <1>3. timer' => timer \/ ((\A k \in Jobs : ~Connects(k)') /\ (\A s \in Socks : ~IsReady(s)'))
    BY <1>1, KindsAndStages DEF LoneInv, Lone, Connects, Others
  <1> QED
    BY <1>1, <1>2, <1>3, LoneStays DEF LoneInv

LEMMA JobsLone ==
    ASSUME LoneInv, NEW j \in Jobs,
           \/ Job(j) \/ Expiring(j) \/ ActivationLost(j)
           \/ \E renamed \in BOOLEAN : ActivationSaveFails(j, renamed)
    PROVE  Lone'
  <1>1. \A k \in Jobs : jobs'[k].kind = jobs[k].kind => (Connects(k)' <=> Connects(k))
    BY DEF Connects
  <1>2. CASE Opens(j)
    <2>1. (\A k \in Jobs : jobs'[k].kind = jobs[k].kind) /\ UNCHANGED <<stopped, timer>>
      BY <1>2, AtWork, JobGoes DEF LoneInv, Opens, JobStages, JobType, Others
    <2>2. \A s \in Socks : socks'[s] = socks[s] \/ socks'[s].at = "opening"
      BY <1>2, SockOwned DEF LoneInv, Opens
    <2> QED
      BY <1>1, <2>1, <2>2, LoneStays DEF LoneInv, IsReady
  <1>3. CASE UNCHANGED <<socks, stopped, timer>> /\ \A k \in Jobs : Connects(k)' => Connects(k)
    BY <1>3, LoneStays DEF LoneInv, IsReady
  <1>4. CASE UNCHANGED socks /\ \E session \in BOOLEAN : Fails(j, session)
    BY <1>4, LoneFails DEF IsReady
  <1>5. CASE Loaded(j)
    <2>1. \A k \in Jobs \ {j} : jobs'[k] = jobs[k]
      BY <1>5, AtWork, JobGoes DEF LoneInv, Loaded, JobStages, Purposes, Others
    <2>2. Connects(j)
      BY <1>5, AtWork DEF LoneInv, Loaded, JobFits, Starter, Connects
    <2> QED
      BY <1>3, <1>5, <2>1, <2>2 DEF Loaded, Connects
  <1>6. CASE NotExpiring(j) \/ Expiring(j) \/ Joins(j)
    <2>1. \A k \in Jobs : jobs'[k].kind = jobs[k].kind
      <3>1. CASE NotExpiring(j) \/ Expiring(j)
        BY <3>1, AtWork, JobGoes, JobSends DEF LoneInv, NotExpiring, Expiring, JobStages, Purposes, Others
      <3>2. CASE Joins(j)
        BY <3>2, AtWork, JobGoes DEF LoneInv, Joins, JobStages, JobType, Others
      <3> QED
        BY <1>6, <3>1, <3>2
    <2> QED
      BY <1>1, <1>3, <1>6, <2>1 DEF NotExpiring, Expiring, Joins
  <1>7. CASE GoesOn(j)
    <2>1. \A k \in Jobs : jobs'[k].kind = jobs[k].kind \/ jobs'[k].kind = None
      BY <1>7, GrantedGoes, KindsAndStages DEF LoneInv, Others
    <2> QED
      BY <1>1, <1>3, <1>7, <2>1, KindsAndStages DEF GoesOn, Connects
  <1>8. CASE GivesUp(j)
    <2>1. (jobs[j].at = "refused") \in BOOLEAN
      OBVIOUS
    <2> QED
      BY <1>4, <1>8, <2>1 DEF GivesUp
  <1>9. CASE RequestServed(j) \/ RequestUnauthorized(j)
    <2>1. \A k \in Jobs : jobs'[k].kind = jobs[k].kind \/ jobs'[k].kind = None
      <3>1. jobs' = [jobs EXCEPT ![j] = NoJob] => \A k \in Jobs : jobs'[k].kind = jobs[k].kind \/ jobs'[k].kind = None
        BY AtWork, JobEnds, KindsAndStages DEF LoneInv, Others
      <3>2. GoesTo(j, "joining", "retry") => \A k \in Jobs : jobs'[k].kind = jobs[k].kind
        BY AtWork, JobGoes DEF LoneInv, JobStages, Purposes, Others
      <3> QED
        BY <1>9, <3>1, <3>2 DEF RequestServed, RequestUnauthorized
    <2> QED
      BY <1>1, <1>3, <1>9, <2>1, KindsAndStages DEF RequestServed, RequestUnauthorized, Connects
  <1>10. CASE Pairs(j) \/ Activated(j) \/ Forgets(j)
    <2>1. \A k \in Jobs : jobs'[k].kind = jobs[k].kind
      <3>1. CASE Pairs(j) \/ Forgets(j)
        BY <3>1, AtWork, JobGoes DEF LoneInv, Pairs, Forgets, JobStages, Purposes, Others
      <3>2. CASE Activated(j)
        BY <3>2, ActivatedKinds DEF LoneInv
      <3> QED
        BY <1>10, <3>1, <3>2
    <2> QED
      BY <1>1, <1>3, <1>10, <2>1 DEF Pairs, Activated, Forgets, ActivationUnchanged
  <1>11. CASE ActivationSaved(j)
    <2>1. CASE jobs[j].token # 0
      <3>1. (\A k \in Jobs : jobs'[k].kind = jobs[k].kind) /\ UNCHANGED <<stopped, timer, socks>>
        BY <1>11, <2>1, AtWork, JobGoes DEF LoneInv, ActivationSaved, ActivationUnchanged, JobStages, Purposes, Others
      <3> QED
        BY <1>1, <1>3, <3>1
    <2>2. CASE jobs[j].token = 0
      BY <1>4, <1>11, <2>2 DEF ActivationSaved, ActivationUnchanged
    <2> QED
      BY <2>1, <2>2
  <1>12. CASE ActivationLost(j) \/ \E renamed \in BOOLEAN : ActivationSaveFails(j, renamed)
    BY <1>4, <1>12 DEF ActivationLost, ActivationSaveFails
  <1> QED
    BY <1>2, <1>5, <1>6, <1>7, <1>8, <1>9, <1>10, <1>11, <1>12 DEF Job, Activation

LEMMA SockLone ==
    ASSUME ~LateReady, LoneInv, NEW s \in Socks, Socket(s) \/ SockFails(s) \/ Drop(s)
    PROVE  Lone'
  <1>1. SockGone(s) => \A t \in Socks : /\ t # s => socks'[t] = socks[t]
                                        /\ socks'[s].at = "free"
    BY SockGoes, KindsAndStages DEF LoneInv, OtherSocks
  <1>2. CASE SockReady(s)
    <2>1. socks[s].at = "opening" /\ cur = s /\ UNCHANGED <<stopped, timer>>
      BY <1>2 DEF SockReady
    <2>2. PICK q \in Jobs : socks[s].job = q /\ jobs[q].at = "opening" /\ Connects(q)
      <3>1. PICK q \in Jobs : socks[s].job = q /\ jobs[q].at = "opening"
        BY <2>1, SockOwned DEF LoneInv
      <3>2. jobs[q].kind \in JobKinds /\ jobs[q].kind # None /\ jobs[q].kind # "request"
        BY <3>1, AtWork DEF LoneInv, JobFits, JobType
      <3> QED
        BY <3>1, <3>2, KindsAndStages DEF Connects
    <2>3. (\A k \in Jobs : ~Connects(k)') /\ ~timer'
      <3>1. \A k \in Jobs : jobs'[k] = IF k = q THEN NoJob ELSE jobs[k]
        BY <1>2, <2>2 DEF SockReady
      <3> QED
        BY <2>1, <2>2, <3>1, KindsAndStages DEF LoneInv, Lone, Connects
    <2>4. \A t \in Socks : (t # s => socks'[t] = socks[t]) /\ socks'[s].at = "ready"
      BY <1>2, <2>1, SockOwned DEF LoneInv, SockReady, SockType
    <2>5. \A t \in Socks : t # s => ~IsReady(t)
      BY <2>2 DEF LoneInv, Lone
    <2> QED
      BY <2>1, <2>3, <2>4, <2>5 DEF LoneInv, Lone, IsReady
  <1>3. CASE SockRefused(s)
    <2>1. PICK q \in Jobs : socks[s].job = q
      BY <1>3, SockOwned DEF LoneInv, SockRefused
    <2>2. CASE jobs[q].for = "first"
      <3>1. (\A k \in Jobs : jobs'[k].kind = jobs[k].kind) /\ UNCHANGED <<stopped, timer>>
        BY <1>3, <2>1, <2>2, AtWork, JobGoes DEF LoneInv, SockRefused, JobStages, Purposes, Others
      <3> QED
        BY <1>1, <1>3, <3>1, LoneStays DEF LoneInv, SockRefused, Connects, IsReady
    <2>3. CASE jobs[q].for # "first"
      BY <1>1, <1>3, <2>1, <2>3, LoneFails DEF SockRefused, IsReady
    <2> QED
      BY <2>2, <2>3
  <1>4. CASE SockFails(s)
    BY <1>1, <1>4, SockOwned, LoneFails DEF LoneInv, SockFails, IsReady
  <1>5. CASE SockTimesOut(s)
    <2>1. \A t \in Socks : (t # s => socks'[t] = socks[t]) /\ socks'[s].at = "late"
      BY <1>5, SockOwned DEF LoneInv, SockTimesOut, SockType
    <2> QED
      BY <1>5, <2>1, SockOwned, LoneFails DEF LoneInv, SockTimesOut, IsReady
  <1>6. CASE Drop(s)
    BY <1>1, <1>6 DEF LoneInv, Lone, Drop, Connects, IsReady
  <1>7. CASE Kicked(s)
    <2>1. PICK j \in Jobs :
               Others(j) /\ jobs'[j] = [kind |-> "recover", at |-> "joining", for |-> "recover", token |-> 0]
      <3>1. FreeJobs # {} /\ Begins("recover", "joining", "recover") /\ TypeOK
        BY <1>7 DEF LoneInv, CallsInv, Kicked
      <3> QED
        BY <3>1, JobBegins, Beginnings
    <2> QED
      BY <1>1, <1>7, <2>1 DEF LoneInv, Lone, Kicked, Connects, IsReady, Others
  <1>8. CASE SockClosed(s)
    <2>1. CASE socks[s].job # None
      BY <1>1, <1>8, <2>1, SockOwned, LoneFails DEF LoneInv, SockClosed, IsReady
    <2>2. CASE socks[s].job = None
      <3>1. UNCHANGED <<jobs, stopped>> /\ timer' = timer
        <4>1. UNCHANGED <<jobs, stopped>> /\ (timer' = timer \/ (socks[s].at = "closing" /\ timer' = (timer \/ ~stopped)))
          BY <1>8, <2>2 DEF SockClosed, Rescheduled
        <4>2. timer \in BOOLEAN
          BY Types DEF LoneInv, CallsInv, RestTyped
        <4> QED
          BY <4>1, <4>2 DEF LoneInv, Lone
      <3> QED
        BY <1>1, <1>8, <3>1, LoneStays DEF LoneInv, SockClosed, Connects, IsReady
    <2> QED
      BY <2>1, <2>2
  <1> QED
    BY <1>2, <1>3, <1>4, <1>5, <1>6, <1>7, <1>8 DEF Socket

LEMMA RestLone ==
    ASSUME QuietStart, LoneInv,
           \/ Start \/ Stop \/ Crash \/ Request \/ TimerFires
           \/ Refreshing \/ (\E renamed \in BOOLEAN : SaveFails(renamed)) \/ ExchangeLost
           \/ WindowEnds \/ AccessExpires \/ Revoke \/ NewCode \/ UNCHANGED vars
    PROVE  Lone'
  <1>1. CASE UNCHANGED <<socks, stopped, timer>> /\ \A j \in Jobs : jobs'[j].kind = jobs[j].kind
    BY <1>1, LoneStays DEF LoneInv, Connects, IsReady
  <1>2. CASE Start
    <2>1. PICK j \in Jobs : Others(j)
      BY <1>2, JobBegins, Beginnings DEF LoneInv, CallsInv, Start
    <2>2. AtRest /\ timer' = FALSE /\ socks' = socks
      BY <1>2 DEF Start
    <2>3. (\A k \in Jobs : ~Connects(k)) /\ \A s \in Socks : socks[s].at = "free"
      BY <2>2, KindsAndStages DEF AtRest, FreeJobs, Connects
    <2> QED
      BY <2>1, <2>2, <2>3 DEF Lone, Connects, IsReady, Others
  <1>3. CASE Stop
    <2>1. \A s \in Socks : socks'[s].at = socks[s].at \/ socks'[s].at = "closing"
      BY <1>3, Types DEF LoneInv, CallsInv, Stop, SockType
    <2> QED
      BY <1>3, <2>1 DEF LoneInv, Lone, Stop, Connects, IsReady
  <1>4. CASE Crash
    BY <1>4, KindsAndStages DEF Lone, Crash, Connects, IsReady
  <1>5. CASE Request
    <2>1. PICK j \in Jobs :
               Others(j) /\ jobs'[j] = [kind |-> "request", at |-> "checking", for |-> "prepare", token |-> 0]
      <3>1. FreeJobs # {} /\ Begins("request", "checking", "prepare") /\ TypeOK
        BY <1>5 DEF LoneInv, CallsInv, Request
      <3> QED
        BY <3>1, JobBegins, Beginnings
    <2> QED
      BY <1>5, <2>1, LoneStays, KindsAndStages DEF LoneInv, Request, Connects, IsReady, Others
  <1>6. CASE TimerFires
    <2>1. CASE stopped
      BY <1>6, <2>1, LoneStays DEF LoneInv, TimerFires, Connects, IsReady
    <2>2. CASE ~stopped
      <3>1. PICK j \in Jobs : Others(j)
        BY <1>6, <2>2, JobBegins, Beginnings DEF LoneInv, CallsInv, TimerFires
      <3> QED
        BY <1>6, <3>1 DEF LoneInv, Lone, TimerFires, Connects, IsReady, Others
    <2> QED
      BY <2>1, <2>2
  <1>7. CASE Refreshing \/ (\E renamed \in BOOLEAN : SaveFails(renamed)) \/ ExchangeLost
    <2>1. UNCHANGED <<socks, stopped, timer>>
      BY <1>7 DEF Refreshing, CredentialsSaved, Exchanged, Answered, SaveFails, ExchangeLost, RefreshUnchanged
    <2>2. jobs' = jobs \/ \E outcome \in {"granted", "refused", "broken"} : Settles(outcome)
      BY <1>7 DEF Refreshing, CredentialsSaved, Exchanged, Answered, SaveFails, ExchangeLost
    <2> QED
      BY <1>1, <2>1, <2>2, JobsSettle DEF LoneInv, CallsInv
  <1>8. CASE WindowEnds \/ AccessExpires \/ Revoke \/ NewCode \/ UNCHANGED vars
    BY <1>1, <1>8 DEF WindowEnds, AccessExpires, Revoke, NewCode, vars, appVars
  <1> QED
    BY <1>2, <1>3, <1>4, <1>5, <1>6, <1>7, <1>8

LEMMA LoneStep == ASSUME QuietStart, ~LateReady, LoneInv, [Next]_vars PROVE LoneInv'
  <1>1. CallsInv'
    BY NextCalls DEF LoneInv
  <1>2. Lone'
    BY JobsLone, SockLone, RestLone DEF Next
  <1> QED
    BY <1>1, <1>2 DEF LoneInv

LEMMA LoneConnection == LoneInv => OneConnection
  <1> SUFFICES ASSUME LoneInv, NEW s \in Socks, NEW t \in Socks,
                      {socks[s].at, socks[t].at} \subseteq {"opening", "ready"}
               PROVE  s = t
    BY DEF OneConnection
  <1>1. ASSUME NEW u \in Socks, socks[u].at = "opening"
        PROVE  socks[u].job # None /\ \E q \in Jobs : socks[u].job = q /\ Connects(q)
    <2>1. PICK q \in Jobs : socks[u].job = q /\ jobs[q].at = "opening" /\ q # None
      BY <1>1, SockOwned DEF LoneInv
    <2>2. jobs[q].kind \in JobKinds /\ jobs[q].kind # None /\ jobs[q].kind # "request"
      BY <2>1, AtWork DEF LoneInv, JobFits, JobType
    <2> QED
      BY <2>1, <2>2, KindsAndStages DEF Connects
  <1> QED
    BY <1>1 DEF LoneInv, Lone, IsReady, CallsInv, SocksInv

(* While one start() is at work at a time, no READY comes after its time limit, and whatever
   drops, expires, is revoked, fails or dies, connect() and the reconnect timer never leave an
   agent with two sockets that connect or are connected (connect, scheduleReconnect). *)
THEOREM ConnectionStaysOne == QuietStart /\ ~LateReady => (Spec => []OneConnection)
  <1> SUFFICES ASSUME QuietStart, ~LateReady PROVE Spec => []OneConnection
    OBVIOUS
  <1>1. Init => LoneInv
    <2>1. Init => Lone
      BY KindsAndStages DEF Init, Lone, Connects, IsReady
    <2> QED
      BY <2>1, InitCalls DEF LoneInv
  <1>2. LoneInv /\ [Next]_vars => LoneInv'
    BY LoneStep
  <1> QED
    BY <1>1, <1>2, LoneConnection, PTL DEF Spec

-----------------------------------------------------------------------------
(* The credentials.                                                        *)

\* What a call knows: a start() that pairs has remembered its request, and what it was given is
\* the agent's; whoever asks or connects has credentials.
JobKnows(j) ==
    /\ jobs[j].at = "pairing" => (mem.token = 0 => file.token = 0)
    /\ jobs[j].at \in {"taking", "taken", "forgetting"} => pend.req # 0
    /\ jobs[j].at \in {"taken", "forgetting"} => jobs[j].token <= issuer.token
    /\ jobs[j].at = "taken" /\ jobs[j].token # 0 => issuer.keys = {pend.keys}
    /\ jobs[j].at = "forgetting" =>
         file = [token |-> jobs[j].token, req |-> 0, keys |-> pend.keys] /\ jobs[j].token # 0
    /\ jobs[j].at \notin Activating \cup {"idle", "loading"} => mem.token # 0

JobsKnow == \A j \in Jobs : JobKnows(j)

\* Without credentials there is no connection to lose.
Awake == mem.token = 0 => ~timer /\ \A s \in Socks : socks[s].at = "free"

\* A refresh is what some call waits for, of the credentials the agent has.
RefreshInv ==
    refresh.at # None =>
        /\ \E j \in Jobs : jobs[j].at = "waiting"
        /\ mem.token # 0 /\ refresh.creds.keys = mem.keys
        /\ refresh.creds.token # 0 /\ refresh.creds.token <= issuer.token
        /\ refresh.at = "answered" /\ refresh.reply = "ok" => refresh.creds.token < issuer.token

\* The agent is who it is, and no token is newer than the newest.
KeysInv ==
    /\ file.token # 0 => issuer.keys = {file.keys} /\ file.keys # 0 /\ file.token <= issuer.token
    /\ mem.token # 0 => issuer.keys = {mem.keys} /\ mem.keys # 0 /\ mem.token <= issuer.token
    /\ mem.token = 0 => mem.keys = 0 /\ mem.req = 0
    /\ file.token = 0 => mem.token = 0 /\ file.keys = 0 /\ file.req = 0
    /\ pend.req # 0 => pend.keys # 0 /\ issuer.keys \subseteq {pend.keys}
    /\ issuer.keys # {} => file.token # 0 \/ pend.req # 0
    /\ issuer.token # 0 <=> issuer.keys # {}
    /\ \A k, l \in issuer.keys : k = l
    /\ issuer.from.req # 0 => issuer.from.token + 1 = issuer.token
    /\ code.gave <= issuer.token
    /\ code.by.req # 0 => code.gave # 0
    /\ code.open => code.by.req = 0

\* Only start() is at work, and only its own socket may open.
Quiet ==
    /\ \A j \in Jobs : Over(j) \/ Starter(j)
    /\ ~timer /\ (wanted => \E j \in Jobs : Starter(j))
    /\ \A s \in Socks : socks[s].at # "ready" /\ (socks[s].at = "closing" => socks[s].job # None)
NoSocks == \A s \in Socks : socks[s].at = "free"

\* There was no activation yet.
UnbornJob(j) == jobs[j].at \in {"idle", "loading", "pairing", "taking", "taken"} /\ jobs[j].token = 0
Unborn == issuer.token = 0 /\ Quiet /\ NoSocks /\ \A j \in Jobs : UnbornJob(j)

\* The last activation is remembered, and its token was not seen.
LostJob(j) == jobs[j].at # "forgetting" /\ (jobs[j].at = "taken" => jobs[j].token = issuer.token)
LostRefresh ==
    refresh.at # None =>
        /\ refresh.creds.token # issuer.token /\ (refresh.creds.req # 0 \/ refresh.at = "restoring")
        /\ refresh.at = "answered" => refresh.reply = "session"
        /\ refresh.at # "keeping"
Lost ==
    /\ pend.req # 0 /\ pend = code.by /\ code.gave = issuer.token /\ issuer.token # 0 /\ issuer.from.req = 0
    /\ issuer.token # file.token /\ issuer.token # mem.token
    /\ live \subseteq {issuer.token}
    /\ Quiet /\ (\A s \in Socks : socks[s].at # "free" => socks[s].token # issuer.token)
    /\ LostRefresh /\ \A j \in Jobs : LostJob(j)

\* The token of the activation is on file.
SavedJob(j) == jobs[j].at \in {"idle", "loading", "forgetting"}
Saved ==
    /\ file.token = issuer.token /\ issuer.token # 0
    /\ Quiet /\ NoSocks /\ \A j \in Jobs : SavedJob(j)

\* What the runtime has can be continued, and a call that connects again does so with an access
\* token that is accepted.
Known(c) == c.token = issuer.token \/ (c.req # 0 /\ c = issuer.from)
GoodCredentials ==
    /\ issuer.token # 0 /\ mem.token # 0 /\ Known(mem) /\ Known(file)
    /\ mem.req # 0 => file = mem \/ (mem = issuer.from /\ file.token = issuer.token)
GoodRefresh ==
    /\ refresh.at = "intent" => mem.req = 0 /\ refresh.creds.req # 0 /\ refresh.creds.token = mem.token
    /\ refresh.at = "asking" => refresh.creds = mem /\ mem.req # 0
    /\ refresh.at = "answered" => refresh.reply = "ok" /\ refresh.creds = mem /\ mem.req # 0 /\ mem = issuer.from
    /\ refresh.at = "keeping" => /\ refresh.creds.token = mem.token + 1 /\ refresh.creds.req = 0
                                 /\ mem.req # 0 /\ mem = issuer.from
    /\ refresh.at # "restoring"
GoodJob(j) ==
    /\ jobs[j].at \notin Activating \cup {"refused"}
    /\ jobs[j].for = "again" =>
         /\ jobs[j].at \in {"granted", "connecting"} => mem.token \in live
         /\ \A s \in Socks : socks[s].job = j => socks[s].token \in live
Good == GoodCredentials /\ GoodRefresh /\ \A j \in Jobs : GoodJob(j)

Continues == issuer.revoked \/ Unborn \/ Lost \/ Saved \/ Good

CredentialsInv == JobsKnow /\ Awake /\ RefreshInv /\ KeysInv /\ Continues

\* The token of an exchange or an activation that may still be repeated is accepted.
FreshLives == issuer.from.req # 0 \/ code.by.req # 0 => issuer.revoked \/ issuer.token \in live

SessionInv == CallsInv /\ CredentialsInv /\ FreshLives

-----------------------------------------------------------------------------
(* Steps of the calls and the sockets: credentials, activation and issuer  *)
(* are left alone.                                                         *)

Given == <<file, mem, pend, refresh, issuer, code, live>>

LEMMA ModesStay ==
    ASSUME Continues, UNCHANGED Given,
           Unborn \/ Lost \/ Saved => Quiet', Unborn \/ Saved => NoSocks',
           Lost => \A s \in Socks : socks'[s].at # "free" => socks'[s].token # issuer.token,
           Unborn => \A j \in Jobs : UnbornJob(j)', Lost => \A j \in Jobs : LostJob(j)',
           Saved => \A j \in Jobs : SavedJob(j)', Good => \A j \in Jobs : GoodJob(j)'
    PROVE  Continues'
  <1>2. CASE issuer.revoked
    BY <1>2 DEF Continues, Given
  <1>3. CASE Unborn
    BY <1>3 DEF Continues, Unborn, Given
  <1>4. CASE Lost
    <2>1. LostRefresh'
      BY <1>4 DEF Lost, LostRefresh, Given
    <2> QED
      BY <1>4, <2>1 DEF Continues, Lost, Given
  <1>5. CASE Saved
    BY <1>5 DEF Continues, Saved, Given
  <1>6. CASE Good
    <2>1. GoodCredentials' /\ GoodRefresh'
      BY <1>6 DEF Good, GoodCredentials, GoodRefresh, Known, Given
    <2> QED
      BY <1>6, <2>1 DEF Continues, Good
  <1> QED
    BY <1>2, <1>3, <1>4, <1>5, <1>6 DEF Continues

LEMMA CredentialsStay ==
    ASSUME CredentialsInv, UNCHANGED Given, JobsKnow', Awake', Continues',
           \A j \in Jobs : jobs[j].at = "waiting" => jobs'[j].at = "waiting"
    PROVE  CredentialsInv'
  <1>1. RefreshInv'
    BY DEF CredentialsInv, RefreshInv, Given
  <1>2. KeysInv'
    BY DEF CredentialsInv, KeysInv, Given
  <1> QED
    BY <1>1, <1>2 DEF CredentialsInv

\* What is said of a call stays true while it is left alone.
LEMMA JobStays ==
    ASSUME NEW k \in Jobs, jobs'[k] = jobs[k], JobUnchanged,
           \A s \in Socks : socks'[s].job = k => socks[s].job = k /\ socks'[s].token = socks[s].token
    PROVE  /\ JobKnows(k) => JobKnows(k)'
           /\ UnbornJob(k) => UnbornJob(k)'
           /\ LostJob(k) => LostJob(k)'
           /\ SavedJob(k) => SavedJob(k)'
           /\ GoodJob(k) => GoodJob(k)'
  <1>1. JobKnows(k) => JobKnows(k)'
    BY DEF JobKnows, JobUnchanged
  <1>2. /\ UnbornJob(k) => UnbornJob(k)'
        /\ LostJob(k) => LostJob(k)'
        /\ SavedJob(k) => SavedJob(k)'
    BY DEF UnbornJob, LostJob, SavedJob, JobUnchanged
  <1>3. GoodJob(k) => GoodJob(k)'
    BY DEF GoodJob, Starter, JobUnchanged
  <1> QED
    BY <1>1, <1>2, <1>3

\* A call goes on, activates instead, or is over, and connects again later.
Proceeds(j) ==
    \/ jobs'[j].kind = jobs[j].kind /\ UNCHANGED <<timer, wanted>>
    \/ jobs[j].kind = "start" /\ jobs'[j].kind = "pair" /\ UNCHANGED <<timer, wanted>>
    \/ /\ jobs'[j] = NoJob /\ (wanted' => wanted /\ ~Starter(j))
       /\ timer' => timer \/ jobs[j].kind \in Chains

\* It is then what a session of each kind asks of it, unless that is revoked.
Suits(j) ==
  ~issuer.revoked =>
    /\ Unborn => UnbornJob(j)'
    /\ Lost => LostJob(j)'
    /\ Saved => SavedJob(j)'
    /\ Good => GoodJob(j)'

LEMMA QuietMoves ==
    ASSUME NEW j \in Jobs, Others(j), Quiet, ~Over(j), Proceeds(j),
           \A s \in Socks : socks'[s].at # "ready" /\ (socks'[s].at = "closing" => socks'[s].job # None)
    PROVE  Quiet'
  BY KindsAndStages DEF Quiet, Proceeds, Others, Over, Starter

LEMMA NoJobSuits ==
    ASSUME NEW j \in Jobs, jobs'[j] = NoJob
    PROVE  JobKnows(j)' /\ Suits(j)
  BY KindsAndStages
     DEF JobKnows, Suits, UnbornJob, LostJob, SavedJob, GoodJob, Starter, Activating, NoJob

LEMMA CredentialsMove ==
    ASSUME SessionInv, NEW j \in Jobs, Others(j), UNCHANGED Given, UNCHANGED socks,
           jobs[j].at \notin {"idle", "waiting"}, Proceeds(j), JobKnows(j)', Suits(j)
    PROVE  CredentialsInv'
  <1>1. ~Over(j)
    BY AtWork DEF SessionInv
  <1>2. \A k \in Jobs : k # j => /\ JobKnows(k) => JobKnows(k)'
                                 /\ UnbornJob(k) => UnbornJob(k)'
                                 /\ LostJob(k) => LostJob(k)'
                                 /\ SavedJob(k) => SavedJob(k)'
                                 /\ GoodJob(k) => GoodJob(k)'
    BY JobStays DEF Others, Given, JobUnchanged
  <1>3. JobsKnow'
    BY <1>2 DEF SessionInv, CredentialsInv, JobsKnow
  <1>4. Awake'
    <2>1. CASE mem.token = 0
      <3>1. jobs[j].at \in Activating \cup {"loading"}
        BY <2>1 DEF SessionInv, CredentialsInv, JobsKnow, JobKnows
      <3>2. jobs[j].kind \notin Chains
        BY <3>1, AtWork, KindsAndStages DEF SessionInv, JobFits, Starter
      <3>3. ~timer' /\ \A s \in Socks : socks'[s].at = "free"
        BY <2>1, <3>2 DEF SessionInv, CredentialsInv, Awake, Proceeds
      <3> QED
        BY <3>3 DEF Awake
    <2>2. CASE mem.token # 0
      BY <2>2 DEF Awake, Given
    <2> QED
      BY <2>1, <2>2
  <1>5. Continues'
    <2>1. Quiet => Quiet'
      BY <1>1, QuietMoves DEF Quiet
    <2>2. Unborn \/ Lost \/ Saved => Quiet'
      BY <2>1 DEF Unborn, Lost, Saved
    <2>3. Unborn \/ Saved => NoSocks'
      BY DEF Unborn, Saved, NoSocks
    <2>4. Lost => \A s \in Socks : socks'[s].at # "free" => socks'[s].token # issuer.token
      BY DEF Lost
    <2>5. ~issuer.revoked =>
          /\ Unborn => \A k \in Jobs : UnbornJob(k)'
          /\ Lost => \A k \in Jobs : LostJob(k)'
          /\ Saved => \A k \in Jobs : SavedJob(k)'
          /\ Good => \A k \in Jobs : GoodJob(k)'
      BY <1>2 DEF Suits, Unborn, Lost, Saved, Good
    <2>6. CASE ~issuer.revoked
      BY <2>2, <2>3, <2>4, <2>5, <2>6, ModesStay DEF SessionInv, CredentialsInv
    <2>7. CASE issuer.revoked
      BY <2>7 DEF Continues, Given
    <2> QED
      BY <2>6, <2>7
  <1>6. \A k \in Jobs : jobs[k].at = "waiting" => jobs'[k].at = "waiting"
    BY DEF Others
  <1> QED
    BY <1>3, <1>4, <1>5, <1>6, CredentialsStay DEF SessionInv

LEMMA Typed ==
    ASSUME SessionInv
    PROVE  /\ RestTyped /\ TypeOK /\ CallsInv /\ CredentialsInv
           /\ JobsKnow /\ Awake /\ RefreshInv /\ KeysInv /\ Continues /\ FreshLives
  BY Types DEF SessionInv, CallsInv, CredentialsInv

\* A call that has no socket open has none.
LEMMA Socketless ==
    ASSUME SessionInv, NEW j \in Jobs, jobs[j].at # "opening"
    PROVE  \A s \in Socks : socks[s].job # j
  BY SockOwned, NamesAssumption DEF SessionInv

\* What a call at work may do next, in each kind of session.
LEMMA WorkSuits ==
    ASSUME SessionInv, NEW j \in Jobs, JobUnchanged, UNCHANGED socks,
           jobs[j].at \notin Activating \cup {"idle", "loading", "opening"},
           jobs'[j].at \notin Activating \cup {"idle", "loading", "refused"},
           jobs'[j].kind = jobs[j].kind,
           Good /\ jobs'[j].for = "again" /\ jobs'[j].at \in {"granted", "connecting"} => mem.token \in live
    PROVE  JobKnows(j)' /\ Suits(j)
  <1>1. JobKnows(j)'
    BY Typed DEF JobsKnow, JobKnows, JobUnchanged, Activating
  <1>2. ~Unborn /\ ~Saved
    BY DEF Unborn, UnbornJob, Saved, SavedJob, Activating
  <1>3. LostJob(j)'
    BY DEF LostJob, Activating
  <1>4. Good => GoodJob(j)'
    BY Socketless DEF GoodJob, JobUnchanged, Starter
  <1> QED
    BY <1>1, <1>2, <1>3, <1>4 DEF Suits

LEMMA CheckedKeeps ==
    ASSUME SessionInv, NEW j \in Jobs, NotExpiring(j) \/ Expiring(j)
    PROVE  CredentialsInv'
  <1>1. /\ jobs[j].at = "checking" /\ UNCHANGED Given /\ JobUnchanged /\ UNCHANGED <<socks, timer, wanted>>
    BY DEF NotExpiring, Expiring, JobUnchanged, Given
  <1>2. /\ Others(j) /\ jobs'[j].kind = jobs[j].kind
        /\ \/ jobs[j].kind \in Starters /\ jobs'[j].at = "connecting" /\ jobs'[j].for = "first"
           \/ jobs[j].kind \notin Starters /\ jobs'[j].at = "asking"
           \/ jobs'[j].at = "joining" /\ jobs'[j].for = "prepare"
    BY Typed, JobGoes, JobSends DEF NotExpiring, Expiring, JobStages, Purposes
  <1>3. JobKnows(j)' /\ Suits(j)
    BY <1>1, <1>2, WorkSuits DEF Activating, Starter
  <1> QED
    BY <1>1, <1>2, <1>3, CredentialsMove DEF Proceeds

LEMMA GrantedKeeps == ASSUME SessionInv, NEW j \in Jobs, GoesOn(j) PROVE CredentialsInv'
  <1>1. /\ jobs[j].at = "granted" /\ UNCHANGED Given /\ JobUnchanged /\ UNCHANGED <<socks, timer, wanted, happened>>
    BY DEF GoesOn, JobUnchanged, Given
  <1>2. /\ Others(j)
        /\ \/ jobs'[j] = NoJob /\ ~Starter(j)
           \/ /\ jobs'[j].kind = jobs[j].kind /\ jobs'[j].at = "connecting"
              /\ jobs'[j].for = "again" => jobs[j].for = "again"
           \/ jobs'[j].kind = jobs[j].kind /\ jobs'[j].at = "asking" /\ ~Starter(j)
    BY Typed, GrantedGoes DEF Starter
  <1>3. CASE jobs'[j] = NoJob /\ ~Starter(j)
    BY <1>1, <1>2, <1>3, NoJobSuits, CredentialsMove DEF Proceeds
  <1>4. CASE jobs'[j].kind = jobs[j].kind /\ jobs'[j].at = "connecting" /\ (jobs'[j].for = "again" => jobs[j].for = "again")
    <2>1. Good /\ jobs'[j].for = "again" => mem.token \in live
      BY <1>1, <1>4 DEF Good, GoodJob
    <2>2. JobKnows(j)' /\ Suits(j)
      BY <1>1, <1>4, <2>1, WorkSuits DEF Activating
    <2> QED
      BY <1>1, <1>2, <1>4, <2>2, CredentialsMove DEF Proceeds
  <1>5. CASE jobs'[j].kind = jobs[j].kind /\ jobs'[j].at = "asking" /\ ~Starter(j)
    <2>1. JobKnows(j)' /\ Suits(j)
      BY <1>1, <1>5, WorkSuits DEF Activating
    <2> QED
      BY <1>1, <1>2, <1>5, <2>1, CredentialsMove DEF Proceeds
  <1> QED
    BY <1>2, <1>3, <1>4, <1>5

\* A call that fails: start() activates when its session was refused.
LEMMA FailedKeeps ==
    ASSUME SessionInv, NEW j \in Jobs, NEW session \in BOOLEAN, Fails(j, session), UNCHANGED Given,
           UNCHANGED socks, jobs[j].at \notin {"idle", "waiting"},
           session => jobs[j].at = "refused"
    PROVE  CredentialsInv'
  <1>1. /\ Others(j)
        /\ \/ /\ session /\ jobs[j].kind = "start" /\ jobs'[j] = [NoJob EXCEPT !.kind = "pair", !.at = "pairing"]
              /\ UNCHANGED <<stopped, timer, wanted>>
           \/ /\ jobs'[j] = NoJob
              /\ (wanted' <=> wanted /\ jobs[j].kind \notin Starters)
              /\ (timer' <=> timer \/ (jobs[j].kind \in Chains /\ ~stopped'))
    BY Typed, JobFails
  <1>2. CASE jobs'[j] = NoJob /\ (wanted' <=> wanted /\ jobs[j].kind \notin Starters)
             /\ (timer' <=> timer \/ (jobs[j].kind \in Chains /\ ~stopped'))
    BY <1>1, <1>2, NoJobSuits, CredentialsMove DEF Proceeds, Starter
  <1>3. CASE /\ session /\ jobs[j].kind = "start" /\ jobs'[j] = [NoJob EXCEPT !.kind = "pair", !.at = "pairing"]
             /\ UNCHANGED <<stopped, timer, wanted>>
    <2>1. jobs[j].at = "refused" /\ mem.token # 0
      BY <1>3, Typed DEF JobsKnow, JobKnows, Activating
    <2>2. jobs'[j].at = "pairing" /\ jobs'[j].kind = "pair"
      BY <1>3 DEF NoJob
    <2>3. JobKnows(j)'
      BY <2>1, <2>2 DEF JobKnows, Given, Activating
    <2>4. Suits(j)
      BY <2>1, <2>2 DEF Suits, Unborn, UnbornJob, LostJob, Saved, SavedJob, Good, GoodJob
    <2> QED
      BY <1>1, <1>3, <2>2, <2>3, <2>4, CredentialsMove DEF Proceeds
  <1> QED
    BY <1>1, <1>2, <1>3

LEMMA GivenUpKeeps == ASSUME SessionInv, NEW j \in Jobs, GivesUp(j) PROVE CredentialsInv'
  <1>1. /\ jobs[j].at \in {"refused", "broken"} /\ Fails(j, jobs[j].at = "refused")
        /\ UNCHANGED Given /\ UNCHANGED <<socks, happened>>
    BY DEF GivesUp, JobUnchanged, Given
  <1> QED
    BY <1>1, FailedKeeps

LEMMA ServedKeeps ==
    ASSUME SessionInv, NEW j \in Jobs, RequestServed(j) \/ RequestUnauthorized(j)
    PROVE  CredentialsInv'
  <1>1. /\ jobs[j].at = "asking" /\ ~Starter(j) /\ UNCHANGED Given /\ JobUnchanged /\ UNCHANGED <<socks, timer, wanted, happened>>
    BY AtWork DEF RequestServed, RequestUnauthorized, JobUnchanged, Given, SessionInv, JobFits
  <1>2. CASE jobs' = [jobs EXCEPT ![j] = NoJob]
    <2>1. Others(j) /\ jobs'[j] = NoJob
      BY <1>2, Typed, JobEnds
    <2> QED
      BY <1>1, <2>1, NoJobSuits, CredentialsMove DEF Proceeds
  <1>3. CASE GoesTo(j, "joining", "retry")
    <2>1. Others(j) /\ jobs'[j].at = "joining" /\ jobs'[j].kind = jobs[j].kind
      BY <1>3, Typed, JobGoes DEF JobStages, Purposes
    <2>2. JobKnows(j)' /\ Suits(j)
      BY <1>1, <2>1, WorkSuits DEF Activating
    <2> QED
      BY <1>1, <2>1, <2>2, CredentialsMove DEF Proceeds
  <1> QED
    BY <1>2, <1>3 DEF RequestServed, RequestUnauthorized

LEMMA ActivationLostKeeps == ASSUME SessionInv, NEW j \in Jobs, ActivationLost(j) PROVE CredentialsInv'
  <1>1. /\ jobs[j].at \in {"taking", "taken"} /\ Fails(j, FALSE) /\ UNCHANGED Given /\ UNCHANGED socks
    BY DEF ActivationLost, Given
  <1> QED
    BY <1>1, FailedKeeps

\* Sockets with the call that opens them.
LEMMA SocketMoves ==
    ASSUME SessionInv, NEW j \in Jobs, NEW s \in Socks, Others(j), OtherSocks(s), UNCHANGED Given,
           jobs[j].at \in {"connecting", "opening"}, socks'[s].job \in {j, None},
           JobKnows(j)', Lost => LostJob(j)', Good => GoodJob(j)',
           Lost => /\ Proceeds(j) /\ socks'[s].at # "ready" /\ (socks'[s].at = "closing" => socks'[s].job # None)
                   /\ socks'[s].at # "free" => socks'[s].token # issuer.token
    PROVE  CredentialsInv'
  <1>1. ~Over(j) /\ mem.token # 0 /\ ~Unborn /\ ~Saved /\ None \notin Jobs
    BY Typed, AtWork, NamesAssumption
       DEF JobsKnow, JobKnows, Activating, Unborn, UnbornJob, Saved, SavedJob
  <1>2. ASSUME NEW k \in Jobs, k # j
        PROVE  /\ JobKnows(k) => JobKnows(k)'
               /\ LostJob(k) => LostJob(k)'
               /\ GoodJob(k) => GoodJob(k)'
    <2>1. \A t \in Socks : socks'[t].job = k => socks[t].job = k /\ socks'[t].token = socks[t].token
      BY <1>1, <1>2 DEF OtherSocks
    <2> QED
      BY <1>2, <2>1, JobStays DEF Others, Given, JobUnchanged
  <1>3. JobsKnow'
    BY <1>2, Typed DEF JobsKnow
  <1>4. Awake'
    BY <1>1 DEF Awake, Given
  <1>5. Continues'
    <2>1. Lost => Quiet'
      BY <1>1, QuietMoves DEF Lost, Quiet, OtherSocks
    <2>2. Lost => \A t \in Socks : socks'[t].at # "free" => socks'[t].token # issuer.token
      BY DEF Lost, OtherSocks
    <2>3. /\ Lost => \A k \in Jobs : LostJob(k)'
          /\ Good => \A k \in Jobs : GoodJob(k)'
      BY <1>2 DEF Lost, Good
    <2> QED
      BY <1>1, <2>1, <2>2, <2>3, Typed, ModesStay
  <1>6. \A k \in Jobs : jobs[k].at = "waiting" => jobs'[k].at = "waiting"
    BY DEF Others
  <1> QED
    BY <1>3, <1>4, <1>5, <1>6, Typed, CredentialsStay

LEMMA OpenedKeeps == ASSUME SessionInv, NEW j \in Jobs, Opens(j) PROVE CredentialsInv'
  <1>1. /\ jobs[j].at = "connecting" /\ GoesTo(j, "opening", jobs[j].for) /\ UNCHANGED Given
        /\ UNCHANGED <<timer, wanted, happened>> /\ jobs[j].for \in Purposes
    BY AtWork DEF Opens, JobUnchanged, Given, SessionInv, JobType
  <1>2. PICK s \in Socks : /\ socks[s] = NoSock
                           /\ socks' = [socks EXCEPT ![s] = [at |-> "opening", job |-> j, token |-> mem.token]]
    BY DEF Opens
  <1>3. OtherSocks(s) /\ socks'[s] = [at |-> "opening", job |-> j, token |-> mem.token]
    BY <1>2, SockOwned DEF OtherSocks, SessionInv
  <1>4. /\ Others(j) /\ jobs'[j].kind = jobs[j].kind /\ jobs'[j].at = "opening" /\ jobs'[j].for = jobs[j].for
    BY <1>1, Typed, JobGoes DEF JobStages
  <1>5. JobKnows(j)' /\ LostJob(j)'
    BY <1>1, <1>4, Typed DEF JobsKnow, JobKnows, LostJob, Activating, Given
  <1>6. Good => GoodJob(j)'
    <2>1. \A t \in Socks : socks'[t].job = j => t = s
      BY <1>1, <1>3, Socketless DEF OtherSocks
    <2> QED
      BY <1>1, <1>3, <1>4, <2>1 DEF Good, GoodJob, Starter, Activating, Given
  <1> QED
    BY <1>1, <1>3, <1>4, <1>5, <1>6, SocketMoves DEF Proceeds, Lost

\* The call of a socket fails, at an end of the socket.
LEMMA SocketFailsKeeps ==
    ASSUME SessionInv, NEW s \in Socks, NEW q \in Jobs, socks[s].job = q, NEW session \in BOOLEAN, Fails(q, session),
           OtherSocks(s), socks'[s].job = None, socks'[s].at \in {"free", "late"},
           socks'[s].at # "free" => socks'[s].token = socks[s].token,
           session => ~Good,
           UNCHANGED Given
    PROVE  CredentialsInv'
  <1>1. jobs[q].at = "opening" /\ socks[s].at # "free" /\ None \notin Jobs
    BY SockOwned, NamesAssumption DEF SessionInv
  <1>2. /\ Others(q)
        /\ \/ /\ session /\ jobs[q].kind = "start" /\ jobs'[q] = [NoJob EXCEPT !.kind = "pair", !.at = "pairing"]
              /\ UNCHANGED <<stopped, timer, wanted>>
           \/ /\ jobs'[q] = NoJob
              /\ (wanted' <=> wanted /\ jobs[q].kind \notin Starters)
              /\ (timer' <=> timer \/ (jobs[q].kind \in Chains /\ ~stopped'))
    BY Typed, JobFails
  <1>3. Proceeds(q)
    BY <1>2 DEF Proceeds, Starter, NoJob
  <1>4. JobKnows(q)' /\ LostJob(q)' /\ (Good => GoodJob(q)')
    <2>1. CASE jobs'[q] = NoJob
      BY <2>1, KindsAndStages DEF JobKnows, LostJob, GoodJob, Starter, Activating, NoJob
    <2>2. CASE session /\ jobs[q].kind = "start" /\ jobs'[q] = [NoJob EXCEPT !.kind = "pair", !.at = "pairing"]
      <3>1. mem.token # 0
        BY <1>1, Typed DEF JobsKnow, JobKnows, Activating
      <3> QED
        BY <2>2, <3>1 DEF JobKnows, LostJob, Activating, NoJob, Given
    <2> QED
      BY <1>2, <2>1, <2>2
  <1> QED
    BY <1>1, <1>2, <1>3, <1>4, SocketMoves DEF Lost

LEMMA RefusedKeeps == ASSUME SessionInv, NEW s \in Socks, SockRefused(s) PROVE CredentialsInv'
  <1>1. /\ socks[s].at = "opening" /\ socks[s].token \notin live /\ SockGone(s) /\ UNCHANGED happened /\ UNCHANGED Given
        /\ IF jobs[socks[s].job].for = "first"
           THEN GoesTo(socks[s].job, "joining", "again") /\ UNCHANGED <<stopped, timer, wanted>>
           ELSE Fails(socks[s].job, TRUE)
    BY DEF SockRefused, SockUnchanged, Given
  <1>2. PICK q \in Jobs : socks[s].job = q /\ jobs[q].at = "opening"
    BY <1>1, SockOwned DEF SessionInv
  <1>3. OtherSocks(s) /\ socks'[s].job = None /\ socks'[s].at = "free"
    BY <1>1, SockGoes, KindsAndStages DEF SessionInv
  <1>5. CASE jobs[q].for = "first"
    <2>1. GoesTo(q, "joining", "again") /\ UNCHANGED <<stopped, timer, wanted>>
      BY <1>1, <1>2, <1>5
    <2>2. Others(q) /\ jobs'[q].kind = jobs[q].kind /\ jobs'[q].at = "joining" /\ jobs'[q].for = "again"
      BY <2>1, Typed, JobGoes DEF JobStages, Purposes
    <2>3. JobKnows(q)' /\ LostJob(q)'
      BY <1>1, <1>2, <2>2, Typed DEF JobsKnow, JobKnows, LostJob, Activating, Given
    <2>4. Good => GoodJob(q)'
      <3>1. \A t \in Socks : socks'[t].job # q
        BY <1>2, <1>3, SockOwned, NamesAssumption DEF OtherSocks, SessionInv
      <3> QED
        BY <2>2, <3>1 DEF GoodJob, Activating
    <2> QED
      BY <1>1, <1>2, <1>3, <2>1, <2>2, <2>3, <2>4, SocketMoves DEF Proceeds
  <1>6. CASE jobs[q].for # "first"
    <2>1. Fails(q, TRUE) /\ jobs[q].for = "again"
      BY <1>1, <1>2, <1>6, AtWork DEF SessionInv, JobFits
    <2>2. ~Good
      BY <1>1, <1>2, <2>1 DEF Good, GoodJob
    <2> QED
      BY <1>1, <1>2, <1>3, <2>1, <2>2, SocketFailsKeeps
  <1> QED
    BY <1>5, <1>6

LEMMA BrokenKeeps == ASSUME SessionInv, NEW s \in Socks, SockFails(s) \/ SockTimesOut(s) PROVE CredentialsInv'
  <1>1. socks[s].at = "opening" /\ Fails(socks[s].job, FALSE) /\ UNCHANGED Given
    BY DEF SockFails, SockTimesOut, SockUnchanged, Given
  <1>2. PICK q \in Jobs : socks[s].job = q
    BY <1>1, SockOwned DEF SessionInv
  <1>3. /\ OtherSocks(s) /\ socks'[s].job = None /\ socks'[s].at \in {"free", "late"}
        /\ socks'[s].at # "free" => socks'[s].token = socks[s].token
    <2>1. CASE SockFails(s)
      BY <2>1, SockGoes, KindsAndStages DEF SockFails, SessionInv
    <2>2. CASE SockTimesOut(s)
      <3>1. socks' = [socks EXCEPT ![s] = [@ EXCEPT !.at = "late", !.job = None]]
        BY <2>2 DEF SockTimesOut
      <3>2. socks \in [Socks -> SockType] /\ socks[s] \in SockType
        BY SockOwned DEF SessionInv
      <3> QED
        BY <3>1, <3>2 DEF OtherSocks, SockType
    <2> QED
      BY <2>1, <2>2
  <1> QED
    BY <1>1, <1>2, <1>3, SocketFailsKeeps

\* A socket whose call has its answer closes, or is gone.
LEMMA SocketLeaves ==
    ASSUME SessionInv, NEW s \in Socks, socks[s].at # "free", socks[s].job = None,
           OtherSocks(s), socks'[s].job = None, UNCHANGED jobs, UNCHANGED Given,
           Lost => socks'[s].at = "free" /\ UNCHANGED <<timer, wanted>>
    PROVE  CredentialsInv'
  <1>1. mem.token # 0 /\ ~Unborn /\ ~Saved /\ None \notin Jobs
    BY Typed, NamesAssumption DEF Awake, Unborn, Saved, NoSocks
  <1>2. \A k \in Jobs : /\ JobKnows(k) => JobKnows(k)'
                        /\ LostJob(k) => LostJob(k)'
                        /\ GoodJob(k) => GoodJob(k)'
    <2>1. \A k \in Jobs, t \in Socks : socks'[t].job = k => socks[t].job = k /\ socks'[t].token = socks[t].token
      BY <1>1 DEF OtherSocks
    <2> QED
      BY <2>1, JobStays DEF Given, JobUnchanged
  <1>3. JobsKnow' /\ Awake'
    BY <1>1, <1>2, Typed DEF JobsKnow, Awake, Given
  <1>4. Continues'
    <2>1. Lost => Quiet' /\ \A t \in Socks : socks'[t].at # "free" => socks'[t].token # issuer.token
      BY DEF Lost, Quiet, Over, Starter, OtherSocks
    <2>2. /\ Lost => \A k \in Jobs : LostJob(k)'
          /\ Good => \A k \in Jobs : GoodJob(k)'
      BY <1>2 DEF Lost, Good
    <2> QED
      BY <1>1, <2>1, <2>2, Typed, ModesStay
  <1> QED
    BY <1>3, <1>4, Typed, CredentialsStay

LEMMA ClosedKeeps == ASSUME SessionInv, NEW s \in Socks, Drop(s) \/ SockClosed(s) PROVE CredentialsInv'
  <1>1. /\ socks[s].at \in {"ready", "closing", "late"} /\ SockGone(s) /\ UNCHANGED Given
    BY DEF Drop, SockClosed, SockUnchanged, Given
  <1>2. OtherSocks(s) /\ socks'[s].job = None /\ socks'[s].at = "free"
    BY <1>1, SockGoes, KindsAndStages DEF SessionInv
  <1>3. CASE socks[s].job # None
    <2>1. Fails(socks[s].job, FALSE)
      BY <1>3, SockOwned DEF Drop, SockClosed, SessionInv
    <2>2. socks[s].job \in Jobs
      BY <1>3, SockOwned DEF SessionInv
    <2> QED
      BY <1>1, <1>2, <2>1, <2>2, SocketFailsKeeps
  <1>4. CASE socks[s].job = None
    <2>1. UNCHANGED <<jobs, wanted>> /\ (Lost => timer' = timer)
      BY <1>1, <1>4 DEF Drop, SockClosed, Lost, Quiet
    <2> QED
      BY <1>1, <1>2, <1>4, <2>1, SocketLeaves
  <1> QED
    BY <1>3, <1>4

LEMMA ReadyKeeps == ASSUME SessionInv, NEW s \in Socks, SockReady(s) PROVE CredentialsInv'
  <1>1. /\ socks[s].at \in {"opening", "late"} /\ socks[s].token \in live /\ UNCHANGED Given /\ UNCHANGED happened
        /\ jobs' = [j \in Jobs |-> IF j = socks[s].job THEN NoJob ELSE jobs[j]]
        /\ socks' = [socks EXCEPT ![s].job = None, ![s].at = IF socks[s].at = "late" THEN "closing" ELSE "ready"]
    BY DEF SockReady, SockUnchanged, Given
  <1>2. OtherSocks(s) /\ socks'[s].job = None
    <2>1. socks \in [Socks -> SockType]
      BY SockOwned DEF SessionInv
    <2> QED
      BY <1>1, <2>1 DEF OtherSocks, SockType
  <1>3. ~Lost
    BY <1>1 DEF Lost
  <1>4. CASE socks[s].at = "opening"
    <2>1. PICK q \in Jobs : socks[s].job = q /\ jobs[q].at = "opening"
      BY <1>4, SockOwned DEF SessionInv
    <2>2. Others(q) /\ jobs'[q] = NoJob
      BY <1>1, <2>1 DEF Others
    <2>3. JobKnows(q)' /\ GoodJob(q)'
      BY <2>2, KindsAndStages DEF JobKnows, GoodJob, Starter, Activating, NoJob
    <2> QED
      BY <1>1, <1>2, <1>3, <2>1, <2>2, <2>3, SocketMoves
  <1>5. CASE socks[s].at = "late"
    <2>1. socks[s].job = None
      BY <1>5, SockOwned DEF SessionInv
    <2>2. UNCHANGED jobs
      BY <1>1, <2>1, NamesAssumption, Typed, Types
    <2> QED
      BY <1>1, <1>2, <1>3, <1>5, <2>1, <2>2, SocketLeaves
  <1> QED
    BY <1>1, <1>4, <1>5

-----------------------------------------------------------------------------
(* The application and the process.                                        *)

\* A call begins: start(), with nothing else at work, or one that has credentials.
LEMMA BegunKeeps ==
    ASSUME SessionInv, NEW j \in Jobs, jobs[j] = NoJob, Others(j), UNCHANGED Given,
           \A t \in Socks : socks'[t] \in {socks[t], NoSock},
           \/ /\ jobs'[j] = [kind |-> "start", at |-> "loading", for |-> "prepare", token |-> 0]
              /\ ~timer' /\ UNCHANGED socks
           \/ /\ ~Starter(j)' /\ jobs'[j].at \in {"checking", "connecting", "joining"} /\ jobs'[j].for # "again"
              /\ mem.token # 0 /\ ~Quiet
    PROVE  CredentialsInv'
  <1>1. None \notin Jobs /\ \A t \in Socks : socks[t].job # j /\ socks'[t].job # j
    BY Socketless, KindsAndStages, NamesAssumption
  <1>2. \A k \in Jobs : k # j => /\ JobKnows(k) => JobKnows(k)'
                                 /\ UnbornJob(k) => UnbornJob(k)'
                                 /\ LostJob(k) => LostJob(k)'
                                 /\ SavedJob(k) => SavedJob(k)'
                                 /\ GoodJob(k) => GoodJob(k)'
    <2>1. \A k \in Jobs, t \in Socks : socks'[t].job = k => socks[t].job = k /\ socks'[t].token = socks[t].token
      BY <1>1, KindsAndStages
    <2> QED
      BY <2>1, JobStays DEF Others, Given, JobUnchanged
  <1>3. jobs[j].at = "idle"
    BY KindsAndStages
  <1>4. \A k \in Jobs : jobs[k].at = "waiting" => jobs'[k].at = "waiting"
    BY <1>3 DEF Others
  <1>5. CASE /\ jobs'[j] = [kind |-> "start", at |-> "loading", for |-> "prepare", token |-> 0]
             /\ ~timer' /\ UNCHANGED socks
    <2>1. JobKnows(j)' /\ UnbornJob(j)' /\ LostJob(j)' /\ SavedJob(j)' /\ GoodJob(j)' /\ Starter(j)'
      BY <1>1, <1>5, KindsAndStages
         DEF JobKnows, UnbornJob, LostJob, SavedJob, GoodJob, Starter, Activating
    <2>2. JobsKnow' /\ Awake'
      BY <1>2, <1>5, <2>1, Typed DEF JobsKnow, Awake, Given
    <2>3. Quiet => Quiet'
      BY <1>5, <2>1 DEF Quiet, Over, Starter, Others
    <2>4. Continues'
      <3>1. Unborn \/ Lost \/ Saved => Quiet'
        BY <2>3 DEF Unborn, Lost, Saved
      <3>2. Unborn \/ Saved => NoSocks'
        BY <1>5 DEF Unborn, Saved, NoSocks
      <3>3. Lost => \A s \in Socks : socks'[s].at # "free" => socks'[s].token # issuer.token
        BY <1>5 DEF Lost
      <3>4. /\ Unborn => \A k \in Jobs : UnbornJob(k)'
            /\ Lost => \A k \in Jobs : LostJob(k)'
            /\ Saved => \A k \in Jobs : SavedJob(k)'
            /\ Good => \A k \in Jobs : GoodJob(k)'
        BY <1>2, <2>1 DEF Unborn, Lost, Saved, Good
      <3> QED
        BY <3>1, <3>2, <3>3, <3>4, Typed, ModesStay
    <2> QED
      BY <1>4, <2>2, <2>4, Typed, CredentialsStay
  <1>6. CASE ~Starter(j)' /\ jobs'[j].at \in {"checking", "connecting", "joining"} /\ jobs'[j].for # "again" /\ mem.token # 0 /\ ~Quiet
    <2>1. JobKnows(j)' /\ GoodJob(j)'
      BY <1>6 DEF JobKnows, GoodJob, Starter, Activating, Given
    <2>2. JobsKnow' /\ Awake'
      BY <1>2, <1>6, <2>1, Typed DEF JobsKnow, Awake, Given
    <2>3. ~Unborn /\ ~Lost /\ ~Saved
      BY <1>6 DEF Unborn, Lost, Saved
    <2>4. Good => \A k \in Jobs : GoodJob(k)'
      BY <1>2, <2>1 DEF Good
    <2>5. Continues'
      BY <2>3, <2>4, Typed, ModesStay
    <2> QED
      BY <1>4, <2>2, <2>5, Typed, CredentialsStay
  <1> QED
    BY <1>5, <1>6

LEMMA StartedKeeps == ASSUME SessionInv, Start PROVE CredentialsInv'
  <1>1. /\ FreeJobs # {} /\ Begins("start", "loading", "prepare") /\ timer' = FALSE
        /\ UNCHANGED <<socks, happened>> /\ UNCHANGED Given
    BY DEF Start, Given
  <1>2. PICK j \in Jobs : /\ jobs[j] = NoJob /\ Others(j)
                          /\ jobs'[j] = [kind |-> "start", at |-> "loading", for |-> "prepare", token |-> 0]
    BY <1>1, Typed, JobBegins, Beginnings
  <1> QED
    BY <1>1, <1>2, BegunKeeps

LEMMA RequestedKeeps == ASSUME QuietStart, SessionInv, Request PROVE CredentialsInv'
  <1>1. /\ FreeJobs # {} /\ Begins("request", "checking", "prepare")
        /\ mem.token # 0 /\ ~Quiet /\ UNCHANGED socks /\ UNCHANGED Given
    BY DEF Request, Given, Quiet, Starter
  <1>2. PICK j \in Jobs : /\ jobs[j] = NoJob /\ Others(j)
                          /\ jobs'[j] = [kind |-> "request", at |-> "checking", for |-> "prepare", token |-> 0]
    BY <1>1, Typed, JobBegins, Beginnings
  <1>3. ~Starter(j)' /\ jobs'[j].at = "checking" /\ jobs'[j].for # "again"
    BY <1>2, KindsAndStages DEF Starter
  <1> QED
    BY <1>1, <1>2, <1>3, BegunKeeps

LEMMA TimedKeeps == ASSUME SessionInv, TimerFires PROVE CredentialsInv'
  <1>1. /\ timer /\ FreeJobs # {} /\ timer' = FALSE /\ UNCHANGED <<socks, wanted, happened>> /\ UNCHANGED Given
        /\ IF stopped THEN UNCHANGED jobs ELSE Begins("timer", "connecting", "first")
    BY DEF TimerFires, SockUnchanged, Given
  <1>2. mem.token # 0 /\ ~Quiet
    BY <1>1, Typed DEF Awake, Quiet
  <1>3. CASE stopped
    <2>1. \A k \in Jobs : (JobKnows(k) => JobKnows(k)') /\ (GoodJob(k) => GoodJob(k)')
      BY <1>1, <1>3, JobStays DEF Given, JobUnchanged
    <2>2. JobsKnow' /\ Awake'
      BY <1>2, <1>1, <2>1, Typed DEF JobsKnow, Awake, Given
    <2>3. ~Unborn /\ ~Lost /\ ~Saved
      BY <1>2 DEF Unborn, Lost, Saved
    <2>4. Continues'
      BY <1>1, <2>1, <2>3, Typed, ModesStay DEF Good
    <2> QED
      BY <1>1, <1>3, <2>2, <2>4, Typed, CredentialsStay
  <1>4. CASE ~stopped
    <2>1. PICK j \in Jobs : /\ jobs[j] = NoJob /\ Others(j)
                            /\ jobs'[j] = [kind |-> "timer", at |-> "connecting", for |-> "first", token |-> 0]
      BY <1>1, <1>4, Typed, JobBegins, Beginnings
    <2>2. ~Starter(j)' /\ jobs'[j].at = "connecting" /\ jobs'[j].for # "again"
      BY <2>1, KindsAndStages DEF Starter
    <2> QED
      BY <1>1, <1>2, <2>1, <2>2, BegunKeeps
  <1> QED
    BY <1>3, <1>4

LEMMA KickedKeeps == ASSUME SessionInv, NEW s \in Socks, Kicked(s) PROVE CredentialsInv'
  <1>1. /\ socks[s].at = "ready" /\ SockGone(s) /\ FreeJobs # {} /\ Begins("recover", "joining", "recover")
        /\ UNCHANGED happened /\ UNCHANGED Given
    BY DEF Kicked, SockUnchanged, Given
  <1>2. PICK j \in Jobs : /\ jobs[j] = NoJob /\ Others(j)
                          /\ jobs'[j] = [kind |-> "recover", at |-> "joining", for |-> "recover", token |-> 0]
    BY <1>1, Typed, JobBegins, Beginnings
  <1>3. ~Starter(j)' /\ jobs'[j].at = "joining" /\ jobs'[j].for # "again" /\ mem.token # 0 /\ ~Quiet
    BY <1>1, <1>2, Typed, KindsAndStages DEF Starter, Awake, Quiet
  <1>4. \A t \in Socks : socks'[t] \in {socks[t], NoSock}
    BY <1>1, SockGoes DEF SessionInv, OtherSocks
  <1> QED
    BY <1>1, <1>2, <1>3, <1>4, BegunKeeps

LEMMA StoppedKeeps == ASSUME SessionInv, Stop PROVE CredentialsInv'
  <1>1. /\ wanted /\ wanted' = FALSE /\ timer' = FALSE
        /\ socks' = IF cur = None THEN socks ELSE [socks EXCEPT ![cur].at = "closing"]
        /\ UNCHANGED Given /\ UNCHANGED jobs
    BY DEF Stop, Given
  <1>2. /\ socks \in [Socks -> SockType] /\ cur \in Socks \cup {None}
        /\ cur # None => socks[cur].at # "free"
    BY Typed, Types
  <1>3. /\ \A s \in Socks : socks'[s].job = socks[s].job /\ socks'[s].token = socks[s].token
        /\ \A s \in Socks : s # cur => socks'[s] = socks[s]
        /\ cur # None => socks'[cur].at = "closing"
    BY <1>1, <1>2, NamesAssumption DEF SockType
  <1>4. \A k \in Jobs : /\ JobKnows(k) => JobKnows(k)'
                        /\ UnbornJob(k) => UnbornJob(k)'
                        /\ LostJob(k) => LostJob(k)'
                        /\ SavedJob(k) => SavedJob(k)'
                        /\ GoodJob(k) => GoodJob(k)'
    BY <1>1, <1>3, JobStays DEF Given, JobUnchanged
  <1>5. NoSocks => cur = None
    BY <1>2 DEF NoSocks
  <1>6. JobsKnow' /\ Awake'
    BY <1>1, <1>4, <1>5, Typed DEF JobsKnow, Awake, NoSocks, Given
  <1>7. Quiet => Quiet'
    <2> SUFFICES ASSUME Quiet PROVE Quiet'
      OBVIOUS
    <2>1. PICK j \in Jobs : Starter(j)
      BY <1>1 DEF Quiet
    <2>2. cur # None => socks[cur].job # None
      BY <1>2, <2>1, NamesAssumption DEF SessionInv, CallsInv, Alone
    <2> QED
      BY <1>1, <1>2, <1>3, <2>2 DEF Quiet, Over, Starter
  <1>8. Continues'
    <2>1. Unborn \/ Lost \/ Saved => Quiet'
      BY <1>7 DEF Unborn, Lost, Saved
    <2>2. Unborn \/ Saved => NoSocks'
      BY <1>1, <1>5 DEF Unborn, Saved, NoSocks
    <2>3. Lost => \A s \in Socks : socks'[s].at # "free" => socks'[s].token # issuer.token
      BY <1>2, <1>3, NamesAssumption DEF Lost
    <2>4. /\ Unborn => \A k \in Jobs : UnbornJob(k)'
          /\ Lost => \A k \in Jobs : LostJob(k)'
          /\ Saved => \A k \in Jobs : SavedJob(k)'
          /\ Good => \A k \in Jobs : GoodJob(k)'
      BY <1>4 DEF Unborn, Lost, Saved, Good
    <2> QED
      BY <1>1, <2>1, <2>2, <2>3, <2>4, Typed, ModesStay
  <1> QED
    BY <1>1, <1>6, <1>8, Typed, CredentialsStay

\* After a crash the agent has what the file has.
LEMMA CrashedKeeps == ASSUME SessionInv, Crash PROVE CredentialsInv'
  <1>1. /\ wanted' = FALSE /\ timer' = FALSE
        /\ mem' = file /\ refresh' = NoRefresh
        /\ jobs' = [j \in Jobs |-> NoJob] /\ socks' = [s \in Socks |-> NoSock]
        /\ UNCHANGED <<file, pend, issuer, code, live>>
    BY DEF Crash
  <1>2. /\ \A j \in Jobs : jobs'[j] = NoJob
        /\ \A s \in Socks : socks'[s] = NoSock
        /\ refresh'.at = None
    BY <1>1 DEF NoRefresh
  <1>3. JobsKnow' /\ Awake' /\ RefreshInv'
    BY <1>1, <1>2, KindsAndStages DEF JobsKnow, JobKnows, Activating, Awake, RefreshInv
  <1>4. KeysInv'
    BY <1>1, Typed DEF KeysInv
  <1>5. Quiet' /\ NoSocks'
    BY <1>1, <1>2, KindsAndStages DEF Quiet, NoSocks, Over
  <1>6. Continues'
    <2>1. CASE issuer.revoked
      BY <1>1, <2>1 DEF Continues
    <2>2. CASE Unborn
      BY <1>1, <1>2, <1>5, <2>2, KindsAndStages DEF Continues, Unborn, UnbornJob, NoJob
    <2>3. CASE Lost
      <3>1. LostRefresh' /\ \A j \in Jobs : LostJob(j)'
        BY <1>2, KindsAndStages DEF LostRefresh, LostJob
      <3> QED
        BY <1>1, <1>2, <1>5, <2>3, <3>1, KindsAndStages DEF Continues, Lost
    <2>4. CASE Saved
      BY <1>1, <1>2, <1>5, <2>4, KindsAndStages DEF Continues, Saved, SavedJob
    <2>5. CASE Good
      <3>1. GoodCredentials'
        BY <1>1, <2>5, Typed DEF Good, GoodCredentials, Known, KeysInv
      <3>2. GoodRefresh' /\ \A j \in Jobs : GoodJob(j)'
        BY <1>2, KindsAndStages, NamesAssumption DEF GoodRefresh, GoodJob, Activating
      <3> QED
        BY <3>1, <3>2 DEF Continues, Good
    <2> QED
      BY <2>1, <2>2, <2>3, <2>4, <2>5, Typed DEF Continues
  <1> QED
    BY <1>3, <1>4, <1>6 DEF CredentialsInv

-----------------------------------------------------------------------------
(* The owner and the issuer's clock.                                       *)

Runtime == <<file, mem, pend, refresh, jobs, socks, timer, wanted>>

\* The runtime does nothing: what it knows, and what waits, stays.
LEMMA RuntimeStays ==
    ASSUME SessionInv, UNCHANGED Runtime, issuer'.token = issuer.token, issuer'.keys = issuer.keys
    PROVE  /\ JobsKnow' /\ Awake' /\ RefreshInv'
           /\ Quiet => Quiet'
           /\ NoSocks => NoSocks'
           /\ LostRefresh => LostRefresh'
           /\ \A k \in Jobs : /\ UnbornJob(k) => UnbornJob(k)'
                              /\ LostJob(k) => LostJob(k)'
                              /\ SavedJob(k) => SavedJob(k)'
  <1>1. JobsKnow' /\ Awake'
    BY Typed DEF JobsKnow, JobKnows, Awake, Runtime
  <1>2. RefreshInv'
    BY Typed DEF RefreshInv, Runtime
  <1>3. (Quiet => Quiet') /\ (NoSocks => NoSocks')
    BY DEF Quiet, NoSocks, Over, Starter, Runtime
  <1>4. /\ LostRefresh => LostRefresh'
        /\ \A k \in Jobs : /\ UnbornJob(k) => UnbornJob(k)'
                           /\ LostJob(k) => LostJob(k)'
                           /\ SavedJob(k) => SavedJob(k)'
    BY DEF LostRefresh, UnbornJob, LostJob, SavedJob, Runtime
  <1> QED
    BY <1>1, <1>2, <1>3, <1>4

LEMMA WindowKeeps == ASSUME SessionInv, WindowEnds PROVE CredentialsInv'
  <1>1. /\ file.token = issuer.token /\ mem.token = issuer.token /\ refresh = NoRefresh
        /\ issuer' = [issuer EXCEPT !.from = NoCredentials]
        /\ code' = [code EXCEPT !.by = NoActivation, !.gave = 0]
        /\ UNCHANGED <<live, happened>> /\ UNCHANGED Runtime
    BY DEF WindowEnds, Runtime, appVars
  <1>2. /\ issuer'.token = issuer.token /\ issuer'.keys = issuer.keys /\ issuer'.revoked = issuer.revoked
        /\ issuer'.from.req = 0 /\ code'.by.req = 0 /\ code'.gave = 0 /\ issuer.token \in Nat
        /\ issuer.from.req # 0 => issuer.from.token + 1 = issuer.token
    BY <1>1, Typed DEF RestTyped, NoCredentials, NoActivation, KeysInv
  <1>3. KeysInv'
    BY <1>1, <1>2, Typed DEF KeysInv, Runtime
  <1>4. Continues'
    <2>1. CASE issuer.revoked
      BY <1>2, <2>1 DEF Continues
    <2>2. CASE Unborn
      BY <1>1, <1>2, <2>2, RuntimeStays DEF Continues, Unborn
    <2>3. CASE Lost
      BY <1>1, <2>3 DEF Lost
    <2>4. CASE Saved
      BY <1>1, <1>2, <2>4, RuntimeStays DEF Continues, Saved, Runtime
    <2>5. CASE Good
      <3>1. mem.req # 0 => file = mem
        BY <1>1, <1>2, <2>5 DEF Good, GoodCredentials
      <3>2. GoodCredentials'
        BY <1>1, <1>2, <2>5, <3>1 DEF Good, GoodCredentials, Known, Runtime
      <3>3. GoodRefresh'
        BY <1>1, KindsAndStages DEF GoodRefresh, NoRefresh, Runtime
      <3>4. \A j \in Jobs : GoodJob(j)'
        BY <1>1, <2>5 DEF Good, GoodJob, Starter, Runtime
      <3> QED
        BY <3>2, <3>3, <3>4 DEF Continues, Good
    <2> QED
      BY <2>1, <2>2, <2>3, <2>4, <2>5, Typed DEF Continues
  <1> QED
    BY <1>1, <1>2, <1>3, <1>4, RuntimeStays DEF CredentialsInv

LEMMA ExpiryKeeps == ASSUME LongLived, SessionInv, AccessExpires PROVE CredentialsInv'
  <1>1. UNCHANGED <<issuer, code>> /\ UNCHANGED Runtime
    BY DEF AccessExpires, Runtime, appVars
  <1>2. PICK t \in live : ~Fresh(t) /\ live' = live \ {t}
    BY DEF AccessExpires
  <1>3. KeysInv'
    BY <1>1, Typed DEF KeysInv, Runtime
  <1>4. Continues'
    <2>1. CASE issuer.revoked
      BY <1>1, <2>1 DEF Continues
    <2>2. CASE Unborn
      BY <1>1, <2>2, RuntimeStays DEF Continues, Unborn
    <2>3. CASE Lost
      BY <1>1, <1>2, <2>3, RuntimeStays DEF Continues, Lost, Runtime
    <2>4. CASE Saved
      BY <1>1, <2>4, RuntimeStays DEF Continues, Saved, Runtime
    <2>5. CASE Good
      <3>1. GoodCredentials' /\ GoodRefresh'
        BY <1>1, <2>5 DEF Good, GoodCredentials, GoodRefresh, Known, Runtime
      <3>2. \A j \in Jobs : GoodJob(j)'
        <4> SUFFICES ASSUME NEW j \in Jobs PROVE GoodJob(j)'
          OBVIOUS
        <4>1. GoodJob(j) /\ UNCHANGED <<jobs, socks, mem>>
          BY <1>1, <2>5 DEF Good, Runtime
        <4>2. jobs[j].for = "again" /\ jobs[j].at \in {"granted", "connecting"} => mem.token # t
          BY <1>2 DEF Fresh, Again
        <4>3. ASSUME jobs[j].for = "again", NEW s \in Socks, socks[s].job = j PROVE socks[s].token # t
          BY <1>2, <4>3, NamesAssumption DEF Fresh, Again
        <4> QED
          BY <1>2, <4>1, <4>2, <4>3 DEF GoodJob
      <3> QED
        BY <3>1, <3>2 DEF Continues, Good
    <2> QED
      BY <2>1, <2>2, <2>3, <2>4, <2>5, Typed DEF Continues
  <1> QED
    BY <1>1, <1>3, <1>4, RuntimeStays DEF CredentialsInv

LEMMA OwnerKeeps == ASSUME SessionInv, Revoke \/ NewCode PROVE CredentialsInv'
  <1>1. /\ UNCHANGED Runtime /\ issuer'.revoked /\ issuer'.token = issuer.token /\ issuer'.keys = issuer.keys
        /\ issuer'.from = issuer.from
        /\ code' = code \/ (code'.by.req = 0 /\ code'.gave = 0)
    BY Typed DEF Revoke, NewCode, Runtime, appVars, RestTyped, NoActivation
  <1>2. KeysInv'
    BY <1>1, Typed DEF KeysInv, Runtime, RestTyped
  <1>3. Continues'
    BY <1>1 DEF Continues
  <1> QED
    BY <1>1, <1>2, <1>3, RuntimeStays DEF CredentialsInv

-----------------------------------------------------------------------------
(* The refresh.                                                            *)

\* While a refresh is in progress, nothing is activated.
LEMMA AtRefresh ==
    ASSUME SessionInv, refresh.at # None
    PROVE  /\ mem.token # 0 /\ refresh.creds.keys = mem.keys /\ refresh.creds.token # 0
           /\ refresh.creds.token <= issuer.token /\ ~Unborn /\ ~Saved
           /\ \E j \in Jobs : jobs[j].at = "waiting"
           /\ \A j \in Jobs : jobs[j].at \notin Activating
           /\ \A j \in Jobs : Starter(j) => jobs[j].at = "waiting"
           /\ issuer.keys = {mem.keys} /\ mem.keys # 0
           /\ refresh.creds.token \in Nat /\ issuer.token \in Nat /\ mem.token \in Nat
  <1>1. /\ mem.token # 0 /\ refresh.creds.keys = mem.keys /\ refresh.creds.token # 0
        /\ refresh.creds.token <= issuer.token
        /\ issuer.keys = {mem.keys} /\ mem.keys # 0
    BY Typed DEF RefreshInv, KeysInv
  <1>2. PICK j \in Jobs : jobs[j].at = "waiting"
    BY Typed DEF RefreshInv
  <1>3. ~Over(j)
    BY <1>2, AtWork DEF SessionInv
  <1>4. \A k \in Jobs : Starter(k) => k = j
    BY <1>3 DEF SessionInv, CallsInv, Alone
  <1>5. \A k \in Jobs : jobs[k].at \in Activating => Starter(k)
    BY AtWork DEF SessionInv, JobFits
  <1>6. ~Unborn /\ ~Saved
    BY <1>2 DEF Unborn, UnbornJob, Saved, SavedJob
  <1>7. refresh.creds.token \in Nat /\ issuer.token \in Nat /\ mem.token \in Nat
    BY Typed DEF RestTyped, RefreshType, Credentials
  <1> QED
    BY <1>1, <1>2, <1>4, <1>5, <1>6, <1>7 DEF Activating

\* A call joins the refresh in progress, or starts one.
LEMMA JoinedKeeps == ASSUME SessionInv, NEW j \in Jobs, Joins(j) PROVE CredentialsInv'
  <1>1. /\ jobs[j].at = "joining" /\ UNCHANGED <<socks, timer, wanted, happened>> /\ JobUnchanged
        /\ jobs[j].for \in Purposes
    BY AtWork DEF Joins, SessionInv, JobType
  <1>2. Others(j) /\ jobs'[j].kind = jobs[j].kind /\ jobs'[j].at = "waiting" /\ jobs'[j].for = jobs[j].for
    BY <1>1, Typed, JobGoes DEF Joins, JobStages
  <1>3. JobKnows(j)' /\ Suits(j)
    BY <1>1, <1>2, WorkSuits DEF Activating
  <1>4. CASE refresh.at # None
    <2>1. UNCHANGED Given
      BY <1>1, <1>4 DEF Joins, Given, JobUnchanged
    <2> QED
      BY <1>1, <1>2, <1>3, <2>1, CredentialsMove DEF Proceeds
  <1>5. CASE refresh.at = None
    <2>1. \/ mem.req # 0 /\ refresh' = [at |-> "asking", creds |-> mem, reply |-> None]
          \/ mem.req = 0 /\ refresh' = [at |-> "intent", creds |-> [mem EXCEPT !.req = ids + 1], reply |-> None]
      BY <1>5 DEF Joins
    <2>2. mem.token # 0 /\ mem \in Credentials /\ ids \in Nat
      BY <1>1, Typed DEF JobsKnow, JobKnows, Activating, RestTyped
    <2>3. /\ refresh'.creds.token = mem.token /\ refresh'.creds.keys = mem.keys /\ refresh'.creds.req # 0
          /\ \/ refresh'.at = "asking" /\ mem.req # 0 /\ refresh'.creds = mem
             \/ refresh'.at = "intent" /\ mem.req = 0
      BY <2>1, <2>2 DEF Credentials
    <2>4. \A k \in Jobs : k # j => /\ JobKnows(k) => JobKnows(k)'
                                   /\ LostJob(k) => LostJob(k)'
                                   /\ GoodJob(k) => GoodJob(k)'
      BY <1>1, <1>2, JobStays DEF Others
    <2>5. JobsKnow' /\ Awake'
      BY <1>1, <1>3, <2>2, <2>4, Typed DEF JobsKnow, Awake, JobUnchanged
    <2>6. RefreshInv'
      BY <1>1, <1>2, <2>2, <2>3, Typed DEF RefreshInv, KeysInv, JobUnchanged
    <2>7. KeysInv'
      BY <1>1, Typed DEF KeysInv, JobUnchanged
    <2>8. Continues'
      <3>1. ~Unborn /\ ~Saved
        BY <1>1 DEF Unborn, UnbornJob, Saved, SavedJob
      <3>2. CASE issuer.revoked
        BY <1>1, <3>2 DEF Continues, JobUnchanged
      <3>3. CASE Lost /\ ~issuer.revoked
        <4>1. LostRefresh' /\ \A k \in Jobs : LostJob(k)'
          BY <1>1, <1>3, <2>3, <2>4, <3>3 DEF Lost, LostRefresh, Suits, JobUnchanged
        <4>2. Quiet'
          BY <1>1, <1>2, <3>3 DEF Lost, Quiet, Over, Starter, Others
        <4> QED
          BY <1>1, <3>3, <4>1, <4>2 DEF Continues, Lost, JobUnchanged
      <3>4. CASE Good /\ ~issuer.revoked
        <4>1. GoodCredentials'
          BY <1>1, <3>4 DEF Good, GoodCredentials, Known, JobUnchanged
        <4>2. GoodRefresh'
          BY <1>1, <2>3, KindsAndStages DEF GoodRefresh, JobUnchanged
        <4>3. \A k \in Jobs : GoodJob(k)'
          BY <1>3, <2>4, <3>4 DEF Good, Suits
        <4> QED
          BY <4>1, <4>2, <4>3 DEF Continues, Good
      <3> QED
        BY <3>1, <3>2, <3>3, <3>4, Typed DEF Continues
    <2> QED
      BY <2>5, <2>6, <2>7, <2>8 DEF CredentialsInv
  <1> QED
    BY <1>4, <1>5

\* The credentials of a refresh come to the file or to the agent: it is who it was.
LEMMA CredentialsCome ==
    ASSUME SessionInv, refresh.at # None, file' \in {file, refresh.creds}, mem' \in {mem, refresh.creds},
           UNCHANGED <<pend, issuer, code, socks, timer>>
    PROVE  KeysInv' /\ Awake' /\ mem'.token # 0
  <1>1. mem'.token # 0
    BY AtRefresh
  <1>2. KeysInv'
    BY AtRefresh, Typed DEF KeysInv
  <1> QED
    BY <1>1, <1>2 DEF Awake

\* The calls that waited go on.
LEMMA SettledKeeps ==
    ASSUME SessionInv, refresh.at # None, NEW outcome \in {"granted", "refused", "broken"}, Settles(outcome),
           file' \in {file, refresh.creds}, mem' \in {mem, refresh.creds},
           UNCHANGED <<pend, socks, timer, wanted, issuer, code, live>>,
           Good /\ ~issuer.revoked =>
             GoodCredentials' /\ \A j \in Jobs : GoodJob(j)'
    PROVE  CredentialsInv'
  <1>1. /\ refresh'.at = None
        /\ \A j \in Jobs : /\ jobs'[j].kind = jobs[j].kind
                           /\ jobs'[j].at = IF jobs[j].at = "waiting" THEN outcome ELSE jobs[j].at
                           /\ jobs[j].at # "waiting" => jobs'[j] = jobs[j]
    BY Typed, JobsSettle DEF NoRefresh
  <1>2. KeysInv' /\ Awake' /\ mem'.token # 0
    BY CredentialsCome
  <1>3. JobsKnow'
    BY <1>1, <1>2, AtRefresh, Typed DEF JobsKnow, JobKnows, Activating
  <1>4. RefreshInv'
    BY <1>1 DEF RefreshInv
  <1>5. Continues'
    <2>1. CASE issuer.revoked
      BY <2>1 DEF Continues
    <2>2. CASE Lost
      <3>1. Quiet'
        BY <1>1, <2>2 DEF Lost, Quiet, Over, Starter
      <3>2. LostRefresh' /\ \A j \in Jobs : LostJob(j)'
        BY <1>1, <2>2 DEF LostRefresh, Lost, LostJob
      <3>3. issuer.token # file'.token /\ issuer.token # mem'.token
        BY <2>2 DEF Lost, LostRefresh
      <3> QED
        BY <2>2, <3>1, <3>2, <3>3 DEF Continues, Lost
    <2>3. CASE Good /\ ~issuer.revoked
      <3>1. GoodRefresh'
        BY <1>1, KindsAndStages DEF GoodRefresh
      <3> QED
        BY <2>3, <3>1 DEF Continues, Good
    <2> QED
      BY <2>1, <2>2, <2>3, AtRefresh, Typed DEF Continues
  <1> QED
    BY <1>2, <1>3, <1>4, <1>5 DEF CredentialsInv

\* A refresh that fails in a good session: the calls are told so, and no more.
LEMMA BrokenJobs ==
    ASSUME SessionInv, Good, Settles("broken"), UNCHANGED <<mem, socks, live>>
    PROVE  \A j \in Jobs : GoodJob(j)'
  <1> SUFFICES ASSUME NEW j \in Jobs PROVE GoodJob(j)'
    OBVIOUS
  <1>1. CASE jobs[j].at = "waiting"
    <2>1. jobs'[j].at = "broken" /\ jobs'[j].for = jobs[j].for
      BY <1>1, Typed, JobsSettle
    <2>2. jobs'[j].kind = jobs[j].kind
      BY Typed, JobsSettle
    <2> QED
      BY <1>1, <2>1, <2>2 DEF Good, GoodJob, Starter, Activating
  <1>2. CASE jobs[j].at # "waiting"
    <2>1. jobs'[j] = jobs[j]
      BY <1>2, Typed, JobsSettle
    <2> QED
      BY <2>1 DEF Good, GoodJob, Starter
  <1> QED
    BY <1>1, <1>2

LEMMA ExchangeLostKeeps == ASSUME SessionInv, ExchangeLost PROVE CredentialsInv'
  <1>1. /\ refresh.at # None /\ Settles("broken")
        /\ UNCHANGED <<file, mem, pend, socks, timer, wanted, issuer, code, live>>
    BY KindsAndStages DEF ExchangeLost, RefreshUnchanged
  <1>2. Good => GoodCredentials'
    BY <1>1 DEF Good, GoodCredentials, Known
  <1>3. Good => \A j \in Jobs : GoodJob(j)'
    BY <1>1, BrokenJobs
  <1> QED
    BY <1>1, <1>2, <1>3, SettledKeeps

\* What a refresh in a good session has to save.
LEMMA GoodToSave ==
    ASSUME SessionInv, Good, refresh.at \in {"intent", "keeping", "restoring"}
    PROVE  /\ refresh.creds.token = issuer.token
           /\ \/ refresh.at = "intent" /\ mem.req = 0 /\ mem.token = issuer.token /\ refresh.creds.req # 0
              \/ /\ refresh.at = "keeping" /\ mem = issuer.from /\ mem.req # 0 /\ mem.token # issuer.token
                 /\ refresh.creds.req = 0
  <1>1. CASE refresh.at = "intent"
    BY <1>1 DEF Good, GoodRefresh, GoodCredentials, Known
  <1>2. CASE refresh.at = "keeping"
    <2>1. /\ refresh.creds.token = mem.token + 1 /\ mem = issuer.from /\ mem.req # 0
          /\ refresh.creds.req = 0
      BY <1>2 DEF Good, GoodRefresh
    <2>2. mem.token + 1 = issuer.token
      BY <2>1, Typed DEF KeysInv
    <2> QED
      BY <1>2, <2>1, <2>2, Typed DEF RestTyped, Credentials
  <1> QED
    BY <1>1, <1>2 DEF Good, GoodRefresh

LEMMA SaveFailsKeeps == ASSUME SessionInv, NEW renamed \in BOOLEAN, SaveFails(renamed) PROVE CredentialsInv'
  <1>1. /\ refresh.at \in {"intent", "keeping", "restoring"} /\ refresh.at # None /\ Settles("broken")
        /\ file' \in {file, refresh.creds}
        /\ UNCHANGED <<mem, pend, socks, timer, wanted, issuer, code, live>>
    BY KindsAndStages DEF SaveFails, RefreshUnchanged
  <1>2. Good => GoodCredentials'
    BY <1>1, GoodToSave DEF Good, GoodCredentials, Known
  <1>3. Good => \A j \in Jobs : GoodJob(j)'
    BY <1>1, BrokenJobs
  <1> QED
    BY <1>1, <1>2, <1>3, SettledKeeps

LEMMA SavedKeeps == ASSUME SessionInv, CredentialsSaved PROVE CredentialsInv'
  <1>1. /\ refresh.at \in {"intent", "keeping", "restoring"} /\ refresh.at # None
        /\ file' = refresh.creds /\ mem' = refresh.creds
        /\ UNCHANGED <<pend, socks, timer, wanted, issuer, code, live, happened>>
    BY KindsAndStages DEF CredentialsSaved, RefreshUnchanged
  <1>2. Good => GoodCredentials'
    <2> SUFFICES ASSUME Good PROVE GoodCredentials'
      OBVIOUS
    <2>1. refresh.creds.token = issuer.token /\ issuer.token # 0
      BY <1>1, GoodToSave DEF Good, GoodCredentials
    <2> QED
      BY <1>1, <2>1 DEF GoodCredentials, Known
  <1>3. CASE refresh.at = "intent"
    <2>1. refresh' = [refresh EXCEPT !.at = "asking"] /\ UNCHANGED jobs
      BY <1>3 DEF CredentialsSaved
    <2>2. refresh'.at = "asking" /\ refresh'.creds = refresh.creds
      BY <2>1, Typed DEF RestTyped, RefreshType
    <2>3. KeysInv' /\ Awake' /\ mem'.token # 0
      BY <1>1, CredentialsCome
    <2>4. JobsKnow'
      BY <1>1, <2>1, <2>3, AtRefresh, Typed DEF JobsKnow, JobKnows, Activating
    <2>5. RefreshInv'
      BY <1>1, <2>1, <2>2, AtRefresh, Typed DEF RefreshInv
    <2>6. Continues'
      <3>1. CASE issuer.revoked
        BY <1>1, <3>1 DEF Continues
      <3>2. CASE Lost
        <4>1. Quiet'
          BY <1>1, <2>1, <3>2 DEF Lost, Quiet, Over, Starter
        <4>2. LostRefresh' /\ \A j \in Jobs : LostJob(j)'
          BY <1>1, <1>3, <2>1, <2>2, <3>2 DEF LostRefresh, Lost, LostJob
        <4>3. issuer.token # file'.token /\ issuer.token # mem'.token
          BY <1>1, <3>2 DEF Lost, LostRefresh
        <4> QED
          BY <1>1, <3>2, <4>1, <4>2, <4>3 DEF Continues, Lost
      <3>3. CASE Good
        <4>1. GoodRefresh'
          BY <1>1, <1>3, <2>2, <3>3, KindsAndStages DEF Good, GoodRefresh
        <4>2. mem'.token = mem.token
          BY <1>1, <1>3, <3>3 DEF Good, GoodRefresh
        <4>3. \A j \in Jobs : GoodJob(j)'
          BY <1>1, <2>1, <3>3, <4>2 DEF Good, GoodJob, Starter
        <4> QED
          BY <1>2, <3>3, <4>1, <4>3 DEF Continues, Good
      <3> QED
        BY <1>1, <3>1, <3>2, <3>3, AtRefresh, Typed DEF Continues
    <2> QED
      BY <2>3, <2>4, <2>5, <2>6 DEF CredentialsInv
  <1>4. CASE refresh.at = "keeping"
    <2>1. Settles("granted")
      BY <1>4 DEF CredentialsSaved
    <2>2. Good /\ ~issuer.revoked => \A j \in Jobs : GoodJob(j)'
      <3> SUFFICES ASSUME Good, ~issuer.revoked, NEW j \in Jobs PROVE GoodJob(j)'
        OBVIOUS
      <3>1. mem'.token \in live
        <4>1. refresh.creds.token = issuer.token /\ mem = issuer.from /\ mem.req # 0
          BY <1>1, <1>4, GoodToSave
        <4> QED
          BY <1>1, <4>1, Typed DEF FreshLives
      <3>2. CASE jobs[j].at = "waiting"
        <4>1. jobs'[j].at = "granted" /\ jobs'[j].for = jobs[j].for
          BY <2>1, <3>2, Typed, JobsSettle
        <4>2. \A s \in Socks : socks[s].job # j
          BY <3>2, Socketless
        <4> QED
          BY <1>1, <3>1, <4>1, <4>2 DEF GoodJob, Activating
      <3>3. CASE jobs[j].at # "waiting"
        <4>1. jobs'[j] = jobs[j]
          BY <2>1, <3>3, Typed, JobsSettle
        <4> QED
          BY <1>1, <3>1, <4>1 DEF Good, GoodJob
      <3> QED
        BY <3>2, <3>3
    <2> QED
      BY <1>1, <1>2, <2>1, <2>2, SettledKeeps
  <1>5. CASE refresh.at = "restoring"
    <2>1. Settles("refused")
      BY <1>5 DEF CredentialsSaved
    <2>2. ~Good
      BY <1>5 DEF Good, GoodRefresh
    <2> QED
      BY <1>1, <2>1, <2>2, SettledKeeps
  <1> QED
    BY <1>1, <1>3, <1>4, <1>5

LEMMA ExchangedKeeps == ASSUME SessionInv, Exchanged PROVE CredentialsInv'
  <1> DEFINE known == refresh.creds.token = issuer.token \/ refresh.creds = issuer.from
             new == refresh.creds.token = issuer.token /\ ~issuer.revoked
  <1>1. /\ refresh.at = "asking" /\ refresh.at # None
        /\ refresh' = [refresh EXCEPT !.at = "answered", !.reply = IF known /\ ~issuer.revoked THEN "ok" ELSE "session"]
        /\ UNCHANGED <<file, mem, pend, jobs, socks, timer, wanted, code, happened>>
    BY KindsAndStages DEF Exchanged, RefreshUnchanged
  <1>2. /\ refresh'.at = "answered" /\ refresh'.creds = refresh.creds
        /\ refresh'.reply = IF known /\ ~issuer.revoked THEN "ok" ELSE "session"
    <2>1. refresh \in RefreshType
      BY Typed DEF RestTyped
    <2> QED
      BY <1>1, <2>1 DEF RefreshType
  <1>3. /\ issuer'.revoked = issuer.revoked /\ issuer'.keys = issuer.keys /\ issuer.token <= issuer'.token
        /\ new => /\ issuer'.token = issuer.token + 1 /\ issuer'.from = refresh.creds
                  /\ live' = live \cup {issuer'.token}
        /\ ~new => issuer' = issuer /\ live' = live
    <2>1. issuer \in [token : Nat, from : Credentials, revoked : BOOLEAN, keys : SUBSET Nat]
      BY Typed DEF RestTyped
    <2>2. CASE new
      <3>1. issuer' = [issuer EXCEPT !.token = @ + 1, !.from = refresh.creds] /\ live' = live \cup {issuer'.token}
        BY <2>2 DEF Exchanged
      <3> QED
        BY <2>1, <2>2, <3>1
    <2>3. CASE ~new
      BY <2>1, <2>3 DEF Exchanged
    <2> QED
      BY <2>2, <2>3
  <1> HIDE DEF new
  <1>4. JobsKnow' /\ Awake'
    <2>1. Awake'
      BY <1>1, Typed DEF Awake
    <2>2. \A j \in Jobs : jobs[j].at \notin Activating
      BY <1>1, AtRefresh
    <2>3. JobsKnow'
      BY <1>1, <2>2, Typed DEF JobsKnow, JobKnows, Activating
    <2> QED
      BY <2>1, <2>3
  <1>5. RefreshInv'
    <2>1. refresh'.reply = "ok" => refresh.creds.token < issuer'.token
      <3> SUFFICES ASSUME refresh'.reply = "ok" PROVE refresh.creds.token < issuer'.token
        OBVIOUS
      <3>1. known /\ ~issuer.revoked
        BY <1>2
      <3>2. CASE new
        BY <1>1, <1>3, <3>2, AtRefresh DEF new
      <3>3. CASE ~new
        <4>1. refresh.creds.token # issuer.token
          BY <3>1, <3>3 DEF new
        <4> QED
          BY <1>1, <1>3, <3>3, <4>1, AtRefresh
      <3> QED
        BY <3>2, <3>3
    <2>2. refresh.creds.token <= issuer'.token
      BY <1>1, <1>3, AtRefresh, Typed DEF new
    <2> QED
      BY <1>1, <1>2, <2>1, <2>2, AtRefresh DEF RefreshInv
  <1>6. KeysInv'
    <2>1. CASE new
      <3>1. /\ issuer'.token = issuer.token + 1 /\ issuer'.from = refresh.creds /\ issuer.token \in Nat
            /\ refresh.creds.token = issuer.token
        BY <1>1, <1>3, <2>1, AtRefresh DEF new
      <3>2. file.token \in Nat /\ mem.token \in Nat /\ code.gave \in Nat
        BY Typed DEF RestTyped, Credentials
      <3> QED
        BY <1>1, <1>3, <3>1, <3>2, AtRefresh, Typed DEF KeysInv
    <2>2. CASE ~new
      BY <1>1, <1>3, <2>2, Typed DEF KeysInv
    <2> QED
      BY <2>1, <2>2
  <1>7. Continues'
    <2>1. CASE issuer.revoked
      BY <1>3, <2>1 DEF Continues
    <2>2. CASE Lost /\ ~issuer.revoked
      <3>1. refresh.creds.token # issuer.token /\ refresh.creds.req # 0 /\ issuer.from.req = 0
        BY <1>1, <2>2 DEF Lost, LostRefresh
      <3>2. ~new /\ ~known
        BY <3>1 DEF new
      <3>3. issuer' = issuer /\ live' = live /\ refresh'.reply = "session"
        BY <1>2, <1>3, <3>2
      <3>4. LostRefresh' /\ \A j \in Jobs : LostJob(j)'
        BY <1>1, <1>2, <2>2, <3>1, <3>3 DEF Lost, LostRefresh, LostJob
      <3>5. Quiet'
        BY <1>1, <2>2 DEF Lost, Quiet, Over, Starter
      <3> QED
        BY <1>1, <2>2, <3>3, <3>4, <3>5 DEF Continues, Lost
    <2>3. CASE Good /\ ~issuer.revoked
      <3>1. refresh.creds = mem /\ mem.req # 0 /\ Known(mem) /\ Known(file)
            /\ (file = mem \/ (mem = issuer.from /\ file.token = issuer.token))
        BY <1>1, <2>3 DEF Good, GoodRefresh, GoodCredentials
      <3>2. issuer.from.req # 0 => issuer.from.token + 1 = issuer.token
        BY Typed DEF KeysInv
      <3>3. refresh'.reply = "ok"
        BY <1>2, <2>3, <3>1 DEF Known
      <3>4. mem.token <= issuer.token /\ mem.token \in Nat /\ issuer.token \in Nat /\ issuer.token # 0 /\ mem.token # 0
        BY <1>1, AtRefresh, Typed, <2>3 DEF KeysInv, Good, GoodCredentials
      <3>5. CASE new
        <4>1. /\ mem.token = issuer.token /\ issuer'.token = issuer.token + 1 /\ issuer'.from = mem
              /\ live' = live \cup {issuer'.token}
          BY <1>3, <3>1, <3>5 DEF new
        <4>2. file = mem
          BY <3>1, <3>2, <3>4, <4>1
        <4>3. GoodCredentials'
          BY <1>1, <2>3, <3>1, <3>4, <4>1, <4>2 DEF Good, GoodCredentials, Known
        <4>4. GoodRefresh'
          BY <1>1, <1>2, <3>1, <3>3, <4>1, KindsAndStages DEF GoodRefresh
        <4>5. \A j \in Jobs : GoodJob(j)'
          BY <1>1, <2>3, <3>4, <4>1 DEF Good, GoodJob, Starter
        <4> QED
          BY <4>3, <4>4, <4>5 DEF Continues, Good
      <3>6. CASE ~new
        <4>1. issuer' = issuer /\ live' = live /\ mem = issuer.from
          BY <1>3, <2>3, <3>1, <3>6 DEF new, Known
        <4>2. GoodCredentials'
          BY <1>1, <2>3, <4>1 DEF Good, GoodCredentials, Known
        <4>3. GoodRefresh'
          BY <1>1, <1>2, <3>1, <3>3, <4>1, KindsAndStages DEF GoodRefresh
        <4>4. \A j \in Jobs : GoodJob(j)'
          BY <1>1, <2>3, <4>1 DEF Good, GoodJob, Starter
        <4> QED
          BY <4>2, <4>3, <4>4 DEF Continues, Good
      <3> QED
        BY <3>5, <3>6
    <2> QED
      BY <1>1, <2>1, <2>2, <2>3, AtRefresh, Typed DEF Continues
  <1> QED
    BY <1>4, <1>5, <1>6, <1>7 DEF CredentialsInv

LEMMA AnsweredKeeps == ASSUME SessionInv, Answered PROVE CredentialsInv'
  <1>1. /\ refresh.at = "answered" /\ refresh.at # None
        /\ refresh' = IF refresh.reply = "ok"
                      THEN [at |-> "keeping", reply |-> None, creds |-> [refresh.creds EXCEPT !.token = @ + 1, !.req = 0]]
                      ELSE [at |-> "restoring", reply |-> None, creds |-> [refresh.creds EXCEPT !.req = 0]]
        /\ JobUnchanged /\ UNCHANGED <<jobs, socks, timer, wanted, happened>>
    BY KindsAndStages DEF Answered, RefreshUnchanged, JobUnchanged
  <1>2. /\ refresh'.creds.keys = refresh.creds.keys /\ refresh'.creds.req = 0
        /\ \/ /\ refresh.reply = "ok" /\ refresh'.at = "keeping"
              /\ refresh'.creds.token = refresh.creds.token + 1
           \/ /\ refresh.reply # "ok" /\ refresh'.at = "restoring"
              /\ refresh'.creds.token = refresh.creds.token
    <2>1. refresh.creds \in Credentials
      BY Typed DEF RestTyped, RefreshType
    <2> QED
      BY <1>1, <2>1 DEF Credentials
  <1>3. \A j \in Jobs : /\ JobKnows(j) => JobKnows(j)'
                        /\ LostJob(j) => LostJob(j)'
                        /\ GoodJob(j) => GoodJob(j)'
    BY <1>1, JobStays
  <1>4. JobsKnow' /\ Awake' /\ KeysInv'
    BY <1>1, <1>3, Typed DEF JobsKnow, Awake, KeysInv, JobUnchanged
  <1>5. RefreshInv'
    <2>1. refresh.reply = "ok" => refresh.creds.token < issuer.token
      BY <1>1, Typed DEF RefreshInv
    <2> QED
      BY <1>1, <1>2, <2>1, AtRefresh DEF RefreshInv, JobUnchanged
  <1>6. Continues'
    <2>1. CASE issuer.revoked
      BY <1>1, <2>1 DEF Continues, JobUnchanged
    <2>2. CASE Lost
      <3>1. LostRefresh'
        BY <1>1, <1>2, <2>2 DEF Lost, LostRefresh, JobUnchanged
      <3>2. Quiet' /\ \A j \in Jobs : LostJob(j)'
        BY <1>1, <1>3, <2>2 DEF Lost, Quiet, Over, Starter
      <3> QED
        BY <1>1, <2>2, <3>1, <3>2 DEF Continues, Lost, JobUnchanged
    <2>3. CASE Good
      <3>1. GoodRefresh'
        BY <1>1, <1>2, <2>3, KindsAndStages DEF Good, GoodRefresh, JobUnchanged
      <3>2. GoodCredentials'
        BY <1>1, <2>3 DEF Good, GoodCredentials, Known, JobUnchanged
      <3> QED
        BY <1>3, <2>3, <3>1, <3>2 DEF Continues, Good
    <2> QED
      BY <1>1, <2>1, <2>2, <2>3, AtRefresh, Typed DEF Continues
  <1> QED
    BY <1>4, <1>5, <1>6 DEF CredentialsInv

-----------------------------------------------------------------------------
(* Activation.                                                             *)

\* start() that loads or activates is all there is.
LEMMA AtActivation ==
    ASSUME SessionInv, NEW j \in Jobs, jobs[j].at \in Activating \cup {"loading"}
    PROVE  /\ Starter(j) /\ ~timer /\ refresh.at = None /\ Quiet /\ NoSocks
           /\ \A k \in Jobs : k # j => jobs[k].at = "idle" /\ jobs[k].kind = None
           /\ jobs[j].kind \notin Chains
  <1>1. Starter(j)
    BY AtWork DEF SessionInv, JobFits
  <1>2. /\ \A k \in Jobs : k # j => Over(k)
        /\ ~timer /\ \A s \in Socks : socks[s].at # "free" => socks[s].job = j
    BY <1>1 DEF SessionInv, CallsInv, Alone
  <1>3. \A k \in Jobs : k # j => jobs[k].at = "idle" /\ jobs[k].kind = None
    BY <1>2, AtWork DEF Over, SessionInv, JobFits
  <1>4. NoSocks
    BY <1>2, Socketless DEF NoSocks, Activating
  <1>5. refresh.at = None
    BY <1>3, Typed DEF RefreshInv, Activating
  <1>6. Quiet
    BY <1>1, <1>2, <1>3, <1>4, KindsAndStages DEF Quiet, NoSocks, Over
  <1> QED
    BY <1>1, <1>2, <1>3, <1>4, <1>5, <1>6, KindsAndStages DEF Starter

\* It goes on, or is over.
LEMMA ActivationMoves ==
    ASSUME SessionInv, NEW j \in Jobs, jobs[j].at \in Activating \cup {"loading"}, Others(j),
           UNCHANGED <<refresh, socks>>, JobKnows(j)',
           \/ Starter(j)' /\ UNCHANGED <<timer, wanted>>
           \/ jobs'[j] = NoJob /\ ~wanted' /\ ~timer'
    PROVE  /\ JobsKnow' /\ Awake' /\ RefreshInv' /\ Quiet' /\ NoSocks'
           /\ refresh'.at = None /\ LostRefresh' /\ GoodRefresh'
           /\ \A k \in Jobs : k # j => jobs'[k].at = "idle" /\ ~Starter(k)'
           /\ \A k \in Jobs : k # j => (UnbornJob(k) => UnbornJob(k)') /\ LostJob(k)' /\ SavedJob(k)' /\ GoodJob(k)'
  <1>1. /\ Starter(j) /\ ~timer /\ refresh.at = None /\ Quiet /\ NoSocks
        /\ \A k \in Jobs : k # j => jobs[k].at = "idle" /\ jobs[k].kind = None
    BY AtActivation
  <1>2. \A k \in Jobs : k # j => jobs'[k] = jobs[k] /\ jobs'[k].at = "idle" /\ ~Starter(k)'
    BY <1>1, KindsAndStages DEF Others, Starter
  <1>3. JobsKnow'
    <2>1. \A k \in Jobs : k # j => JobKnows(k)'
      BY <1>2 DEF JobKnows, Activating
    <2> QED
      BY <2>1 DEF JobsKnow
  <1>4. ~timer' /\ NoSocks'
    BY <1>1 DEF NoSocks
  <1>5. Quiet'
    BY <1>1, <1>2, <1>4, KindsAndStages DEF Quiet, NoSocks, Over, Starter, Others
  <1>6. Awake' /\ RefreshInv' /\ LostRefresh' /\ GoodRefresh' /\ refresh'.at = None
    BY <1>1, <1>4, KindsAndStages DEF Awake, NoSocks, RefreshInv, LostRefresh, GoodRefresh
  <1>7. \A k \in Jobs : k # j => (UnbornJob(k) => UnbornJob(k)') /\ LostJob(k)' /\ SavedJob(k)' /\ GoodJob(k)'
    <2>1. \A k \in Jobs, s \in Socks : k # j => socks'[s].job # k
      BY <1>1, Socketless
    <2> QED
      BY <1>2, <2>1 DEF UnbornJob, LostJob, SavedJob, GoodJob, Activating
  <1> QED
    BY <1>2, <1>3, <1>4, <1>5, <1>6, <1>7

\* The token of an activation, once it is on file, is what start() goes on with.
LEMMA GoodBegins ==
    ASSUME SessionInv, NEW j \in Jobs, Saved \/ Good, mem' = file, file.token # 0, UNCHANGED <<file, issuer, live, happened>>,
           GoodRefresh', \A s \in Socks : socks[s].job # j, UNCHANGED socks,
           \A k \in Jobs : k # j => GoodJob(k)',
           jobs'[j].at = "checking", jobs'[j].for = "prepare"
    PROVE  Good'
  <1>1. GoodCredentials'
    <2>1. CASE Saved
      BY <2>1 DEF Saved, GoodCredentials, Known
    <2>2. CASE Good
      BY <2>2 DEF Good, GoodCredentials, Known
    <2> QED
      BY <2>1, <2>2
  <1>2. GoodJob(j)'
    BY DEF GoodJob, Activating
  <1> QED
    BY <1>1, <1>2 DEF Good

LEMMA LoadedKeeps == ASSUME SessionInv, NEW j \in Jobs, Loaded(j) PROVE CredentialsInv'
  <1>1. jobs[j].at = "loading" /\ jobs[j].at \in Activating \cup {"loading"} /\ jobs[j].at # "opening"
        /\ UNCHANGED <<file, pend, refresh, socks, timer, wanted, issuer, code, live, happened>>
    BY DEF Loaded
  <1>2. CASE file.token # 0
    <2>1. mem' = file /\ GoesTo(j, "checking", "prepare")
      BY <1>2 DEF Loaded
    <2>2. /\ Others(j) /\ jobs'[j].at = "checking" /\ jobs'[j].for = "prepare" /\ jobs'[j].kind = jobs[j].kind
      BY <2>1, Typed, JobGoes DEF JobStages, Purposes
    <2>3. JobKnows(j)' /\ Starter(j)'
      BY <1>1, <1>2, <2>1, <2>2, AtActivation DEF JobKnows, Activating, Starter
    <2>4. /\ JobsKnow' /\ Awake' /\ RefreshInv' /\ Quiet' /\ GoodRefresh' /\ LostRefresh'
          /\ \A k \in Jobs : k # j => LostJob(k)' /\ GoodJob(k)'
      BY <1>1, <2>2, <2>3, ActivationMoves
    <2>5. KeysInv'
      BY <1>1, <1>2, <2>1, Typed DEF KeysInv
    <2>6. Continues'
      <3>1. CASE issuer.revoked
        BY <1>1, <3>1 DEF Continues
      <3>2. CASE Unborn
        <4>1. file.token <= issuer.token /\ issuer.token = 0 /\ file.token \in Nat
          BY <1>2, <3>2, Typed DEF KeysInv, Unborn, RestTyped, Credentials
        <4> QED
          BY <1>2, <4>1
      <3>3. CASE Lost
        <4>1. \A k \in Jobs : LostJob(k)'
          BY <2>2, <2>4 DEF LostJob
        <4> QED
          BY <1>1, <2>1, <2>4, <3>3, <4>1 DEF Continues, Lost
      <3>4. CASE Saved \/ Good
        BY <1>1, <1>2, <2>1, <2>2, <2>4, <3>4, Socketless, GoodBegins DEF Continues
      <3> QED
        BY <3>1, <3>2, <3>3, <3>4, Typed DEF Continues
    <2> QED
      BY <2>4, <2>5, <2>6 DEF CredentialsInv
  <1>3. CASE file.token = 0
    <2>1. jobs' = [jobs EXCEPT ![j] = [@ EXCEPT !.kind = "pair", !.at = "pairing"]] /\ UNCHANGED mem
      BY <1>3 DEF Loaded
    <2>2. /\ Others(j) /\ jobs'[j].kind = "pair" /\ jobs'[j].at = "pairing" /\ jobs'[j].token = jobs[j].token
      <3>1. jobs \in [Jobs -> JobType] /\ jobs[j] \in JobType
        BY AtWork DEF SessionInv
      <3> QED
        BY <2>1, <3>1 DEF Others, JobType
    <2>3. UNCHANGED Given
      BY <1>1, <2>1 DEF Given
    <2>4. JobKnows(j)'
      BY <1>1, <1>3, <2>1, <2>2 DEF JobKnows, Activating
    <2>5. Suits(j)
      <3>1. ~Saved /\ ~Good
        BY <1>3, Typed DEF Saved, Good, GoodCredentials, KeysInv
      <3>2. (Unborn => UnbornJob(j)') /\ LostJob(j)'
        BY <2>2 DEF Unborn, UnbornJob, LostJob
      <3> QED
        BY <3>1, <3>2 DEF Suits
    <2>6. Proceeds(j)
      <3>1. jobs[j].kind \in {"start", "pair"}
        BY <1>1, AtActivation, KindsAndStages DEF Starter
      <3> QED
        BY <1>1, <2>2, <3>1 DEF Proceeds
    <2> QED
      BY <1>1, <2>2, <2>3, <2>4, <2>5, <2>6, CredentialsMove
  <1> QED
    BY <1>2, <1>3

\* A new request is remembered when there is none for the agent: it has its keys.
LEMMA RememberedKeeps ==
    ASSUME SessionInv, NEW j \in Jobs, jobs[j].at = "pairing", ~Remembered, Remembers(TRUE),
           UNCHANGED <<file, mem, issuer, code>>
    PROVE  KeysInv' /\ pend'.req # 0 /\ ~Lost
  <1>1. /\ pend' = [req |-> ids + 1, keys |-> IF mem.keys = 0 THEN ids + 1 ELSE mem.keys]
        /\ ids \in Nat /\ mem.keys \in Nat /\ (mem.token = 0 => file.token = 0)
    BY Typed DEF Remembers, RestTyped, Credentials, JobsKnow, JobKnows
  <1>2. pend'.req # 0 /\ pend'.keys # 0 /\ (mem.keys # 0 => pend'.keys = mem.keys)
    BY <1>1
  <1>3. issuer.keys \subseteq {pend'.keys}
    <2>1. CASE mem.token # 0
      BY <1>2, <2>1, Typed DEF KeysInv
    <2>2. CASE mem.token = 0
      <3>1. mem.keys = 0 /\ file.token = 0
        BY <1>1, <2>2, Typed DEF KeysInv
      <3>2. pend.req = 0
        BY <3>1 DEF Remembered
      <3> QED
        BY <3>1, <3>2, Typed DEF KeysInv
    <2> QED
      BY <2>1, <2>2
  <1>4. KeysInv'
    BY <1>2, <1>3, Typed DEF KeysInv
  <1>5. ~Lost
    <2> SUFFICES ASSUME Lost PROVE FALSE
      OBVIOUS
    <2>1. pend.req # 0 /\ mem.keys # 0 /\ mem.keys # pend.keys
      BY DEF Lost, Remembered
    <2>2. issuer.keys = {mem.keys} /\ issuer.keys \subseteq {pend.keys}
      BY <2>1, Typed DEF KeysInv
    <2> QED
      BY <2>1, <2>2
  <1> QED
    BY <1>2, <1>4, <1>5

LEMMA PairedKeeps == ASSUME SessionInv, NEW j \in Jobs, Pairs(j) PROVE CredentialsInv'
  <1>1. /\ jobs[j].at = "pairing" /\ jobs[j].at \in Activating \cup {"loading"} /\ GoesTo(j, "taking", "prepare")
        /\ UNCHANGED <<file, mem, timer, wanted, issuer, code, live, happened, refresh, socks>>
        /\ IF Remembered THEN UNCHANGED <<pend, ids>> ELSE Remembers(TRUE)
    BY DEF Pairs, ActivationUnchanged, Activating
  <1>2. /\ Others(j) /\ jobs'[j].at = "taking" /\ jobs'[j].kind = jobs[j].kind /\ jobs'[j].token = jobs[j].token
    BY <1>1, Typed, JobGoes DEF JobStages, Purposes
  <1>3. ~Saved /\ ~Good /\ Starter(j)'
    BY <1>1, <1>2, AtActivation DEF Saved, SavedJob, Good, GoodJob, Starter, Activating
  <1>4. (Unborn => UnbornJob(j)') /\ LostJob(j)'
    BY <1>2 DEF Unborn, UnbornJob, LostJob
  <1>5. CASE Remembered
    <2>1. UNCHANGED Given /\ pend.req # 0
      BY <1>1, <1>5 DEF Given, Remembered
    <2>2. JobKnows(j)' /\ Suits(j)
      BY <1>2, <1>3, <1>4, <2>1 DEF JobKnows, Suits, Given, Activating
    <2> QED
      BY <1>1, <1>2, <2>1, <2>2, CredentialsMove DEF Proceeds
  <1>6. CASE ~Remembered
    <2>1. KeysInv' /\ pend'.req # 0 /\ ~Lost
      BY <1>1, <1>6, RememberedKeeps
    <2>2. JobKnows(j)'
      BY <1>2, <2>1 DEF JobKnows, Activating
    <2>3. /\ JobsKnow' /\ Awake' /\ RefreshInv' /\ Quiet' /\ NoSocks'
          /\ \A k \in Jobs : k # j => (UnbornJob(k) => UnbornJob(k)')
      BY <1>1, <1>2, <1>3, <2>2, ActivationMoves
    <2>4. Continues'
      <3>1. CASE issuer.revoked
        BY <1>1, <3>1 DEF Continues
      <3>2. CASE Unborn
        BY <1>1, <1>4, <2>3, <3>2 DEF Continues, Unborn
      <3> QED
        BY <1>3, <2>1, <3>1, <3>2, Typed DEF Continues
    <2> QED
      BY <2>1, <2>3, <2>4 DEF CredentialsInv
  <1> QED
    BY <1>5, <1>6

LEMMA ActivatedKeeps == ASSUME SessionInv, NEW j \in Jobs, Activated(j) PROVE CredentialsInv'
  <1>1. /\ jobs[j].at = "taking" /\ jobs[j].at \in Activating \cup {"loading"} /\ pend.req # 0
        /\ UNCHANGED <<file, mem, pend, timer, wanted, happened, refresh, socks>>
    BY Typed DEF Activated, ActivationUnchanged, Activating, JobsKnow, JobKnows
  <1>2. /\ ~Saved /\ ~Good /\ pend.keys # 0 /\ issuer.keys \subseteq {pend.keys} /\ pend.keys \in Nat
        /\ issuer.token \in Nat /\ file.token \in Nat /\ mem.token \in Nat /\ code.gave \in Nat
    BY <1>1, Typed DEF Saved, SavedJob, Good, GoodJob, Activating, KeysInv, RestTyped, Credentials
  <1>3. CASE code.open
    <2>1. /\ code' = [code EXCEPT !.open = FALSE, !.by = pend, !.gave = issuer.token + 1]
          /\ issuer' = [token |-> issuer.token + 1, from |-> NoCredentials, revoked |-> FALSE,
                        keys |-> issuer.keys \cup {pend.keys}]
          /\ live' = {issuer.token + 1}
      BY <1>3 DEF Activated
    <2>2. /\ code'.by = pend /\ code'.gave = issuer.token + 1 /\ ~code'.open
          /\ issuer'.token = issuer.token + 1 /\ ~issuer'.revoked /\ issuer'.keys = {pend.keys}
          /\ issuer'.from.req = 0
      BY <1>2, <2>1, Typed DEF RestTyped, NoCredentials
    <2>3. /\ Others(j) /\ jobs'[j].kind = jobs[j].kind /\ jobs'[j].at = "taken"
          /\ jobs'[j].token = issuer.token + 1
      BY <1>1, <1>2, <2>2, Typed, TakenGoes
    <2>4. JobKnows(j)' /\ Starter(j)'
      BY <1>1, <1>2, <2>2, <2>3, AtActivation DEF JobKnows, Activating, Starter
    <2>5. /\ JobsKnow' /\ Awake' /\ RefreshInv' /\ Quiet' /\ NoSocks' /\ LostRefresh'
          /\ \A k \in Jobs : k # j => LostJob(k)'
      BY <1>1, <2>3, <2>4, ActivationMoves
    <2>6. KeysInv'
      BY <1>1, <1>2, <2>2, Typed DEF KeysInv
    <2>7. Lost'
      <3>1. \A k \in Jobs : LostJob(k)'
        BY <2>2, <2>3, <2>5 DEF LostJob
      <3>2. issuer'.token # file'.token /\ issuer'.token # mem'.token
        <4>1. file.token <= issuer.token /\ mem.token <= issuer.token
          BY <1>2, Typed DEF KeysInv
        <4> QED
          BY <1>1, <1>2, <2>2, <4>1
      <3> QED
        BY <1>1, <1>2, <2>1, <2>2, <2>5, <3>1, <3>2 DEF Lost, NoSocks
    <2> QED
      BY <2>5, <2>6, <2>7 DEF CredentialsInv, Continues
  <1>4. CASE ~code.open
    <2>1. UNCHANGED Given
      BY <1>1, <1>4 DEF Activated, Given
    <2>2. /\ Others(j) /\ jobs'[j].kind = jobs[j].kind /\ jobs'[j].at = "taken"
          /\ jobs'[j].token = IF code.by = pend /\ ~issuer.revoked THEN code.gave ELSE 0
      BY <1>2, <2>1, Typed, TakenGoes DEF Given
    <2>3. JobKnows(j)'
      <3>1. code.gave <= issuer.token /\ (issuer.token # 0 => issuer.keys = {pend.keys})
        BY <1>2, Typed DEF KeysInv
      <3> QED
        BY <1>1, <1>2, <2>1, <2>2, <3>1 DEF JobKnows, Activating, Given
    <2>4. Suits(j)
      <3>1. Unborn => UnbornJob(j)'
        <4>1. code.gave <= issuer.token
          BY Typed DEF KeysInv
        <4> QED
          BY <1>2, <2>2, <4>1 DEF Unborn, UnbornJob
      <3>2. ~issuer.revoked /\ Lost => LostJob(j)'
        BY <2>1, <2>2 DEF Lost, LostJob, Given
      <3> QED
        BY <1>2, <3>1, <3>2 DEF Suits
    <2> QED
      BY <1>1, <2>1, <2>2, <2>3, <2>4, CredentialsMove DEF Proceeds
  <1> QED
    BY <1>3, <1>4

LEMMA ActivationSavedKeeps == ASSUME SessionInv, NEW j \in Jobs, ActivationSaved(j) PROVE CredentialsInv'
  <1>1. /\ jobs[j].at = "taken" /\ jobs[j].at \in Activating \cup {"loading"} /\ pend.req # 0
        /\ jobs[j].token <= issuer.token /\ (jobs[j].token # 0 => issuer.keys = {pend.keys})
        /\ UNCHANGED <<mem, pend, issuer, code, live, happened, refresh, socks>>
    BY Typed DEF ActivationSaved, ActivationUnchanged, Activating, JobsKnow, JobKnows
  <1>2. CASE jobs[j].token # 0
    <2>1. /\ file' = [token |-> jobs[j].token, req |-> 0, keys |-> pend.keys]
          /\ GoesTo(j, "forgetting", "prepare") /\ UNCHANGED <<timer, wanted>>
      BY <1>2 DEF ActivationSaved
    <2>2. Others(j) /\ jobs'[j].at = "forgetting" /\ jobs'[j].kind = jobs[j].kind /\ jobs'[j].token = jobs[j].token
      BY <2>1, Typed, JobGoes DEF JobStages, Purposes
    <2>3. JobKnows(j)' /\ Starter(j)'
      BY <1>1, <1>2, <2>1, <2>2, AtActivation DEF JobKnows, Activating, Starter
    <2>4. /\ JobsKnow' /\ Awake' /\ RefreshInv' /\ Quiet' /\ NoSocks'
          /\ \A k \in Jobs : k # j => SavedJob(k)'
      BY <1>1, <2>1, <2>2, <2>3, ActivationMoves
    <2>5. KeysInv'
      BY <1>1, <1>2, <2>1, Typed DEF KeysInv
    <2>6. Continues'
      <3>1. CASE issuer.revoked
        BY <1>1, <3>1 DEF Continues
      <3>2. CASE Lost
        <4>1. jobs[j].token = issuer.token
          BY <1>1, <3>2 DEF Lost, LostJob
        <4>2. \A k \in Jobs : SavedJob(k)'
          BY <2>2, <2>4 DEF SavedJob
        <4> QED
          BY <1>1, <2>1, <2>4, <3>2, <4>1, <4>2 DEF Continues, Lost, Saved
      <3>3. ~Unborn /\ ~Saved /\ ~Good
        BY <1>1, <1>2 DEF Unborn, UnbornJob, Saved, SavedJob, Good, GoodJob, Activating
      <3> QED
        BY <3>1, <3>2, <3>3, Typed DEF Continues
    <2> QED
      BY <2>4, <2>5, <2>6 DEF CredentialsInv
  <1>3. CASE jobs[j].token = 0
    <2>1. Fails(j, FALSE) /\ UNCHANGED Given
      BY <1>1, <1>3 DEF ActivationSaved, Given
    <2> QED
      BY <1>1, <2>1, FailedKeeps
  <1> QED
    BY <1>2, <1>3

LEMMA ForgottenKeeps == ASSUME SessionInv, NEW j \in Jobs, Forgets(j) PROVE CredentialsInv'
  <1>1. /\ jobs[j].at = "forgetting" /\ jobs[j].at \in Activating \cup {"loading"} /\ jobs[j].at # "opening"
        /\ GoesTo(j, "checking", "prepare") /\ pend' = NoActivation
        /\ mem' = file /\ file.token # 0
        /\ UNCHANGED <<file, timer, wanted, issuer, code, live, happened, refresh, socks>>
    BY Typed DEF Forgets, ActivationUnchanged, Activating, JobsKnow, JobKnows
  <1>2. Others(j) /\ jobs'[j].at = "checking" /\ jobs'[j].for = "prepare" /\ jobs'[j].kind = jobs[j].kind
    BY <1>1, Typed, JobGoes DEF JobStages, Purposes
  <1>3. JobKnows(j)' /\ Starter(j)'
    BY <1>1, <1>2, AtActivation DEF JobKnows, Activating, Starter
  <1>4. /\ JobsKnow' /\ Awake' /\ RefreshInv' /\ GoodRefresh'
        /\ \A k \in Jobs : k # j => GoodJob(k)'
    BY <1>1, <1>2, <1>3, ActivationMoves
  <1>5. KeysInv'
    BY <1>1, Typed DEF KeysInv, NoActivation
  <1>6. Continues'
    <2>1. ~Unborn /\ ~Lost /\ ~Good
      BY <1>1 DEF Unborn, UnbornJob, Lost, LostJob, Good, GoodJob, Activating
    <2>2. CASE issuer.revoked
      BY <1>1, <2>2 DEF Continues
    <2>3. CASE Saved
      BY <1>1, <1>2, <1>4, <2>3, Socketless, GoodBegins DEF Continues
    <2> QED
      BY <2>1, <2>2, <2>3, Typed DEF Continues
  <1> QED
    BY <1>4, <1>5, <1>6 DEF CredentialsInv

\* A write of the activation fails, or was done and is not known to be: start() is over.
LEMMA ActivationSaveFailsKeeps ==
    ASSUME SessionInv, NEW j \in Jobs, NEW renamed \in BOOLEAN, ActivationSaveFails(j, renamed)
    PROVE  CredentialsInv'
  <1>1. /\ Fails(j, FALSE) /\ jobs[j].at \in Activating \cup {"loading"}
        /\ jobs[j].at \notin {"idle", "waiting"}
        /\ UNCHANGED <<mem, refresh, socks, issuer, code, live>>
    BY DEF ActivationSaveFails, Activating
  <1>2. CASE UNCHANGED <<file, pend>>
    <2>1. UNCHANGED Given
      BY <1>1, <1>2 DEF Given
    <2> QED
      BY <1>1, <2>1, FailedKeeps
  <1>3. Others(j) /\ jobs'[j] = NoJob /\ ~wanted' /\ ~timer'
    <2>1. Starter(j) /\ ~timer /\ jobs[j].kind \notin Chains
      BY <1>1, AtActivation
    <2> QED
      BY <1>1, <2>1, Typed, JobFails DEF Starter
  <1>4. JobKnows(j)' /\ SavedJob(j)' /\ (Unborn => UnbornJob(j)')
    BY <1>3, KindsAndStages DEF JobKnows, SavedJob, UnbornJob, Activating, NoJob
  <1>5. /\ JobsKnow' /\ Awake' /\ RefreshInv' /\ Quiet' /\ NoSocks'
        /\ \A k \in Jobs : SavedJob(k)'
        /\ Unborn => \A k \in Jobs : UnbornJob(k)'
    BY <1>1, <1>3, <1>4, ActivationMoves DEF Unborn
  <1>6. ~Good
    BY <1>1 DEF ActivationSaveFails, Good, GoodJob, Activating
  <1>8. CASE jobs[j].at = "pairing" /\ ~Remembered /\ Remembers(TRUE) /\ UNCHANGED file
    <2>1. KeysInv' /\ ~Lost
      BY <1>1, <1>8, RememberedKeeps
    <2>2. ~Saved
      BY <1>8 DEF Saved, SavedJob
    <2>3. Continues'
      BY <1>1, <1>5, <1>6, <2>1, <2>2, Typed DEF Continues, Unborn
    <2> QED
      BY <1>5, <2>1, <2>3 DEF CredentialsInv
  <1>9. CASE /\ jobs[j].at = "taken" /\ jobs[j].token # 0 /\ UNCHANGED pend
             /\ file' = [token |-> jobs[j].token, req |-> 0, keys |-> pend.keys]
    <2>1. /\ pend.req # 0 /\ jobs[j].token <= issuer.token /\ issuer.keys = {pend.keys}
      BY <1>9, Typed DEF JobsKnow, JobKnows
    <2>2. KeysInv'
      BY <1>1, <1>9, <2>1, Typed DEF KeysInv
    <2>3. Lost => Saved'
      <3> SUFFICES ASSUME Lost PROVE Saved'
        OBVIOUS
      <3>1. jobs[j].token = issuer.token
        BY <1>9 DEF Lost, LostJob
      <3> QED
        BY <1>1, <1>5, <1>9, <3>1 DEF Lost, Saved
    <2>4. ~Unborn /\ ~Saved
      BY <1>9 DEF Unborn, UnbornJob, Saved, SavedJob
    <2> QED
      BY <1>1, <1>5, <1>6, <2>2, <2>3, <2>4, Typed DEF CredentialsInv, Continues
  <1>10. CASE jobs[j].at = "forgetting" /\ pend' = NoActivation /\ UNCHANGED file
    <2>1. file.token # 0
      BY <1>10, Typed DEF JobsKnow, JobKnows
    <2>2. KeysInv'
      BY <1>1, <1>10, <2>1, Typed DEF KeysInv, NoActivation
    <2>3. Saved => Saved'
      BY <1>1, <1>5, <1>10 DEF Saved
    <2>4. ~Unborn /\ ~Lost
      BY <1>10 DEF Unborn, UnbornJob, Lost, LostJob
    <2> QED
      BY <1>1, <1>5, <1>6, <2>2, <2>3, <2>4, Typed DEF CredentialsInv, Continues
  <1> QED
    BY <1>2, <1>8, <1>9, <1>10 DEF ActivationSaveFails, Remembers

-----------------------------------------------------------------------------
LEMMA InitKeeps == Init => CredentialsInv
  <1> SUFFICES ASSUME Init PROVE CredentialsInv
    OBVIOUS
  <1>1. JobsKnow /\ Awake /\ RefreshInv
    BY KindsAndStages DEF Init, JobsKnow, JobKnows, Awake, RefreshInv, NoRefresh, Activating
  <1>2. KeysInv
    BY DEF Init, KeysInv, NoCredentials, NoActivation
  <1>3. Unborn
    BY KindsAndStages DEF Init, Unborn, UnbornJob, Quiet, NoSocks, Over, NoJob
  <1> QED
    BY <1>1, <1>2, <1>3 DEF CredentialsInv, Continues

LEMMA InitLives == Init => FreshLives
  BY DEF Init, FreshLives, NoCredentials, NoActivation

LEMMA IdleKeeps == ASSUME SessionInv, UNCHANGED vars PROVE CredentialsInv'
  <1>1. /\ UNCHANGED <<file, mem, pend, refresh, jobs, socks, timer, wanted>>
        /\ UNCHANGED <<issuer, code, live, happened>> /\ UNCHANGED Given
    BY DEF vars, appVars, Given
  <1>2. \A k \in Jobs : GoodJob(k) => GoodJob(k)'
    BY <1>1 DEF GoodJob, Starter
  <1>3. JobsKnow' /\ Awake' /\ (Quiet => Quiet') /\ (NoSocks => NoSocks')
        /\ \A k \in Jobs : (UnbornJob(k) => UnbornJob(k)') /\ (LostJob(k) => LostJob(k)') /\ (SavedJob(k) => SavedJob(k)')
    BY <1>1, RuntimeStays DEF Runtime
  <1>4. Continues'
    BY <1>1, <1>2, <1>3, Typed, ModesStay DEF Unborn, Lost, Saved, Good
  <1> QED
    BY <1>1, <1>3, <1>4, Typed, CredentialsStay

LEMMA LivesKeep == ASSUME LongLived, SessionInv, [Next]_vars PROVE FreshLives'
  <1>1. CASE UNCHANGED <<issuer, code, live>>
    BY <1>1, Typed DEF FreshLives
  <1>2. issuer \in [token : Nat, from : Credentials, revoked : BOOLEAN, keys : SUBSET Nat]
    BY Typed DEF RestTyped
  <1>3. ASSUME NEW j \in Jobs, Activated(j) PROVE FreshLives'
    <2>1. CASE code.open
      BY <1>3, <2>1 DEF Activated, FreshLives
    <2>2. CASE ~code.open
      BY <1>1, <1>3, <2>2 DEF Activated
    <2> QED
      BY <2>1, <2>2
  <1>4. CASE Exchanged
    <2>1. CASE refresh.creds.token = issuer.token /\ ~issuer.revoked
      BY <1>4, <2>1 DEF Exchanged, FreshLives
    <2>2. CASE ~(refresh.creds.token = issuer.token /\ ~issuer.revoked)
      BY <1>1, <1>4, <2>2 DEF Exchanged, RefreshUnchanged
    <2> QED
      BY <2>1, <2>2
  <1>5. CASE WindowEnds
    <2>1. code \in [n : 1 .. MaxCodes, open : BOOLEAN, by : [req : Nat, keys : Nat], gave : Nat]
      BY Typed DEF RestTyped
    <2> QED
      BY <1>2, <1>5, <2>1 DEF WindowEnds, FreshLives, NoCredentials, NoActivation
  <1>6. CASE AccessExpires
    BY <1>6, Typed DEF AccessExpires, Fresh, FreshLives
  <1>7. CASE Revoke
    BY <1>2, <1>7 DEF Revoke, FreshLives
  <1>8. CASE NewCode
    BY <1>8 DEF NewCode, FreshLives
  <1>9. ASSUME NEW j \in Jobs, Job(j) \/ Expiring(j) \/ ActivationLost(j) \/ \E renamed \in BOOLEAN : ActivationSaveFails(j, renamed)
        PROVE  FreshLives'
    BY <1>1, <1>3, <1>9
       DEF Job, Loaded, NotExpiring, Joins, GoesOn, GivesUp, Opens, RequestServed, RequestUnauthorized, Activation, Pairs,
           ActivationSaved, Forgets, Expiring, ActivationLost, ActivationSaveFails, JobUnchanged
  <1>10. ASSUME NEW s \in Socks, Socket(s) \/ SockFails(s) \/ Drop(s)
         PROVE  FreshLives'
    BY <1>1, <1>10 DEF Socket, SockReady, SockRefused, SockTimesOut, Kicked, SockClosed, SockFails, Drop, SockUnchanged
  <1>11. CASE Start \/ Stop \/ Crash \/ Request \/ TimerFires
    BY <1>1, <1>11 DEF Start, Stop, Crash, Request, TimerFires, SockUnchanged
  <1>12. CASE CredentialsSaved \/ Answered \/ (\E renamed \in BOOLEAN : SaveFails(renamed)) \/ ExchangeLost
    BY <1>1, <1>12 DEF CredentialsSaved, Answered, SaveFails, ExchangeLost, RefreshUnchanged
  <1>13. CASE UNCHANGED vars
    BY <1>1, <1>13 DEF vars
  <1> QED
    BY <1>4, <1>5, <1>6, <1>7, <1>8, <1>9, <1>10, <1>11, <1>12, <1>13 DEF Next, Refreshing

LEMMA NextKeeps == ASSUME QuietStart, LongLived, SessionInv, [Next]_vars PROVE SessionInv'
  <1>1. CredentialsInv'
    <2>1. ASSUME NEW j \in Jobs, Job(j) \/ Expiring(j) \/ ActivationLost(j) \/ \E renamed \in BOOLEAN : ActivationSaveFails(j, renamed)
          PROVE  CredentialsInv'
      BY <2>1, LoadedKeeps, CheckedKeeps, JoinedKeeps, GrantedKeeps, GivenUpKeeps, OpenedKeeps, ServedKeeps, PairedKeeps,
         ActivatedKeeps, ActivationSavedKeeps, ForgottenKeeps, ActivationLostKeeps, ActivationSaveFailsKeeps DEF Job, Activation
    <2>2. ASSUME NEW s \in Socks, Socket(s) \/ SockFails(s) \/ Drop(s)
          PROVE  CredentialsInv'
      BY <2>2, ReadyKeeps, RefusedKeeps, BrokenKeeps, KickedKeeps, ClosedKeeps DEF Socket
    <2>3. CASE Start \/ Stop \/ Crash \/ Request \/ TimerFires
      BY <2>3, StartedKeeps, StoppedKeeps, CrashedKeeps, RequestedKeeps, TimedKeeps
    <2>4. CASE Refreshing \/ (\E renamed \in BOOLEAN : SaveFails(renamed)) \/ ExchangeLost
      BY <2>4, SavedKeeps, ExchangedKeeps, AnsweredKeeps, SaveFailsKeeps, ExchangeLostKeeps DEF Refreshing
    <2>5. CASE WindowEnds \/ AccessExpires \/ Revoke \/ NewCode
      BY <2>5, WindowKeeps, ExpiryKeeps, OwnerKeeps
    <2>6. CASE UNCHANGED vars
      BY <2>6, IdleKeeps
    <2> QED
      BY <2>1, <2>2, <2>3, <2>4, <2>5, <2>6 DEF Next
  <1>2. CallsInv'
    BY NextCalls DEF SessionInv
  <1>3. FreshLives'
    BY LivesKeep
  <1> QED
    BY <1>1, <1>2, <1>3 DEF SessionInv

LEMMA GoodOnFile == SessionInv => CredentialsStayGood
  <1> SUFFICES ASSUME SessionInv PROVE CredentialsStayGood
    OBVIOUS
  <1>1. Cardinality(issuer.keys) <= 1
    <2>1. CASE issuer.keys = {}
      BY <2>1, FS_EmptySet
    <2>2. CASE issuer.keys # {}
      <3>1. PICK k : issuer.keys = {k}
        BY <2>2, Typed DEF KeysInv
      <3>2. Cardinality({k}) = 1
        BY FS_Singleton
      <3> QED
        BY <3>1, <3>2
    <2> QED
      BY <2>1, <2>2
  <1>2. file.token # 0 => issuer.keys = {file.keys}
    BY Typed DEF KeysInv
  <1>3. \/ issuer.revoked \/ file.token = issuer.token
        \/ file.req # 0 /\ file = issuer.from
        \/ pend.req # 0 /\ pend = code.by /\ code.gave = issuer.token
    <2>1. CASE Unborn
      <3>1. file.token \in Nat /\ issuer.token = 0 /\ (file.token # 0 => file.token <= issuer.token)
        BY <2>1, Typed DEF Unborn, KeysInv, RestTyped, Credentials
      <3> QED
        BY <3>1
    <2>2. CASE ~Unborn
      BY <2>2, Typed DEF Continues, Lost, Saved, Good, GoodCredentials, Known
    <2> QED
      BY <2>1, <2>2
  <1> QED
    BY <1>1, <1>2, <1>3, Typed DEF CredentialsStayGood

(* An agent that is not revoked has the newest token on file, or the request id that repeats the
   exchange or the activation which gave it, and shows the issuer one pair of identity keys:
   wherever a crash or a failing save falls (refreshCredentialsIfNeeded, activate). *)
THEOREM CredentialsAreKept == QuietStart /\ LongLived => (Spec => []CredentialsStayGood)
  <1> SUFFICES ASSUME QuietStart, LongLived PROVE Spec => []CredentialsStayGood
    OBVIOUS
  <1>1. Init => SessionInv
    BY InitCalls, InitKeeps, InitLives DEF SessionInv
  <1>2. SessionInv /\ [Next]_vars => SessionInv'
    BY NextKeeps
  <1> QED
    BY <1>1, <1>2, GoodOnFile, PTL DEF Spec
-----------------------------------------------------------------------------
(* Giving up.                                                              *)

Chain(j) == jobs[j].kind \in Chains

\* Where calls connect again by themselves the session is good, or revoked.
LEMMA ChainsAreGood ==
    ASSUME SessionInv, NEW j \in Jobs, Chain(j)
    PROVE  /\ issuer.revoked \/ Good
           /\ \A k \in Jobs : ~Starter(k)
  <1>1. ~Over(j) /\ ~Starter(j)
    BY KindsAndStages DEF Chain, Over, Starter
  <1>2. ~Quiet
    BY <1>1 DEF Quiet
  <1>3. \A k \in Jobs : ~Starter(k)
    BY <1>1, Typed DEF CallsInv, Alone
  <1> QED
    BY <1>2, <1>3, Typed DEF Continues, Unborn, Lost, Saved

LEMMA GiveUpStep ==
    ASSUME SessionInv, Next, ~stopped, stopped', wanted'
    PROVE  issuer.revoked
  <1>1. ASSUME NEW j \in Jobs, NEW session \in BOOLEAN, Fails(j, session) PROVE session /\ Chain(j)
    BY <1>1, Typed, JobFails DEF Chain
  <1>2. ASSUME NEW j \in Jobs, Job(j) \/ Expiring(j) \/ ActivationLost(j) \/ \E renamed \in BOOLEAN : ActivationSaveFails(j, renamed)
        PROVE  issuer.revoked
    <2>1. GivesUp(j)
      <3>1. ~Fails(j, FALSE)
        BY <1>1
      <3> QED
        BY <1>2, <3>1 DEF Job, Loaded, NotExpiring, Joins, GoesOn, Opens, RequestServed, RequestUnauthorized, Activation,
                   Pairs, Activated, ActivationSaved, Forgets, Expiring, ActivationLost, ActivationSaveFails
    <2>2. jobs[j].at = "refused" /\ Chain(j)
      BY <1>1, <2>1 DEF GivesUp
    <2> QED
      BY <2>2, ChainsAreGood DEF Good, GoodJob
  <1>3. ASSUME NEW s \in Socks, Socket(s) \/ SockFails(s) \/ Drop(s)
        PROVE  issuer.revoked
    <2>1. socks[s].job # None => socks[s].job \in Jobs /\ ~Fails(socks[s].job, FALSE)
      BY <1>1, Typed, SockOwned
    <2>2. socks[s].at = "opening" => socks[s].job # None
      BY Typed, SockOwned
    <2>3. SockRefused(s)
      BY <1>3, <2>1, <2>2 DEF Socket, SockReady, SockTimesOut, Kicked, SockClosed, SockFails, Drop
    <2>4. socks[s].job \in Jobs /\ Chain(socks[s].job) /\ jobs[socks[s].job].for # "first"
      BY <1>1, <2>1, <2>2, <2>3 DEF SockRefused
    <2>5. PICK j \in Jobs : socks[s].job = j /\ jobs[j].for = "again" /\ Chain(j)
      <3>1. \A j \in Jobs : socks[s].job = j => jobs[j].at = "opening" /\ JobFits(j)
        BY Typed, SockOwned, AtWork, NamesAssumption
      <3> QED
        BY <2>4, <3>1 DEF JobFits
    <2>6. socks[s].token \notin live
      BY <2>3 DEF SockRefused
    <2> QED
      BY <2>5, <2>6, ChainsAreGood DEF Good, GoodJob
  <1>4. CASE Start \/ Stop \/ Crash \/ Request \/ TimerFires
    BY <1>4 DEF Start, Stop, Crash, Request, TimerFires
  <1>5. CASE Refreshing \/ (\E renamed \in BOOLEAN : SaveFails(renamed)) \/ ExchangeLost
    BY <1>5 DEF Refreshing, CredentialsSaved, Exchanged, Answered, SaveFails, ExchangeLost, RefreshUnchanged
  <1>6. CASE WindowEnds \/ AccessExpires \/ Revoke \/ NewCode
    BY <1>6 DEF WindowEnds, AccessExpires, Revoke, NewCode, appVars
  <1> QED
    BY <1>2, <1>3, <1>4, <1>5, <1>6 DEF Next

(* The timer and the recovery give a session up only when the owner revoked it: a call that was
   refused connects with the token of a refresh, which lives longer than that takes, and a refresh
   is not refused to a runtime whose exchanges are repeated (scheduleReconnect,
   recoverRejectedSession). *)
THEOREM GivesUpForAReason == QuietStart /\ LongLived => (Spec => GivesUpOnlyIfRevoked)
  <1> SUFFICES ASSUME QuietStart, LongLived PROVE Spec => GivesUpOnlyIfRevoked
    OBVIOUS
  <1>1. Init => SessionInv
    BY InitCalls, InitKeeps, InitLives DEF SessionInv
  <1>2. SessionInv /\ [Next]_vars => SessionInv'
    BY NextKeeps
  <1>3. SessionInv /\ [Next]_vars => [~stopped /\ stopped' /\ wanted' => issuer.revoked]_stopped
    <2> SUFFICES ASSUME SessionInv, [Next]_vars, stopped' # stopped, ~stopped, stopped', wanted' PROVE issuer.revoked
      OBVIOUS
    <2>1. Next
      BY DEF vars, appVars
    <2> QED
      BY <2>1, GiveUpStep
  <1> QED
    BY <1>1, <1>2, <1>3, PTL DEF Spec, GivesUpOnlyIfRevoked
=============================================================================
