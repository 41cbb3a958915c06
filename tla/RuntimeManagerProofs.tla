------------------------ MODULE RuntimeManagerProofs ------------------------
(***************************************************************************)
(* The Runtime Manager never loses its way: from every state a supervisor   *)
(* can be restarted, an approval is used at most once, and the active       *)
(* version goes back only by way of a lost active.json or an update() that *)
(* found none, for any versions, advisories and number of update() calls   *)
(* and faults.                                                             *)
(*                                                                         *)
(* None of these is inductive.  The marker is good because the supervisor  *)
(* commits what it has probed; the running tree is safe because the child  *)
(* is the active version, and what is staged is a newer one; an approval   *)
(* is one-shot because the lock keeps it as it was when the decision fell. *)
(***************************************************************************)
EXTENDS RuntimeManager, TLAPS

ChildStages == {"launching", "checking", "watching", "locking", "staging", "approving", "stopping", "rechecking"}

\* The child is the active version, or the candidate on probation, or gone.
ChildIsOurs ==
    /\ sup.at \in ChildStages => child \in {None, sup.active}
    /\ sup.at \in {"probing", "committing", "adopting"} => child \in {None, sup.candidate}
    /\ sup.at \in {"down", "switching", "condemning", "restoring"} => child = None

\* What a supervisor holds in memory agrees with the marker on disk, if this
\* was not lost since, or overwritten with the packaged version.
MarkerIsActive ==
    /\ sup.at = "down" => sup = Down
    /\ sup.at # "down" => sup.active \in Versions /\ Boot <= sup.active
    /\ sup.at # "down" =>
        disk.marker \in {None, Boot, IF sup.at = "adopting" THEN sup.candidate ELSE sup.active}
    /\ disk.marker # None => Boot <= disk.marker
    /\ sup.at \in LockedSupStages => sup.active < sup.candidate
    /\ sup.at = "committing" => sup.candidate \in proven

\* A version that failed is the one in quarantine, in memory or on disk.
FailedIsQuarantined ==
    /\ failed \subseteq {Quarantined}
    /\ sup.at \in {"staging", "approving", "stopping", "switching"} => sup.candidate \notin failed
    /\ op.at \in LockedOpStages => sup.volatile = None /\ op.candidate \in Versions
    /\ op.at \in {"staging", "clearing"} /\ op.retrying => disk.quarantine \in {None, op.candidate}

\* The candidate was approved, and its approval not yet used.
Owed(v) ==
    /\ sup.at \in {"staging", "approving", "stopping", "switching"}
    /\ sup.onApproval /\ sup.candidate = v

\* The decision that is taken again under the lock is the one on which the
\* approval was read.
DecisionStands ==
    sup.at = "locking" =>
        /\ sidecar # NoSidecar /\ sidecar.version = sup.active
        /\ Decision(sup.active) = "NOTIFY" => sup.seen = sidecar.advice.version

\* An approval that a candidate is launched on is cleared before the launch.
ApprovalIsCleared ==
    /\ sup.at \in {"staging", "approving"} /\ sup.onApproval => sup.seen = sup.candidate
    /\ sup.at \in {"stopping", "switching"} /\ sup.onApproval => disk.approval = None

\* One launch is left for an approval on disk or a candidate it is owed to.
LaunchesAreLeft ==
    \A v \in Versions :
        IF disk.approval = v \/ Owed(v) THEN used[v] < granted[v] ELSE used[v] <= granted[v]

ApprovalsAreCounted == "turn" \notin faults.kinds => DecisionStands /\ ApprovalIsCleared /\ LaunchesAreLeft

ManagerInv ==
    /\ TypeOK /\ LockIsExclusive /\ MarkerIsProven /\ RunningTreeIsIntact
    /\ ChildIsOurs /\ MarkerIsActive /\ FailedIsQuarantined /\ ApprovalsAreCounted

LEMMA ManagerInit == Init => ManagerInv
<1> SUFFICES ASSUME Init PROVE ManagerInv
  OBVIOUS
<1> USE VersionsAssumption, AdvisoriesAssumption, FaultsAssumption
        DEF Init, None, NoSidecar, Down, NoUpdate, LockedSupStages, LockedOpStages, SupStages, OpStages, Versions
<1>1. TypeOK
  BY DEF TypeOK
<1>2. LockIsExclusive /\ MarkerIsProven /\ RunningTreeIsIntact /\ ChildIsOurs /\ MarkerIsActive
  BY DEF LockIsExclusive, MarkerIsProven, RunningTreeIsIntact, ChildIsOurs, ChildStages, MarkerIsActive
<1>3. FailedIsQuarantined /\ ApprovalsAreCounted
  BY DEF FailedIsQuarantined, ApprovalsAreCounted, DecisionStands, ApprovalIsCleared, LaunchesAreLeft, Owed
<1> QED BY <1>1, <1>2, <1>3 DEF ManagerInv

\* What the decisions say of the versions they are about.
LEMMA PermittedFacts ==
    ASSUME TypeOK, NEW active \in Versions, Permits(active)
    PROVE  /\ sidecar # NoSidecar /\ sidecar.mine /\ sidecar.version = active
           /\ sidecar.advice.version \in Versions /\ active < sidecar.advice.version
           /\ sidecar.advice.version # Quarantined
           /\ Decision(active) = "NOTIFY" => disk.approval = sidecar.advice.version
<1>1. sidecar \in [version : Versions, advice : Advisories, mine : BOOLEAN]
  BY DEF TypeOK, Permits
<1>2. sidecar.advice.version \in Versions
  BY <1>1, AdvisoriesAssumption DEF AllAdvisories
<1>3. sidecar.version = active /\ ~(sidecar.advice.version <= active)
  BY DEF Permits, Allowed, Decision
<1>4. Decision(active) = "NOTIFY" => disk.approval = sidecar.advice.version
  BY DEF Permits, Allowed
<1> QED BY <1>1, <1>2, <1>3, <1>4, VersionsAssumption DEF Permits, Versions

LEMMA InitializeFacts ==
    ASSUME TypeOK, Initialize # None
    PROVE  /\ Initialize \in Versions /\ disk.marker <= Initialize
           /\ Initialize \in {disk.marker, Boot}
<1>1. disk.marker \in {None} \cup Versions /\ Boot \in Versions
  <2>1. disk.marker \in 0 .. Newest
    BY DEF TypeOK
  <2> QED BY <2>1, VersionsAssumption DEF Versions, None
<1>2. /\ None \notin Versions /\ \A v \in Versions : v <= v
  BY VersionsAssumption DEF Versions, None
<1>3. CASE disk.marker # None /\ Runnable(disk.marker)
  BY <1>1, <1>2, <1>3 DEF Initialize
<1>4. CASE ~(disk.marker # None /\ Runnable(disk.marker))
  BY <1>1, <1>4 DEF Initialize
<1> QED BY <1>3, <1>4

LEMMA OperatorFacts ==
    ASSUME TypeOK, NEW active \in Versions, Decision(active) # "NONE"
    PROVE  sidecar # NoSidecar /\ sidecar.advice.version \in Versions
<1>1. sidecar \in [version : Versions, advice : Advisories, mine : BOOLEAN]
  BY DEF TypeOK, Decision
<1> QED BY <1>1, AdvisoriesAssumption DEF AllAdvisories, Decision

-----------------------------------------------------------------------------
(* Types, and the update lock.                                             *)

MaybeVersion == 0 .. Newest
DiskStates == [marker : MaybeVersion, quarantine : MaybeVersion, retry : MaybeVersion, approval : MaybeVersion]
SidecarStates == {NoSidecar} \cup [version : Versions, advice : Advisories, mine : BOOLEAN]
SupStates == [at : SupStages, active : MaybeVersion, candidate : MaybeVersion,
              seen : MaybeVersion, onApproval : BOOLEAN, volatile : MaybeVersion]
OpStates == [at : OpStages, candidate : MaybeVersion, notify : BOOLEAN, retrying : BOOLEAN]

RestIsTyped ==
    /\ trees \subseteq Versions /\ child \in MaybeVersion
    /\ proven \subseteq Versions /\ failed \subseteq Versions
    /\ granted \in [Versions -> Nat] /\ used \in [Versions -> Nat]
    /\ updates \in 0 .. MaxUpdates /\ faults \in [n : 0 .. MaxFaults, kinds : SUBSET Noted]

LEMMA TypeParts ==
    TypeOK <=> /\ disk \in DiskStates /\ sidecar \in SidecarStates
               /\ sup \in SupStates /\ op \in OpStates
               /\ lock \in {"none", "sup", "op"} /\ (sup.at = "down" => child = None)
               /\ RestIsTyped
BY DEF TypeOK, DiskStates, SidecarStates, SupStates, OpStates, RestIsTyped, MaybeVersion

LEMMA VersionTypes ==
    None \in MaybeVersion /\ Versions \subseteq MaybeVersion /\ None \notin Versions /\ Boot \in Versions
BY VersionsAssumption DEF None, MaybeVersion, Versions

LEMMA DiskUpdates ==
    ASSUME NEW d \in DiskStates, NEW v \in MaybeVersion
    PROVE  /\ [d EXCEPT !.marker = v] \in DiskStates /\ [d EXCEPT !.quarantine = v] \in DiskStates
           /\ [d EXCEPT !.retry = v] \in DiskStates /\ [d EXCEPT !.approval = v] \in DiskStates
BY DEF DiskStates

LEMMA SupUpdates ==
    ASSUME NEW s \in SupStates, NEW stage \in SupStages, NEW v \in MaybeVersion, NEW w \in BOOLEAN,
           NEW x \in MaybeVersion
    PROVE  /\ [s EXCEPT !.at = stage] \in SupStates
           /\ [s EXCEPT !.at = stage, !.seen = v] \in SupStates
           /\ [s EXCEPT !.at = stage, !.volatile = v] \in SupStates
           /\ [s EXCEPT !.at = stage, !.candidate = v, !.onApproval = w] \in SupStates
           /\ [Down EXCEPT !.at = stage, !.active = v] \in SupStates
           /\ [Down EXCEPT !.at = stage, !.active = v, !.volatile = x] \in SupStates
           /\ Down \in SupStates
BY VersionTypes DEF SupStates, Down, SupStages

SupWaits == SupStart \/ SupLaunch \/ SupHealthy \/ SupRelaunch \/ SupDecides \/ SupYields
SupPrepares == SupLocks \/ SupStaged \/ SupStageFails \/ SupUsesApproval \/ SupApprovalFails \/ SupStops
SupTries ==
    SupSwitches \/ SupProves \/ SupCommits \/ SupAdopts \/ SupProbeFails
      \/ \E persisted \in BOOLEAN : SupCondemns(persisted)
SupReturns == SupRestores \/ SupRestored \/ SupRestoreFails \/ SupCrash


\* What the steps read of the state: versions, and decisions on them.
LEMMA HandledVersions ==
    ASSUME ManagerInv
    PROVE  /\ disk \in DiskStates /\ sup \in SupStates /\ op \in OpStates
           /\ sup.at \in LockedSupStages => sup.candidate \in Versions
           /\ sup.at # "down" => sup.active \in Versions
           /\ op.at \in LockedOpStages => op.candidate \in Versions
           /\ sup.at = "down" => sup = Down /\ child = None
           /\ Initialize # None => /\ Initialize \in Versions /\ disk.marker <= Initialize
                                   /\ Initialize \in {disk.marker, Boot}
                                   /\ Decision(Initialize) # "NONE" => sidecar.advice.version \in Versions
           /\ sup.at # "down" /\ Permits(sup.active) =>
                /\ sidecar.advice.version \in Versions /\ sidecar.advice.version # Quarantined
                /\ sup.active < sidecar.advice.version /\ sup.active # sidecar.advice.version
                /\ sidecar # NoSidecar /\ sidecar.version = sup.active
                /\ Decision(sup.active) = "NOTIFY" => disk.approval = sidecar.advice.version
<1>1. TypeOK /\ MarkerIsActive /\ FailedIsQuarantined
  BY DEF ManagerInv
<1>2. disk \in DiskStates /\ sup \in SupStates /\ op \in OpStates
  BY <1>1, TypeParts
<1>3. sup.at # "down" => sup.active \in Versions
  BY <1>1 DEF MarkerIsActive
<1>4. ASSUME sup.at \in LockedSupStages PROVE sup.candidate \in Versions
  <2>1. sup.active < sup.candidate /\ sup.active \in 1 .. Newest /\ sup.candidate \in 0 .. Newest
    BY <1>1, <1>2, <1>3, <1>4 DEF MarkerIsActive, LockedSupStages, SupStates, MaybeVersion, Versions
  <2> QED BY <2>1, VersionsAssumption DEF Versions
<1>5. ASSUME sup.at # "down", Permits(sup.active)
      PROVE  /\ sidecar.advice.version \in Versions /\ sidecar.advice.version # Quarantined
             /\ sup.active < sidecar.advice.version /\ sup.active # sidecar.advice.version
             /\ sidecar # NoSidecar /\ sidecar.version = sup.active
             /\ Decision(sup.active) = "NOTIFY" => disk.approval = sidecar.advice.version
  <2>1. /\ sidecar.advice.version \in Versions /\ sidecar.advice.version # Quarantined
        /\ sup.active < sidecar.advice.version
        /\ sidecar # NoSidecar /\ sidecar.version = sup.active
        /\ Decision(sup.active) = "NOTIFY" => disk.approval = sidecar.advice.version
    BY <1>1, <1>3, <1>5, PermittedFacts
  <2> QED BY <1>3, <1>5, <2>1, VersionsAssumption DEF Versions
<1>6. sup.at = "down" => sup = Down /\ child = None
  BY <1>1 DEF MarkerIsActive, TypeOK
<1>7. op.at \in LockedOpStages => op.candidate \in Versions
  BY <1>1 DEF FailedIsQuarantined
<1>8. ASSUME Initialize # None
      PROVE  /\ Initialize \in Versions /\ disk.marker <= Initialize /\ Initialize \in {disk.marker, Boot}
             /\ Decision(Initialize) # "NONE" => sidecar.advice.version \in Versions
  BY <1>1, <1>8, InitializeFacts, OperatorFacts
<1> QED BY <1>2, <1>3, <1>4, <1>5, <1>6, <1>7, <1>8

\* active.json, quarantine.json, staging-retry.json and manual-approval.json.
LEMMA DiskType == ManagerInv /\ Next => disk' \in DiskStates
<1> SUFFICES ASSUME ManagerInv, Next PROVE disk' \in DiskStates
  OBVIOUS
<1> USE HandledVersions, VersionTypes, DiskUpdates DEF At, LockedSupStages, LockedOpStages
<1>1. CASE SupWaits
  BY <1>1 DEF SupWaits, SupStart, SupLaunch, SupHealthy, SupRelaunch, SupDecides, SupYields
<1>2. CASE SupPrepares
  <2>1. CASE SupLocks
    BY <2>1 DEF SupLocks
  <2>2. CASE SupStaged
    BY <2>2 DEF SupStaged
  <2>3. CASE SupStageFails
    BY <2>3 DEF SupStageFails
  <2>4. CASE SupUsesApproval
    <3>1. (IF sup.seen = sup.candidate THEN None ELSE disk.approval) \in MaybeVersion
      BY DEF DiskStates
    <3> QED BY <2>4, <3>1 DEF SupUsesApproval
  <2>5. CASE SupApprovalFails
    BY <2>5 DEF SupApprovalFails
  <2>6. CASE SupStops
    BY <2>6 DEF SupStops
  <2> QED BY <1>2, <2>1, <2>2, <2>3, <2>4, <2>5, <2>6 DEF SupPrepares
<1>3. CASE SupTries
  BY <1>3 DEF SupTries, SupSwitches, SupProves, SupCommits, SupAdopts, SupProbeFails, SupCondemns
<1>4. CASE SupReturns
  BY <1>4 DEF SupReturns, SupRestores, SupRestored, SupRestoreFails, SupCrash
<1>5. CASE Operator \/ OpCrash
  <2>1. CASE OpStarts
    BY <2>1 DEF OpStarts, OpContinues
  <2>2. CASE OpYields
    BY <2>2 DEF OpYields
  <2>3. CASE OpLocks
    BY <2>3 DEF OpLocks, OpContinues
  <2>4. CASE OpStaged
    BY <2>4 DEF OpStaged
  <2>5. CASE OpStageFails
    BY <2>5 DEF OpStageFails
  <2>6. CASE OpClears
    <3>1. (IF op.retrying THEN None ELSE disk.quarantine) \in MaybeVersion
      BY DEF DiskStates
    <3> QED BY <2>6, <3>1 DEF OpClears
  <2>7. CASE OpGrants
    BY <2>7 DEF OpGrants
  <2>8. CASE OpCrash
    BY <2>8 DEF OpCrash
  <2>9. CASE OpPackages
    BY <2>9 DEF OpPackages, OpContinues
  <2> QED BY <1>5, <2>1, <2>2, <2>3, <2>4, <2>5, <2>6, <2>7, <2>8, <2>9 DEF Operator
<1>6. CASE Environment
  BY <1>6 DEF Environment, CheckIn, ChildExits, TimePasses, Lost, Rot
<1> QED BY <1>1, <1>2, <1>3, <1>4, <1>5, <1>6 DEF Next, Supervisor, SupWaits, SupPrepares, SupTries, SupReturns

\* The supervisor.
LEMMA SupType == ManagerInv /\ Next => sup' \in SupStates
<1> SUFFICES ASSUME ManagerInv, Next PROVE sup' \in SupStates
  OBVIOUS
<1>0. sup.volatile \in MaybeVersion /\ disk.approval \in MaybeVersion
  BY HandledVersions DEF SupStates, DiskStates
<1> USE <1>0, HandledVersions, VersionTypes, SupUpdates DEF At, Goes, LockedSupStages, SupStages
<1>1. CASE SupWaits
  <2>1. CASE SupStart
    BY <2>1 DEF SupStart
  <2>2. CASE SupLaunch
    BY <2>2 DEF SupLaunch
  <2>3. CASE SupHealthy
    BY <2>3 DEF SupHealthy
  <2>4. CASE SupRelaunch
    BY <2>4 DEF SupRelaunch
  <2>5. CASE SupDecides
    <3>1. sup \in SupStates /\ "locking" \in SupStages
      OBVIOUS
    <3>2. [sup EXCEPT !.at = "locking", !.seen = disk.approval] \in SupStates
      BY ONLY <1>0, <3>1, SupUpdates
    <3> QED BY <2>5, <3>2 DEF SupDecides
  <2>6. CASE SupYields
    <3>1. "watching" \in SupStages /\ sup \in SupStates /\ sup.active \in MaybeVersion /\ sup.at # "down"
      BY <2>6 DEF SupStates, SupYields
    <3>2. [Down EXCEPT !.at = "watching", !.active = sup.active, !.volatile = sup.volatile] \in SupStates
      BY ONLY <1>0, <3>1, SupUpdates
    <3> QED BY <2>6, <3>2 DEF SupYields, Watches
  <2> QED BY <1>1, <2>1, <2>2, <2>3, <2>4, <2>5, <2>6 DEF SupWaits
<1>2. CASE SupPrepares
  <2>1. CASE SupLocks
    <3>1. sidecar.advice.version \in Versions
      BY <2>1 DEF SupLocks
    <3>2. (Decision(sup.active) = "NOTIFY") \in BOOLEAN
      OBVIOUS
    <3> QED BY <2>1, <3>1, <3>2 DEF SupLocks
  <2>2. CASE SupStaged
    BY <2>2 DEF SupStaged
  <2>3. CASE SupStageFails
    <3>1. "watching" \in SupStages /\ sup \in SupStates /\ sup.active \in MaybeVersion /\ sup.at # "down"
      BY <2>3 DEF SupStates, SupStageFails
    <3>2. [Down EXCEPT !.at = "watching", !.active = sup.active, !.volatile = sup.volatile] \in SupStates
      BY ONLY <1>0, <3>1, SupUpdates
    <3> QED BY <2>3, <3>2 DEF SupStageFails, Watches
  <2>4. CASE SupUsesApproval
    BY <2>4 DEF SupUsesApproval
  <2>5. CASE SupApprovalFails
    <3>1. "watching" \in SupStages /\ sup \in SupStates /\ sup.active \in MaybeVersion /\ sup.at # "down"
      BY <2>5 DEF SupStates, SupApprovalFails
    <3>2. [Down EXCEPT !.at = "watching", !.active = sup.active, !.volatile = sup.volatile] \in SupStates
      BY ONLY <1>0, <3>1, SupUpdates
    <3> QED BY <2>5, <3>2 DEF SupApprovalFails, Watches
  <2>6. CASE SupStops
    BY <2>6 DEF SupStops
  <2> QED BY <1>2, <2>1, <2>2, <2>3, <2>4, <2>5, <2>6 DEF SupPrepares
<1>3. CASE SupTries
  <2>1. CASE SupSwitches
    BY <2>1 DEF SupSwitches
  <2>2. CASE SupProves
    BY <2>2 DEF SupProves
  <2>3. CASE SupCommits
    BY <2>3 DEF SupCommits
  <2>4. CASE SupAdopts
    <3>1. [Down EXCEPT !.at = "watching", !.active = sup.candidate, !.volatile = None] \in SupStates
      BY <2>4 DEF SupAdopts
    <3> QED BY <2>4, <3>1 DEF SupAdopts, Watches
  <2>5. CASE SupProbeFails
    BY <2>5 DEF SupProbeFails
  <2>6. CASE \E persisted \in BOOLEAN : SupCondemns(persisted)
    <3>1. sup \in SupStates /\ "restoring" \in SupStages /\ sup.candidate \in MaybeVersion
      BY <2>6 DEF SupCondemns
    <3>2. [sup EXCEPT !.at = "restoring", !.volatile = sup.candidate] \in SupStates
      BY ONLY <3>1, SupUpdates
    <3> QED BY <2>6, <3>2 DEF SupCondemns
  <2> QED BY <1>3, <2>1, <2>2, <2>3, <2>4, <2>5, <2>6 DEF SupTries
<1>4. CASE SupReturns
  <2>1. CASE SupRestores
    BY <2>1 DEF SupRestores
  <2>2. CASE SupRestored
    <3>1. "watching" \in SupStages /\ sup \in SupStates /\ sup.active \in MaybeVersion /\ sup.at # "down"
      BY <2>2 DEF SupStates, SupRestored
    <3>2. [Down EXCEPT !.at = "watching", !.active = sup.active, !.volatile = sup.volatile] \in SupStates
      BY ONLY <1>0, <3>1, SupUpdates
    <3> QED BY <2>2, <3>2 DEF SupRestored, Watches
  <2>3. CASE SupRestoreFails
    <3>1. "watching" \in SupStages /\ sup \in SupStates /\ sup.active \in MaybeVersion /\ sup.at # "down"
      BY <2>3 DEF SupStates, SupRestoreFails
    <3>2. [Down EXCEPT !.at = "watching", !.active = sup.active, !.volatile = sup.volatile] \in SupStates
      BY ONLY <1>0, <3>1, SupUpdates
    <3> QED BY <2>3, <3>2 DEF SupRestoreFails, Watches
  <2>4. CASE SupCrash
    BY <2>4 DEF SupCrash
  <2> QED BY <1>4, <2>1, <2>2, <2>3, <2>4 DEF SupReturns
<1>5. CASE Operator \/ OpCrash
  BY <1>5 DEF Operator, OpStarts, OpContinues, OpPackages, OpYields, OpLocks, OpStaged, OpStageFails,
              OpClears, OpGrants, OpCrash
<1>6. CASE Environment
  BY <1>6 DEF Environment, CheckIn, ChildExits, TimePasses, Lost, Rot
<1> QED BY <1>1, <1>2, <1>3, <1>4, <1>5, <1>6 DEF Next, Supervisor, SupWaits, SupPrepares, SupTries, SupReturns

\* The update() call.
LEMMA OpType == ManagerInv /\ Next => op' \in OpStates
<1> SUFFICES ASSUME ManagerInv, Next PROVE op' \in OpStates
  OBVIOUS
<1> USE HandledVersions, VersionTypes DEF OpStates, OpStages, LockedOpStages, OpGoes, OpEnds, NoUpdate, opVars
<1>1. CASE SupWaits
  BY <1>1 DEF SupWaits, SupStart, SupLaunch, SupHealthy, SupRelaunch, SupDecides, SupYields
<1>2. CASE SupPrepares
  BY <1>2 DEF SupPrepares, SupLocks, SupStaged, SupStageFails, SupUsesApproval, SupApprovalFails, SupStops
<1>3. CASE SupTries
  BY <1>3 DEF SupTries, SupSwitches, SupProves, SupCommits, SupAdopts, SupProbeFails, SupCondemns
<1>4. CASE SupReturns
  BY <1>4 DEF SupReturns, SupRestores, SupRestored, SupRestoreFails, SupCrash
<1>5. CASE Operator \/ OpCrash
  <2>1. CASE OpStarts
    BY <2>1 DEF OpStarts, OpContinues
  <2>2. CASE OpYields
    BY <2>2 DEF OpYields
  <2>3. CASE OpLocks
    BY <2>3 DEF OpLocks, OpContinues
  <2>4. CASE OpStaged
    BY <2>4 DEF OpStaged
  <2>5. CASE OpStageFails
    BY <2>5 DEF OpStageFails
  <2>6. CASE OpClears
    <3>1. CASE op.notify
      BY <2>6, <3>1 DEF OpClears
    <3>2. CASE ~op.notify
      <4>1. op' = NoUpdate
        BY <2>6, <3>2 DEF OpClears
      <4> QED BY <4>1
    <3> QED BY <3>1, <3>2
  <2>7. CASE OpGrants
    BY <2>7 DEF OpGrants
  <2>8. CASE OpCrash
    BY <2>8 DEF OpCrash
  <2>9. CASE OpPackages
    <3>1. CASE OpContinues(Boot)
      BY <2>9, <3>1 DEF OpPackages
    <3>2. CASE ~OpContinues(Boot)
      <4>1. op' = NoUpdate
        BY <2>9, <3>2 DEF OpPackages
      <4> QED BY <4>1
    <3> QED BY <3>1, <3>2
  <2> QED BY <1>5, <2>1, <2>2, <2>3, <2>4, <2>5, <2>6, <2>7, <2>8, <2>9 DEF Operator
<1>6. CASE Environment
  BY <1>6 DEF Environment, CheckIn, ChildExits, TimePasses, Lost, Rot
<1> QED BY <1>1, <1>2, <1>3, <1>4, <1>5, <1>6 DEF Next, Supervisor, SupWaits, SupPrepares, SupTries, SupReturns

\* The sidecar.
LEMMA SidecarType == ManagerInv /\ Next => sidecar' \in SidecarStates
<1> SUFFICES ASSUME ManagerInv, Next PROVE sidecar' \in SidecarStates
  OBVIOUS
<1>0. sidecar \in SidecarStates /\ child \in MaybeVersion
  BY TypeParts DEF ManagerInv, RestIsTyped
<1> USE <1>0, VersionTypes DEF SidecarStates, NoSidecar, Launched, MaybeVersion, Versions
<1>1. CASE SupWaits
  BY <1>1 DEF SupWaits, SupStart, SupLaunch, SupHealthy, SupRelaunch, SupDecides, SupYields
<1>2. CASE SupPrepares
  BY <1>2 DEF SupPrepares, SupLocks, SupStaged, SupStageFails, SupUsesApproval, SupApprovalFails, SupStops
<1>3. CASE SupTries
  BY <1>3 DEF SupTries, SupSwitches, SupProves, SupCommits, SupAdopts, SupProbeFails, SupCondemns
<1>4. CASE SupReturns
  BY <1>4 DEF SupReturns, SupRestores, SupRestored, SupRestoreFails, SupCrash
<1>5. CASE Operator \/ OpCrash
  BY <1>5 DEF Operator, OpStarts, OpContinues, OpPackages, OpYields, OpLocks, OpStaged, OpStageFails,
              OpClears, OpGrants, OpCrash
<1>6. CASE Environment
  <2>1. CASE \E advice \in Advisories : CheckIn(advice)
    BY <2>1 DEF CheckIn
  <2>2. CASE ChildExits
    BY <2>2 DEF ChildExits
  <2>3. CASE TimePasses
    BY <2>3 DEF TimePasses
  <2>4. CASE \E v \in Versions : Rot(v)
    BY <2>4 DEF Rot
  <2>5. CASE Lost
    BY <2>5 DEF Lost
  <2> QED BY <1>6, <2>1, <2>2, <2>3, <2>4, <2>5 DEF Environment
<1> QED BY <1>1, <1>2, <1>3, <1>4, <1>5, <1>6 DEF Next, Supervisor, SupWaits, SupPrepares, SupTries, SupReturns

\* A fault is counted.
LEMMA FaultType ==
  ASSUME RestIsTyped, NEW kind, Fault(kind)
  PROVE  faults' \in [n : 0 .. MaxFaults, kinds : SUBSET Noted]
<1>1. faults.n + 1 \in 0 .. MaxFaults
  BY FaultsAssumption DEF RestIsTyped, Fault
<1>2. faults.kinds \cup ({kind} \cap Noted) \in SUBSET Noted
  BY DEF RestIsTyped
<1> QED BY <1>1, <1>2 DEF Fault

\* Trees, child and history.
LEMMA RestType == ManagerInv /\ Next => RestIsTyped'
<1> SUFFICES ASSUME ManagerInv, Next PROVE RestIsTyped'
  OBVIOUS
<1>0. RestIsTyped
  BY TypeParts DEF ManagerInv
<1> USE <1>0, HandledVersions, VersionTypes, FaultType DEF RestIsTyped, At, Launched, Unhealthy,
        LockedSupStages, LockedOpStages, SupStates, opVars, history, MaybeVersion, Versions, None
<1>1. CASE SupWaits
  BY <1>1 DEF SupWaits, SupStart, SupLaunch, SupHealthy, SupRelaunch, SupDecides, SupYields
<1>2. CASE SupPrepares
  BY <1>2 DEF SupPrepares, SupLocks, SupStaged, SupStageFails, SupUsesApproval, SupApprovalFails, SupStops
<1>3. CASE SupTries
  <2>1. CASE SupSwitches
    <3>1. sup.candidate \in Versions
      BY <2>1 DEF SupSwitches
    <3>2. [used EXCEPT ![sup.candidate] = used[sup.candidate] + 1] \in [Versions -> Nat]
      BY ONLY <1>0, <3>1 DEF RestIsTyped
    <3>3. used' \in [Versions -> Nat]
      BY ONLY <1>0, <2>1, <3>2 DEF SupSwitches, RestIsTyped
    <3> QED BY <2>1, <3>1, <3>3 DEF SupSwitches
  <2>2. CASE SupProves
    BY <2>2 DEF SupProves
  <2>3. CASE SupCommits
    BY <2>3 DEF SupCommits
  <2>4. CASE SupAdopts
    BY <2>4 DEF SupAdopts
  <2>5. CASE SupProbeFails
    BY <2>5 DEF SupProbeFails
  <2>6. CASE \E persisted \in BOOLEAN : SupCondemns(persisted)
    BY <2>6 DEF SupCondemns
  <2> QED BY <1>3, <2>1, <2>2, <2>3, <2>4, <2>5, <2>6 DEF SupTries
<1>4. CASE SupReturns
  <2>1. CASE SupRestores
    BY <2>1 DEF SupRestores
  <2>2. CASE SupRestored
    BY <2>2 DEF SupRestored
  <2>3. CASE SupRestoreFails
    BY <2>3 DEF SupRestoreFails
  <2>4. CASE SupCrash
    BY <2>4 DEF SupCrash
  <2> QED BY <1>4, <2>1, <2>2, <2>3, <2>4 DEF SupReturns
<1>5. CASE Operator \/ OpCrash
  <2>1. CASE OpStarts
    <3>1. updates + 1 \in 0 .. MaxUpdates
      BY ONLY <1>0, <2>1, FaultsAssumption DEF OpStarts, RestIsTyped
    <3> QED BY ONLY <1>0, <2>1, <3>1 DEF OpStarts, RestIsTyped, history
  <2>2. CASE OpYields
    BY <2>2 DEF OpYields
  <2>3. CASE OpLocks
    BY <2>3 DEF OpLocks, OpContinues
  <2>4. CASE OpStaged
    BY <2>4 DEF OpStaged
  <2>5. CASE OpStageFails
    BY <2>5 DEF OpStageFails
  <2>6. CASE OpClears
    BY <2>6 DEF OpClears
  <2>7. CASE OpGrants
    <3>1. op.candidate \in Versions
      BY <2>7 DEF OpGrants
    <3>2. granted' \in [Versions -> Nat]
      BY ONLY <1>0, <2>7, <3>1 DEF OpGrants, RestIsTyped
    <3> QED BY ONLY <1>0, <2>7, <3>2 DEF OpGrants, RestIsTyped, opVars, history
  <2>8. CASE OpCrash
    BY <2>8 DEF OpCrash
  <2>9. CASE OpPackages
    BY <2>9 DEF OpPackages, OpContinues
  <2> QED BY <1>5, <2>1, <2>2, <2>3, <2>4, <2>5, <2>6, <2>7, <2>8, <2>9 DEF Operator
<1>6. CASE Environment
  BY <1>6 DEF Environment, CheckIn, ChildExits, TimePasses, Lost, Rot
<1> QED BY <1>1, <1>2, <1>3, <1>4, <1>5, <1>6 DEF Next, Supervisor, SupWaits, SupPrepares, SupTries, SupReturns

\* update.lock has one holder at a time.
LEMMA LockStep == ManagerInv /\ Next => (LockIsExclusive' /\ lock' \in {"none", "sup", "op"})
<1> SUFFICES ASSUME ManagerInv, Next PROVE (LockIsExclusive' /\ lock' \in {"none", "sup", "op"})
  OBVIOUS
<1>0. LockIsExclusive
  BY DEF ManagerInv
<1> USE <1>0, HandledVersions DEF At, Goes, Watches, OpGoes, OpEnds, NoUpdate, LockedSupStages,
        LockedOpStages, SupStates, OpStates, Down, LockIsExclusive, opVars
<1>1. CASE SupWaits
  <2>1. CASE SupStart
    BY <2>1 DEF SupStart
  <2>2. CASE SupLaunch
    BY <2>2 DEF SupLaunch
  <2>3. CASE SupHealthy
    BY <2>3 DEF SupHealthy
  <2>4. CASE SupRelaunch
    BY <2>4 DEF SupRelaunch
  <2>5. CASE SupDecides
    BY <2>5 DEF SupDecides
  <2>6. CASE SupYields
    BY <2>6 DEF SupYields
  <2> QED BY <1>1, <2>1, <2>2, <2>3, <2>4, <2>5, <2>6 DEF SupWaits
<1>2. CASE SupPrepares
  <2>1. CASE SupLocks
    BY <2>1 DEF SupLocks
  <2>2. CASE SupStaged
    BY <2>2 DEF SupStaged
  <2>3. CASE SupStageFails
    BY <2>3 DEF SupStageFails
  <2>4. CASE SupUsesApproval
    BY <2>4 DEF SupUsesApproval
  <2>5. CASE SupApprovalFails
    BY <2>5 DEF SupApprovalFails
  <2>6. CASE SupStops
    BY <2>6 DEF SupStops
  <2> QED BY <1>2, <2>1, <2>2, <2>3, <2>4, <2>5, <2>6 DEF SupPrepares
<1>3. CASE SupTries
  <2>1. CASE SupSwitches
    BY <2>1 DEF SupSwitches
  <2>2. CASE SupProves
    BY <2>2 DEF SupProves
  <2>3. CASE SupCommits
    BY <2>3 DEF SupCommits
  <2>4. CASE SupAdopts
    BY <2>4 DEF SupAdopts
  <2>5. CASE SupProbeFails
    BY <2>5 DEF SupProbeFails
  <2>6. CASE \E persisted \in BOOLEAN : SupCondemns(persisted)
    BY <2>6 DEF SupCondemns
  <2> QED BY <1>3, <2>1, <2>2, <2>3, <2>4, <2>5, <2>6 DEF SupTries
<1>4. CASE SupReturns
  <2>1. CASE SupRestores
    BY <2>1 DEF SupRestores
  <2>2. CASE SupRestored
    BY <2>2 DEF SupRestored
  <2>3. CASE SupRestoreFails
    BY <2>3 DEF SupRestoreFails
  <2>4. CASE SupCrash
    BY <2>4 DEF SupCrash
  <2> QED BY <1>4, <2>1, <2>2, <2>3, <2>4 DEF SupReturns
<1>5. CASE Operator \/ OpCrash
  BY <1>5 DEF Operator, OpStarts, OpContinues, OpPackages, OpYields, OpLocks, OpStaged, OpStageFails,
              OpClears, OpGrants, OpCrash
<1>6. CASE Environment
  BY <1>6 DEF Environment, CheckIn, ChildExits, TimePasses, Lost, Rot
<1> QED BY <1>1, <1>2, <1>3, <1>4, <1>5, <1>6 DEF Next, Supervisor, SupWaits, SupPrepares, SupTries, SupReturns

\* The supervisor starts the active version or the candidate, and no other.
LEMMA ChildStep == ManagerInv /\ Next => ChildIsOurs'
<1> SUFFICES ASSUME ManagerInv, Next PROVE ChildIsOurs'
  OBVIOUS
<1>0. sup \in SupStates /\ ChildIsOurs /\ (sup.at = "down" => sup = Down /\ child = None)
  BY HandledVersions DEF ManagerInv
<1> USE <1>0 DEF At, Goes, Watches, Launched, LockedSupStages, ChildStages, SupStates, Down, ChildIsOurs
<1>1. CASE SupWaits
  <2>1. CASE SupStart
    BY <2>1 DEF SupStart
  <2>2. CASE SupLaunch
    BY <2>2 DEF SupLaunch
  <2>3. CASE SupHealthy
    BY <2>3 DEF SupHealthy
  <2>4. CASE SupRelaunch
    BY <2>4 DEF SupRelaunch
  <2>5. CASE SupDecides
    BY <2>5 DEF SupDecides
  <2>6. CASE SupYields
    BY <2>6 DEF SupYields
  <2> QED BY <1>1, <2>1, <2>2, <2>3, <2>4, <2>5, <2>6 DEF SupWaits
<1>2. CASE SupPrepares
  <2>1. CASE SupLocks
    BY <2>1 DEF SupLocks
  <2>2. CASE SupStaged
    BY <2>2 DEF SupStaged
  <2>3. CASE SupStageFails
    BY <2>3 DEF SupStageFails
  <2>4. CASE SupUsesApproval
    BY <2>4 DEF SupUsesApproval
  <2>5. CASE SupApprovalFails
    BY <2>5 DEF SupApprovalFails
  <2>6. CASE SupStops
    BY <2>6 DEF SupStops
  <2> QED BY <1>2, <2>1, <2>2, <2>3, <2>4, <2>5, <2>6 DEF SupPrepares
<1>3. CASE SupTries
  <2>1. CASE SupSwitches
    BY <2>1 DEF SupSwitches
  <2>2. CASE SupProves
    BY <2>2 DEF SupProves
  <2>3. CASE SupCommits
    BY <2>3 DEF SupCommits
  <2>4. CASE SupAdopts
    BY <2>4 DEF SupAdopts
  <2>5. CASE SupProbeFails
    BY <2>5 DEF SupProbeFails
  <2>6. CASE \E persisted \in BOOLEAN : SupCondemns(persisted)
    BY <2>6 DEF SupCondemns
  <2> QED BY <1>3, <2>1, <2>2, <2>3, <2>4, <2>5, <2>6 DEF SupTries
<1>4. CASE SupReturns
  BY <1>4 DEF SupReturns, SupRestores, SupRestored, SupRestoreFails, SupCrash
<1>5. CASE Operator \/ OpCrash
  BY <1>5 DEF Operator, OpStarts, OpContinues, OpPackages, OpYields, OpLocks, OpStaged, OpStageFails,
              OpClears, OpGrants, OpCrash
<1>6. CASE Environment
  BY <1>6 DEF Environment, CheckIn, ChildExits, TimePasses, Lost, Rot
<1> QED BY <1>1, <1>2, <1>3, <1>4, <1>5, <1>6 DEF Next, Supervisor, SupWaits, SupPrepares, SupTries, SupReturns

\* Only a start and a commit write the marker, and the memory agrees.
LEMMA ActiveStep == ManagerInv /\ Next => MarkerIsActive'
<1> SUFFICES ASSUME ManagerInv, Next PROVE MarkerIsActive'
  OBVIOUS
<1>0. /\ MarkerIsActive /\ Boot \in Nat /\ Boot <= Boot /\ Boot # None
      /\ sup.at \in LockedSupStages => Boot <= sup.candidate
      /\ Initialize # None => Boot <= Initialize
  <2>1. MarkerIsActive /\ Boot \in 1 .. Newest
    BY VersionsAssumption DEF ManagerInv, Versions
  <2>2. ASSUME sup.at \in LockedSupStages PROVE Boot <= sup.candidate
    BY <2>1, <2>2, HandledVersions, VersionsAssumption DEF MarkerIsActive, Versions, LockedSupStages
  <2> QED BY <2>1, <2>2, HandledVersions, VersionsAssumption DEF MarkerIsActive, None
<1>m. ASSUME sup' = sup, proven' = proven, disk'.marker \in {None, Boot, disk.marker}
      PROVE  MarkerIsActive'
  BY <1>0, <1>m DEF MarkerIsActive
<1> USE <1>0, HandledVersions DEF At, Goes, Watches, LockedSupStages, SupStates, DiskStates, Down,
        MarkerIsActive, history
<1>1. CASE SupWaits
  <2>1. CASE SupStart
    BY <2>1 DEF SupStart
  <2>2. CASE SupLaunch
    BY <2>2 DEF SupLaunch
  <2>3. CASE SupHealthy
    BY <2>3 DEF SupHealthy
  <2>4. CASE SupRelaunch
    BY <2>4 DEF SupRelaunch
  <2>5. CASE SupDecides
    BY <2>5 DEF SupDecides
  <2>6. CASE SupYields
    BY <2>6 DEF SupYields
  <2> QED BY <1>1, <2>1, <2>2, <2>3, <2>4, <2>5, <2>6 DEF SupWaits
<1>2. CASE SupPrepares
  <2>1. CASE SupLocks
    BY <2>1 DEF SupLocks
  <2>2. CASE SupStaged
    BY <2>2 DEF SupStaged
  <2>3. CASE SupStageFails
    BY <2>3 DEF SupStageFails
  <2>4. CASE SupUsesApproval
    BY <2>4 DEF SupUsesApproval
  <2>5. CASE SupApprovalFails
    BY <2>5 DEF SupApprovalFails
  <2>6. CASE SupStops
    BY <2>6 DEF SupStops
  <2> QED BY <1>2, <2>1, <2>2, <2>3, <2>4, <2>5, <2>6 DEF SupPrepares
<1>3. CASE SupTries
  <2>1. CASE SupSwitches
    BY <2>1 DEF SupSwitches
  <2>2. CASE SupProves
    BY <2>2 DEF SupProves
  <2>3. CASE SupCommits
    BY <2>3 DEF SupCommits
  <2>4. CASE SupAdopts
    BY <2>4 DEF SupAdopts
  <2>5. CASE SupProbeFails
    BY <2>5 DEF SupProbeFails
  <2>6. CASE \E persisted \in BOOLEAN : SupCondemns(persisted)
    BY <2>6 DEF SupCondemns
  <2> QED BY <1>3, <2>1, <2>2, <2>3, <2>4, <2>5, <2>6 DEF SupTries
<1>4. CASE SupReturns
  <2>1. CASE SupRestores
    BY <2>1 DEF SupRestores
  <2>2. CASE SupRestored
    BY <2>2 DEF SupRestored
  <2>3. CASE SupRestoreFails
    BY <2>3 DEF SupRestoreFails
  <2>4. CASE SupCrash
    BY <2>4 DEF SupCrash
  <2> QED BY <1>4, <2>1, <2>2, <2>3, <2>4 DEF SupReturns
<1>5. CASE Operator \/ OpCrash
  <2>1. sup' = sup /\ proven' = proven /\ disk'.marker \in {None, Boot, disk.marker}
    BY ONLY <1>5, HandledVersions, ManagerInv
       DEF Operator, OpStarts, OpContinues, OpPackages, OpYields, OpLocks, OpStaged, OpStageFails,
           OpClears, OpGrants, OpCrash, DiskStates, history
  <2> QED BY <2>1, <1>m
<1>6. CASE Environment
  BY <1>6 DEF Environment, CheckIn, ChildExits, TimePasses, Lost, Rot
<1> QED BY <1>1, <1>2, <1>3, <1>4, <1>5, <1>6 DEF Next, Supervisor, SupWaits, SupPrepares, SupTries, SupReturns

\* What is committed has passed its probation.
LEMMA ProvenStep == ManagerInv /\ Next => MarkerIsProven'
<1> SUFFICES ASSUME ManagerInv, Next PROVE MarkerIsProven'
  OBVIOUS
<1>0. MarkerIsProven /\ MarkerIsActive
  BY DEF ManagerInv
<1> USE <1>0, HandledVersions DEF At, Goes, LockedSupStages, SupStates, DiskStates, Down, MarkerIsActive,
        MarkerIsProven, history
<1>1. CASE SupWaits
  BY <1>1 DEF SupWaits, SupStart, SupLaunch, SupHealthy, SupRelaunch, SupDecides, SupYields
<1>2. CASE SupPrepares
  BY <1>2 DEF SupPrepares, SupLocks, SupStaged, SupStageFails, SupUsesApproval, SupApprovalFails, SupStops
<1>3. CASE SupTries
  BY <1>3 DEF SupTries, SupSwitches, SupProves, SupCommits, SupAdopts, SupProbeFails, SupCondemns
<1>4. CASE SupReturns
  BY <1>4 DEF SupReturns, SupRestores, SupRestored, SupRestoreFails, SupCrash
<1>5. CASE Operator \/ OpCrash
  BY <1>5 DEF Operator, OpStarts, OpContinues, OpPackages, OpYields, OpLocks, OpStaged, OpStageFails,
              OpClears, OpGrants, OpCrash
<1>6. CASE Environment
  BY <1>6 DEF Environment, CheckIn, ChildExits, TimePasses, Lost, Rot
<1> QED BY <1>1, <1>2, <1>3, <1>4, <1>5, <1>6 DEF Next, Supervisor, SupWaits, SupPrepares, SupTries, SupReturns

\* The faults that some property excuses are noted.
LEMMA FaultIsNoted == (Fault("rot") => "rot" \in faults'.kinds) /\ (Fault("turn") => "turn" \in faults'.kinds)
BY DEF Fault, Noted

\* Faults are not forgotten.
LEMMA FaultsGrow == ManagerInv /\ Next => faults.kinds \subseteq faults'.kinds
<1> SUFFICES ASSUME ManagerInv, Next PROVE faults.kinds \subseteq faults'.kinds
  OBVIOUS
<1> USE DEF Fault, Unhealthy, history, opVars
<1>1. CASE SupWaits
  BY <1>1 DEF SupWaits, SupStart, SupLaunch, SupHealthy, SupRelaunch, SupDecides, SupYields
<1>2. CASE SupPrepares
  BY <1>2 DEF SupPrepares, SupLocks, SupStaged, SupStageFails, SupUsesApproval, SupApprovalFails, SupStops
<1>3. CASE SupTries
  BY <1>3 DEF SupTries, SupSwitches, SupProves, SupCommits, SupAdopts, SupProbeFails, SupCondemns
<1>4. CASE SupReturns
  BY <1>4 DEF SupReturns, SupRestores, SupRestored, SupRestoreFails, SupCrash
<1>5. CASE Operator \/ OpCrash
  BY <1>5 DEF Operator, OpStarts, OpContinues, OpPackages, OpYields, OpLocks, OpStaged, OpStageFails,
              OpClears, OpGrants, OpCrash
<1>6. CASE Environment
  BY <1>6 DEF Environment, CheckIn, ChildExits, TimePasses, Lost, Rot
<1> QED BY <1>1, <1>2, <1>3, <1>4, <1>5, <1>6 DEF Next, Supervisor, SupWaits, SupPrepares, SupTries, SupReturns

\* What is staged is newer than what runs.
LEMMA TreeStep == ManagerInv /\ Next => RunningTreeIsIntact'
<1> SUFFICES ASSUME ManagerInv, Next PROVE RunningTreeIsIntact'
  OBVIOUS
<1>0. /\ RunningTreeIsIntact /\ ChildIsOurs /\ None \notin Versions
  BY VersionTypes DEF ManagerInv
<1> USE <1>0, HandledVersions, FaultsGrow, FaultIsNoted DEF At, Goes, Launched, LockedSupStages, SupStates,
        ChildStages, DiskStates, Down, ChildIsOurs, RunningTreeIsIntact, Runnable
<1>1. CASE SupWaits
  <2>1. CASE SupStart
    BY <2>1 DEF SupStart
  <2>2. CASE SupLaunch
    BY <2>2 DEF SupLaunch
  <2>3. CASE SupHealthy
    BY <2>3 DEF SupHealthy
  <2>4. CASE SupRelaunch
    BY <2>4 DEF SupRelaunch
  <2>5. CASE SupDecides
    BY <2>5 DEF SupDecides
  <2>6. CASE SupYields
    BY <2>6 DEF SupYields
  <2> QED BY <1>1, <2>1, <2>2, <2>3, <2>4, <2>5, <2>6 DEF SupWaits
<1>2. CASE SupPrepares
  <2>1. CASE SupLocks
    BY <2>1 DEF SupLocks
  <2>2. CASE SupStaged
    BY <2>2 DEF SupStaged
  <2>3. CASE SupStageFails
    BY <2>3 DEF SupStageFails
  <2>4. CASE SupUsesApproval
    BY <2>4 DEF SupUsesApproval
  <2>5. CASE SupApprovalFails
    BY <2>5 DEF SupApprovalFails
  <2>6. CASE SupStops
    BY <2>6 DEF SupStops
  <2> QED BY <1>2, <2>1, <2>2, <2>3, <2>4, <2>5, <2>6 DEF SupPrepares
<1>3. CASE SupTries
  BY <1>3 DEF SupTries, SupSwitches, SupProves, SupCommits, SupAdopts, SupProbeFails, SupCondemns
<1>4. CASE SupReturns
  <2>1. CASE SupRestores
    BY <2>1 DEF SupRestores
  <2>2. CASE SupRestored
    BY <2>2 DEF SupRestored
  <2>3. CASE SupRestoreFails
    BY <2>3 DEF SupRestoreFails
  <2>4. CASE SupCrash
    BY <2>4 DEF SupCrash
  <2> QED BY <1>4, <2>1, <2>2, <2>3, <2>4 DEF SupReturns
<1>5. CASE Operator \/ OpCrash
  BY <1>5 DEF Operator, OpStarts, OpContinues, OpPackages, OpYields, OpLocks, OpStaged, OpStageFails,
              OpClears, OpGrants, OpCrash
<1>6. CASE Environment
  BY <1>6 DEF Environment, CheckIn, ChildExits, TimePasses, Lost, Rot
<1> QED BY <1>1, <1>2, <1>3, <1>4, <1>5, <1>6 DEF Next, Supervisor, SupWaits, SupPrepares, SupTries, SupReturns

\* The quarantine keeps the failed version, and the lock keeps the operator away.
LEMMA FailedStep == ManagerInv /\ Next => FailedIsQuarantined'
<1> SUFFICES ASSUME ManagerInv, Next PROVE FailedIsQuarantined'
  OBVIOUS
<1>0. FailedIsQuarantined /\ failed \subseteq Versions /\ None \notin Versions /\ LockIsExclusive
  BY VersionTypes, TypeParts DEF RestIsTyped, ManagerInv
<1> USE <1>0, HandledVersions DEF At, Goes, Watches, OpGoes, OpEnds, NoUpdate, Quarantined, LockedSupStages,
        LockedOpStages, SupStates, OpStates, DiskStates, Down, LockIsExclusive, FailedIsQuarantined, opVars,
        history
<1>1. CASE SupWaits
  <2>1. CASE SupStart
    BY <2>1 DEF SupStart
  <2>2. CASE SupLaunch
    BY <2>2 DEF SupLaunch
  <2>3. CASE SupHealthy
    BY <2>3 DEF SupHealthy
  <2>4. CASE SupRelaunch
    BY <2>4 DEF SupRelaunch
  <2>5. CASE SupDecides
    BY <2>5 DEF SupDecides
  <2>6. CASE SupYields
    BY <2>6 DEF SupYields
  <2> QED BY <1>1, <2>1, <2>2, <2>3, <2>4, <2>5, <2>6 DEF SupWaits
<1>2. CASE SupPrepares
  <2>1. CASE SupLocks
    BY <2>1 DEF SupLocks
  <2>2. CASE SupStaged
    BY <2>2 DEF SupStaged
  <2>3. CASE SupStageFails
    BY <2>3 DEF SupStageFails
  <2>4. CASE SupUsesApproval
    BY <2>4 DEF SupUsesApproval
  <2>5. CASE SupApprovalFails
    BY <2>5 DEF SupApprovalFails
  <2>6. CASE SupStops
    BY <2>6 DEF SupStops
  <2> QED BY <1>2, <2>1, <2>2, <2>3, <2>4, <2>5, <2>6 DEF SupPrepares
<1>3. CASE SupTries
  <2>1. CASE SupSwitches
    BY <2>1 DEF SupSwitches
  <2>2. CASE SupProves
    BY <2>2 DEF SupProves
  <2>3. CASE SupCommits
    BY <2>3 DEF SupCommits
  <2>4. CASE SupAdopts
    BY <2>4 DEF SupAdopts
  <2>5. CASE SupProbeFails
    BY <2>5 DEF SupProbeFails
  <2>6. CASE \E persisted \in BOOLEAN : SupCondemns(persisted)
    BY <2>6 DEF SupCondemns
  <2> QED BY <1>3, <2>1, <2>2, <2>3, <2>4, <2>5, <2>6 DEF SupTries
<1>4. CASE SupReturns
  <2>1. CASE SupRestores
    BY <2>1 DEF SupRestores
  <2>2. CASE SupRestored
    BY <2>2 DEF SupRestored
  <2>3. CASE SupRestoreFails
    BY <2>3 DEF SupRestoreFails
  <2>4. CASE SupCrash
    BY <2>4 DEF SupCrash
  <2> QED BY <1>4, <2>1, <2>2, <2>3, <2>4 DEF SupReturns
<1>5. CASE Operator \/ OpCrash
  BY <1>5 DEF Operator, OpStarts, OpContinues, OpPackages, OpYields, OpLocks, OpStaged, OpStageFails,
              OpClears, OpGrants, OpCrash
<1>6. CASE Environment
  BY <1>6 DEF Environment, CheckIn, ChildExits, TimePasses, Lost, Rot
<1> QED BY <1>1, <1>2, <1>3, <1>4, <1>5, <1>6 DEF Next, Supervisor, SupWaits, SupPrepares, SupTries, SupReturns

\* Between its two decisions the supervisor writes nothing, and its child the same advisory.
LEMMA DecisionStep == ManagerInv /\ Next => ("turn" \notin faults'.kinds => DecisionStands')
<1> SUFFICES ASSUME ManagerInv, Next PROVE ("turn" \notin faults'.kinds => DecisionStands')
  OBVIOUS
<1>0. /\ "turn" \notin faults.kinds => DecisionStands
      /\ ChildIsOurs /\ None \notin Versions
      /\ UNCHANGED <<sidecar, sup>> => Decision(sup.active)' = Decision(sup.active)
  BY VersionTypes DEF ManagerInv, ApprovalsAreCounted, Decision
<1> USE <1>0, HandledVersions, FaultsGrow, FaultIsNoted DEF At, Goes, Watches, Launched, NoSidecar,
        LockedSupStages, SupStates, Down, DecisionStands, Decision, ChildIsOurs, ChildStages
<1>1. CASE SupWaits
  <2>1. CASE SupStart
    BY <2>1 DEF SupStart
  <2>2. CASE SupLaunch
    BY <2>2 DEF SupLaunch
  <2>3. CASE SupHealthy
    BY <2>3 DEF SupHealthy
  <2>4. CASE SupRelaunch
    BY <2>4 DEF SupRelaunch
  <2>5. CASE SupDecides
    BY <2>5 DEF SupDecides
  <2>6. CASE SupYields
    BY <2>6 DEF SupYields
  <2> QED BY <1>1, <2>1, <2>2, <2>3, <2>4, <2>5, <2>6 DEF SupWaits
<1>2. CASE SupPrepares
  <2>1. CASE SupLocks
    BY <2>1 DEF SupLocks
  <2>2. CASE SupStaged
    BY <2>2 DEF SupStaged
  <2>3. CASE SupStageFails
    BY <2>3 DEF SupStageFails
  <2>4. CASE SupUsesApproval
    BY <2>4 DEF SupUsesApproval
  <2>5. CASE SupApprovalFails
    BY <2>5 DEF SupApprovalFails
  <2>6. CASE SupStops
    BY <2>6 DEF SupStops
  <2> QED BY <1>2, <2>1, <2>2, <2>3, <2>4, <2>5, <2>6 DEF SupPrepares
<1>3. CASE SupTries
  <2>1. CASE SupSwitches
    BY <2>1 DEF SupSwitches
  <2>2. CASE SupProves
    BY <2>2 DEF SupProves
  <2>3. CASE SupCommits
    BY <2>3 DEF SupCommits
  <2>4. CASE SupAdopts
    BY <2>4 DEF SupAdopts
  <2>5. CASE SupProbeFails
    BY <2>5 DEF SupProbeFails
  <2>6. CASE \E persisted \in BOOLEAN : SupCondemns(persisted)
    BY <2>6 DEF SupCondemns
  <2> QED BY <1>3, <2>1, <2>2, <2>3, <2>4, <2>5, <2>6 DEF SupTries
<1>4. CASE SupReturns
  <2>1. CASE SupRestores
    BY <2>1 DEF SupRestores
  <2>2. CASE SupRestored
    BY <2>2 DEF SupRestored
  <2>3. CASE SupRestoreFails
    BY <2>3 DEF SupRestoreFails
  <2>4. CASE SupCrash
    BY <2>4 DEF SupCrash
  <2> QED BY <1>4, <2>1, <2>2, <2>3, <2>4 DEF SupReturns
<1>5. CASE Operator \/ OpCrash
  BY <1>5 DEF Operator, OpStarts, OpContinues, OpPackages, OpYields, OpLocks, OpStaged, OpStageFails,
              OpClears, OpGrants, OpCrash
<1>6. CASE Environment
  BY <1>6 DEF Environment, CheckIn, ChildExits, TimePasses, Lost, Rot
<1> QED BY <1>1, <1>2, <1>3, <1>4, <1>5, <1>6 DEF Next, Supervisor, SupWaits, SupPrepares, SupTries, SupReturns

\* The approval that was seen is the candidate's, and cleared.
LEMMA ClearedStep == ManagerInv /\ Next => ("turn" \notin faults'.kinds => ApprovalIsCleared')
<1> SUFFICES ASSUME ManagerInv, Next PROVE ("turn" \notin faults'.kinds => ApprovalIsCleared')
  OBVIOUS
<1>0. /\ "turn" \notin faults.kinds => DecisionStands /\ ApprovalIsCleared
      /\ None \notin Versions /\ LockIsExclusive
  BY VersionTypes DEF ManagerInv, ApprovalsAreCounted
<1> USE <1>0, HandledVersions, FaultsGrow DEF At, Goes, Watches, LockedSupStages, LockedOpStages, SupStates,
        DiskStates, Down, LockIsExclusive, DecisionStands, ApprovalIsCleared, history, opVars
<1>1. CASE SupWaits
  <2>1. CASE SupStart
    BY <2>1 DEF SupStart
  <2>2. CASE SupLaunch
    BY <2>2 DEF SupLaunch
  <2>3. CASE SupHealthy
    BY <2>3 DEF SupHealthy
  <2>4. CASE SupRelaunch
    BY <2>4 DEF SupRelaunch
  <2>5. CASE SupDecides
    BY <2>5 DEF SupDecides
  <2>6. CASE SupYields
    BY <2>6 DEF SupYields
  <2> QED BY <1>1, <2>1, <2>2, <2>3, <2>4, <2>5, <2>6 DEF SupWaits
<1>2. CASE SupPrepares
  <2>1. CASE SupLocks
    BY <2>1 DEF SupLocks
  <2>2. CASE SupStaged
    BY <2>2 DEF SupStaged
  <2>3. CASE SupStageFails
    BY <2>3 DEF SupStageFails
  <2>4. CASE SupUsesApproval
    BY <2>4 DEF SupUsesApproval
  <2>5. CASE SupApprovalFails
    BY <2>5 DEF SupApprovalFails
  <2>6. CASE SupStops
    BY <2>6 DEF SupStops
  <2> QED BY <1>2, <2>1, <2>2, <2>3, <2>4, <2>5, <2>6 DEF SupPrepares
<1>3. CASE SupTries
  <2>1. CASE SupSwitches
    BY <2>1 DEF SupSwitches
  <2>2. CASE SupProves
    BY <2>2 DEF SupProves
  <2>3. CASE SupCommits
    BY <2>3 DEF SupCommits
  <2>4. CASE SupAdopts
    BY <2>4 DEF SupAdopts
  <2>5. CASE SupProbeFails
    BY <2>5 DEF SupProbeFails
  <2>6. CASE \E persisted \in BOOLEAN : SupCondemns(persisted)
    BY <2>6 DEF SupCondemns
  <2> QED BY <1>3, <2>1, <2>2, <2>3, <2>4, <2>5, <2>6 DEF SupTries
<1>4. CASE SupReturns
  <2>1. CASE SupRestores
    BY <2>1 DEF SupRestores
  <2>2. CASE SupRestored
    BY <2>2 DEF SupRestored
  <2>3. CASE SupRestoreFails
    BY <2>3 DEF SupRestoreFails
  <2>4. CASE SupCrash
    BY <2>4 DEF SupCrash
  <2> QED BY <1>4, <2>1, <2>2, <2>3, <2>4 DEF SupReturns
<1>5. CASE Operator \/ OpCrash
  BY <1>5 DEF Operator, OpStarts, OpContinues, OpPackages, OpYields, OpLocks, OpStaged, OpStageFails,
              OpClears, OpGrants, OpCrash
<1>6. CASE Environment
  BY <1>6 DEF Environment, CheckIn, ChildExits, TimePasses, Lost, Rot
<1> QED BY <1>1, <1>2, <1>3, <1>4, <1>5, <1>6 DEF Next, Supervisor, SupWaits, SupPrepares, SupTries, SupReturns

\* An approval, on disk or held, leaves one launch; its grant adds one.
LEMMA LaunchStep == ManagerInv /\ Next => ("turn" \notin faults'.kinds => LaunchesAreLeft')
<1> SUFFICES ASSUME ManagerInv, Next PROVE ("turn" \notin faults'.kinds => LaunchesAreLeft')
  OBVIOUS
<1>0. /\ "turn" \notin faults.kinds => DecisionStands /\ ApprovalIsCleared /\ LaunchesAreLeft
      /\ None \notin Versions /\ granted \in [Versions -> Nat] /\ used \in [Versions -> Nat]
  BY VersionTypes, TypeParts DEF RestIsTyped, ManagerInv, ApprovalsAreCounted
<1> USE <1>0, HandledVersions, FaultsGrow DEF At, Goes, Watches, Owed, LockedSupStages, LockedOpStages,
        SupStates, DiskStates, Down, LaunchesAreLeft, ApprovalIsCleared, history, opVars
<1>1. CASE SupWaits
  <2>1. CASE SupStart
    BY <2>1 DEF SupStart
  <2>2. CASE SupLaunch
    BY <2>2 DEF SupLaunch
  <2>3. CASE SupHealthy
    BY <2>3 DEF SupHealthy
  <2>4. CASE SupRelaunch
    BY <2>4 DEF SupRelaunch
  <2>5. CASE SupDecides
    BY <2>5 DEF SupDecides
  <2>6. CASE SupYields
    BY <2>6 DEF SupYields
  <2> QED BY <1>1, <2>1, <2>2, <2>3, <2>4, <2>5, <2>6 DEF SupWaits
<1>2. CASE SupPrepares
  <2>1. CASE SupLocks
    BY <2>1 DEF SupLocks
  <2>2. CASE SupStaged
    BY <2>2 DEF SupStaged
  <2>3. CASE SupStageFails
    BY <2>3 DEF SupStageFails
  <2>4. CASE SupUsesApproval
    BY <2>4 DEF SupUsesApproval
  <2>5. CASE SupApprovalFails
    BY <2>5 DEF SupApprovalFails
  <2>6. CASE SupStops
    BY <2>6 DEF SupStops
  <2> QED BY <1>2, <2>1, <2>2, <2>3, <2>4, <2>5, <2>6 DEF SupPrepares
<1>3. CASE SupTries
  <2>1. CASE SupSwitches
    BY <2>1 DEF SupSwitches
  <2>2. CASE SupProves
    BY <2>2 DEF SupProves
  <2>3. CASE SupCommits
    BY <2>3 DEF SupCommits
  <2>4. CASE SupAdopts
    BY <2>4 DEF SupAdopts
  <2>5. CASE SupProbeFails
    BY <2>5 DEF SupProbeFails
  <2>6. CASE \E persisted \in BOOLEAN : SupCondemns(persisted)
    BY <2>6 DEF SupCondemns
  <2> QED BY <1>3, <2>1, <2>2, <2>3, <2>4, <2>5, <2>6 DEF SupTries
<1>4. CASE SupReturns
  <2>1. CASE SupRestores
    BY <2>1 DEF SupRestores
  <2>2. CASE SupRestored
    BY <2>2 DEF SupRestored
  <2>3. CASE SupRestoreFails
    BY <2>3 DEF SupRestoreFails
  <2>4. CASE SupCrash
    BY <2>4 DEF SupCrash
  <2> QED BY <1>4, <2>1, <2>2, <2>3, <2>4 DEF SupReturns
<1>5. CASE Operator \/ OpCrash
  BY <1>5 DEF Operator, OpStarts, OpContinues, OpPackages, OpYields, OpLocks, OpStaged, OpStageFails,
              OpClears, OpGrants, OpCrash
<1>6. CASE Environment
  BY <1>6 DEF Environment, CheckIn, ChildExits, TimePasses, Lost, Rot
<1> QED BY <1>1, <1>2, <1>3, <1>4, <1>5, <1>6 DEF Next, Supervisor, SupWaits, SupPrepares, SupTries, SupReturns

LEMMA ManagerStep == ManagerInv /\ [Next]_vars => ManagerInv'
<1> SUFFICES ASSUME ManagerInv, [Next]_vars PROVE ManagerInv'
  OBVIOUS
<1>1. CASE Next
  <2>1. /\ disk' \in DiskStates /\ sidecar' \in SidecarStates /\ sup' \in SupStates /\ op' \in OpStates
        /\ lock' \in {"none", "sup", "op"}
        /\ RestIsTyped'
    BY <1>1, DiskType, SidecarType, SupType, OpType, RestType, LockStep
  <2>2. ChildIsOurs' /\ MarkerIsActive'
    BY <1>1, ChildStep, ActiveStep
  <2>3. (sup.at = "down" => child = None)'
    BY <2>2 DEF ChildIsOurs
  <2>4. TypeOK'
    BY <2>1, <2>3 DEF TypeOK, DiskStates, SidecarStates, SupStates, OpStates, RestIsTyped, MaybeVersion
  <2>5. MarkerIsProven' /\ RunningTreeIsIntact' /\ FailedIsQuarantined' /\ LockIsExclusive'
    BY <1>1, ProvenStep, TreeStep, FailedStep, LockStep
  <2>6. ApprovalsAreCounted'
    BY <1>1, DecisionStep, ClearedStep, LaunchStep DEF ApprovalsAreCounted
  <2> QED BY <2>2, <2>4, <2>5, <2>6 DEF ManagerInv
<1>2. CASE UNCHANGED vars
  BY <1>2 DEF vars, opVars, history, ManagerInv, TypeOK, LockIsExclusive, MarkerIsProven, RunningTreeIsIntact,
              Runnable, ChildIsOurs, MarkerIsActive, FailedIsQuarantined, Quarantined, ApprovalsAreCounted,
              DecisionStands, Decision, ApprovalIsCleared, LaunchesAreLeft, Owed
<1> QED BY <1>1, <1>2

LEMMA ManagerAlways == Spec => []ManagerInv
BY ManagerInit, ManagerStep, PTL DEF Spec


\* Whenever the supervisor is killed, its successor finds a typed state, one
\* holder of the update lock, a marker that was proven, and the running
\* gateway's tree in place (updateRunning, stage, initialize).
THEOREM RestartStaysSafe == Spec => []RestartIsSafe
<1>1. ManagerInv => RestartIsSafe
  BY DEF ManagerInv, RestartIsSafe
<1> QED BY <1>1, ManagerAlways, PTL

\* A version is launched on an approval at most as often as the operator
\* approved it (applyManualApproval, clearManualApproval), unless the advisory
\* turns between the two decisions of updateRunning.
THEOREM ApprovalsAreOneShot == Spec => []ApprovalIsOneShot
<1>1. ManagerInv => ApprovalIsOneShot
  <2> SUFFICES ASSUME ManagerInv, "turn" \notin faults.kinds, NEW v \in Versions PROVE used[v] <= granted[v]
    BY DEF ApprovalIsOneShot
  <2>1. IF disk.approval = v \/ Owed(v) THEN used[v] < granted[v] ELSE used[v] <= granted[v]
    BY DEF ManagerInv, ApprovalsAreCounted, LaunchesAreLeft
  <2>2. used[v] \in Nat /\ granted[v] \in Nat
    BY TypeParts DEF ManagerInv, RestIsTyped
  <2> QED BY <2>1, <2>2
<1> QED BY <1>1, ManagerAlways, PTL

\* A start and a commit write active.json forward.
LEMMA MarkerGoesBack ==
    ManagerInv /\ Next =>
      (disk'.marker < disk.marker => disk'.marker = None \/ (disk'.marker = Boot /\ op.at = "packaging"))
<1> SUFFICES ASSUME ManagerInv, Next, disk'.marker # None, ~(disk'.marker = Boot /\ op.at = "packaging")
             PROVE disk.marker <= disk'.marker
  <2> QED BY DiskType, HandledVersions DEF DiskStates, MaybeVersion
<1>0. disk.marker \in Nat /\ MarkerIsActive
  BY HandledVersions, VersionsAssumption DEF DiskStates, MaybeVersion, ManagerInv
<1> USE <1>0, HandledVersions DEF DiskStates, history
<1>1. CASE SupWaits
  <2>1. CASE SupStart
    BY <2>1 DEF SupStart
  <2> QED BY <1>1, <2>1 DEF SupWaits, SupLaunch, SupHealthy, SupRelaunch, SupDecides, SupYields
<1>2. CASE SupPrepares
  BY <1>2 DEF SupPrepares, SupLocks, SupStaged, SupStageFails, SupUsesApproval, SupApprovalFails, SupStops
<1>3. CASE SupTries
  <2>1. CASE SupCommits
    <3>1. /\ disk.marker \in {None, Boot, sup.active} /\ Boot <= sup.active /\ sup.active < sup.candidate
          /\ sup.active \in Nat /\ sup.candidate \in Nat
      BY <2>1, VersionsAssumption DEF SupCommits, At, MarkerIsActive, LockedSupStages, Versions
    <3> QED BY <2>1, <3>1, VersionsAssumption DEF SupCommits, None, Versions
  <2> QED BY <1>3, <2>1 DEF SupTries, SupSwitches, SupProves, SupAdopts, SupProbeFails, SupCondemns
<1>4. CASE SupReturns
  BY <1>4 DEF SupReturns, SupRestores, SupRestored, SupRestoreFails, SupCrash
<1>5. CASE Operator \/ OpCrash
  BY <1>5 DEF Operator, OpStarts, OpContinues, OpPackages, OpYields, OpLocks, OpStaged, OpStageFails,
              OpClears, OpGrants, OpCrash
<1>6. CASE Environment
  BY <1>6 DEF Environment, CheckIn, ChildExits, TimePasses, Lost, Rot
<1> QED BY <1>1, <1>2, <1>3, <1>4, <1>5, <1>6 DEF Next, Supervisor, SupWaits, SupPrepares, SupTries, SupReturns

\* A supervisor starts from the marker, keeps its version and adopts a newer one.
LEMMA ActiveGrows ==
    ManagerInv /\ Next =>
      (sup'.at # "down" => (IF sup.at = "down" THEN disk.marker ELSE sup.active) <= sup'.active)
<1> SUFFICES ASSUME ManagerInv, Next, sup'.at # "down"
             PROVE (IF sup.at = "down" THEN disk.marker ELSE sup.active) <= sup'.active
  OBVIOUS
<1>0. sup \in SupStates /\ sup.active \in Nat /\ MarkerIsActive
  BY HandledVersions, VersionsAssumption DEF SupStates, MaybeVersion, ManagerInv
<1>1. CASE SupStart
  <2>1. sup.at = "down" /\ sup'.active = Initialize /\ disk.marker <= Initialize
    BY <1>1, HandledVersions DEF SupStart, At, Down
  <2> QED BY <2>1
<1>2. CASE SupAdopts
  <2>1. sup.at = "adopting" /\ sup'.active = sup.candidate
    BY <1>2 DEF SupAdopts, Watches, At, Down
  <2>2. sup.active < sup.candidate /\ sup.candidate \in Nat
    BY <1>0, <2>1, HandledVersions, VersionsAssumption DEF MarkerIsActive, LockedSupStages, Versions
  <2> QED BY <1>0, <2>1, <2>2
<1>3. CASE sup.at # "down" /\ sup'.active = sup.active
  BY <1>0, <1>3
<1>4. ASSUME ~SupStart, ~SupAdopts PROVE sup.at # "down" /\ sup'.active = sup.active
  <2> USE <1>0, <1>4 DEF At, Goes, Watches, SupStates, Down, opVars, history
  <2>1. CASE SupWaits
    BY <2>1 DEF SupWaits, SupLaunch, SupHealthy, SupRelaunch, SupDecides, SupYields
  <2>2. CASE SupPrepares
    BY <2>2 DEF SupPrepares, SupLocks, SupStaged, SupStageFails, SupUsesApproval, SupApprovalFails, SupStops
  <2>3. CASE SupTries
    BY <2>3 DEF SupTries, SupSwitches, SupProves, SupCommits, SupProbeFails, SupCondemns
  <2>4. CASE SupReturns
    <3>1. CASE SupRestores
      BY <3>1 DEF SupRestores
    <3>2. CASE SupRestored
      BY <3>2 DEF SupRestored
    <3>3. CASE SupRestoreFails
      BY <3>3 DEF SupRestoreFails
    <3>4. CASE SupCrash
      BY <3>4 DEF SupCrash
    <3> QED BY <2>4, <3>1, <3>2, <3>3, <3>4 DEF SupReturns
  <2>5. CASE Operator \/ OpCrash
    <3>1. sup' = sup
      BY ONLY <2>5 DEF Operator, OpStarts, OpPackages, OpYields, OpLocks, OpStaged, OpStageFails, OpClears,
                       OpGrants, OpCrash
    <3> QED BY <3>1
  <2>6. CASE Environment
    BY <2>6 DEF Environment, CheckIn, ChildExits, TimePasses, Lost, Rot
  <2> QED BY <2>1, <2>2, <2>3, <2>4, <2>5, <2>6 DEF Next, Supervisor, SupWaits, SupPrepares, SupTries, SupReturns
<1> QED BY <1>1, <1>2, <1>3, <1>4

\* A supervisor never goes back while it runs nor starts from less than
\* active.json names; active.json goes back only when it is lost, or to the
\* packaged version by an update() that found none; and no version that failed
\* its probation is launched on another one while its quarantine stands
\* (initialize, update, readQuarantine, updateRunning).
THEOREM NeverBack == Spec => NoWayBack
<1>1. ManagerInv /\ [Next]_vars =>
        [/\ disk'.marker < disk.marker =>
              disk'.marker = None \/ (disk'.marker = Boot /\ op.at = "packaging")
         /\ sup'.at # "down" => (IF sup.at = "down" THEN disk.marker ELSE sup.active) <= sup'.active
         /\ sup.at = "switching" /\ sup'.at = "probing" => sup.candidate \notin failed]_<<disk, sup>>
  <2> SUFFICES ASSUME ManagerInv, Next
               PROVE  /\ disk'.marker < disk.marker =>
                           disk'.marker = None \/ (disk'.marker = Boot /\ op.at = "packaging")
                      /\ sup'.at # "down" =>
                           (IF sup.at = "down" THEN disk.marker ELSE sup.active) <= sup'.active
                      /\ sup.at = "switching" => sup.candidate \notin failed
    BY DEF vars
  <2> QED BY MarkerGoesBack, ActiveGrows DEF ManagerInv, FailedIsQuarantined
<1> QED BY <1>1, ManagerAlways, PTL DEF Spec, NoWayBack
=============================================================================
