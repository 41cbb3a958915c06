--------------------------- MODULE RuntimeManager ---------------------------
(***************************************************************************)
(* The Runtime Manager of integrations/gateway/src/runtime-manager.ts: a   *)
(* supervisor (run, updateRunning) that owns the gateway process, installs *)
(* a recommended version, health-checks it and rolls back, beside the      *)
(* operator's one-shot update().  They are two processes that share a      *)
(* directory and two lock files; an action is the code one of them runs    *)
(* between two writes that the other, or a restart, can see.               *)
(*                                                                         *)
(* A version is its rank among the versions.  The sidecar is the file in   *)
(* which a gateway process leaves the advisory of its last check-in.       *)
(***************************************************************************)
EXTENDS Naturals

CONSTANTS
    Newest,        \* the versions are 1 .. Newest
    Boot,          \* bootstrapVersion, packaged with the manager
    Line,          \* the compatibility line of each version
    Advisories,    \* what the relay may recommend
    LocalPolicy,   \* localPolicy
    Bad,           \* versions that never get healthy
    MaxUpdates,    \* bound on calls of update()
    MaxFaults      \* bound on faults

Versions == 1 .. Newest
None == 0
Policies == {"NOTIFY", "SECURITY", "COMPATIBLE"}
AllAdvisories == [version : Versions, policy : Policies, security : BOOLEAN]

ASSUME VersionsAssumption ==
    /\ Newest \in Nat /\ Boot \in Versions
    /\ Line \in [Versions -> Nat] /\ Bad \subseteq Versions \ {Boot}
ASSUME AdvisoriesAssumption == Advisories \subseteq AllAdvisories /\ LocalPolicy \in Policies
ASSUME FaultsAssumption == MaxUpdates \in Nat /\ MaxFaults \in Nat

VARIABLES
    disk,      \* active.json, quarantine.json, staging-retry.json, manual-approval.json
    trees,     \* versions whose verified tree is in versions/
    sidecar,   \* the update status file; mine: by the supervisor's own child
    sup,       \* the supervisor: where it is and what it holds in memory
    child,     \* version of the running gateway process
    op,        \* the operator's update()
    lock,      \* holder of update.lock
    proven,    \* history: versions that passed a probation
    failed,    \* history: versions that failed one and were not excused
    granted, used,   \* history: approvals of a version, and launches on one
    updates, faults  \* counter of update() calls; faults so far, and which of Noted

opVars == <<op, updates>>
history == <<proven, failed, granted, used>>
vars == <<disk, trees, sidecar, sup, child, lock, opVars, history, faults>>

NoSidecar == [version |-> None]
Down == [at |-> "down", active |-> None, candidate |-> None, seen |-> None,
         onApproval |-> FALSE, volatile |-> None]
NoUpdate == [at |-> "idle", candidate |-> None, notify |-> FALSE, retrying |-> FALSE]

\* The stages in which updateRunning and update() hold the update lock.
LockedSupStages == {"staging", "approving", "stopping", "switching", "probing", "committing",
                    "adopting", "condemning", "restoring", "rechecking"}
LockedOpStages == {"staging", "clearing", "granting"}
SupStages == {"down", "launching", "checking", "watching", "locking"} \cup LockedSupStages
OpStages == {"idle", "packaging", "locking"} \cup LockedOpStages
\* Faults that some properties excuse.
Noted == {"rot", "turn"}

TypeOK ==
    /\ disk \in [marker : 0 .. Newest, quarantine : 0 .. Newest,
                 retry : 0 .. Newest, approval : 0 .. Newest]
    /\ trees \subseteq Versions /\ child \in 0 .. Newest
    /\ sidecar \in {NoSidecar} \cup [version : Versions, advice : Advisories, mine : BOOLEAN]
    /\ sup \in [at : SupStages, active : 0 .. Newest, candidate : 0 .. Newest,
                seen : 0 .. Newest, onApproval : BOOLEAN, volatile : 0 .. Newest]
    /\ op \in [at : OpStages, candidate : 0 .. Newest, notify : BOOLEAN, retrying : BOOLEAN]
    /\ lock \in {"none", "sup", "op"} /\ (sup.at = "down" => child = None)
    /\ proven \subseteq Versions /\ failed \subseteq Versions
    /\ granted \in [Versions -> Nat] /\ used \in [Versions -> Nat]
    /\ updates \in 0 .. MaxUpdates /\ faults \in [n : 0 .. MaxFaults, kinds : SUBSET Noted]

-----------------------------------------------------------------------------
(* Decisions.                                                              *)

Rank == [NOTIFY |-> 0, SECURITY |-> 1, COMPATIBLE |-> 2]

PolicyAtMost(a, b) == IF Rank[a] <= Rank[b] THEN a ELSE b

\* decideRuntimeUpdate, on the advisory in the sidecar.
Decision(active) ==
    IF sidecar = NoSidecar THEN "NONE"
    ELSE LET advice == sidecar.advice
             policy == PolicyAtMost(LocalPolicy, advice.policy)
         IN  IF sidecar.version # active \/ advice.version <= active THEN "NONE"
             ELSE IF \/ policy = "NOTIFY"
                     \/ policy = "SECURITY" /\ ~advice.security
                     \/ policy = "COMPATIBLE" /\ Line[active] # Line[advice.version]
             THEN "NOTIFY" ELSE "UPDATE"

\* readQuarantine, in the supervisor's process.
Quarantined == IF sup.volatile # None THEN sup.volatile ELSE disk.quarantine

\* applyManualApproval.
Allowed(active) ==
    \/ Decision(active) = "UPDATE"
    \/ Decision(active) = "NOTIFY" /\ disk.approval = sidecar.advice.version

\* Mutation: the quarantine is not looked at.
PermitsQuarantined(active) ==
    /\ sidecar # NoSidecar /\ sidecar.mine
    /\ Allowed(active)
    /\ disk.retry # sidecar.advice.version

\* The decision of updateRunning is UPDATE: the own child's advisory, or one
\* approval for exactly its version, and neither quarantine nor backoff.
Permits(active) ==
    /\ sidecar # NoSidecar /\ sidecar.mine
    /\ Allowed(active)
    /\ sidecar.advice.version \notin {Quarantined, disk.retry}

\* validateLaunchMarker.
Runnable(v) == v = Boot \/ v \in trees

\* Mutation: also a version whose tree is damaged gives way to the packaged one.
InitializeAnyway == IF disk.marker # None /\ Runnable(disk.marker) THEN disk.marker ELSE Boot

\* initialize(): the marker it returns and leaves on disk, None if it throws.
\* A marker that is missing or cannot be parsed reads as None.
Initialize ==
    IF disk.marker # None /\ Runnable(disk.marker) THEN disk.marker
    ELSE IF disk.marker <= Boot THEN Boot ELSE None

-----------------------------------------------------------------------------
(* The supervisor.                                                         *)

Fault(kind) ==
    /\ faults.n < MaxFaults
    /\ faults' = [n |-> faults.n + 1, kinds |-> faults.kinds \cup ({kind} \cap Noted)]

At(stage) == sup.at = stage
Goes(stage) == sup' = [sup EXCEPT !.at = stage]

\* Back to the loop of run(), with the update lock released.
Watches(active, volatile) ==
    /\ sup' = [Down EXCEPT !.at = "watching", !.active = active, !.volatile = volatile]
    /\ lock' = IF lock = "sup" THEN "none" ELSE lock

\* A new process writes nothing yet: what the sidecar says is not from it.
Launched(v) ==
    /\ child' = v
    /\ sidecar' = IF sidecar = NoSidecar THEN sidecar ELSE [sidecar EXCEPT !.mine = FALSE]

\* run(), under the supervisor's lock.
SupStart ==
    /\ At("down") /\ Initialize # None
    /\ disk' = [disk EXCEPT !.marker = Initialize]
    /\ sup' = [Down EXCEPT !.at = "launching", !.active = Initialize]
    /\ UNCHANGED <<trees, sidecar, child, lock, opVars, history, faults>>

SupLaunch ==
    /\ At("launching") /\ Runnable(sup.active)
    /\ Launched(sup.active)
    /\ Goes("checking")
    /\ UNCHANGED <<disk, trees, lock, opVars, history, faults>>

SupHealthy ==
    /\ At("checking") /\ child = sup.active
    /\ Goes("watching")
    /\ UNCHANGED <<disk, trees, sidecar, child, lock, opVars, history, faults>>

\* A health check ends without success: the process is gone or did not answer.
Unhealthy == IF child = None THEN UNCHANGED faults ELSE Fault("flake")

\* Mutation: nobody looks whether the child exited.
SupRelaunchUnseen ==
    /\ At("checking") /\ Unhealthy
    /\ child' = None
    /\ Goes("launching")
    /\ UNCHANGED <<disk, trees, sidecar, lock, opVars, history>>

\* ... or the child exited while it was watched.
SupRelaunch ==
    /\ \/ At("checking") /\ Unhealthy
       \/ At("watching") /\ child = None /\ UNCHANGED faults
    /\ child' = None
    /\ Goes("launching")
    /\ UNCHANGED <<disk, trees, sidecar, lock, opVars, history>>

\* updateRunning up to the update lock.
SupDecides ==
    /\ At("watching") /\ Runnable(sup.active) /\ Permits(sup.active)
    /\ sup' = [sup EXCEPT !.at = "locking", !.seen = disk.approval]
    /\ UNCHANGED <<disk, trees, sidecar, child, lock, opVars, history, faults>>

\* Another process has the lock, or the decision does not stand any more.
SupYields ==
    /\ At("locking")
    /\ lock # "none" \/ ~Permits(sup.active) \/ ~Runnable(sup.active)
    /\ Watches(sup.active, sup.volatile)
    /\ UNCHANGED <<disk, trees, sidecar, child, opVars, history, faults>>

\* The decision is taken again under the lock; stage() removes the old tree.
SupLocks ==
    /\ At("locking") /\ lock = "none" /\ Permits(sup.active) /\ Runnable(sup.active)
    /\ lock' = "sup"
    /\ sup' = [sup EXCEPT !.at = "staging", !.candidate = sidecar.advice.version,
                          !.onApproval = Decision(sup.active) = "NOTIFY"]
    /\ trees' = trees \ {sidecar.advice.version}
    /\ UNCHANGED <<disk, sidecar, child, opVars, history, faults>>

SupStaged ==
    /\ At("staging")
    /\ trees' = trees \cup {sup.candidate}
    /\ disk' = [disk EXCEPT !.retry = None]
    /\ Goes("approving")
    /\ UNCHANGED <<sidecar, child, lock, opVars, history, faults>>

SupStageFails ==
    /\ At("staging") /\ Fault("stage")
    /\ disk' = [disk EXCEPT !.retry = sup.candidate]
    /\ Watches(sup.active, sup.volatile)
    /\ UNCHANGED <<trees, sidecar, child, opVars, history>>

\* Mutation: the approval stays.
SupKeepsApproval ==
    /\ At("approving")
    /\ Goes("stopping")
    /\ UNCHANGED <<disk, trees, sidecar, child, lock, opVars, history, faults>>

\* The approval that was read before the lock is used up.
SupUsesApproval ==
    /\ At("approving")
    /\ disk' = [disk EXCEPT !.approval = IF sup.seen = sup.candidate THEN None ELSE @]
    /\ Goes("stopping")
    /\ UNCHANGED <<trees, sidecar, child, lock, opVars, history, faults>>

\* It cannot be removed: nothing was stopped yet, updateRunning throws.
SupApprovalFails ==
    /\ At("approving") /\ sup.seen = sup.candidate /\ Fault("save")
    /\ Watches(sup.active, sup.volatile)
    /\ UNCHANGED <<disk, trees, sidecar, child, opVars, history>>

SupStops ==
    /\ At("stopping")
    /\ child' = None
    /\ Goes("switching")
    /\ UNCHANGED <<disk, trees, sidecar, lock, opVars, history, faults>>

\* Mutation: the marker is written before the candidate runs.
SupCommitsEarly ==
    /\ At("switching") /\ Runnable(sup.candidate)
    /\ disk' = [disk EXCEPT !.marker = sup.candidate]
    /\ Launched(sup.candidate)
    /\ Goes("probing")
    /\ UNCHANGED <<trees, lock, opVars, history, faults>>

SupSwitches ==
    /\ At("switching") /\ Runnable(sup.candidate)
    /\ Launched(sup.candidate)
    /\ used' = IF sup.onApproval THEN [used EXCEPT ![sup.candidate] = @ + 1] ELSE used
    /\ Goes("probing")
    /\ UNCHANGED <<disk, trees, lock, opVars, proven, failed, granted, faults>>

\* Three health checks of this process, and a check-in of its own.
SupProves ==
    /\ At("probing") /\ child = sup.candidate /\ child \notin Bad /\ sidecar.mine
    /\ proven' = proven \cup {child}
    /\ Goes("committing")
    /\ UNCHANGED <<disk, trees, sidecar, child, lock, opVars, failed, granted, used, faults>>

SupCommits ==
    /\ At("committing")
    /\ disk' = [disk EXCEPT !.marker = sup.candidate]
    /\ Goes("adopting")
    /\ UNCHANGED <<trees, sidecar, child, lock, opVars, history, faults>>

\* clearQuarantine, whose failure is only logged, and the candidate is active.
SupAdopts ==
    /\ At("adopting")
    /\ \/ disk' = [disk EXCEPT !.quarantine = None] /\ UNCHANGED faults
       \/ Fault("save") /\ UNCHANGED disk
    /\ Watches(sup.candidate, None)
    /\ failed' = {}
    /\ UNCHANGED <<trees, sidecar, child, opVars, proven, granted, used>>

\* The probation fails: no tree, no health, or the marker cannot be written.
SupProbeFails ==
    /\ \/ At("switching") /\ ~Runnable(sup.candidate) /\ UNCHANGED faults
       \/ At("probing") /\ child \in Bad /\ UNCHANGED faults
       \/ At("probing") /\ child \notin Bad /\ Unhealthy
       \/ At("committing") /\ Fault("save")
    /\ child' = None
    /\ Goes("condemning")
    /\ UNCHANGED <<disk, trees, sidecar, lock, opVars, history>>

\* writeQuarantine: in memory in any case, on disk if it can.
SupCondemns(persisted) ==
    /\ At("condemning")
    /\ IF persisted
       THEN disk' = [disk EXCEPT !.quarantine = sup.candidate] /\ UNCHANGED faults
       ELSE Fault("save") /\ UNCHANGED disk
    /\ sup' = [sup EXCEPT !.at = "restoring", !.volatile = sup.candidate]
    /\ failed' = {sup.candidate}
    /\ UNCHANGED <<trees, sidecar, child, lock, opVars, proven, granted, used>>

SupRestores ==
    /\ At("restoring") /\ Runnable(sup.active)
    /\ Launched(sup.active)
    /\ Goes("rechecking")
    /\ UNCHANGED <<disk, trees, lock, opVars, history, faults>>

SupRestored ==
    /\ At("rechecking") /\ child = sup.active
    /\ Watches(sup.active, sup.volatile)
    /\ UNCHANGED <<disk, trees, sidecar, child, opVars, history, faults>>

\* updateRunning throws; the loop of run() sees a child that has exited.
SupRestoreFails ==
    /\ \/ At("restoring") /\ ~Runnable(sup.active) /\ UNCHANGED faults
       \/ At("rechecking") /\ Unhealthy
    /\ Launched(None)
    /\ Watches(sup.active, sup.volatile)
    /\ UNCHANGED <<disk, trees, opVars, history>>

\* The supervisor dies or is stopped: its locks lapse, its child sees the end
\* of the IPC channel and exits, the quarantine in memory is gone.
SupCrash ==
    /\ ~At("down") /\ Fault("crash")
    /\ sup' = Down
    /\ Launched(None)
    /\ lock' = IF lock = "sup" THEN "none" ELSE lock
    /\ failed' = failed \cap {disk.quarantine}
    /\ UNCHANGED <<disk, trees, opVars, proven, granted, used>>

Supervisor ==
    \/ SupStart \/ SupLaunch \/ SupHealthy \/ SupRelaunch
    \/ SupDecides \/ SupYields \/ SupLocks \/ SupStaged \/ SupStageFails
    \/ SupUsesApproval \/ SupApprovalFails
    \/ SupStops \/ SupSwitches \/ SupProves \/ SupCommits \/ SupAdopts
    \/ SupProbeFails \/ \E persisted \in BOOLEAN : SupCondemns(persisted)
    \/ SupRestores \/ SupRestored \/ SupRestoreFails

-----------------------------------------------------------------------------
(* The operator's update().                                                *)

OpGoes(stage) == op' = [op EXCEPT !.at = stage]
OpEnds == op' = NoUpdate /\ lock' = IF lock = "op" THEN "none" ELSE lock

\* The supervisor's lock is free and there is something to update to.
OpContinues(active) == At("down") /\ Decision(active) # "NONE"

\* The first initialize() takes no lock and runs also beside a supervisor; the
\* packaged version that it writes for want of a marker is a later step.
OpStarts ==
    /\ op.at = "idle" /\ updates < MaxUpdates
    /\ Initialize # None
    /\ IF Initialize # disk.marker THEN OpGoes("packaging")
       ELSE OpContinues(Initialize) /\ OpGoes("locking")
    /\ updates' = updates + 1
    /\ UNCHANGED <<disk, trees, sidecar, sup, child, lock, history, faults>>

\* Whatever the marker says by now.
OpPackages ==
    /\ op.at = "packaging"
    /\ disk' = [disk EXCEPT !.marker = Boot]
    /\ IF OpContinues(Boot) THEN OpGoes("locking") /\ UNCHANGED lock ELSE OpEnds
    /\ UNCHANGED <<trees, sidecar, sup, child, updates, history, faults>>

\* Under the update lock the same is asked again.
OpYields ==
    /\ op.at = "locking"
    /\ \/ (lock # "none" \/ ~At("down") \/ Initialize = None) /\ UNCHANGED disk
       \/ /\ lock = "none" /\ Initialize # None /\ Decision(Initialize) = "NONE"
          /\ At("down") /\ disk' = [disk EXCEPT !.marker = Initialize]
    /\ OpEnds
    /\ UNCHANGED <<trees, sidecar, sup, child, updates, history, faults>>

OpLocks ==
    /\ op.at = "locking" /\ lock = "none"
    /\ Initialize # None /\ OpContinues(Initialize)
    /\ lock' = "op"
    /\ disk' = [disk EXCEPT !.marker = Initialize]
    /\ LET v == sidecar.advice.version IN
        /\ op' = [at |-> "staging", candidate |-> v, notify |-> Decision(Initialize) = "NOTIFY",
                  retrying |-> disk.quarantine = v]
        /\ trees' = trees \ {v}
    /\ UNCHANGED <<sidecar, sup, child, updates, history, faults>>

OpStaged ==
    /\ op.at = "staging"
    /\ trees' = trees \cup {op.candidate}
    /\ disk' = [disk EXCEPT !.retry = None]
    /\ OpGoes("clearing")
    /\ UNCHANGED <<sidecar, sup, child, lock, updates, history, faults>>

OpStageFails ==
    /\ op.at = "staging" /\ Fault("stage")
    /\ disk' = [disk EXCEPT !.retry = op.candidate]
    /\ OpEnds
    /\ UNCHANGED <<trees, sidecar, sup, child, updates, history>>

\* A version that was restaged is no longer in quarantine.
OpClears ==
    /\ op.at = "clearing"
    /\ disk' = [disk EXCEPT !.quarantine = IF op.retrying THEN None ELSE @]
    /\ failed' = IF op.retrying THEN failed \ {op.candidate} ELSE failed
    /\ IF op.notify THEN OpGoes("granting") /\ UNCHANGED lock ELSE OpEnds
    /\ UNCHANGED <<trees, sidecar, sup, child, updates, proven, granted, used, faults>>

OpGrants ==
    /\ op.at = "granting"
    /\ disk' = [disk EXCEPT !.approval = op.candidate]
    /\ granted' = [granted EXCEPT ![op.candidate] = @ + 1]
    /\ OpEnds
    /\ UNCHANGED <<trees, sidecar, sup, child, updates, proven, failed, used, faults>>

\* The command dies, or cannot write what it is about to.
OpCrash ==
    /\ op.at # "idle" /\ Fault("kill")
    /\ OpEnds
    /\ UNCHANGED <<disk, trees, sidecar, sup, child, updates, history>>

Operator ==
    \/ OpStarts \/ OpPackages \/ OpYields \/ OpLocks
    \/ OpStaged \/ OpStageFails \/ OpClears \/ OpGrants

-----------------------------------------------------------------------------
(* The gateway process, the relay's advisories, time and the file system.  *)

\* The gateway process checks in and leaves the relay's advisory.  That it
\* turns between the two decisions of updateRunning counts as a fault.
CheckIn(advice) ==
    /\ child # None
    /\ sidecar' = [version |-> child, advice |-> advice, mine |-> TRUE]
    /\ IF At("locking") /\ advice # sidecar.advice THEN Fault("turn") ELSE UNCHANGED faults
    /\ UNCHANGED <<disk, trees, sup, child, lock, opVars, history>>

ChildExits ==
    /\ child # None /\ Fault("exit")
    /\ child' = None
    /\ UNCHANGED <<disk, trees, sidecar, sup, lock, opVars, history>>

\* The pause after a failed staging ends; an approval is older than a day.
TimePasses ==
    /\ \/ disk.retry # None /\ disk' = [disk EXCEPT !.retry = None]
       \/ disk.approval # None /\ disk' = [disk EXCEPT !.approval = None]
    /\ UNCHANGED <<trees, sidecar, sup, child, lock, opVars, history, faults>>

\* A verified tree is damaged: its digest does not match any more.
Rot(v) ==
    /\ v \in trees /\ Fault("rot")
    /\ trees' = trees \ {v}
    /\ UNCHANGED <<disk, sidecar, sup, child, lock, opVars, history>>

\* active.json or quarantine.json is deleted, emptied or damaged: it reads as
\* if it had never been written.
Lost ==
    /\ Fault("loss")
    /\ \/ disk' = [disk EXCEPT !.marker = None] /\ UNCHANGED failed
       \/ disk' = [disk EXCEPT !.quarantine = None] /\ failed' = failed \cap {sup.volatile}
    /\ UNCHANGED <<trees, sidecar, sup, child, lock, opVars, proven, granted, used>>

Environment ==
    \/ \E advice \in Advisories : CheckIn(advice)
    \/ ChildExits \/ TimePasses \/ Lost
    \/ \E v \in Versions : Rot(v)

Init ==
    /\ disk = [marker |-> None, quarantine |-> None, retry |-> None, approval |-> None]
    /\ trees = {} /\ sidecar = NoSidecar
    /\ sup = Down /\ child = None /\ op = NoUpdate /\ lock = "none"
    /\ proven = {} /\ failed = {}
    /\ granted = [v \in Versions |-> 0] /\ used = [v \in Versions |-> 0]
    /\ updates = 0 /\ faults = [n |-> 0, kinds |-> {}]

Next == Supervisor \/ SupCrash \/ Operator \/ OpCrash \/ Environment

Spec == Init /\ [][Next]_vars

-----------------------------------------------------------------------------
(* Safety.                                                                 *)

\* Whenever the supervisor dies, the marker its successor starts from names
\* the bootstrap or a version that passed a whole probation (updateRunning
\* writes active.json after the candidate's health and check-in).
MarkerIsProven == disk.marker \in {None, Boot} \cup proven

\* No staging, of the supervisor or of an update() that a supervisor's start
\* overtook, takes the tree away from under the running gateway.
RunningTreeIsIntact == "rot" \notin faults.kinds /\ child # None => Runnable(child)

\* The supervisor and an update() that it overtook never both work on an
\* update: each holds update.lock for as long as it does.
LockIsExclusive ==
    /\ ~(sup.at \in LockedSupStages /\ op.at \in LockedOpStages)
    /\ lock = IF sup.at \in LockedSupStages THEN "sup"
              ELSE IF op.at \in LockedOpStages THEN "op" ELSE "none"

\* All three, in every state the supervisor may be killed in.
RestartIsSafe == TypeOK /\ LockIsExclusive /\ MarkerIsProven /\ RunningTreeIsIntact

\* docs/runtime-updates.md: the command creates a "one-shot approval": a
\* version is launched on an approval at most as often as it was approved,
\* unless the advisory turns between the two decisions of updateRunning: the
\* approval that it clears is the one it read before the first.
ApprovalIsOneShot == "turn" \notin faults.kinds => \A v \in Versions : used[v] <= granted[v]

\* No downgrade by mistake.  A supervisor never goes back while it runs, nor
\* does it start from less than active.json names; and active.json goes back
\* only when the file is lost, or to the packaged version, when an update()
\* that found none writes it although the supervisor committed one since.
\* A version that failed its probation is not launched as a candidate again,
\* also not by a later supervisor, for as long as the quarantine stands: until
\* the operator restaged it, another version failed or was adopted (a newer or
\* an older one: updateRunning then lifts any quarantine), or quarantine.json
\* could not be saved or was lost.
NoWayBack ==
    [][/\ disk'.marker < disk.marker =>
            disk'.marker = None \/ (disk'.marker = Boot /\ op.at = "packaging")
       /\ sup'.at # "down" => (IF sup.at = "down" THEN disk.marker ELSE sup.active) <= sup'.active
       /\ sup.at = "switching" /\ sup'.at = "probing" => sup.candidate \notin failed]_<<disk, sup>>

-----------------------------------------------------------------------------
(* Liveness: a supervisor that is not running is started, what it waits    *)
(* for ends (health checks have a timeout), and a healthy gateway checks   *)
(* in.                                                                     *)

Fairness ==
    /\ WF_vars(Supervisor)
    /\ WF_vars(Operator)
    /\ WF_vars(sidecar # NoSidecar /\ ~sidecar.mine /\ \E advice \in Advisories : CheckIn(advice))
    /\ WF_vars(sidecar = NoSidecar /\ \E advice \in Advisories : CheckIn(advice))

FairSpec == Spec /\ Fairness

\* Bad candidates, failing updates and crashes never end the service for good:
\* a gateway that passed a probation runs again and again.
KeepsServing == <>("rot" \in faults.kinds) \/ []<>(child # None /\ child \in {Boot} \cup proven)
=============================================================================
