---------------------------- MODULE Attachments -----------------------------
(***************************************************************************)
(* Encrypted files in transfer: the gateway's routes that send a file in a *)
(* message, add one to a Task or stream one back, the upload and download  *)
(* of chunks below them (agent.ts, workrooms.ts), and the relay's store of *)
(* parts.  A request is a job with a kind; a descriptor is a number, fresh *)
(* for each upload, and its parts are pairs of it and an index.  A part    *)
(* opens only under the key of its descriptor and the nonce of its index.  *)
(*                                                                         *)
(* The staged bytes are private to the job; the guard and the charge of a  *)
(* mandated kind are MandateUse, the delivery of a queued envelope is      *)
(* AgentRuntime.  What the relay does with a part or an event it has been  *)
(* sent twice is external.                                                 *)
(***************************************************************************)
EXTENDS Integers, FiniteSets

CONSTANTS
    Jobs,          \* requests that can be in progress at once
    Kinds,         \* what they may be for
    Parts,         \* number of parts of a file
    Attempts,      \* tries per part (maxAttempts) and per publication
    MaxRequests, MaxFaults, MaxCrashes   \* bounds of a run

ASSUME CountsArePositive == {Parts, Attempts} \subseteq Nat \ {0}
ASSUME BoundsAreNatural == {MaxRequests, MaxFaults, MaxCrashes} \subseteq Nat
ASSUME KindsAreKnown == Kinds \subseteq {"send", "upload", "submit", "download", "read", "save"}

VARIABLES
    parts, late,       \* at the relay: parts stored, POSTs given up that may still arrive
    artifact,          \* at the relay: descriptor of the event under the submit's idempotency key
    outbox,            \* descriptors of queued or delivered messages, a received v1 file among them
    job,               \* per job: its stage and its locals
    dirs, temps,       \* jobs with a staged directory, with a ".part" file
    target,            \* per job: the file a "save" writes to
    kept,              \* descriptors handed to a client for its own use
    unsure, missed, strays,   \* history: see the properties
    made               \* counters of the bounded steps

relay == <<parts, late, artifact>>
disk == <<dirs, temps, target>>
history == <<unsure, missed, strays>>
vars == <<relay, outbox, job, disk, kept, history, made>>

-----------------------------------------------------------------------------
Downloads == {"download", "read", "save"}
Streamed == {"download", "read"}
Guarded == {"send", "submit", "read"}
Mandated == {"submit", "read"}
Legacy == 0        \* a descriptor of version 1, whole in one box
Descriptors == Legacy .. MaxRequests
Chunks(u) == {u} \X (1 .. Parts)

\* createChunkedAttachmentDescriptor: no key, nonce or part of it was used before.
FreshDescriptor == made.requests + 1

Published == outbox \cup artifact

At(j, stage) == job[j].at = stage
NoJob == [at |-> "idle", kind |-> "none", u |-> Legacy, part |-> 1, tries |-> 0,
          aborted |-> FALSE, gone |-> FALSE, plain |-> TRUE]

Goes(j, stage) == job' = [job EXCEPT ![j].at = stage, ![j].part = 1, ![j].tries = 0]
Retries(j) == job' = [job EXCEPT ![j].tries = @ + 1]
Exhausted(j) == job[j].tries + 1 >= Attempts
StepsOn(j, next) ==
    IF job[j].part = Parts THEN Goes(j, next)
    ELSE job' = [job EXCEPT ![j].part = @ + 1, ![j].tries = 0]

Fault == made.faults < MaxFaults /\ made' = [made EXCEPT !.faults = @ + 1]

\* The finally blocks and catch blocks of a route: listeners off, staged directory removed.
Ends(j) ==
    /\ job' = [job EXCEPT ![j].at = "idle", ![j].aborted = FALSE]
    /\ dirs' = dirs \ {j} /\ temps' = temps \ {j} /\ UNCHANGED target

\* A request that ends where no cleanup is in force (yet).
Abandons(j) == job' = [job EXCEPT ![j].at = "idle"] /\ missed' = missed \cup {j}

-----------------------------------------------------------------------------
(* The request, its body, and the guard.                                   *)

\* stageRequestBody() makes a directory and receives an upload; stageDownload() makes one.
\* plain: a header takes the name and type of the file and the operation's id as they are.
Request(j, kind, u) ==
    /\ At(j, "idle") /\ j \notin dirs \cup temps /\ made.requests < MaxRequests
    /\ u \in (IF kind \in Downloads THEN Published \cup kept ELSE {FreshDescriptor})
    /\ made' = [made EXCEPT !.requests = @ + 1]
    /\ \E plain \in (IF kind \in Streamed THEN BOOLEAN ELSE {TRUE}) :
         job' = [job EXCEPT ![j] = [NoJob EXCEPT !.kind = kind, !.u = u, !.plain = plain,
                !.at = IF kind = "save" THEN "fetching" ELSE "staging"]]
    /\ dirs' = IF kind = "save" THEN dirs ELSE dirs \cup {j}
    /\ temps' = IF kind = "save" /\ u # Legacy THEN temps \cup {j} ELSE temps
    /\ target' = [target EXCEPT ![j] = "old"]
    /\ UNCHANGED <<relay, outbox, kept, history>>

\* A download of version 2 opens its ".part" file first.
Opens(j) == temps' = IF job[j].u # Legacy THEN temps \cup {j} ELSE temps

Staged(j) ==
    /\ At(j, "staging")
    /\ CASE job[j].kind \in Guarded -> Goes(j, "guarding") /\ UNCHANGED temps
         [] job[j].kind = "upload" -> Goes(j, "posting") /\ UNCHANGED temps
         [] job[j].kind = "download" -> Goes(j, "fetching") /\ Opens(j)
    /\ UNCHANGED <<relay, outbox, dirs, target, kept, history, made>>

\* Empty, too large, the disk is full.  The directory stays when the file in it cannot be
\* opened, and when the optional fields of a mandated read are refused after it was made.
StagingFails(j) ==
    /\ At(j, "staging") /\ Fault
    /\ \/ Ends(j) /\ UNCHANGED missed
       \/ job[j].kind # "download" /\ Abandons(j) /\ UNCHANGED disk
    /\ UNCHANGED <<relay, outbox, kept, unsure, strays>>

\* Mandated executions of one client follow each other (serializedExecution).
TurnIsFree(j) == \A k \in Jobs \ {j} :
    job[k].kind \in Mandated => job[k].at \in {"idle", "staging", "guarding", "sending"}

Permitted(j) ==
    /\ At(j, "guarding") /\ (job[j].kind \in Mandated => TurnIsFree(j))
    /\ CASE job[j].kind # "read" -> Goes(j, "posting") /\ UNCHANGED disk
         [] job[j].kind = "read" /\ job[j].aborted -> Ends(j)
         [] OTHER -> Goes(j, "fetching") /\ Opens(j) /\ UNCHANGED <<dirs, target>>
    /\ UNCHANGED <<relay, outbox, kept, history, made>>

\* Mutant: a result other than "executed" is answered without the cleanup.
AnsweredOnly(j) ==
    /\ At(j, "guarding") /\ job' = [job EXCEPT ![j].at = "idle"]
    /\ UNCHANGED <<relay, outbox, disk, kept, history, made>>

\* Denied, waiting for consent, or the request failed.
NotPermitted(j) ==
    /\ At(j, "guarding") /\ Ends(j)
    /\ UNCHANGED <<relay, outbox, kept, history, made>>

\* The client closes its connection: the body breaks off, or has arrived already and nobody
\* is listening yet; later the abort signal is set; and a "close" that comes during the
\* streaming of the answer removes the directory.
HangUp(j) ==
    /\ job[j].at # "idle" /\ ~job[j].gone
    /\ \/ At(j, "sending") /\ Ends(j)
       \/ At(j, "staging") /\ job[j].kind \notin Downloads /\ Ends(j)
       \/ /\ ~At(j, "sending")
          /\ job' = [job EXCEPT ![j].gone = TRUE, ![j].aborted = ~At(j, "staging")]
          /\ UNCHANGED disk
    /\ UNCHANGED <<relay, outbox, kept, history, made>>

-----------------------------------------------------------------------------
(* Upload.                                                                 *)

Current(j) == <<job[j].u, job[j].part>>

\* What may have become of a POST that was not answered.
Unanswered(p) ==
    \/ UNCHANGED <<parts, late, strays>>
    \/ parts' = parts \cup {p} /\ UNCHANGED <<late, strays>>
    \/ late' = late \cup {p} /\ strays' = strays \cup {p} /\ UNCHANGED parts

PartStored(j) ==
    /\ At(j, "posting") /\ ~job[j].aborted
    /\ parts' = parts \cup {Current(j)}
    /\ StepsOn(j, IF job[j].kind = "upload" THEN "answering" ELSE "publishing")
    /\ kept' = IF job[j].kind = "upload" /\ job[j].part = Parts THEN kept \cup {job[j].u} ELSE kept
    /\ UNCHANGED <<late, artifact, outbox, disk, history, made>>

\* No answer, 429 or 5xx: tried again, up to the limit.
PartFails(j) ==
    /\ At(j, "posting") /\ ~job[j].aborted /\ Fault
    /\ Unanswered(Current(j))
    /\ IF Exhausted(j) THEN Goes(j, "deleting") ELSE Retries(j)
    /\ UNCHANGED <<artifact, outbox, disk, kept, unsure, missed>>

\* Any other status, a short read of the file.
PartRefused(j) ==
    /\ At(j, "posting") /\ ~job[j].aborted /\ Fault /\ Goes(j, "deleting")
    /\ UNCHANGED <<relay, outbox, disk, kept, history>>

UploadAborted(j) ==
    /\ At(j, "posting") /\ job[j].aborted
    /\ Unanswered(Current(j)) /\ Goes(j, "deleting")
    /\ UNCHANGED <<artifact, outbox, disk, kept, unsure, missed, made>>

\* Mutant: only the parts that were answered are deleted.
DeletesAnswered(j) ==
    /\ At(j, "deleting") /\ Ends(j)
    /\ parts' = {p \in parts : p[1] # job[j].u \/ p[2] >= job[j].part}
    /\ UNCHANGED <<late, artifact, outbox, kept, history, made>>

\* Promise.allSettled over every id of the descriptor; a DELETE that fails is not repeated.
Deletes(j) ==
    /\ At(j, "deleting") /\ Ends(j)
    /\ \E left \in SUBSET (parts \cap Chunks(job[j].u)) :
         /\ parts' = (parts \ Chunks(job[j].u)) \cup left
         /\ strays' = strays \cup left
         /\ IF left = {} THEN UNCHANGED made ELSE Fault
    /\ UNCHANGED <<late, artifact, outbox, kept, unsure, missed>>

\* sendAttachmentFileEnvelope() ends with queueEnvelope(): a save that fails leaves the parts.
MessageQueued(j) ==
    /\ At(j, "publishing") /\ job[j].kind = "send"
    /\ outbox' = outbox \cup {job[j].u} /\ Goes(j, "answering")
    /\ UNCHANGED <<relay, disk, kept, history, made>>

QueueFails(j) ==
    /\ At(j, "publishing") /\ job[j].kind = "send" /\ Fault
    /\ strays' = strays \cup Chunks(job[j].u) /\ Ends(j)
    /\ UNCHANGED <<relay, outbox, kept, unsure, missed>>

\* submitFileMandated() publishes under the operation's own key: the same event again is
\* answered with the record there is, another one is refused.
Appended(u) == artifact' = (IF artifact = {} THEN {u} ELSE artifact) /\ UNCHANGED <<parts, late>>

EventPublished(j) ==
    /\ At(j, "publishing") /\ job[j].kind = "submit" /\ artifact \subseteq {job[j].u}
    /\ Appended(job[j].u) /\ Goes(j, "charging")
    /\ UNCHANGED <<outbox, disk, kept, history, made>>

EventRefused(j) ==
    /\ At(j, "publishing") /\ job[j].kind = "submit" /\ ~(artifact \subseteq {job[j].u})
    /\ Goes(j, "deleting")
    /\ UNCHANGED <<relay, outbox, disk, kept, history, made>>

\* The catch block deletes the parts also when the relay has the event (unsure).
EventFails(j) ==
    /\ At(j, "publishing") /\ job[j].kind = "submit" /\ Fault
    /\ UNCHANGED relay \/ Appended(job[j].u)
    /\ IF Exhausted(j)
       THEN Goes(j, "deleting") /\ unsure' = unsure \cup (artifact' \cap {job[j].u})
       ELSE Retries(j) /\ UNCHANGED unsure
    /\ UNCHANGED <<outbox, disk, kept, missed, strays>>

\* Usage and receipt of a mandated kind.
Charged(j) ==
    /\ At(j, "charging") /\ Goes(j, "answering")
    /\ UNCHANGED <<relay, outbox, disk, kept, history, made>>

\* Mutant: the catch block encloses the charge as well.
ChargeUndoes(j) ==
    /\ At(j, "charging") /\ Fault
    /\ IF job[j].kind = "read" THEN Ends(j) ELSE Goes(j, "deleting") /\ UNCHANGED disk
    /\ UNCHANGED <<relay, outbox, kept, history>>

ChargeFails(j) ==
    /\ At(j, "charging") /\ Fault /\ Ends(j)
    /\ UNCHANGED <<relay, outbox, kept, history>>

-----------------------------------------------------------------------------
(* Download: version 2 part by part into a ".part" file beside the target, *)
(* version 1 into memory, without retries or abortion.                     *)

Fetched(j) ==
    /\ At(j, "fetching") /\ (job[j].aborted => job[j].u = Legacy)
    /\ Current(j) \in parts
    /\ StepsOn(j, "storing")
    /\ UNCHANGED <<relay, outbox, disk, kept, history, made>>

FetchAgain(j) ==
    /\ At(j, "fetching") /\ ~job[j].aborted /\ Fault
    /\ job[j].u # Legacy /\ ~Exhausted(j) /\ Retries(j)
    /\ UNCHANGED <<relay, outbox, disk, kept, history>>

\* The last try failed, the body broke off, or a part does not open.
FetchFails(j) ==
    /\ At(j, "fetching") /\ Fault /\ Ends(j)
    /\ UNCHANGED <<relay, outbox, kept, history>>

\* The part is not there, or the signal is set.
FetchEnds(j) ==
    /\ At(j, "fetching")
    /\ Current(j) \notin parts \/ (job[j].aborted /\ job[j].u # Legacy)
    /\ Ends(j)
    /\ UNCHANGED <<relay, outbox, kept, history, made>>

InPlace(j) == job[j].u = Legacy

\* writeFile() is not atomic.
Torn(j) ==
    /\ At(j, "storing") /\ job[j].kind = "save" /\ InPlace(j) /\ target[j] # "torn"
    /\ target' = [target EXCEPT ![j] = "torn"]
    /\ UNCHANGED <<relay, outbox, job, dirs, temps, kept, history, made>>

StoreFails(j) ==
    /\ At(j, "storing") /\ Fault /\ Ends(j)
    /\ UNCHANGED <<relay, outbox, kept, history>>

\* Synchronous from here to the listener of "close", which removes the directory: a client
\* that left after the last look at the signal is not noticed, and writeHead() throws for a
\* name, type or id that no header takes.
Sends(j) ==
    IF job[j].gone \/ ~job[j].plain THEN Abandons(j)
    ELSE Goes(j, "sending") /\ UNCHANGED missed

Stored(j) ==
    /\ At(j, "storing") /\ (job[j].kind = "save" /\ InPlace(j) => target[j] = "torn")
    /\ target' = IF job[j].kind = "save" THEN [target EXCEPT ![j] = "whole"] ELSE target
    /\ temps' = temps \ {j}
    /\ CASE job[j].kind = "download" -> Sends(j)
         [] job[j].kind = "read" -> Goes(j, "charging") /\ UNCHANGED missed
         [] OTHER -> job' = [job EXCEPT ![j].at = "idle"] /\ UNCHANGED missed
    /\ UNCHANGED <<relay, outbox, dirs, kept, unsure, strays, made>>

\* The answer of an upload is written and its directory removed, whoever is there to read it;
\* a mandated read goes on to stream its file.
Answers(j) ==
    /\ At(j, "answering")
    /\ IF job[j].kind = "read" THEN Sends(j) /\ UNCHANGED disk ELSE Ends(j) /\ UNCHANGED missed
    /\ UNCHANGED <<relay, outbox, kept, unsure, strays, made>>

SendingEnds(j) ==
    /\ At(j, "sending") /\ Ends(j)
    /\ UNCHANGED <<relay, outbox, kept, history, made>>

-----------------------------------------------------------------------------
\* A POST that was given up arrives.
Lands ==
    \E p \in late :
        /\ late' = late \ {p} /\ parts' = parts \cup {p}
        /\ UNCHANGED <<artifact, outbox, job, disk, kept, history, made>>

\* The process dies: directories and ".part" files stay, and what it was uploading.
Crash ==
    /\ made.crashes < MaxCrashes /\ made' = [made EXCEPT !.crashes = @ + 1]
    /\ job' = [j \in Jobs |-> [job[j] EXCEPT !.at = "idle"]]
    /\ missed' = missed \cup dirs \cup temps
    /\ strays' = strays \cup UNION {Chunks(job[j].u) : j \in {j \in Jobs : job[j].at # "idle"}}
    /\ UNCHANGED <<relay, outbox, disk, kept, unsure>>

Init ==
    /\ parts = Chunks(Legacy) /\ late = {} /\ artifact = {} /\ outbox = {Legacy}
    /\ job = [j \in Jobs |-> NoJob]
    /\ dirs = {} /\ temps = {} /\ target = [j \in Jobs |-> "old"]
    /\ kept = {} /\ unsure = {} /\ missed = {} /\ strays = {}
    /\ made = [requests |-> 0, faults |-> 0, crashes |-> 0]

Upload(j) ==
    \/ Staged(j) \/ StagingFails(j)
    \/ PartStored(j) \/ PartFails(j) \/ PartRefused(j) \/ UploadAborted(j) \/ Deletes(j)
    \/ MessageQueued(j) \/ QueueFails(j) \/ EventPublished(j) \/ EventRefused(j) \/ EventFails(j)

Download(j) == Fetched(j) \/ FetchAgain(j) \/ FetchFails(j) \/ FetchEnds(j) \/ Torn(j) \/ Stored(j) \/ StoreFails(j)

Step(j) ==
    \/ Permitted(j) \/ NotPermitted(j) \/ Upload(j) \/ Download(j)
    \/ Charged(j) \/ ChargeFails(j) \/ Answers(j) \/ SendingEnds(j)

Next ==
    \/ \E j \in Jobs, kind \in Kinds, u \in Descriptors : Request(j, kind, u)
    \/ \E j \in Jobs : HangUp(j) \/ Step(j)
    \/ Lands \/ Crash

Spec == Init /\ [][Next]_vars

-----------------------------------------------------------------------------
(* Properties.                                                             *)

TypeOK ==
    /\ parts \subseteq Descriptors \X (1 .. Parts) /\ late \subseteq Descriptors \X (1 .. Parts)
    /\ artifact \subseteq Descriptors /\ Cardinality(artifact) <= 1
    /\ \A j \in Jobs : /\ job[j].at \in {"idle", "staging", "guarding", "posting", "deleting", "publishing",
                                        "charging", "fetching", "storing", "answering", "sending"}
                      /\ job[j].part \in 1 .. Parts /\ job[j].tries \in 0 .. Attempts - 1

(* Whatever fails, is given up or dies around it, a descriptor others can read has all its
   parts, unless the relay took the event and none of its answers arrived (unsure,
   workrooms.ts:619). *)
PublishedIsComplete == \A u \in (Published \cup kept) \ unsure : Chunks(u) \subseteq parts

(* agent.ts:866: "Delete every id in the unpublished descriptor. This also removes a part
   whose POST reached the server but whose response was lost in transit".  What is left over
   is a DELETE that failed, a POST that came after it, a message that could not be queued, or
   a process that died (strays). *)
FailedIsDeleted ==
    \A p \in parts \ strays :
        p[1] \in Published \cup kept \/ \E j \in Jobs : job[j].at # "idle" /\ job[j].u = p[1]

(* gateway README:114: "temporary files are removed after success, failure, or a closed
   download".  They are not (missed) when the client of a download closes unnoticed, when
   its headers cannot be written, when a directory is made and the file in it not opened or
   a field of the request refused after it, and when the process dies; on every other path
   they are.  What a file was saved over is replaced as a whole, except by version 1
   (agent.ts:941). *)
FilesAreCleanedUp ==
    /\ TypeOK
    /\ \A j \in Jobs \ missed : At(j, "idle") => j \notin dirs \cup temps
    /\ \A j \in Jobs : target[j] = "torn" => job[j].u = Legacy
=============================================================================
