-------------------------- MODULE AttachmentsProofs --------------------------
(***************************************************************************)
(* A descriptor others can read is complete, a failed transfer leaves no   *)
(* part behind, and no request leaves a file behind, for every number of   *)
(* requests, parts and tries and any number of faults and crashes.         *)
(*                                                                         *)
(* A step of a request touches the parts and the files of its own          *)
(* descriptor only (Local, Tidies): no two uploads share a descriptor, and *)
(* nothing of one is at the relay before its first POST.  What is left to  *)
(* show is that each step leaves its own descriptor in order (OwnIsTrue).  *)
(***************************************************************************)
EXTENDS Attachments, FiniteSetTheorems, TLAPS

-----------------------------------------------------------------------------
(* The inductive invariant.                                                *)

Stages == {"idle", "staging", "guarding", "posting", "deleting", "publishing",
           "charging", "fetching", "storing", "answering", "sending"}
Uploads == {"send", "upload", "submit"}

\* The kinds of request that reach a stage.
KindsAt(stage) ==
    CASE stage = "idle"                    -> Uploads \cup Downloads \cup {"none"}
      [] stage = "staging"                 -> Uploads \cup {"download", "read"}
      [] stage = "guarding"                -> Guarded
      [] stage \in {"posting", "deleting"} -> Uploads
      [] stage = "publishing"              -> {"send", "submit"}
      [] stage = "charging"                -> Mandated
      [] stage \in {"fetching", "storing"} -> Downloads
      [] stage = "answering"               -> Uploads \cup {"read"}
      [] stage = "sending"                 -> {"download", "read"}

Used == 0 .. made.requests

Records ==
    [at : Stages, kind : Uploads \cup Downloads \cup {"none"}, u : Used, part : 1 .. Parts,
     tries : 0 .. Attempts - 1, aborted : BOOLEAN, gone : BOOLEAN, plain : BOOLEAN]

Typed ==
    /\ made \in [requests : Nat, faults : Nat, crashes : Nat]
    /\ job \in [Jobs -> Records]
    /\ \A j \in Jobs : job[j].kind \in KindsAt(job[j].at)
    /\ target \in [Jobs -> {"old", "torn", "whole"}]
    /\ parts \cup late \subseteq Used \X (1 .. Parts)
    /\ Published \cup kept \cup unsure \subseteq Used
    /\ artifact = {} \/ \E u \in Used : artifact = {u}

Live(j) == job[j].at # "idle"
Uploading(j) == Live(j) /\ job[j].kind \in Uploads

\* No descriptor is shared by two uploads.
OwnDescriptors ==
    \A j, k \in Jobs : Uploading(j) /\ Uploading(k) /\ job[j].u = job[k].u => j = k

\* How far an upload is, and who may rely on it by then.
Uploaded(j) ==
    LET u == job[j].u
    IN  /\ job[j].at \in {"staging", "guarding"} => \A p \in parts \cup late : p[1] # u
        /\ job[j].at \in {"staging", "guarding", "posting"} => u \notin Published \cup kept
        /\ job[j].at = "posting" => {u} \X (1 .. job[j].part - 1) \subseteq parts
        /\ job[j].at = "publishing" => Chunks(u) \subseteq parts /\ u \notin outbox \cup kept
        /\ job[j].at = "deleting" => u \notin outbox \cup kept /\ (u \in artifact => u \in unsure)

UploadsAreTrue == \A j \in Jobs : Uploading(j) => Uploaded(j)

\* The other requests are about a descriptor somebody has.
DescriptorsAreKnown ==
    \A j \in Jobs : job[j].at \in {"charging", "answering", "sending"} \/ (Live(j) /\ job[j].kind \in Downloads)
                        => job[j].u \in Published \cup kept

LateAreStrays == late \subseteq strays

\* What a request has on the disk.
DiskIsTrue ==
    \A j \in Jobs :
        /\ j \notin missed /\ job[j].at = "idle" => j \notin dirs \cup temps
        /\ Live(j) /\ job[j].kind = "save" => j \notin dirs
        /\ Live(j) /\ job[j].kind \in Uploads => j \notin temps
        /\ target[j] = "torn" => job[j].u = Legacy

RelayInv ==
    /\ Typed /\ OwnDescriptors /\ UploadsAreTrue /\ DescriptorsAreKnown /\ LateAreStrays
    /\ PublishedIsComplete /\ FailedIsDeleted

DiskInv == Typed /\ DiskIsTrue

-----------------------------------------------------------------------------
(* What the steps of one request change.                                   *)

\* j goes on, as the request it is.
Moves(j) ==
    /\ job' \in [Jobs -> Records]
    /\ \A k \in Jobs \ {j} : job'[k] = job[k]
    /\ job'[j].kind = job[j].kind /\ job'[j].u = job[j].u
    /\ job'[j].kind \in KindsAt(job'[j].at)

\* The kinds still fit the stages.
LEMMA MovesTyped ==
    ASSUME Typed, NEW j \in Jobs, Moves(j)
    PROVE  \A k \in Jobs : job'[k].kind \in KindsAt(job'[k].at)
BY DEF Typed, Moves

\* What the helpers Goes, Retries, StepsOn, Ends and Sends do to the request.
LEMMA GoesMoves ==
    ASSUME Typed, NEW j \in Jobs, NEW stage \in Stages, job[j].kind \in KindsAt(stage), Goes(j, stage)
    PROVE  Moves(j) /\ job'[j].at = stage /\ job'[j].part = 1
<1>1. job[j] \in Records /\ job \in [Jobs -> Records]
  BY DEF Typed
<1>2. 1 \in 1 .. Parts /\ 0 \in 0 .. Attempts - 1
  BY CountsArePositive
<1>3. job' = [job EXCEPT ![j] = [job[j] EXCEPT !.at = stage, !.part = 1, !.tries = 0]]
  BY <1>1 DEF Goes
<1>4. [job[j] EXCEPT !.at = stage, !.part = 1, !.tries = 0] \in Records
  BY <1>1, <1>2 DEF Records
<1> QED BY <1>1, <1>3, <1>4 DEF Moves, Records

LEMMA RetriesMoves ==
    ASSUME Typed, NEW j \in Jobs, ~Exhausted(j), Retries(j)
    PROVE  Moves(j) /\ job'[j].at = job[j].at /\ job'[j].part = job[j].part
<1>1. job[j] \in Records /\ job \in [Jobs -> Records] /\ job[j].kind \in KindsAt(job[j].at)
  BY DEF Typed
<1>2. job[j].tries + 1 \in 0 .. Attempts - 1
  BY <1>1, CountsArePositive DEF Exhausted, Records
<1>3. job' = [job EXCEPT ![j] = [job[j] EXCEPT !.tries = @ + 1]]
  BY <1>1 DEF Retries
<1>4. [job[j] EXCEPT !.tries = @ + 1] \in Records
  BY <1>1, <1>2 DEF Records
<1> QED BY <1>1, <1>3, <1>4 DEF Moves, Records

LEMMA StepsOnMoves ==
    ASSUME Typed, NEW j \in Jobs, NEW next \in Stages, job[j].kind \in KindsAt(next), StepsOn(j, next)
    PROVE  /\ Moves(j)
           /\ IF job[j].part = Parts THEN job'[j].at = next /\ job'[j].part = 1
              ELSE job'[j].at = job[j].at /\ job'[j].part = job[j].part + 1
<1>1. job[j] \in Records /\ job \in [Jobs -> Records] /\ job[j].kind \in KindsAt(job[j].at)
  BY DEF Typed
<1>2. CASE job[j].part = Parts
  BY <1>2, GoesMoves DEF StepsOn
<1>3. CASE job[j].part # Parts
  <2>1. job[j].part + 1 \in 1 .. Parts /\ 0 \in 0 .. Attempts - 1
    BY <1>1, <1>3, CountsArePositive DEF Records
  <2>2. job' = [job EXCEPT ![j] = [job[j] EXCEPT !.part = @ + 1, !.tries = 0]]
    BY <1>1, <1>3 DEF StepsOn
  <2>3. [job[j] EXCEPT !.part = @ + 1, !.tries = 0] \in Records
    BY <1>1, <2>1 DEF Records
  <2> QED BY <1>1, <1>3, <2>2, <2>3 DEF Moves, Records
<1> QED BY <1>2, <1>3

LEMMA IdleMoves ==
    ASSUME Typed, NEW j \in Jobs,
           job' = [job EXCEPT ![j].at = "idle", ![j].aborted = FALSE] \/ job' = [job EXCEPT ![j].at = "idle"]
    PROVE  Moves(j) /\ job'[j].at = "idle"
<1>1. job[j] \in Records /\ job \in [Jobs -> Records]
  BY DEF Typed
<1>2. \/ job' = [job EXCEPT ![j] = [job[j] EXCEPT !.at = "idle", !.aborted = FALSE]]
      \/ job' = [job EXCEPT ![j] = [job[j] EXCEPT !.at = "idle"]]
  BY <1>1
<1>3. /\ [job[j] EXCEPT !.at = "idle", !.aborted = FALSE] \in Records
      /\ [job[j] EXCEPT !.at = "idle"] \in Records
  BY <1>1 DEF Records, Stages
<1>4. job[j].kind \in KindsAt("idle")
  BY <1>1 DEF Records, KindsAt
<1> QED BY <1>1, <1>2, <1>3, <1>4 DEF Moves, Records

LEMMA EndsMoves ==
    ASSUME Typed, NEW j \in Jobs, Ends(j)
    PROVE  Moves(j) /\ job'[j].at = "idle" /\ dirs' = dirs \ {j} /\ temps' = temps \ {j} /\ target' = target
BY IdleMoves DEF Ends

LEMMA SendsMoves ==
    ASSUME Typed, NEW j \in Jobs, job[j].kind \in {"download", "read"}, Sends(j)
    PROVE  /\ Moves(j)
           /\ \/ job'[j].at = "idle" /\ missed' = missed \cup {j}
              \/ job'[j].at = "sending" /\ missed' = missed
<1>1. "sending" \in Stages /\ job[j].kind \in KindsAt("sending")
  BY DEF Stages, KindsAt
<1> QED BY <1>1, GoesMoves, IdleMoves DEF Sends, Abandons

\* The kinds of a stage, and the stages of a kind.
LEMMA StageKinds ==
    ASSUME Typed, NEW j \in Jobs
    PROVE  /\ job[j].at \in Stages
           /\ job[j].at = "staging" => job[j].kind \in Uploads \cup {"download", "read"}
           /\ job[j].at = "guarding" => job[j].kind \in Guarded
           /\ job[j].at \in {"posting", "deleting"} => job[j].kind \in Uploads
           /\ job[j].at = "publishing" => job[j].kind \in {"send", "submit"}
           /\ job[j].at = "charging" => job[j].kind \in Mandated
           /\ job[j].at \in {"fetching", "storing"} => job[j].kind \in Downloads
           /\ job[j].at = "answering" => job[j].kind \in Uploads \cup {"read"}
           /\ job[j].at = "sending" => job[j].kind \in {"download", "read"}
<1>1. job[j].kind \in KindsAt(job[j].at) /\ job[j].at \in Stages
  BY DEF Typed, Records
<1> QED BY <1>1 DEF KindsAt

\* Faults are counted and nothing else.
LEMMA FaultTyped ==
    ASSUME Typed, Fault
    PROVE  made' \in [requests : Nat, faults : Nat, crashes : Nat] /\ made'.requests = made.requests
BY DEF Typed, Fault

\* The parts of a descriptor are told by their first component.
LEMMA ChunkFacts ==
    /\ \A u \in Used, p \in Used \X (1 .. Parts) : p \in Chunks(u) <=> p[1] = u
    /\ \A u, n : n \in 1 .. Parts => {u} \X (1 .. n - 1) \subseteq Chunks(u)
    /\ \A u \in Used : Chunks(u) \subseteq Used \X (1 .. Parts)
<1>1. \A n \in 1 .. Parts : 1 .. n - 1 \subseteq 1 .. Parts
  BY CountsArePositive
<1> QED BY <1>1 DEF Chunks

\* A step of j changes the parts and publications of its own descriptor only ...
Local(j) ==
    LET u == job[j].u
    IN  /\ Live(j) /\ Moves(j) /\ made'.requests = made.requests
        /\ job[j].kind \in Uploads \/ UNCHANGED <<parts, late, artifact, outbox, kept, unsure>>
        /\ parts' \ Chunks(u) = parts \ Chunks(u) /\ late' \subseteq late \cup Chunks(u)
        /\ artifact \subseteq artifact' /\ artifact' \subseteq artifact \cup {u}
        /\ outbox \subseteq outbox' /\ outbox' \subseteq outbox \cup {u}
        /\ kept \subseteq kept' /\ kept' \subseteq kept \cup {u}
        /\ unsure \subseteq unsure' /\ strays \subseteq strays' /\ late' \subseteq strays'

\* ... and leaves it as the invariant says.
OwnIsTrue(j) ==
    LET u == job[j].u
    IN  /\ Uploading(j)' => Uploaded(j)'
        /\ u \in (Published \cup kept)' \ unsure' => Chunks(u) \subseteq parts'
        /\ job'[j].at = "idle" =>
             parts' \cap Chunks(u) \subseteq strays' \/ u \in (Published \cup kept)'
        /\ job'[j].at \in {"charging", "answering", "sending"} \/ (Live(j)' /\ job[j].kind \in Downloads)
             => u \in (Published \cup kept)'

\* The other uploads are where they were.
LEMMA OthersStay ==
    ASSUME RelayInv, NEW j \in Jobs, Local(j), NEW k \in Jobs, k # j, Uploading(k)
    PROVE  Uploaded(k)'
<1>1. job'[k] = job[k] /\ Uploaded(k) /\ job[k] \in Records /\ job[j] \in Records
  BY DEF Local, Moves, RelayInv, UploadsAreTrue, Typed
<1>2. unsure \subseteq unsure'
  BY DEF Local
<1>3. CASE UNCHANGED <<parts, late, artifact, outbox, kept, unsure>>
  BY <1>1, <1>3 DEF Uploaded, Published
<1>4. CASE job[j].kind \in Uploads
  <2> DEFINE u == job[k].u
             v == job[j].u
  <2>1. u # v
    BY <1>4 DEF RelayInv, OwnDescriptors, Uploading, Local
  <2>2. u \in Used /\ v \in Used /\ job[k].part \in 1 .. Parts
    BY <1>1 DEF Records
  <2>3. /\ parts' \ Chunks(v) = parts \ Chunks(v) /\ late' \subseteq late \cup Chunks(v)
        /\ artifact' \subseteq artifact \cup {v} /\ outbox' \subseteq outbox \cup {v} /\ kept' \subseteq kept \cup {v}
    BY DEF Local
  <2>4. \A p \in Chunks(u) : p \notin Chunks(v)
    BY <2>1, <2>2, ChunkFacts
  <2>5. {u} \X (1 .. job[k].part - 1) \subseteq Chunks(u)
    BY <2>2, ChunkFacts
  <2>6. \A p \in Chunks(v) : p[1] # u
    BY <2>1, <2>2, ChunkFacts
  <2> HIDE DEF u, v
  <2>7. (\A p \in parts \cup late : p[1] # u) => \A p \in parts' \cup late' : p[1] # u
    BY <2>3, <2>6
  <2>8. \A S : S \subseteq Chunks(u) /\ S \subseteq parts => S \subseteq parts'
    BY <2>3, <2>4
  <2>9. /\ u \notin outbox \cup kept => u \notin outbox' \cup kept'
        /\ u \notin artifact => u \notin artifact'
    BY <2>1, <2>3
  <2>10. /\ {u} \X (1 .. job[k].part - 1) \subseteq parts => {u} \X (1 .. job[k].part - 1) \subseteq parts'
         /\ Chunks(u) \subseteq parts => Chunks(u) \subseteq parts'
    BY <2>5, <2>8
  <2> QED BY <1>1, <1>2, <2>7, <2>9, <2>10 DEF Uploaded, Published, u
<1> QED BY <1>3, <1>4 DEF Local

\* Together the two are enough: the rest of the invariant is about other descriptors.
LEMMA LocalStep ==
    ASSUME RelayInv, NEW j \in Jobs, Local(j), OwnIsTrue(j), Typed'
    PROVE  RelayInv'
<1> DEFINE u == job[j].u
<1>1. \A k \in Jobs : k # j => job'[k] = job[k]
  BY DEF Local, Moves
<1>2. Live(j) /\ job'[j].u = job[j].u /\ job'[j].kind = job[j].kind
  BY DEF Local, Moves
<1>3. OwnDescriptors'
  BY <1>1, <1>2 DEF RelayInv, OwnDescriptors, Uploading, Live
<1>4. UploadsAreTrue'
  <2> SUFFICES ASSUME NEW k \in Jobs, Uploading(k)' PROVE Uploaded(k)'
    BY DEF UploadsAreTrue
  <2>1. CASE k = j
    BY <2>1 DEF OwnIsTrue
  <2>2. CASE k # j
    BY <1>1, <2>2, OthersStay DEF Uploading, Live
  <2> QED BY <2>1, <2>2
<1>5. Published \cup kept \subseteq Published' \cup kept' /\ Published' \cup kept' \subseteq Published \cup kept \cup {u}
  BY DEF Local, Published
<1>6. DescriptorsAreKnown'
  <2> SUFFICES ASSUME NEW k \in Jobs,
                      job'[k].at \in {"charging", "answering", "sending"} \/ (Live(k)' /\ job'[k].kind \in Downloads)
               PROVE  job'[k].u \in Published' \cup kept'
    BY DEF DescriptorsAreKnown
  <2>1. CASE k = j
    BY <1>2, <2>1 DEF OwnIsTrue
  <2>2. CASE k # j
    BY <1>1, <1>5, <2>2 DEF RelayInv, DescriptorsAreKnown, Live
  <2> QED BY <2>1, <2>2
<1>7. PublishedIsComplete'
  <2> SUFFICES ASSUME NEW v \in (Published' \cup kept') \ unsure' PROVE Chunks(v) \subseteq parts'
    BY DEF PublishedIsComplete
  <2>1. CASE v = u
    BY <2>1 DEF OwnIsTrue
  <2>2. CASE v # u
    <3>1. v \in (Published \cup kept) \ unsure
      BY <1>5, <2>2 DEF Local
    <3>2. v \in Used /\ u \in Used
      BY <3>1 DEF RelayInv, Typed, Records
    <3>3. Chunks(v) \subseteq parts /\ \A p \in Chunks(v) : p \notin Chunks(u)
      BY <2>2, <3>1, <3>2, ChunkFacts DEF RelayInv, PublishedIsComplete
    <3> QED BY <3>3 DEF Local
  <2> QED BY <2>1, <2>2
<1>8. FailedIsDeleted'
  <2> SUFFICES ASSUME NEW p \in parts' \ strays', p[1] \notin Published' \cup kept'
               PROVE  \E k \in Jobs : job'[k].at # "idle" /\ job'[k].u = p[1]
    BY DEF FailedIsDeleted
  <2>1. p \in Used \X (1 .. Parts) /\ u \in Used
    <3>1. made'.requests = made.requests /\ parts' \subseteq Used' \X (1 .. Parts)
      BY DEF Local, Typed
    <3> QED BY <3>1 DEF RelayInv, Typed, Records, Used
  <2>2. CASE p[1] = u
    <3>1. p \in parts' \cap Chunks(u)
      BY <2>1, <2>2, ChunkFacts
    <3>2. job'[j].at # "idle"
      BY <2>2, <3>1 DEF OwnIsTrue
    <3> QED BY <1>2, <2>2, <3>2
  <2>3. CASE p[1] # u
    <3>1. p \notin Chunks(u)
      BY <2>1, <2>3, ChunkFacts
    <3>2. p \in parts \ strays /\ p[1] \notin Published \cup kept
      BY <1>5, <3>1 DEF Local
    <3>3. PICK k \in Jobs : job[k].at # "idle" /\ job[k].u = p[1]
      BY <3>2 DEF RelayInv, FailedIsDeleted
    <3>4. k # j
      BY <2>3, <3>3
    <3> QED BY <1>1, <3>3, <3>4
  <2> QED BY <2>2, <2>3
<1>9. LateAreStrays'
  BY DEF Local, LateAreStrays
<1> QED BY <1>3, <1>4, <1>6, <1>7, <1>8, <1>9 DEF RelayInv

-----------------------------------------------------------------------------
(* Steps that change nothing of the relay or the published descriptors.    *)

\* Where such a step takes j.
Passage(j) ==
    \/ job'[j].at = job[j].at /\ job'[j].part = job[j].part
    \/ job[j].kind \in Downloads
    \/ job'[j].at = "idle" /\ job[j].at \notin {"posting", "deleting", "publishing"}
    \/ job[j].at \in {"staging", "guarding"} /\ job'[j].at \in {"guarding", "posting"} /\ job'[j].part = 1
    \/ job[j].at = "posting" /\ job'[j].at = "deleting"
    \/ job[j].at = "publishing" /\ job'[j].at = "deleting" /\ job[j].u \notin artifact
    \/ job[j].at \in {"charging", "answering"} /\ job'[j].at \in {"answering", "sending"}

MadeTyped == made' \in [requests : Nat, faults : Nat, crashes : Nat] /\ made'.requests = made.requests

Calm(j) ==
    /\ Live(j) /\ Moves(j) /\ MadeTyped /\ Passage(j)
    /\ UNCHANGED <<relay, outbox, kept, unsure, strays>>
    /\ target' \in [Jobs -> {"old", "torn", "whole"}]

\* They keep the invariant of the relay, whichever way they take j.
LEMMA CalmStep ==
    ASSUME RelayInv, NEW j \in Jobs, Calm(j)
    PROVE  RelayInv'
<1> DEFINE u == job[j].u
<1>1. UNCHANGED <<parts, late, artifact, outbox, kept, unsure, strays>>
  BY DEF Calm, relay
<1>2. Local(j)
  BY <1>1 DEF Calm, MadeTyped, Local, RelayInv, LateAreStrays
<1>3. Typed'
  <2>1. Used' = Used
    BY DEF Used, Calm, MadeTyped
  <2>2. \A k \in Jobs : job'[k].kind \in KindsAt(job'[k].at)
    BY MovesTyped DEF RelayInv, Calm
  <2>3. job' \in [Jobs -> Records]'
    BY <2>1 DEF Calm, Moves, Records
  <2> QED BY <1>1, <2>1, <2>2, <2>3 DEF Typed, RelayInv, Calm, MadeTyped, Published
<1>4. OwnIsTrue(j)
  <2>1. job'[j].u = u /\ job'[j].kind = job[j].kind /\ Live(j) /\ job[j] \in Records
    BY DEF Calm, Moves, RelayInv, Typed
  <2>2. Uploads \cap Downloads = {}
    BY DEF Uploads, Downloads
  <2>3. Uploading(j)' => Uploading(j)
    BY <2>1 DEF Uploading
  <2>4. Uploading(j)' => Uploaded(j)'
    <3> SUFFICES ASSUME Uploading(j)' PROVE Uploaded(j)'
      OBVIOUS
    <3>1. Uploaded(j) /\ job[j].kind \notin Downloads /\ job'[j].at # "idle"
      BY <2>1, <2>2, <2>3 DEF RelayInv, UploadsAreTrue, Uploading, Live
    <3>2. CASE job'[j].at = job[j].at /\ job'[j].part = job[j].part
      BY <1>1, <2>1, <3>1, <3>2 DEF Uploaded, Published
    <3>3. CASE job[j].at \in {"staging", "guarding"} /\ job'[j].at \in {"guarding", "posting"} /\ job'[j].part = 1
      <4>1. {u} \X (1 .. job'[j].part - 1) = {}
        BY <3>3
      <4> QED BY <1>1, <2>1, <3>1, <3>3, <4>1 DEF Uploaded, Published
    <3>4. CASE \/ job[j].at = "posting" /\ job'[j].at = "deleting"
               \/ job[j].at = "publishing" /\ job'[j].at = "deleting" /\ job[j].u \notin artifact
      BY <1>1, <2>1, <3>1, <3>4 DEF Uploaded, Published
    <3>5. CASE job'[j].at \in {"answering", "sending"}
      BY <3>5 DEF Uploaded
    <3> QED BY <3>1, <3>2, <3>3, <3>4, <3>5 DEF Calm, Passage
  <2>5. u \in (Published \cup kept)' \ unsure' => Chunks(u) \subseteq parts'
    BY <1>1 DEF RelayInv, PublishedIsComplete, Published
  <2>6. job'[j].at = "idle" => parts' \cap Chunks(u) \subseteq strays' \/ u \in (Published \cup kept)'
    <3> SUFFICES ASSUME job'[j].at = "idle", u \notin Published \cup kept
                 PROVE  parts \cap Chunks(u) = {}
      BY <1>1 DEF Published
    <3>1. job[j].kind \notin Downloads /\ job[j].at \in {"staging", "guarding"}
      BY <2>1, StageKinds DEF RelayInv, DescriptorsAreKnown, Live, Calm, Passage, Stages
    <3>2. job[j].kind \in Uploads
      BY <3>1, StageKinds DEF RelayInv, Guarded, Uploads, Downloads
    <3>3. \A p \in parts \cup late : p[1] # u
      BY <2>1, <3>1, <3>2 DEF RelayInv, UploadsAreTrue, Uploading, Uploaded
    <3>4. u \in Used /\ parts \subseteq Used \X (1 .. Parts)
      BY <2>1 DEF Records, RelayInv, Typed
    <3> QED BY <3>3, <3>4, ChunkFacts
  <2>7. job'[j].at \in {"charging", "answering", "sending"} \/ (Live(j)' /\ job[j].kind \in Downloads)
             => u \in (Published \cup kept)'
    <3>1. Published' = Published /\ kept' = kept
      BY <1>1 DEF Published
    <3> SUFFICES ASSUME job[j].kind \notin Downloads, job'[j].at \in {"charging", "answering", "sending"}
                 PROVE  job[j].at \in {"charging", "answering", "sending"}
      BY <2>1, <3>1 DEF RelayInv, DescriptorsAreKnown
    <3> QED BY DEF Calm, Passage
  <2> QED BY <2>4, <2>5, <2>6, <2>7 DEF OwnIsTrue
<1> QED BY <1>2, <1>3, <1>4, LocalStep

LEMMA MadeSame == ASSUME Typed PROVE (UNCHANGED made => MadeTyped) /\ (Fault => MadeTyped)
BY FaultTyped DEF Typed, MadeTyped

LEMMA TargetSame ==
    ASSUME Typed
    PROVE  /\ UNCHANGED target => target' \in [Jobs -> {"old", "torn", "whole"}]
           /\ \A j \in Jobs, v \in {"old", "torn", "whole"} :
                target' = [target EXCEPT ![j] = v] => target' \in [Jobs -> {"old", "torn", "whole"}]
BY DEF Typed

\* Staging, the guard, the charge, the answer and the client's hanging up are calm.
LEMMA CalmRequest ==
    ASSUME Typed, NEW j \in Jobs,
           \/ Staged(j) \/ StagingFails(j) \/ Permitted(j) \/ NotPermitted(j) \/ HangUp(j)
           \/ Charged(j) \/ ChargeFails(j) \/ Answers(j) \/ SendingEnds(j)
    PROVE  Calm(j)
<1> USE MadeSame, TargetSame DEF Calm, Live, At, history, disk
<1>0. /\ {"guarding", "posting", "fetching", "answering", "idle"} \subseteq Stages
      /\ \A k \in Guarded : k \in KindsAt("guarding")
      /\ \A k \in Uploads : k \in KindsAt("posting") /\ k \in KindsAt("answering")
      /\ \A k \in Downloads : k \in KindsAt("fetching")
      /\ "read" \in KindsAt("answering") /\ Mandated \subseteq Uploads \cup {"read"}
      /\ Guarded \subseteq Uploads \cup {"read"}
  BY DEF Stages, KindsAt, Guarded, Uploads, Downloads, Mandated
<1>1. CASE Staged(j)
  <2>1. job[j].at = "staging" /\ job[j].kind \in Uploads \cup {"download", "read"}
    BY <1>1, StageKinds DEF Staged
  <2>2. CASE job[j].kind \in Guarded
    <3>1. Goes(j, "guarding")
      BY <1>1, <2>2 DEF Staged, Guarded
    <3> QED BY <1>0, <1>1, <2>1, <2>2, <3>1, GoesMoves DEF Staged, Passage
  <2>3. CASE job[j].kind = "upload"
    <3>1. Goes(j, "posting")
      BY <1>1, <2>3 DEF Staged, Guarded
    <3> QED BY <1>0, <1>1, <2>1, <2>3, <3>1, GoesMoves DEF Staged, Passage, Uploads
  <2>4. CASE job[j].kind = "download"
    <3>1. Goes(j, "fetching")
      BY <1>1, <2>4 DEF Staged, Guarded
    <3> QED BY <1>0, <1>1, <2>1, <2>4, <3>1, GoesMoves DEF Staged, Passage, Downloads
  <2> QED BY <2>1, <2>2, <2>3, <2>4 DEF Uploads, Guarded
<1>2. CASE StagingFails(j)
  <2>1. job[j].at = "staging" /\ Moves(j) /\ job'[j].at = "idle" /\ target' = target
    BY <1>2, EndsMoves, IdleMoves DEF StagingFails, Abandons
  <2> QED BY <1>2, <2>1, EndsMoves DEF StagingFails, Passage
<1>3. CASE Permitted(j)
  <2>1. job[j].at = "guarding" /\ job[j].kind \in Guarded
    BY <1>3, StageKinds DEF Permitted
  <2>2. CASE job[j].kind # "read"
    <3>1. Goes(j, "posting") /\ job[j].kind \in Uploads
      BY <1>3, <2>1, <2>2 DEF Permitted, Guarded, Uploads
    <3> QED BY <1>0, <1>3, <2>1, <2>2, <3>1, GoesMoves DEF Permitted, Passage
  <2>3. CASE job[j].kind = "read"
    <3>1. Ends(j) \/ (Goes(j, "fetching") /\ UNCHANGED target)
      BY <1>3, <2>3 DEF Permitted
    <3> QED BY <1>0, <1>3, <2>1, <2>3, <3>1, GoesMoves, EndsMoves DEF Permitted, Passage, Downloads
  <2> QED BY <2>2, <2>3
<1>4. CASE NotPermitted(j)
  BY <1>4, EndsMoves DEF NotPermitted, Passage
<1>5. CASE HangUp(j)
  <2>1. CASE Ends(j) /\ At(j, "sending")
    BY <1>5, <2>1, EndsMoves DEF HangUp, Passage
  <2>2. CASE Ends(j) /\ At(j, "staging")
    BY <1>5, <2>2, EndsMoves DEF HangUp, Passage
  <2>3. ASSUME job' = [job EXCEPT ![j].gone = TRUE, ![j].aborted = ~At(j, "staging")], UNCHANGED disk
        PROVE  Calm(j)
    <3>1. job[j] \in Records /\ job \in [Jobs -> Records] /\ job[j].kind \in KindsAt(job[j].at)
      BY DEF Typed
    <3>2. job' = [job EXCEPT ![j] = [job[j] EXCEPT !.gone = TRUE, !.aborted = ~(job[j].at = "staging")]]
      BY <2>3
    <3>3. [job[j] EXCEPT !.gone = TRUE, !.aborted = ~(job[j].at = "staging")] \in Records
      BY <3>1 DEF Records
    <3>4. Moves(j) /\ job'[j].at = job[j].at /\ job'[j].part = job[j].part
      BY <3>1, <3>2, <3>3 DEF Moves, Records
    <3> QED BY <1>5, <2>3, <3>4 DEF HangUp, Passage
  <2> QED BY <1>5, <2>1, <2>2, <2>3 DEF HangUp
<1>6. CASE Charged(j)
  <2>1. job[j].at = "charging" /\ job[j].kind \in Mandated /\ Goes(j, "answering")
    BY <1>6, StageKinds DEF Charged
  <2> QED BY <1>0, <1>6, <2>1, GoesMoves DEF Charged, Passage
<1>7. CASE ChargeFails(j)
  BY <1>7, EndsMoves DEF ChargeFails, Passage
<1>8. CASE Answers(j)
  <2>1. CASE job[j].kind = "read"
    BY <1>8, <2>1, SendsMoves DEF Answers, Passage, Downloads
  <2>2. CASE job[j].kind # "read"
    BY <1>8, <2>2, EndsMoves DEF Answers, Passage
  <2> QED BY <2>1, <2>2
<1>9. CASE SendingEnds(j)
  BY <1>9, EndsMoves DEF SendingEnds, Passage
<1> QED BY <1>1, <1>2, <1>3, <1>4, <1>5, <1>6, <1>7, <1>8, <1>9

\* So are the steps of a download, and the refusals.
LEMMA CalmTransfer ==
    ASSUME Typed, NEW j \in Jobs, Download(j) \/ PartRefused(j) \/ EventRefused(j)
    PROVE  Calm(j)
<1> USE MadeSame, TargetSame DEF Calm, Live, At, history, disk
<1>0. /\ {"storing", "deleting", "charging"} \subseteq Stages
      /\ \A k \in Downloads : k \in KindsAt("storing")
      /\ \A k \in Uploads : k \in KindsAt("deleting")
      /\ "read" \in KindsAt("charging")
  BY DEF Stages, KindsAt, Uploads, Downloads, Mandated
<1>1. CASE Fetched(j)
  <2>1. job[j].at = "fetching" /\ job[j].kind \in Downloads
    BY <1>1, StageKinds DEF Fetched
  <2> QED BY <1>0, <1>1, <2>1, StepsOnMoves DEF Fetched, Passage
<1>2. CASE FetchAgain(j)
  BY <1>2, RetriesMoves DEF FetchAgain, Passage
<1>3. CASE FetchFails(j) \/ FetchEnds(j) \/ StoreFails(j)
  BY <1>3, EndsMoves DEF FetchFails, FetchEnds, StoreFails, Passage
<1>4. CASE Torn(j)
  <2>1. Moves(j) /\ job' = job
    BY <1>4 DEF Torn, Moves, Typed
  <2> QED BY <1>4, <2>1 DEF Torn, Passage
<1>5. CASE Stored(j)
  <2>1. job[j].at = "storing" /\ job[j].kind \in Downloads
    BY <1>5, StageKinds DEF Stored
  <2>2. Moves(j)
    <3>1. CASE job[j].kind = "download"
      BY <1>5, <3>1, SendsMoves DEF Stored
    <3>2. CASE job[j].kind = "read"
      <4>1. Goes(j, "charging")
        BY <1>5, <3>2 DEF Stored
      <4> QED BY <1>0, <3>2, <4>1, GoesMoves
    <3>3. CASE job[j].kind = "save"
      BY <1>5, <3>3, IdleMoves DEF Stored
    <3> QED BY <2>1, <3>1, <3>2, <3>3 DEF Downloads
  <2>3. target' \in [Jobs -> {"old", "torn", "whole"}]
    BY <1>5 DEF Stored
  <2> QED BY <1>5, <2>1, <2>2, <2>3 DEF Stored, Passage
<1>6. CASE PartRefused(j)
  <2>1. job[j].at = "posting" /\ job[j].kind \in Uploads /\ Goes(j, "deleting")
    BY <1>6, StageKinds DEF PartRefused
  <2> QED BY <1>0, <1>6, <2>1, GoesMoves DEF PartRefused, Passage
<1>7. CASE EventRefused(j)
  <2>1. job[j].at = "publishing" /\ job[j].kind \in Uploads /\ Goes(j, "deleting")
    BY <1>7, StageKinds DEF EventRefused, Uploads
  <2>2. job[j].u \notin artifact
    BY <1>7 DEF EventRefused, Typed
  <2> QED BY <1>0, <1>7, <2>1, <2>2, GoesMoves DEF EventRefused, Passage
<1> QED BY <1>1, <1>2, <1>3, <1>4, <1>5, <1>6, <1>7 DEF Download

-----------------------------------------------------------------------------
(* Steps of an upload.                                                     *)

\* What is known of an upload that is beyond its guard.
LEMMA UploadFacts ==
    ASSUME RelayInv, NEW j \in Jobs, job[j].at \in {"posting", "deleting", "publishing"}
    PROVE  /\ job[j].kind \in Uploads /\ job[j].kind \notin Downloads /\ Live(j) /\ Uploaded(j)
           /\ job[j].u \in Used /\ job[j].part \in 1 .. Parts
           /\ Chunks(job[j].u) \subseteq Used \X (1 .. Parts)
<1>1. job[j].kind \in Uploads /\ job[j].kind \notin Downloads
  BY StageKinds DEF RelayInv, Uploads, Downloads
<1>2. Live(j) /\ Uploaded(j)
  BY <1>1 DEF Live, RelayInv, UploadsAreTrue, Uploading
<1>3. job[j] \in Records
  BY DEF RelayInv, Typed
<1> QED BY <1>1, <1>2, <1>3, ChunkFacts DEF Records

\* A step of j that is typed when its parts and descriptors are.
LEMMA UploadTyped ==
    ASSUME Typed, NEW j \in Jobs, Moves(j), MadeTyped, UNCHANGED target,
           parts' \cup late' \subseteq Used \X (1 .. Parts),
           Published' \cup kept' \cup unsure' \subseteq Used,
           artifact' = {} \/ \E u \in Used : artifact' = {u}
    PROVE  Typed'
<1>1. Used' = Used
  BY DEF Used, MadeTyped
<1>2. \A k \in Jobs : job'[k].kind \in KindsAt(job'[k].at)
  BY MovesTyped
<1>3. job' \in [Jobs -> Records]'
  BY <1>1 DEF Moves, Records
<1> QED BY <1>1, <1>2, <1>3 DEF Typed, MadeTyped

\* A part is stored: the parts so far are there, and with the last one the upload is complete.
LEMMA PartStep ==
    ASSUME RelayInv, NEW j \in Jobs, PartStored(j)
    PROVE  RelayInv'
<1> DEFINE u == job[j].u
           n == job[j].part
           next == IF job[j].kind = "upload" THEN "answering" ELSE "publishing"
<1>1. job[j].at = "posting" /\ StepsOn(j, next) /\ parts' = parts \cup {<<u, n>>}
      /\ UNCHANGED <<late, artifact, outbox, unsure, strays, made, target>>
      /\ kept' = IF job[j].kind = "upload" /\ n = Parts THEN kept \cup {u} ELSE kept
  BY DEF PartStored, At, Current, disk, history
<1>2. /\ job[j].kind \in Uploads /\ job[j].kind \notin Downloads /\ Live(j) /\ Uploaded(j)
      /\ u \in Used /\ n \in 1 .. Parts /\ Chunks(u) \subseteq Used \X (1 .. Parts)
  BY <1>1, UploadFacts
<1>3. u \notin Published \cup kept /\ {u} \X (1 .. n - 1) \subseteq parts
  BY <1>1, <1>2 DEF Uploaded
<1>4. <<u, n>> \in Chunks(u) /\ {u} \X (1 .. n) = ({u} \X (1 .. n - 1)) \cup {<<u, n>>}
  <2>1. 1 .. n = (1 .. n - 1) \cup {n}
    BY <1>2
  <2> QED BY <1>2, <2>1 DEF Chunks
<1>5. {u} \X (1 .. n) \subseteq parts'
  BY <1>1, <1>3, <1>4
<1>6. next \in Stages /\ job[j].kind \in KindsAt(next)
  BY <1>2 DEF Stages, KindsAt, Uploads
<1> HIDE DEF next
<1>7. /\ Moves(j)
      /\ IF n = Parts THEN job'[j].at = next /\ job'[j].part = 1
         ELSE job'[j].at = "posting" /\ job'[j].part = n + 1
  BY <1>1, <1>6, StepsOnMoves DEF RelayInv
<1>8. job'[j].u = u /\ job'[j].kind = job[j].kind
  BY <1>7 DEF Moves
<1> HIDE DEF u, n
<1>9. Published' = Published /\ UNCHANGED unsure
  BY <1>1 DEF Published
<1>10. Local(j)
  BY <1>1, <1>2, <1>4, <1>7 DEF Local, RelayInv, LateAreStrays, u
<1>11. Typed'
  <2>1. parts' \cup late' \subseteq Used \X (1 .. Parts) /\ Published' \cup kept' \cup unsure' \subseteq Used
    BY <1>1, <1>2, <1>4, <1>9 DEF RelayInv, Typed
  <2>2. artifact' = {} \/ \E v \in Used : artifact' = {v}
    BY <1>1 DEF RelayInv, Typed
  <2> QED BY <1>1, <1>7, <2>1, <2>2, MadeSame, UploadTyped DEF RelayInv
<1>12. OwnIsTrue(j)
  <2>1. CASE n # Parts
    <3>1. job'[j].at = "posting" /\ job'[j].part = n + 1 /\ kept' = kept /\ (n + 1) - 1 = n
      BY <1>1, <1>2, <1>7, <2>1
    <3>2. Uploaded(j)'
      BY <1>3, <1>5, <1>8, <1>9, <3>1 DEF Uploaded
    <3>3. u \notin Published' \cup kept'
      BY <1>3, <1>9, <3>1
    <3> QED BY <1>2, <3>1, <3>2, <3>3 DEF OwnIsTrue, u
  <2>2. CASE n = Parts
    <3>1. Chunks(u) \subseteq parts'
      BY <1>5, <2>2 DEF Chunks
    <3>2. CASE job[j].kind = "upload"
      <4>1. u \in kept' /\ job'[j].at = "answering"
        BY <1>1, <1>7, <2>2, <3>2 DEF next
      <4>2. Uploaded(j)'
        BY <4>1 DEF Uploaded
      <4> QED BY <3>1, <4>1, <4>2 DEF OwnIsTrue, u
    <3>3. CASE job[j].kind # "upload"
      <4>1. kept' = kept /\ job'[j].at = "publishing"
        BY <1>1, <1>7, <2>2, <3>3 DEF next
      <4>2. u \notin outbox' \cup kept'
        BY <1>1, <1>3, <4>1 DEF Published
      <4>3. Uploaded(j)'
        BY <1>8, <3>1, <4>1, <4>2 DEF Uploaded, u
      <4> QED BY <1>2, <3>1, <4>1, <4>3 DEF OwnIsTrue, u
    <3> QED BY <3>2, <3>3
  <2> QED BY <2>1, <2>2
<1> QED BY <1>10, <1>11, <1>12, LocalStep

\* A POST without an answer may have stored its part, or store it later.
LEMMA UnansweredStep ==
    ASSUME RelayInv, NEW j \in Jobs, PartFails(j) \/ UploadAborted(j)
    PROVE  RelayInv'
<1> DEFINE u == job[j].u
           n == job[j].part
<1>1. job[j].at = "posting" /\ Unanswered(<<u, n>>) /\ UNCHANGED <<artifact, outbox, kept, unsure, target>>
      /\ MadeTyped
  BY MadeSame DEF PartFails, UploadAborted, At, Current, disk, RelayInv
<1>2. /\ job[j].kind \in Uploads /\ job[j].kind \notin Downloads /\ Live(j) /\ Uploaded(j)
      /\ u \in Used /\ n \in 1 .. Parts /\ Chunks(u) \subseteq Used \X (1 .. Parts)
  BY <1>1, UploadFacts
<1>3. u \notin Published \cup kept /\ {u} \X (1 .. n - 1) \subseteq parts
  BY <1>1, <1>2 DEF Uploaded
<1>4. <<u, n>> \in Chunks(u)
  BY <1>2 DEF Chunks
<1>5. /\ parts \subseteq parts' /\ parts' \subseteq parts \cup {<<u, n>>}
      /\ late' \subseteq late \cup {<<u, n>>} /\ strays \subseteq strays' /\ late' \subseteq strays'
  BY <1>1 DEF Unanswered, RelayInv, LateAreStrays
<1>6. "deleting" \in Stages /\ job[j].kind \in KindsAt("deleting")
  BY <1>2 DEF Stages, KindsAt
<1>7. /\ Moves(j)
      /\ job'[j].at = "deleting" \/ (job'[j].at = "posting" /\ job'[j].part = n)
  <2>1. Goes(j, "deleting") \/ (~Exhausted(j) /\ Retries(j))
    BY DEF PartFails, UploadAborted
  <2> QED BY <1>1, <1>6, <2>1, GoesMoves, RetriesMoves DEF RelayInv
<1>8. job'[j].u = u /\ job'[j].kind = job[j].kind
  BY <1>7 DEF Moves
<1> HIDE DEF u, n
<1>9. Published' = Published
  BY <1>1 DEF Published
<1>10. Local(j)
  BY <1>1, <1>2, <1>4, <1>5, <1>7 DEF Local, MadeTyped, u
<1>11. Typed'
  <2>1. parts' \cup late' \subseteq Used \X (1 .. Parts) /\ Published' \cup kept' \cup unsure' \subseteq Used
    BY <1>1, <1>2, <1>4, <1>5, <1>9 DEF RelayInv, Typed
  <2>2. artifact' = {} \/ \E v \in Used : artifact' = {v}
    BY <1>1 DEF RelayInv, Typed
  <2> QED BY <1>1, <1>7, <2>1, <2>2, UploadTyped DEF RelayInv
<1>12. OwnIsTrue(j)
  <2>1. u \notin Published' \cup kept'
    BY <1>1, <1>3, <1>9
  <2>2. {u} \X (1 .. n - 1) \subseteq parts'
    BY <1>3, <1>5
  <2>3. Uploaded(j)'
    BY <1>7, <1>8, <2>1, <2>2 DEF Uploaded, Published
  <2> QED BY <1>2, <1>7, <2>1, <2>3 DEF OwnIsTrue, u
<1> QED BY <1>10, <1>11, <1>12, LocalStep

\* The parts of a failed upload go, but for those whose DELETE failed.
LEMMA DeleteStep ==
    ASSUME RelayInv, NEW j \in Jobs, Deletes(j)
    PROVE  RelayInv'
<1> DEFINE u == job[j].u
<1>1. PICK left \in SUBSET (parts \cap Chunks(u)) :
         /\ parts' = (parts \ Chunks(u)) \cup left
         /\ strays' = strays \cup left
         /\ IF left = {} THEN UNCHANGED made ELSE Fault
  BY DEF Deletes
<1>2. job[j].at = "deleting" /\ Ends(j) /\ UNCHANGED <<late, artifact, outbox, kept, unsure>>
  BY DEF Deletes, At
<1>3. MadeTyped
  BY <1>1, MadeSame DEF RelayInv
<1>4. Moves(j) /\ job'[j].at = "idle" /\ UNCHANGED target
  BY <1>2, EndsMoves DEF RelayInv
<1>5. /\ job[j].kind \in Uploads /\ job[j].kind \notin Downloads /\ Live(j) /\ Uploaded(j)
      /\ u \in Used /\ Chunks(u) \subseteq Used \X (1 .. Parts)
  BY <1>2, UploadFacts
<1> HIDE DEF u
<1>6. Local(j)
  BY <1>1, <1>2, <1>3, <1>4, <1>5 DEF Local, MadeTyped, RelayInv, LateAreStrays, u
<1>7. Published' = Published
  BY <1>2 DEF Published
<1>8. Typed'
  <2>1. parts' \cup late' \subseteq Used \X (1 .. Parts) /\ Published' \cup kept' \cup unsure' \subseteq Used
    BY <1>1, <1>2, <1>5, <1>7 DEF RelayInv, Typed
  <2>2. artifact' = {} \/ \E v \in Used : artifact' = {v}
    BY <1>2 DEF RelayInv, Typed
  <2> QED BY <1>3, <1>4, <2>1, <2>2, UploadTyped DEF RelayInv
<1>9. OwnIsTrue(j)
  <2>1. u \notin outbox \cup kept /\ (u \in artifact => u \in unsure)
    BY <1>2, <1>5 DEF Uploaded, u
  <2>2. u \notin (Published \cup kept) \ unsure
    BY <2>1 DEF Published
  <2>3. parts' \cap Chunks(u) \subseteq strays'
    BY <1>1
  <2>4. ~Uploading(j)'
    BY <1>4 DEF Uploading, Live
  <2> QED BY <1>2, <1>4, <1>5, <1>7, <2>2, <2>3, <2>4 DEF OwnIsTrue, Live, u
<1> QED BY <1>6, <1>8, <1>9, LocalStep

\* The ways out of "publishing": done, not queued, to be undone, or tried again.
Outcome(j) ==
    \/ job'[j].at \in {"answering", "charging"} /\ job[j].u \in Published'
    \/ job'[j].at = "idle" /\ Chunks(job[j].u) \subseteq strays'
    \/ job'[j].at = "deleting" /\ UNCHANGED outbox /\ (job[j].u \in artifact' => job[j].u \in unsure')
    \/ job'[j].at = "publishing" /\ UNCHANGED outbox

\* Each of them keeps the invariant ...
LEMMA OutcomeStep ==
    ASSUME RelayInv, NEW j \in Jobs, job[j].at = "publishing", Moves(j), MadeTyped, Outcome(j),
           UNCHANGED <<parts, late, kept, target>>, strays \subseteq strays',
           artifact' = artifact \/ (artifact = {} /\ artifact' = {job[j].u}),
           outbox' = outbox \/ outbox' = outbox \cup {job[j].u},
           unsure \subseteq unsure', unsure' \subseteq unsure \cup {job[j].u}
    PROVE  RelayInv'
<1> DEFINE u == job[j].u
<1>1. /\ job[j].kind \in Uploads /\ job[j].kind \notin Downloads /\ Live(j) /\ Uploaded(j)
      /\ u \in Used /\ Chunks(u) \subseteq Used \X (1 .. Parts)
  BY UploadFacts
<1>2. Chunks(u) \subseteq parts' /\ u \notin outbox \cup kept
  BY <1>1 DEF Uploaded
<1>3. job'[j].u = u /\ job'[j].kind = job[j].kind
  BY DEF Moves
<1> HIDE DEF u
<1>4. Local(j)
  BY <1>1 DEF Local, MadeTyped, RelayInv, LateAreStrays, u
<1>5. Typed'
  <2>1. Published' \subseteq Published \cup {u}
    BY DEF Published, u
  <2>2. parts' \cup late' \subseteq Used \X (1 .. Parts) /\ Published' \cup kept' \cup unsure' \subseteq Used
    BY <1>1, <2>1 DEF RelayInv, Typed, u
  <2>3. artifact' = {} \/ \E v \in Used : artifact' = {v}
    BY <1>1 DEF RelayInv, Typed, u
  <2> QED BY <2>2, <2>3, UploadTyped DEF RelayInv
<1>6. OwnIsTrue(j)
  <2>1. CASE job'[j].at \in {"answering", "charging"} /\ u \in Published'
    <3>1. Uploaded(j)'
      BY <2>1 DEF Uploaded
    <3> QED BY <1>1, <1>2, <2>1, <3>1 DEF OwnIsTrue, u
  <2>2. CASE job'[j].at = "idle" /\ Chunks(u) \subseteq strays'
    BY <1>1, <1>2, <2>2 DEF OwnIsTrue, Uploading, Live, u
  <2>3. CASE job'[j].at = "deleting" /\ UNCHANGED outbox /\ (u \in artifact' => u \in unsure')
    <3>1. Uploaded(j)'
      BY <1>2, <1>3, <2>3 DEF Uploaded
    <3> QED BY <1>1, <1>2, <2>3, <3>1 DEF OwnIsTrue, u
  <2>4. CASE job'[j].at = "publishing" /\ UNCHANGED outbox
    <3>1. Uploaded(j)'
      BY <1>2, <1>3, <2>4 DEF Uploaded
    <3> QED BY <1>1, <1>2, <2>4, <3>1 DEF OwnIsTrue, u
  <2> QED BY <2>1, <2>2, <2>3, <2>4 DEF Outcome, u
<1> QED BY <1>4, <1>5, <1>6, LocalStep

\* ... and each step of "publishing" is one of them.
LEMMA PublishStep ==
    ASSUME RelayInv, NEW j \in Jobs,
           MessageQueued(j) \/ QueueFails(j) \/ EventPublished(j) \/ EventFails(j)
    PROVE  RelayInv'
<1> DEFINE u == job[j].u
<1>0. Typed /\ job[j].at = "publishing" /\ {"answering", "charging", "deleting"} \subseteq Stages
  BY DEF RelayInv, MessageQueued, QueueFails, EventPublished, EventFails, At, Stages
<1>1. CASE MessageQueued(j)
  <2>1. job[j].kind \in KindsAt("answering")
    BY <1>1 DEF MessageQueued, KindsAt, Uploads
  <2>2. Moves(j) /\ job'[j].at = "answering"
    BY <1>0, <1>1, <2>1, GoesMoves DEF MessageQueued
  <2>3. UNCHANGED <<parts, late, artifact, kept, target, unsure, strays, made>> /\ outbox' = outbox \cup {u}
    BY <1>1 DEF MessageQueued, relay, disk, history
  <2>4. MadeTyped /\ Outcome(j)
    BY <1>0, <2>2, <2>3, MadeSame DEF Outcome, Published
  <2> QED BY <1>0, <2>2, <2>3, <2>4, OutcomeStep
<1>2. CASE QueueFails(j)
  <2>1. Moves(j) /\ job'[j].at = "idle" /\ UNCHANGED target
    BY <1>0, <1>2, EndsMoves DEF QueueFails
  <2>2. UNCHANGED <<parts, late, artifact, outbox, kept, unsure>> /\ strays' = strays \cup Chunks(u) /\ Fault
    BY <1>2 DEF QueueFails, relay
  <2>3. MadeTyped /\ Outcome(j)
    BY <1>0, <2>1, <2>2, MadeSame DEF Outcome
  <2> QED BY <1>0, <2>1, <2>2, <2>3, OutcomeStep
<1>3. CASE EventPublished(j)
  <2>1. job[j].kind \in KindsAt("charging")
    BY <1>3 DEF EventPublished, KindsAt, Mandated
  <2>2. Moves(j) /\ job'[j].at = "charging"
    BY <1>0, <1>3, <2>1, GoesMoves DEF EventPublished
  <2>3. UNCHANGED <<parts, late, outbox, kept, target, unsure, strays, made>>
    BY <1>3 DEF EventPublished, Appended, disk, history
  <2>4. artifact' = {u} /\ (artifact' = artifact \/ artifact = {})
    BY <1>3 DEF EventPublished, Appended
  <2>5. MadeTyped /\ Outcome(j)
    BY <1>0, <2>2, <2>3, <2>4, MadeSame DEF Outcome, Published
  <2> QED BY <1>0, <2>2, <2>3, <2>4, <2>5, OutcomeStep
<1>4. CASE EventFails(j)
  <2>1. job[j].kind \in KindsAt("deleting")
    BY <1>4 DEF EventFails, KindsAt, Uploads
  <2>2. UNCHANGED <<parts, late, outbox, kept, target, strays>> /\ Fault
    BY <1>4 DEF EventFails, Appended, relay, disk
  <2>3. artifact' = artifact \/ (artifact = {} /\ artifact' = {u})
    BY <1>4 DEF EventFails, Appended, relay
  <2>4. MadeTyped
    BY <1>0, <2>2, MadeSame
  <2>5. CASE Exhausted(j)
    <3>1. Goes(j, "deleting") /\ unsure' = unsure \cup (artifact' \cap {u})
      BY <1>4, <2>5 DEF EventFails
    <3>2. Moves(j) /\ job'[j].at = "deleting"
      BY <1>0, <2>1, <3>1, GoesMoves
    <3>3. Outcome(j) /\ unsure \subseteq unsure' /\ unsure' \subseteq unsure \cup {u}
      BY <2>2, <3>1, <3>2 DEF Outcome
    <3> QED BY <1>0, <2>2, <2>3, <2>4, <3>2, <3>3, OutcomeStep
  <2>6. CASE ~Exhausted(j)
    <3>1. Retries(j) /\ unsure' = unsure
      BY <1>4, <2>6 DEF EventFails
    <3>2. Moves(j) /\ job'[j].at = "publishing"
      BY <1>0, <2>6, <3>1, RetriesMoves
    <3>3. Outcome(j)
      BY <2>2, <3>2 DEF Outcome
    <3> QED BY <1>0, <2>2, <2>3, <2>4, <3>1, <3>2, <3>3, OutcomeStep
  <2> QED BY <2>5, <2>6
<1> QED BY <1>1, <1>2, <1>3, <1>4

-----------------------------------------------------------------------------
(* A new request, a late part, the end of the process.                     *)

\* The descriptor of a new upload is one nobody has used.
LEMMA RequestTyped ==
    ASSUME Typed, NEW j \in Jobs, NEW kind \in Kinds, NEW u \in Descriptors, Request(j, kind, u)
    PROVE  /\ Typed' /\ Used \subseteq Used' /\ job[j].at = "idle"
           /\ \A k \in Jobs \ {j} : job'[k] = job[k]
           /\ job'[j].kind = kind /\ job'[j].u = u
           /\ job'[j].at = IF kind = "save" THEN "fetching" ELSE "staging"
           /\ IF kind \in Downloads THEN u \in Published \cup kept ELSE u \notin Used
           /\ UNCHANGED <<parts, late, artifact, outbox, kept, unsure, missed, strays>>
<1>0. PICK plain \in BOOLEAN :
        job' = [job EXCEPT ![j] = [NoJob EXCEPT !.kind = kind, !.u = u, !.plain = plain,
               !.at = IF kind = "save" THEN "fetching" ELSE "staging"]]
  BY DEF Request
<1> DEFINE new == [NoJob EXCEPT !.kind = kind, !.u = u, !.plain = plain,
                  !.at = IF kind = "save" THEN "fetching" ELSE "staging"]
<1>1. made.requests \in Nat /\ made' = [made EXCEPT !.requests = @ + 1] /\ job[j].at = "idle"
  BY DEF Typed, Request, At
<1>2. made' \in [requests : Nat, faults : Nat, crashes : Nat] /\ made'.requests = made.requests + 1
  BY <1>1 DEF Typed
<1>3. Used' = 0 .. made.requests + 1 /\ Used \subseteq Used' /\ made.requests + 1 \notin Used
  BY <1>1, <1>2 DEF Used
<1>4. IF kind \in Downloads THEN u \in Published \cup kept ELSE u = made.requests + 1
  BY DEF Request, FreshDescriptor
<1>5. u \in Used'
  BY <1>1, <1>3, <1>4 DEF Typed
<1>6. new \in Records'
  <2>1. kind \in Uploads \cup Downloads
    BY KindsAreKnown DEF Uploads, Downloads
  <2>2. {"fetching", "staging"} \subseteq Stages /\ 1 \in 1 .. Parts /\ 0 \in 0 .. Attempts - 1
    BY CountsArePositive DEF Stages
  <2> QED BY <1>5, <2>1, <2>2 DEF Records, NoJob
<1>7. job' = [job EXCEPT ![j] = new] /\ job \in [Jobs -> Records]
  BY <1>0 DEF Typed
<1>8. Records \subseteq Records'
  BY <1>3 DEF Records
<1>9. job' \in [Jobs -> Records'] /\ job'[j] = new /\ \A k \in Jobs \ {j} : job'[k] = job[k]
  BY <1>6, <1>7, <1>8
<1>10. new.kind = kind /\ new.u = u /\ new.at = (IF kind = "save" THEN "fetching" ELSE "staging")
  BY DEF NoJob
<1>11. kind \in KindsAt(new.at)
  BY <1>10, KindsAreKnown DEF KindsAt, Uploads, Downloads
<1> HIDE DEF new
<1>12. UNCHANGED <<parts, late, artifact, outbox, kept, unsure, missed, strays>>
  BY DEF Request, relay, history
<1>13. Typed'
  <2>1. target' \in [Jobs -> {"old", "torn", "whole"}]
    BY DEF Request, Typed
  <2>2. \A k \in Jobs : job'[k].kind \in KindsAt(job'[k].at)
    BY <1>9, <1>10, <1>11 DEF Typed
  <2>3. parts' \cup late' \subseteq Used' \X (1 .. Parts) /\ Published' \cup kept' \cup unsure' \subseteq Used'
    BY <1>3, <1>12 DEF Typed, Published
  <2>4. artifact' = {} \/ \E v \in Used' : artifact' = {v}
    BY <1>3, <1>12 DEF Typed
  <2> QED BY <1>2, <1>9, <2>1, <2>2, <2>3, <2>4 DEF Typed
<1> QED BY <1>1, <1>3, <1>4, <1>9, <1>10, <1>12, <1>13

LEMMA RequestStep ==
    ASSUME RelayInv, NEW j \in Jobs, NEW kind \in Kinds, NEW u \in Descriptors, Request(j, kind, u)
    PROVE  RelayInv'
<1>1. /\ Typed' /\ Used \subseteq Used' /\ job[j].at = "idle"
      /\ \A k \in Jobs \ {j} : job'[k] = job[k]
      /\ job'[j].kind = kind /\ job'[j].u = u
      /\ job'[j].at = IF kind = "save" THEN "fetching" ELSE "staging"
      /\ IF kind \in Downloads THEN u \in Published \cup kept ELSE u \notin Used
      /\ UNCHANGED <<parts, late, artifact, outbox, kept, unsure, missed, strays>>
  BY RequestTyped DEF RelayInv
<1>2. Published' = Published
  BY <1>1 DEF Published
<1>3. \A k \in Jobs : job[k].u \in Used
  BY DEF RelayInv, Typed, Records
<1>4. kind \in Uploads => kind \notin Downloads /\ kind # "save"
  BY DEF Uploads, Downloads
<1>5. OwnDescriptors'
  BY <1>1, <1>3, <1>4 DEF RelayInv, OwnDescriptors, Uploading, Live
<1>6. UploadsAreTrue'
  <2> SUFFICES ASSUME NEW k \in Jobs, Uploading(k)' PROVE Uploaded(k)'
    BY DEF UploadsAreTrue
  <2>1. CASE k = j
    <3>1. job'[j].at = "staging" /\ u \notin Used
      BY <1>1, <1>4, <2>1 DEF Uploading
    <3>2. u \notin Published \cup kept /\ \A p \in parts \cup late : p[1] # u
      BY <3>1 DEF RelayInv, Typed
    <3> QED BY <1>1, <1>2, <2>1, <3>1, <3>2 DEF Uploaded
  <2>2. CASE k # j
    <3>1. job'[k] = job[k] /\ Uploaded(k)
      BY <1>1, <2>2 DEF RelayInv, UploadsAreTrue, Uploading, Live
    <3> QED BY <1>1, <1>2, <3>1 DEF Uploaded
  <2> QED BY <2>1, <2>2
<1>7. DescriptorsAreKnown'
  BY <1>1, <1>2 DEF RelayInv, DescriptorsAreKnown, Live
<1>8. LateAreStrays' /\ PublishedIsComplete'
  BY <1>1, <1>2 DEF RelayInv, LateAreStrays, PublishedIsComplete
<1>9. FailedIsDeleted'
  BY <1>1, <1>2 DEF RelayInv, FailedIsDeleted
<1> QED BY <1>1, <1>5, <1>6, <1>7, <1>8, <1>9 DEF RelayInv

\* A part that arrives late was counted as a stray when its POST was given up.
LEMMA LandsStep ==
    ASSUME RelayInv, Lands
    PROVE  RelayInv'
<1>1. PICK p \in late : late' = late \ {p} /\ parts' = parts \cup {p}
  BY DEF Lands
<1>2. UNCHANGED <<artifact, outbox, job, target, kept, unsure, strays, made>>
  BY DEF Lands, disk, history
<1>3. parts' \cup late' = parts \cup late /\ parts \subseteq parts' /\ Published' = Published /\ Used' = Used
  BY <1>1, <1>2 DEF Published, Used
<1>4. Typed'
  BY <1>2, <1>3 DEF RelayInv, Typed, Records
<1>5. OwnDescriptors' /\ DescriptorsAreKnown' /\ LateAreStrays' /\ PublishedIsComplete'
  BY <1>1, <1>2, <1>3
     DEF RelayInv, OwnDescriptors, Uploading, Live, DescriptorsAreKnown, LateAreStrays, PublishedIsComplete
<1>6. UploadsAreTrue'
  <2> SUFFICES ASSUME NEW k \in Jobs, Uploading(k) PROVE Uploaded(k)'
    BY <1>2 DEF UploadsAreTrue, Uploading, Live
  <2>1. Uploaded(k)
    BY DEF RelayInv, UploadsAreTrue
  <2> QED BY <1>2, <1>3, <2>1 DEF Uploaded
<1>7. FailedIsDeleted'
  <2>1. p \in strays
    BY DEF RelayInv, LateAreStrays
  <2> QED BY <1>1, <1>2, <1>3, <2>1 DEF RelayInv, FailedIsDeleted
<1> QED BY <1>4, <1>5, <1>6, <1>7 DEF RelayInv

\* After the end of the process nothing is in progress.
LEMMA CrashTyped ==
    ASSUME Typed, Crash
    PROVE  Typed' /\ Used' = Used /\ \A k \in Jobs : job'[k] = [job[k] EXCEPT !.at = "idle"]
<1>1. made' \in [requests : Nat, faults : Nat, crashes : Nat] /\ made'.requests = made.requests
  BY DEF Crash, Typed
<1>2. Used' = Used
  BY <1>1 DEF Used
<1>3. \A k \in Jobs : /\ [job[k] EXCEPT !.at = "idle"] \in Records
                      /\ job[k].kind \in KindsAt("idle")
  BY DEF Typed, Records, Stages, KindsAt
<1>4. job' = [k \in Jobs |-> [job[k] EXCEPT !.at = "idle"]]
  BY DEF Crash
<1>5. job' \in [Jobs -> Records]' /\ \A k \in Jobs : job'[k].kind \in KindsAt(job'[k].at)
  BY <1>2, <1>3, <1>4 DEF Records, Typed
<1> QED BY <1>1, <1>2, <1>4, <1>5 DEF Typed, Crash, relay, disk, Published

LEMMA CrashStep ==
    ASSUME RelayInv, Crash
    PROVE  RelayInv'
<1>1. Typed' /\ \A k \in Jobs : job'[k] = [job[k] EXCEPT !.at = "idle"]
  BY CrashTyped DEF RelayInv
<1>2. \A k \in Jobs : job'[k].at = "idle"
  BY <1>1 DEF RelayInv, Typed, Records
<1>3. /\ UNCHANGED <<parts, late, artifact, outbox, kept, unsure>> /\ strays \subseteq strays'
      /\ \A k \in Jobs : job[k].at # "idle" => Chunks(job[k].u) \subseteq strays'
  BY DEF Crash, relay
<1>4. Published' = Published
  BY <1>3 DEF Published
<1>5. OwnDescriptors' /\ UploadsAreTrue' /\ DescriptorsAreKnown'
  BY <1>2 DEF OwnDescriptors, UploadsAreTrue, DescriptorsAreKnown, Uploading, Live
<1>6. LateAreStrays' /\ PublishedIsComplete'
  BY <1>3, <1>4 DEF RelayInv, LateAreStrays, PublishedIsComplete
<1>7. FailedIsDeleted'
  <2> SUFFICES ASSUME NEW p \in parts \ strays', p[1] \notin Published \cup kept PROVE FALSE
    BY <1>3, <1>4 DEF FailedIsDeleted
  <2>1. PICK k \in Jobs : job[k].at # "idle" /\ job[k].u = p[1]
    BY <1>3 DEF RelayInv, FailedIsDeleted
  <2>2. p \in Chunks(job[k].u)
    BY <1>3, <2>1, ChunkFacts DEF RelayInv, Typed, Records
  <2> QED BY <1>3, <2>1, <2>2
<1> QED BY <1>1, <1>5, <1>6, <1>7 DEF RelayInv

LEMMA RelayInit == Init => RelayInv
<1> SUFFICES ASSUME Init PROVE RelayInv
  OBVIOUS
<1>1. made.requests = 0 /\ Used = {0} /\ job = [j \in Jobs |-> NoJob] /\ Published = {0} /\ kept = {} /\ unsure = {}
  BY DEF Init, Used, Published, Legacy
<1>2. parts = Chunks(0) /\ late = {} /\ strays = {} /\ artifact = {}
  BY DEF Init, Legacy
<1>3. NoJob \in Records /\ NoJob.at = "idle" /\ NoJob.kind = "none" /\ "none" \in KindsAt("idle")
  BY <1>1, CountsArePositive DEF NoJob, Records, Stages, KindsAt, Legacy
<1>4. \A j \in Jobs : job[j] = NoJob
  BY <1>1
<1>5. Typed
  <2>1. made \in [requests : Nat, faults : Nat, crashes : Nat] /\ target \in [Jobs -> {"old", "torn", "whole"}]
    BY DEF Init
  <2>2. Chunks(0) \subseteq Used \X (1 .. Parts)
    BY <1>1 DEF Chunks
  <2> QED BY <1>1, <1>2, <1>3, <1>4, <2>1, <2>2 DEF Typed
<1>6. OwnDescriptors /\ UploadsAreTrue /\ DescriptorsAreKnown
  BY <1>3, <1>4 DEF OwnDescriptors, UploadsAreTrue, DescriptorsAreKnown, Uploading, Live
<1>7. LateAreStrays /\ PublishedIsComplete /\ FailedIsDeleted
  BY <1>1, <1>2 DEF LateAreStrays, PublishedIsComplete, FailedIsDeleted, Chunks
<1> QED BY <1>5, <1>6, <1>7 DEF RelayInv

\* Every step keeps it: the calm ones, those of an upload one by one, and those of no request.
LEMMA RelayNext == RelayInv /\ [Next]_vars => RelayInv'
<1> SUFFICES ASSUME RelayInv, [Next]_vars PROVE RelayInv'
  OBVIOUS
<1>1. ASSUME NEW j \in Jobs, NEW kind \in Kinds, NEW u \in Descriptors, Request(j, kind, u) PROVE RelayInv'
  BY <1>1, RequestStep
<1>2. ASSUME NEW j \in Jobs, HangUp(j) \/ Step(j) PROVE RelayInv'
  <2>1. CASE \/ Staged(j) \/ StagingFails(j) \/ Permitted(j) \/ NotPermitted(j) \/ HangUp(j)
             \/ Charged(j) \/ ChargeFails(j) \/ Answers(j) \/ SendingEnds(j)
    BY <2>1, CalmRequest, CalmStep DEF RelayInv
  <2>2. CASE Download(j) \/ PartRefused(j) \/ EventRefused(j)
    BY <2>2, CalmTransfer, CalmStep DEF RelayInv
  <2>3. CASE PartStored(j)
    BY <2>3, PartStep
  <2>4. CASE PartFails(j) \/ UploadAborted(j)
    BY <2>4, UnansweredStep
  <2>5. CASE Deletes(j)
    BY <2>5, DeleteStep
  <2>6. CASE MessageQueued(j) \/ QueueFails(j) \/ EventPublished(j) \/ EventFails(j)
    BY <2>6, PublishStep
  <2> QED BY <1>2, <2>1, <2>2, <2>3, <2>4, <2>5, <2>6 DEF Step, Upload
<1>3. CASE Lands
  BY <1>3, LandsStep
<1>4. CASE Crash
  BY <1>4, CrashStep
<1>5. CASE UNCHANGED vars
  BY <1>5 DEF vars, relay, disk, history, RelayInv, Typed, Used, Records, Published, OwnDescriptors, UploadsAreTrue,
              Uploaded, Uploading, Live, DescriptorsAreKnown, LateAreStrays, PublishedIsComplete, FailedIsDeleted
<1> QED BY <1>1, <1>2, <1>3, <1>4, <1>5 DEF Next

\* What is at the relay is as the invariant says, always.
LEMMA RelayAlways == Spec => []RelayInv
BY RelayInit, RelayNext, PTL DEF Spec

-----------------------------------------------------------------------------
(* The disk.                                                               *)

\* What a step of j leaves: the other requests, and what j is for.
Keeps(j) ==
    /\ \A k \in Jobs \ {j} : job'[k] = job[k]
    /\ job'[j].kind = job[j].kind /\ job'[j].u = job[j].u

\* Every helper keeps them.
LEMMA Keeping ==
    ASSUME Typed, NEW j \in Jobs
    PROVE  /\ \A stage : Goes(j, stage) => Keeps(j) /\ job'[j].at = stage
           /\ Retries(j) => Keeps(j) /\ job'[j].at = job[j].at
           /\ \A stage : StepsOn(j, stage) => Keeps(j) /\ job'[j].at \in {stage, job[j].at}
           /\ job' = [job EXCEPT ![j].at = "idle"] => Keeps(j) /\ job'[j].at = "idle"
           /\ Ends(j) => Keeps(j) /\ job'[j].at = "idle"
<1>1. job \in [Jobs -> Records] /\ job[j] \in Records
  BY DEF Typed
<1>2. \A stage : Goes(j, stage) => Keeps(j) /\ job'[j].at = stage
  BY <1>1 DEF Goes, Keeps, Records
<1>3. Retries(j) => Keeps(j) /\ job'[j].at = job[j].at
  BY <1>1 DEF Retries, Keeps, Records
<1>4. \A stage : StepsOn(j, stage) => Keeps(j) /\ job'[j].at \in {stage, job[j].at}
  BY <1>1, <1>2 DEF StepsOn, Keeps, Records
<1>5. job' = [job EXCEPT ![j].at = "idle"] => Keeps(j) /\ job'[j].at = "idle"
  BY <1>1 DEF Keeps, Records
<1>6. Ends(j) => Keeps(j) /\ job'[j].at = "idle"
  BY <1>1 DEF Ends, Keeps, Records
<1> QED BY <1>2, <1>3, <1>4, <1>5, <1>6

\* A step of j touches the files of j only, and takes them along when j ends.
Tidies(j) ==
    /\ Live(j) /\ Keeps(j) /\ missed \subseteq missed'
    /\ dirs' \subseteq dirs /\ temps' \subseteq temps \cup {j}
    /\ j \in temps' => j \in temps \/ job[j].kind \in Downloads
    /\ \A k \in Jobs \ {j} : target'[k] = target[k]
    /\ target'[j] = "torn" => target[j] = "torn" \/ job[j].u = Legacy
    /\ job'[j].at = "idle" => j \notin dirs' \cup temps' \/ j \in missed'

\* Such a step keeps the disk in order.
LEMMA TidiesStep ==
    ASSUME DiskIsTrue, NEW j \in Jobs, Tidies(j)
    PROVE  DiskIsTrue'
<1> SUFFICES ASSUME NEW k \in Jobs
             PROVE  /\ k \notin missed' /\ job'[k].at = "idle" => k \notin dirs' \cup temps'
                    /\ Live(k)' /\ job'[k].kind = "save" => k \notin dirs'
                    /\ Live(k)' /\ job'[k].kind \in Uploads => k \notin temps'
                    /\ target'[k] = "torn" => job'[k].u = Legacy
  BY DEF DiskIsTrue
<1>1. CASE k # j
  BY <1>1 DEF DiskIsTrue, Tidies, Keeps, Live
<1>2. CASE k = j
  <2>1. job[j].kind \in Uploads => job[j].kind \notin Downloads
    BY DEF Uploads, Downloads
  <2> QED BY <1>2, <2>1 DEF DiskIsTrue, Tidies, Keeps, Live
<1> QED BY <1>1, <1>2

\* The steps that end a request clean up, the steps that go on leave the files alone.
LEMMA EndsTidies ==
    ASSUME Typed, NEW j \in Jobs, Live(j), Ends(j), UNCHANGED missed
    PROVE  Tidies(j)
<1>1. Keeps(j)
  BY Keeping
<1> QED BY <1>1 DEF Tidies, Ends

LEMMA GoingTidies ==
    ASSUME NEW j \in Jobs, Live(j), Keeps(j), job'[j].at # "idle", UNCHANGED <<disk, missed>>
    PROVE  Tidies(j)
BY DEF Tidies, disk

\* The steps of a request, of its upload and of its download are of this kind.
LEMMA RequestTidies ==
    ASSUME Typed, NEW j \in Jobs,
           \/ Staged(j) \/ StagingFails(j) \/ Permitted(j) \/ NotPermitted(j) \/ HangUp(j)
           \/ Charged(j) \/ ChargeFails(j) \/ Answers(j) \/ SendingEnds(j)
    PROVE  Tidies(j)
<1>0. CASE StagingFails(j)
  <2>1. Live(j)
    BY <1>0 DEF StagingFails, At, Live
  <2>2. CASE Ends(j) /\ UNCHANGED missed
    BY <2>1, <2>2, EndsTidies
  <2>3. CASE Abandons(j) /\ UNCHANGED disk
    BY <2>1, <2>3, Keeping DEF Abandons, Tidies, disk
  <2> QED BY <1>0, <2>2, <2>3 DEF StagingFails
<1>1. CASE NotPermitted(j) \/ ChargeFails(j) \/ SendingEnds(j)
  BY <1>1, EndsTidies DEF NotPermitted, ChargeFails, SendingEnds, At, Live, history
<1>2. CASE Charged(j)
  BY <1>2, Keeping, GoingTidies DEF Charged, At, Live, history
<1>3. CASE Staged(j)
  <2>1. job[j].kind \in Uploads \cup {"download", "read"} /\ Live(j)
    BY <1>3, StageKinds DEF Staged, At, Live
  <2>2. CASE job[j].kind = "download"
    <3>1. Goes(j, "fetching") /\ Opens(j) /\ UNCHANGED <<dirs, target, missed>>
      BY <1>3, <2>2 DEF Staged, Guarded, history
    <3>2. Keeps(j) /\ job'[j].at # "idle"
      BY <3>1, Keeping
    <3> QED BY <2>1, <2>2, <3>1, <3>2 DEF Tidies, Opens, Downloads
  <2>3. CASE job[j].kind # "download"
    <3>1. (Goes(j, "guarding") \/ Goes(j, "posting")) /\ UNCHANGED <<dirs, temps, target, missed>>
      BY <1>3, <2>1, <2>3 DEF Staged, Guarded, Uploads, history
    <3>2. Keeps(j) /\ job'[j].at # "idle"
      BY <3>1, Keeping
    <3> QED BY <2>1, <3>1, <3>2, GoingTidies DEF disk
  <2> QED BY <2>2, <2>3
<1>4. CASE Permitted(j)
  <2>1. Live(j) /\ UNCHANGED missed
    BY <1>4 DEF Permitted, At, Live, history
  <2>2. CASE Ends(j)
    BY <2>1, <2>2, EndsTidies
  <2>3. CASE Goes(j, "posting") /\ UNCHANGED disk
    BY <2>1, <2>3, Keeping, GoingTidies
  <2>4. CASE job[j].kind = "read" /\ Goes(j, "fetching") /\ Opens(j) /\ UNCHANGED <<dirs, target>>
    <3>1. Keeps(j) /\ job'[j].at # "idle"
      BY <2>4, Keeping
    <3> QED BY <2>1, <2>4, <3>1 DEF Tidies, Opens, Downloads
  <2> QED BY <1>4, <2>2, <2>3, <2>4 DEF Permitted
<1>5. CASE HangUp(j)
  <2>1. Live(j) /\ UNCHANGED missed
    BY <1>5 DEF HangUp, Live, history
  <2>2. CASE Ends(j)
    BY <2>1, <2>2, EndsTidies
  <2>3. CASE job' = [job EXCEPT ![j].gone = TRUE, ![j].aborted = ~At(j, "staging")] /\ UNCHANGED disk
    <3>1. Keeps(j) /\ job'[j].at = job[j].at
      BY <2>3 DEF Typed, Keeps, Records
    <3> QED BY <2>1, <2>3, <3>1, GoingTidies DEF Live
  <2> QED BY <1>5, <2>2, <2>3 DEF HangUp
<1>6. CASE Answers(j)
  <2>1. Live(j)
    BY <1>6 DEF Answers, At, Live
  <2>2. CASE job[j].kind = "read"
    <3>1. Sends(j) /\ UNCHANGED disk
      BY <1>6, <2>2 DEF Answers
    <3>2. Keeps(j) /\ \/ job'[j].at = "idle" /\ missed' = missed \cup {j}
                      \/ job'[j].at = "sending" /\ missed' = missed
      BY <3>1, Keeping DEF Sends, Abandons
    <3> QED BY <2>1, <3>1, <3>2 DEF Tidies, disk
  <2>3. CASE job[j].kind # "read"
    BY <1>6, <2>1, <2>3, EndsTidies DEF Answers
  <2> QED BY <2>2, <2>3
<1> QED BY <1>0, <1>1, <1>2, <1>3, <1>4, <1>5, <1>6

LEMMA UploadTidies ==
    ASSUME Typed, NEW j \in Jobs,
           \/ PartStored(j) \/ PartFails(j) \/ PartRefused(j) \/ UploadAborted(j) \/ Deletes(j)
           \/ MessageQueued(j) \/ QueueFails(j) \/ EventPublished(j) \/ EventRefused(j) \/ EventFails(j)
    PROVE  Tidies(j)
<1>1. CASE Deletes(j) \/ QueueFails(j)
  BY <1>1, EndsTidies DEF Deletes, QueueFails, At, Live
<1>2. CASE PartStored(j)
  <2>1. Live(j) /\ UNCHANGED <<disk, missed>> /\ job[j].at = "posting"
    BY <1>2 DEF PartStored, At, Live, history
  <2>2. StepsOn(j, "answering") \/ StepsOn(j, "publishing")
    BY <1>2 DEF PartStored
  <2>3. Keeps(j) /\ job'[j].at # "idle"
    BY <2>1, <2>2, Keeping
  <2> QED BY <2>1, <2>3, GoingTidies
<1>3. CASE PartFails(j) \/ EventFails(j)
  <2>1. Live(j) /\ UNCHANGED <<disk, missed>> /\ job[j].at # "idle"
    BY <1>3 DEF PartFails, EventFails, At, Live
  <2>2. Goes(j, "deleting") \/ Retries(j)
    BY <1>3 DEF PartFails, EventFails
  <2>3. Keeps(j) /\ job'[j].at # "idle"
    BY <2>1, <2>2, Keeping
  <2> QED BY <2>1, <2>3, GoingTidies
<1>4. CASE PartRefused(j) \/ UploadAborted(j) \/ MessageQueued(j) \/ EventPublished(j) \/ EventRefused(j)
  <2>1. Live(j) /\ UNCHANGED <<disk, missed>>
    BY <1>4 DEF PartRefused, UploadAborted, MessageQueued, EventPublished, EventRefused, At, Live, history
  <2>2. Goes(j, "deleting") \/ Goes(j, "answering") \/ Goes(j, "charging")
    BY <1>4 DEF PartRefused, UploadAborted, MessageQueued, EventPublished, EventRefused
  <2>3. Keeps(j) /\ job'[j].at # "idle"
    BY <2>2, Keeping
  <2> QED BY <2>1, <2>3, GoingTidies
<1> QED BY <1>1, <1>2, <1>3, <1>4

LEMMA DownloadTidies ==
    ASSUME Typed, DiskIsTrue, NEW j \in Jobs, Download(j)
    PROVE  Tidies(j)
<1>1. CASE FetchFails(j) \/ FetchEnds(j) \/ StoreFails(j)
  BY <1>1, EndsTidies DEF FetchFails, FetchEnds, StoreFails, At, Live, history
<1>2. CASE Fetched(j) \/ FetchAgain(j)
  <2>1. Live(j) /\ UNCHANGED <<disk, missed>> /\ job[j].at # "idle"
    BY <1>2 DEF Fetched, FetchAgain, At, Live, history
  <2>2. StepsOn(j, "storing") \/ Retries(j)
    BY <1>2 DEF Fetched, FetchAgain
  <2>3. Keeps(j) /\ job'[j].at # "idle"
    BY <2>1, <2>2, Keeping
  <2> QED BY <2>1, <2>3, GoingTidies
<1>3. CASE Torn(j)
  <2>1. Live(j) /\ UNCHANGED <<job, dirs, temps, missed>> /\ target' = [target EXCEPT ![j] = "torn"] /\ job[j].u = Legacy
    BY <1>3 DEF Torn, At, Live, history, InPlace
  <2> QED BY <2>1 DEF Tidies, Keeps, Live, Typed
<1>4. CASE Stored(j)
  <2>1. Live(j) /\ UNCHANGED dirs /\ temps' = temps \ {j} /\ job[j].kind \in Downloads
    BY <1>4, StageKinds DEF Stored, At, Live
  <2>2. /\ \A k \in Jobs \ {j} : target'[k] = target[k]
        /\ target'[j] = "torn" => target[j] = "torn"
    BY <1>4 DEF Stored, Typed
  <2>3. CASE job[j].kind = "download"
    <3>1. Sends(j)
      BY <1>4, <2>3 DEF Stored
    <3>2. Keeps(j) /\ \/ job'[j].at = "idle" /\ missed' = missed \cup {j}
                      \/ job'[j].at = "sending" /\ missed' = missed
      BY <3>1, Keeping DEF Sends, Abandons
    <3> QED BY <2>1, <2>2, <3>2 DEF Tidies
  <2>4. CASE job[j].kind = "read"
    <3>1. Goes(j, "charging") /\ UNCHANGED missed
      BY <1>4, <2>4 DEF Stored
    <3>2. Keeps(j) /\ job'[j].at # "idle"
      BY <3>1, Keeping
    <3> QED BY <2>1, <2>2, <3>1, <3>2 DEF Tidies
  <2>5. CASE job[j].kind = "save"
    <3>1. job' = [job EXCEPT ![j].at = "idle"] /\ UNCHANGED missed
      BY <1>4, <2>5 DEF Stored
    <3>2. Keeps(j)
      BY <3>1, Keeping
    <3>3. j \notin dirs
      BY <2>1, <2>5 DEF DiskIsTrue
    <3> QED BY <2>1, <2>2, <3>1, <3>2, <3>3 DEF Tidies
  <2> QED BY <2>1, <2>3, <2>4, <2>5 DEF Downloads
<1> QED BY <1>1, <1>2, <1>3, <1>4 DEF Download

\* Every step keeps the disk in order.
LEMMA DiskNext == RelayInv /\ DiskIsTrue /\ [Next]_vars => DiskIsTrue'
<1> SUFFICES ASSUME RelayInv, DiskIsTrue, [Next]_vars PROVE DiskIsTrue'
  OBVIOUS
<1>0. Typed
  BY DEF RelayInv
<1>1. ASSUME NEW j \in Jobs, NEW kind \in Kinds, NEW u \in Descriptors, Request(j, kind, u) PROVE DiskIsTrue'
  <2>1. /\ job[j].at = "idle" /\ \A k \in Jobs \ {j} : job'[k] = job[k]
        /\ job'[j].kind = kind /\ job'[j].u = u /\ job'[j].at # "idle" /\ UNCHANGED missed
    BY <1>0, <1>1, RequestTyped
  <2>2. /\ j \notin dirs \cup temps
        /\ dirs' = IF kind = "save" THEN dirs ELSE dirs \cup {j}
        /\ temps' = IF kind = "save" /\ u # Legacy THEN temps \cup {j} ELSE temps
        /\ target' = [target EXCEPT ![j] = "old"]
    BY <1>1 DEF Request
  <2>3. \A k \in Jobs : target'[k] = IF k = j THEN "old" ELSE target[k]
    BY <1>0, <2>2 DEF Typed
  <2> QED BY <2>1, <2>2, <2>3 DEF DiskIsTrue, Live, Uploads
<1>2. ASSUME NEW j \in Jobs, HangUp(j) \/ Step(j) PROVE DiskIsTrue'
  <2>1. Tidies(j)
    BY <1>0, <1>2, RequestTidies, UploadTidies, DownloadTidies DEF Step, Upload
  <2> QED BY <2>1, TidiesStep
<1>3. CASE Lands
  BY <1>3 DEF Lands, disk, history, DiskIsTrue, Live
<1>4. CASE Crash
  <2>1. \A k \in Jobs : job'[k].at = "idle" /\ job'[k].u = job[k].u
    <3>1. \A k \in Jobs : job'[k] = [job[k] EXCEPT !.at = "idle"]
      BY <1>0, <1>4, CrashTyped
    <3>2. \A k \in Jobs : job[k] \in Records
      BY <1>0 DEF Typed
    <3> QED BY <3>1, <3>2 DEF Records
  <2> QED BY <1>4, <2>1 DEF Crash, disk, DiskIsTrue, Live
<1>5. CASE UNCHANGED vars
  BY <1>5 DEF vars, disk, history, DiskIsTrue, Live
<1> QED BY <1>1, <1>2, <1>3, <1>4, <1>5 DEF Next

LEMMA DiskInit == Init => DiskIsTrue
<1> SUFFICES ASSUME Init PROVE DiskIsTrue
  OBVIOUS
<1>1. \A j \in Jobs : job[j].at = "idle" /\ target[j] = "old" /\ dirs = {} /\ temps = {}
  BY DEF Init, NoJob
<1> QED BY <1>1 DEF DiskIsTrue, Live

-----------------------------------------------------------------------------
(* What follows.                                                           *)

RequestsBounded == made.requests <= MaxRequests

LEMMA BoundInit == Init => RequestsBounded
BY BoundsAreNatural DEF Init, RequestsBounded

\* Only a request counts as one.
LEMMA BoundNext == Typed /\ RequestsBounded /\ [Next]_vars => RequestsBounded'
<1> SUFFICES ASSUME Typed, RequestsBounded, [Next]_vars PROVE RequestsBounded'
  OBVIOUS
<1>0. made \in [requests : Nat, faults : Nat, crashes : Nat]
  BY DEF Typed
<1>1. ASSUME UNCHANGED made \/ Fault PROVE RequestsBounded'
  BY <1>0, <1>1 DEF Fault, RequestsBounded
<1>2. ASSUME NEW j \in Jobs, NEW kind \in Kinds, NEW u \in Descriptors, Request(j, kind, u) PROVE RequestsBounded'
  BY <1>0, <1>2, BoundsAreNatural DEF Request, RequestsBounded
<1>3. ASSUME NEW j \in Jobs, HangUp(j) \/ Step(j) PROVE UNCHANGED made \/ Fault
  <2>1. CASE HangUp(j) \/ Permitted(j) \/ NotPermitted(j) \/ Charged(j) \/ ChargeFails(j) \/ Answers(j) \/ SendingEnds(j)
    BY <2>1 DEF HangUp, Permitted, NotPermitted, Charged, ChargeFails, Answers, SendingEnds
  <2>2. CASE \/ Staged(j) \/ StagingFails(j) \/ PartStored(j) \/ PartFails(j) \/ PartRefused(j) \/ UploadAborted(j)
    BY <2>2 DEF Staged, StagingFails, PartStored, PartFails, PartRefused, UploadAborted
  <2>3. CASE \/ Deletes(j) \/ MessageQueued(j) \/ QueueFails(j) \/ EventPublished(j) \/ EventRefused(j) \/ EventFails(j)
    BY <2>3 DEF Deletes, MessageQueued, QueueFails, EventPublished, EventRefused, EventFails
  <2>4. CASE Download(j)
    BY <2>4 DEF Download, Fetched, FetchAgain, FetchFails, FetchEnds, Torn, Stored, StoreFails
  <2> QED BY <1>3, <2>1, <2>2, <2>3, <2>4 DEF Step, Upload
<1>4. CASE Lands
  BY <1>1, <1>4 DEF Lands
<1>5. CASE Crash
  BY <1>0, <1>5 DEF Crash, RequestsBounded
<1>6. CASE UNCHANGED vars
  BY <1>1, <1>6 DEF vars
<1> QED BY <1>1, <1>2, <1>3, <1>4, <1>5, <1>6 DEF Next

\* The types of the proof give those of the model.
LEMMA TypedIsTypeOK == Typed /\ RequestsBounded => TypeOK
<1> SUFFICES ASSUME Typed, RequestsBounded PROVE TypeOK
  OBVIOUS
<1>1. Used \subseteq Descriptors
  BY BoundsAreNatural DEF Typed, RequestsBounded, Used, Descriptors, Legacy
<1>2. Cardinality(artifact) <= 1 /\ artifact \subseteq Descriptors
  <2>1. CASE artifact = {}
    BY <2>1, FS_EmptySet
  <2>2. ASSUME NEW u \in Used, artifact = {u} PROVE Cardinality(artifact) <= 1 /\ artifact \subseteq Descriptors
    BY <1>1, <2>2, FS_Singleton
  <2> QED BY <2>1, <2>2 DEF Typed
<1>3. \A j \in Jobs : job[j] \in Records
  BY DEF Typed
<1> QED BY <1>1, <1>2, <1>3 DEF Typed, TypeOK, Records, Stages

(* A descriptor in a queued message, in a Task's event or in a client's hands has all its parts
   at the relay, whatever was retried, given up, aborted or died, except where submitFileMandated()
   deletes what the relay may have taken (unsure, workrooms.ts:619). *)
THEOREM PublicationsStayComplete == Spec => []PublishedIsComplete
<1>1. RelayInv => PublishedIsComplete
  BY DEF RelayInv
<1> QED BY <1>1, RelayAlways, PTL

(* A part at the relay belongs to a descriptor somebody has or to a request in progress, or is
   one the catch block of the upload could not reach (agent.ts:866): its DELETE failed, its POST
   came later, the message was not queued, the process died. *)
THEOREM FailuresAreUndone == Spec => []FailedIsDeleted
<1>1. RelayInv => FailedIsDeleted
  BY DEF RelayInv
<1> QED BY <1>1, RelayAlways, PTL

(* A request that is over has left neither a directory nor a ".part" file, unless the process
   died or the client left between the last look at the signal and the listener of "close"; a
   torn file is one of version 1 (agent.ts:941).  Every variable keeps its type. *)
THEOREM FilesStayTidy == Spec => []FilesAreCleanedUp
<1> DEFINE Inv == RelayInv /\ DiskIsTrue /\ RequestsBounded
<1>1. Init => Inv
  BY RelayInit, DiskInit, BoundInit
<1>2. Inv /\ [Next]_vars => Inv'
  BY RelayNext, DiskNext, BoundNext DEF RelayInv
<1>3. Inv => FilesAreCleanedUp
  <2> SUFFICES ASSUME Inv PROVE FilesAreCleanedUp
    OBVIOUS
  <2>1. TypeOK
    BY TypedIsTypeOK DEF RelayInv
  <2> QED BY <2>1 DEF DiskIsTrue, FilesAreCleanedUp, At
<1> QED BY <1>1, <1>2, <1>3, PTL DEF Spec
=============================================================================
