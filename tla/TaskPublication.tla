--------------------------- MODULE TaskPublication ---------------------------
(***************************************************************************)
(* publish_task (prime.py): Prime builds the image of a minted task from   *)
(* its directory, the call polls the build and then points task.toml at    *)
(* the image and notes the publication in provenance.json.  A request may  *)
(* be lost on either way, a build may outlive the call that waits for it,  *)
(* a write may fail, and the call may be killed anywhere.                  *)
(***************************************************************************)
EXTENDS Naturals

CONSTANTS
  Owners,   \* the account and its teams: one image name each
  Builds    \* bound: the builds the service may be asked for, 1..Builds

PublicationAssumption == Builds \in Nat /\ "local" \notin Owners

VARIABLES
  stage,        \* where the call is; "idle" when none runs
  owner,        \* the owner of the credentials of this call
  build,        \* its build_id; the number of builds created so far
  late,         \* clock() > deadline
  localImage,   \* local_image of _record_publication
  report,       \* what the last call returned
  status,       \* the service: the state of each build
  image,        \* the service: the owner each build is for
  manifest,     \* task.toml: its state and environment.image
  provenance    \* provenance.json: its state and its "published" record

vars == <<stage, owner, build, late, localImage, report, status, image, manifest,
          provenance>>
serviceVars == <<status, image>>
diskVars == <<manifest, provenance>>

Ids == 1..Builds
Images == {"local"} \cup Owners
NotPublished == [build |-> 0, image |-> "local", local |-> "local"]
Stages == {"idle", "initiate", "upload", "start", "poll", "sleep", "record_manifest",
           "record_provenance"}

TypeOK ==
  /\ stage \in Stages /\ owner \in Owners /\ build \in 0..Builds /\ late \in BOOLEAN
  /\ localImage \in Images
  /\ report \in {"none", "published", "failed"}
  /\ status \in [Ids -> {"none", "created", "uploaded", "running", "completed", "failed"}]
  /\ image \in [Ids -> Owners]
  /\ manifest \in [state : {"ok", "torn"}, image : Images]
  /\ provenance \in [state : {"ok", "torn"},
                     published : [build : 0..Builds, image : Images, local : Images]]
  /\ provenance.published.build = 0 <=> provenance.published = NotPublished

\* A minted task: its image has the local tag.
Init ==
  /\ stage = "idle" /\ owner \in Owners /\ build = 0 /\ late = FALSE /\ report = "none"
  /\ localImage = "local"
  /\ status = [b \in Ids |-> "none"] /\ image = [b \in Ids |-> owner]
  /\ manifest = [state |-> "ok", image |-> "local"]
  /\ provenance = [state |-> "ok", published |-> NotPublished]

Goto(s) == stage' = s /\ UNCHANGED <<owner, late, report, localImage>>
Return(r) ==
  stage' = "idle" /\ late' = FALSE /\ localImage' = "local" /\ report' = r /\ UNCHANGED owner
-----------------------------------------------------------------------------
\* A task that does not load is refused at once.
Publish ==
  /\ stage = "idle" /\ build < Builds
  /\ owner' \in Owners /\ late' = FALSE
  /\ IF manifest.state = "ok" THEN stage' = "initiate" /\ report' = "none"
                              ELSE stage' = "idle" /\ report' = "failed"
  /\ UNCHANGED <<build, localImage, serviceVars, diskVars>>

\* The answer has the build, where to upload to, and the path of the image.
Initiate ==
  /\ stage = "initiate"
  /\ build' = build + 1
  /\ status' = [status EXCEPT ![build + 1] = "created"]
  /\ image' = [image EXCEPT ![build + 1] = owner]
  /\ Goto("upload") /\ UNCHANGED diskVars

Request(from, before, after, to) ==
  /\ stage = from
  /\ status[build] = before
  /\ status' = [status EXCEPT ![build] = after]
  /\ Goto(to) /\ UNCHANGED <<build, image, diskVars>>

Upload == Request("upload", "created", "uploaded", "start")
Start == Request("start", "uploaded", "running", "poll")

\* Any exception of a request ends the call; the request may have been served.
RequestRaises ==
  /\ stage \in {"initiate", "upload", "start", "poll"}
  /\ CASE stage = "upload" -> status' \in {status, [status EXCEPT ![build] = "uploaded"]}
       [] stage = "start" -> status' \in {status, [status EXCEPT ![build] = "running"]}
       [] OTHER -> UNCHANGED status
  /\ Return("failed") /\ UNCHANGED <<build, image, diskVars>>

\* Mutant: every build that has ended is taken for completed.
PollAnyEnd ==
  /\ stage = "poll"
  /\ CASE status[build] \in {"completed", "failed"} -> Goto("record_manifest")
       [] late -> Return("failed")
       [] OTHER -> Goto("sleep")
  /\ UNCHANGED <<build, serviceVars, diskVars>>

\* Mutant: the deadline is forgotten.
PollForEver ==
  /\ stage = "poll"
  /\ CASE status[build] = "completed" -> Goto("record_manifest")
       [] status[build] = "failed" -> Return("failed")
       [] OTHER -> Goto("sleep")
  /\ UNCHANGED <<build, serviceVars, diskVars>>

\* One turn of _wait_for_build: a build that has ended wins over the deadline.
Poll ==
  /\ stage = "poll"
  /\ CASE status[build] = "completed" -> Goto("record_manifest")
       [] status[build] = "failed" -> Return("failed")
       [] status[build] = "running" /\ late -> Return("failed")
       [] OTHER -> Goto("sleep")
  /\ UNCHANGED <<build, serviceVars, diskVars>>

Sleep ==
  /\ stage = "sleep"
  /\ Goto("poll") /\ UNCHANGED <<build, serviceVars, diskVars>>

DeadlinePasses ==
  /\ stage \in {"poll", "sleep"} /\ ~late
  /\ late' = TRUE
  /\ UNCHANGED <<stage, owner, build, localImage, report, serviceVars, diskVars>>

BuildEnds(b) ==
  /\ status[b] = "running"
  /\ \E s \in {"completed", "failed"} : status' = [status EXCEPT ![b] = s]
  /\ UNCHANGED <<stage, owner, build, late, localImage, report, image, diskVars>>

\* _record_publication: the image named so far is read, then task.toml is
\* written, then provenance.json; one that cannot be read is begun anew.
RecordManifest ==
  /\ stage = "record_manifest"
  /\ localImage' = manifest.image
  /\ manifest' = [manifest EXCEPT !.image = owner]
  /\ stage' = "record_provenance"
  /\ UNCHANGED <<owner, build, late, report, serviceVars, provenance>>

\* Mutant: the record names the image that task.toml named before.
RecordFormerImage ==
  /\ stage = "record_provenance"
  /\ provenance' = [state |-> "ok", published |->
                      [build |-> build, image |-> localImage, local |-> localImage]]
  /\ Return("published") /\ UNCHANGED <<build, serviceVars, manifest>>

\* Mutant: the record has no build_id.
RecordUnnamedBuild ==
  /\ stage = "record_provenance"
  /\ provenance' = [state |-> "ok", published |->
                      [build |-> 0, image |-> owner, local |-> localImage]]
  /\ Return("published") /\ UNCHANGED <<build, serviceVars, manifest>>

RecordProvenance ==
  /\ stage = "record_provenance"
  /\ provenance' = [state |-> "ok", published |->
                      [build |-> build, image |-> owner, local |-> localImage]]
  /\ Return("published") /\ UNCHANGED <<build, serviceVars, manifest>>

\* A file written in place stays as it was, or is torn.
MayTear ==
  /\ manifest' \in {manifest} \cup
       (IF stage = "record_manifest" THEN {[manifest EXCEPT !.state = "torn"]} ELSE {})
  /\ provenance' \in {provenance} \cup
       (IF stage = "record_provenance" THEN {[state |-> "torn", published |-> NotPublished]} ELSE {})

RecordFails ==
  /\ stage \in {"record_manifest", "record_provenance"}
  /\ MayTear
  /\ Return("failed") /\ UNCHANGED <<build, serviceVars>>

Killed ==
  /\ stage # "idle"
  /\ MayTear
  /\ Return("none") /\ UNCHANGED <<build, serviceVars>>

Call ==
  \/ Initiate \/ Upload \/ Start \/ RequestRaises \/ Poll \/ Sleep
  \/ RecordManifest \/ RecordProvenance \/ RecordFails

Next == Publish \/ Call \/ DeadlinePasses \/ (\E b \in Ids : BuildEnds(b)) \/ Killed

\* The call is run and the clock goes on; the service owes nothing but answers.
Fairness == WF_vars(Call) /\ WF_vars(DeadlinePasses)

Spec == Init /\ [][Next]_vars
FairSpec == Spec /\ Fairness
-----------------------------------------------------------------------------
Completed(i) == \E b \in Ids : status[b] = "completed" /\ image[b] = i

\* task.toml never points at an image that Prime has not built, whatever
\* failed, came late or was killed (publish_task records after the poll).
PointsAtBuiltImage == manifest.image # "local" => Completed(manifest.image)

\* A publication that was reported is recorded: task.toml and provenance.json
\* name one image, and the build that is named made it.
ReportedIsRecorded ==
  report = "published" =>
    /\ manifest.state = "ok" /\ provenance.state = "ok"
    /\ provenance.published.image = manifest.image
    /\ status[provenance.published.build] = "completed"
    /\ image[provenance.published.build] = manifest.image

\* A call ends although the build it waits for may not (_wait_for_build).
EveryPublicationEnds == stage # "idle" ~> stage = "idle"
=============================================================================
