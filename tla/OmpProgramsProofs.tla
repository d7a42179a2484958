------------------------- MODULE OmpProgramsProofs --------------------------
(***************************************************************************)
(* Proofs about the programs around a rollout.  A behaviour belongs to one *)
(* program, so each invariant is that of one component under the condition *)
(* that the behaviour is about it; the lemma of its step is about the      *)
(* component alone.  Here are the publication, the launch, the dataset and *)
(* its rows, the mining of sessions, and the models that are selected and  *)
(* measured.                                                               *)
(***************************************************************************)
EXTENDS OmpPrograms, FiniteSetTheorems, SequenceTheorems, WellFoundedInduction,
        TLAPS

-----------------------------------------------------------------------------
\* Publication: where the call is tells what the service knows of its build,
\* and builds that were not asked for yet are nobody's.
AtBuild == {"upload", "start", "poll", "sleep", "record_manifest", "record_provenance"}
Waiting == stage = "initiate" => build < Builds
OwnBuild == stage \in AtBuild => build \in Publication!Ids /\ image[build] = owner
KnownStatus ==
  /\ stage = "upload" => status[build] = "created"
  /\ stage = "start" => status[build] = "uploaded"
  /\ stage \in {"record_manifest", "record_provenance"} => status[build] = "completed"
Unreported == stage # "idle" => manifest.state = "ok" /\ report = "none"
ManifestFirst == stage = "record_provenance" => manifest.image = owner
NamesBuild == report = "published" => provenance.published.build \in Publication!Ids
NotYetAsked == \A b \in Publication!Ids : b > build => status[b] = "none"

PublicationInv ==
  /\ Publication!TypeOK /\ Waiting /\ OwnBuild /\ KnownStatus /\ Unreported
  /\ ManifestFirst /\ NamesBuild /\ NotYetAsked
  /\ Publication!PointsAtBuiltImage /\ Publication!ReportedIsRecorded

\* A build that has completed stays so, and with it the owner it was made for.
LEMMA CompletedStays ==
  ASSUME Publication!PublicationAssumption, PublicationInv, Publication!Next,
         NEW b \in Publication!Ids, status[b] = "completed"
  PROVE  status'[b] = "completed" /\ image'[b] = image[b]
<1> USE DEF PublicationInv, Publication!TypeOK, Publication!Ids, Publication!serviceVars,
      Publication!diskVars, Publication!Goto, Publication!Return
<1>1. CASE Publication!Publish
  BY <1>1 DEF Publication!Publish
<1>2. CASE Publication!Initiate
  <2>1. build + 1 \in 1..Builds /\ b # build + 1
    BY <1>2 DEF Publication!PublicationAssumption, Publication!Initiate, Waiting, NotYetAsked
  <2> QED BY <1>2, <2>1 DEF Publication!Initiate
<1>3. CASE Publication!Upload \/ Publication!Start
  BY <1>3 DEF Publication!Upload, Publication!Start, Publication!Request
<1>4. CASE Publication!RequestRaises
  BY <1>4 DEF Publication!RequestRaises, KnownStatus
<1>5. CASE Publication!Poll \/ Publication!Sleep \/ Publication!DeadlinePasses
  BY <1>5 DEF Publication!Poll, Publication!Sleep, Publication!DeadlinePasses
<1>6. CASE Publication!RecordManifest \/ Publication!RecordProvenance \/ Publication!RecordFails
  BY <1>6 DEF Publication!RecordManifest, Publication!RecordProvenance, Publication!RecordFails
<1>7. CASE \E c \in Publication!Ids : Publication!BuildEnds(c)
  BY <1>7 DEF Publication!BuildEnds
<1>8. CASE Publication!Killed
  BY <1>8 DEF Publication!Killed
<1> QED
  BY Publication!Next, <1>1, <1>2, <1>3, <1>4, <1>5, <1>6, <1>7, <1>8
     DEF Publication!Next, Publication!Call

\* Every step of a publication keeps its invariant: the build the call waits
\* for is its own, and what has completed is never undone.
LEMMA PublicationStep ==
  ASSUME Publication!PublicationAssumption, PublicationInv, Publication!Next
  PROVE  PublicationInv'
<1> USE DEF Publication!PublicationAssumption, Publication!Ids, Publication!serviceVars,
      Publication!diskVars, Publication!Goto, Publication!Return, Publication!Stages,
      Publication!Images, AtBuild, Waiting, OwnBuild, KnownStatus, Unreported, ManifestFirst, NamesBuild
<1>ty. Publication!TypeOK
  BY DEF PublicationInv
<1>inv. Waiting /\ OwnBuild /\ KnownStatus /\ Unreported /\ ManifestFirst /\ NamesBuild /\ NotYetAsked
  BY DEF PublicationInv
<1>pts. Publication!PointsAtBuiltImage /\ Publication!ReportedIsRecorded
  BY DEF PublicationInv
<1>stays. \A b \in Publication!Ids :
            status[b] = "completed" => status'[b] = "completed" /\ image'[b] = image[b]
  BY CompletedStays
<1>rep. ASSUME manifest' = manifest, provenance' = provenance, report' = report
        PROVE  Publication!ReportedIsRecorded'
  <2> SUFFICES ASSUME report = "published"  PROVE Publication!ReportedIsRecorded'
    BY <1>rep DEF Publication!ReportedIsRecorded
  <2> DEFINE b == provenance.published.build
  <2>1. b \in Publication!Ids
    BY <1>inv
  <2> QED BY <1>rep, <2>1, <1>pts, <1>stays DEF Publication!ReportedIsRecorded
<1>pt. ASSUME manifest'.image = manifest.image
       PROVE  Publication!PointsAtBuiltImage'
  BY <1>pt, <1>pts, <1>stays DEF Publication!PointsAtBuiltImage, Publication!Completed
<1>1. CASE Publication!Publish
  BY <1>1, <1>ty, <1>inv, <1>pts, <1>pt DEF Publication!Publish, PublicationInv, Publication!TypeOK,
     NotYetAsked, Publication!ReportedIsRecorded
<1>2. CASE Publication!Initiate
  <2>1. build + 1 \in 1..Builds /\ build \in Nat
    BY <1>2, <1>ty, <1>inv DEF Publication!Initiate, Publication!TypeOK
  <2>2. Publication!TypeOK'
    BY <1>2, <2>1, <1>ty DEF Publication!Initiate, Publication!TypeOK
  <2>3. (Waiting /\ OwnBuild /\ KnownStatus /\ Unreported /\ ManifestFirst /\ NamesBuild /\ NotYetAsked)'
    BY <1>2, <2>1, <1>ty, <1>inv DEF Publication!Initiate, Publication!TypeOK, NotYetAsked
  <2> QED BY <1>2, <2>2, <2>3, <1>rep, <1>pt DEF Publication!Initiate, PublicationInv
<1>3. CASE Publication!Upload \/ Publication!Start
  <2>1. build \in 1..Builds /\ build \in Nat
    BY <1>3, <1>ty, <1>inv DEF Publication!Upload, Publication!Start, Publication!Request, Publication!TypeOK
  <2>2. Publication!TypeOK'
    BY <1>3, <2>1, <1>ty DEF Publication!Upload, Publication!Start, Publication!Request, Publication!TypeOK
  <2>3. (Waiting /\ OwnBuild /\ KnownStatus /\ Unreported /\ ManifestFirst /\ NamesBuild /\ NotYetAsked)'
    BY <1>3, <2>1, <1>ty, <1>inv DEF Publication!Upload, Publication!Start, Publication!Request, Publication!TypeOK, NotYetAsked
  <2> QED BY <1>3, <2>2, <2>3, <1>rep, <1>pt DEF Publication!Upload, Publication!Start, Publication!Request, PublicationInv
<1>4. CASE Publication!RequestRaises
  <2>1. status' \in [1..Builds -> {"none", "created", "uploaded", "running", "completed", "failed"}]
    BY <1>4, <1>ty, <1>inv DEF Publication!RequestRaises, Publication!TypeOK
  <2>2. Publication!TypeOK'
    BY <1>4, <2>1, <1>ty DEF Publication!RequestRaises, Publication!TypeOK
  <2>3. NotYetAsked'
    BY <1>4, <1>ty, <1>inv DEF Publication!RequestRaises, Publication!TypeOK, NotYetAsked
  <2>4. (Waiting /\ OwnBuild /\ KnownStatus /\ Unreported /\ ManifestFirst /\ NamesBuild)'
    BY <1>4 DEF Publication!RequestRaises
  <2> QED BY <1>4, <2>2, <2>3, <2>4, <1>pt DEF Publication!RequestRaises, PublicationInv, Publication!ReportedIsRecorded
<1>5. CASE Publication!Poll
  <2>1. \/ Publication!Goto("record_manifest") /\ status[build] = "completed"
        \/ Publication!Return("failed")
        \/ Publication!Goto("sleep")
    BY <1>5 DEF Publication!Poll
  <2>2. Publication!TypeOK'
    BY <1>5, <2>1, <1>ty, ZenonT(60) DEF Publication!Poll, Publication!TypeOK
  <2>3. (Waiting /\ OwnBuild /\ KnownStatus /\ Unreported /\ ManifestFirst /\ NamesBuild /\ NotYetAsked)'
    BY <1>5, <2>1, <1>inv DEF Publication!Poll, NotYetAsked
  <2>4. Publication!ReportedIsRecorded'
    BY <1>5, <2>1, <1>inv DEF Publication!Poll, Publication!ReportedIsRecorded
  <2> QED BY <1>5, <2>2, <2>3, <2>4, <1>pt DEF Publication!Poll, PublicationInv
<1>6. CASE Publication!Sleep \/ Publication!DeadlinePasses
  BY <1>6, <1>ty, <1>inv, <1>rep, <1>pt DEF Publication!Sleep, Publication!DeadlinePasses,
     PublicationInv, Publication!TypeOK, NotYetAsked
<1>7. CASE Publication!RecordManifest
  <2>1. Publication!TypeOK' /\ manifest'.image = owner /\ manifest'.state = manifest.state
    BY <1>7, <1>ty DEF Publication!RecordManifest, Publication!TypeOK
  <2>2. (Waiting /\ OwnBuild /\ KnownStatus /\ Unreported /\ ManifestFirst /\ NamesBuild /\ NotYetAsked)'
    BY <1>7, <1>inv, <2>1 DEF Publication!RecordManifest, NotYetAsked
  <2>3. Publication!PointsAtBuiltImage'
    BY <1>7, <1>inv, <2>1, <1>stays DEF Publication!RecordManifest, Publication!PointsAtBuiltImage,
       Publication!Completed
  <2>4. Publication!ReportedIsRecorded'
    BY <1>7, <1>inv DEF Publication!RecordManifest, Publication!ReportedIsRecorded
  <2> QED BY <2>1, <2>2, <2>3, <2>4 DEF PublicationInv
<1>8. CASE Publication!RecordProvenance
  <2>1. build \in 1..Builds /\ image[build] = owner /\ status[build] = "completed"
    BY <1>8, <1>inv DEF Publication!RecordProvenance
  <2>2. build # 0
    BY <2>1
  <2>3. Publication!TypeOK'
    BY <1>8, <1>ty, <2>1, <2>2 DEF Publication!RecordProvenance, Publication!TypeOK, Publication!NotPublished
  <2>4. (Waiting /\ OwnBuild /\ KnownStatus /\ Unreported /\ ManifestFirst /\ NamesBuild /\ NotYetAsked)'
    BY <1>8, <1>inv, <2>1 DEF Publication!RecordProvenance, NotYetAsked
  <2>5. Publication!ReportedIsRecorded'
    BY <1>8, <1>inv, <2>1 DEF Publication!RecordProvenance, Publication!ReportedIsRecorded
  <2> QED BY <1>8, <2>3, <2>4, <2>5, <1>pt DEF Publication!RecordProvenance, PublicationInv
<1>9. CASE Publication!RecordFails \/ Publication!Killed
  <2>1. /\ manifest'.image = manifest.image
        /\ manifest' \in [state : {"ok", "torn"}, image : Publication!Images]
    BY <1>9, <1>ty DEF Publication!RecordFails, Publication!Killed, Publication!MayTear, Publication!TypeOK
  <2>2. /\ provenance' \in [state : {"ok", "torn"},
                     published : [build : 0..Builds, image : Publication!Images, local : Publication!Images]]
        /\ provenance'.published.build = 0 <=> provenance'.published = Publication!NotPublished
    BY <1>9, <1>ty DEF Publication!RecordFails, Publication!Killed, Publication!MayTear, Publication!TypeOK,
       Publication!NotPublished
  <2>3. Publication!TypeOK'
    BY <1>9, <2>1, <2>2, <1>ty DEF Publication!RecordFails, Publication!Killed, Publication!TypeOK
  <2>4. (Waiting /\ OwnBuild /\ KnownStatus /\ Unreported /\ ManifestFirst /\ NamesBuild /\ NotYetAsked)'
    BY <1>9, <1>inv DEF Publication!RecordFails, Publication!Killed, NotYetAsked
  <2>5. Publication!ReportedIsRecorded'
    BY <1>9 DEF Publication!RecordFails, Publication!Killed, Publication!ReportedIsRecorded
  <2> QED BY <2>1, <2>3, <2>4, <2>5, <1>pt DEF PublicationInv
<1>10. CASE \E b \in Publication!Ids : Publication!BuildEnds(b)
  <2> PICK b \in Publication!Ids : Publication!BuildEnds(b)
    BY <1>10
  <2>1. Publication!TypeOK'
    BY <1>ty DEF Publication!BuildEnds, Publication!TypeOK
  <2>2. (Waiting /\ OwnBuild /\ KnownStatus /\ Unreported /\ ManifestFirst /\ NamesBuild /\ NotYetAsked)'
    BY <1>inv, <1>ty DEF Publication!BuildEnds, Publication!TypeOK, NotYetAsked
  <2> QED BY <2>1, <2>2, <1>rep, <1>pt DEF PublicationInv, Publication!BuildEnds
<1> QED
  BY <1>1, <1>2, <1>3, <1>4, <1>5, <1>6, <1>7, <1>8, <1>9, <1>10
     DEF Publication!Next, Publication!Call

-----------------------------------------------------------------------------
\* Launch: the first value that is set, of one, two or three places.
LEMMA FirstOfOne ==
  ASSUME NEW a, NEW d
  PROVE  Launch!FirstOf(<<a>>, d) = IF Launch!Truthy(a) THEN a ELSE d
<1> DEFINE s == <<a>>
           given == {i \in DOMAIN s : Launch!Truthy(s[i])}
<1>1. DOMAIN s = {1} /\ s[1] = a
  OBVIOUS
<1>2. given = IF Launch!Truthy(a) THEN {1} ELSE {}
  BY <1>1
<1>3. CASE Launch!Truthy(a)
  <2>1. (CHOOSE i \in given : \A j \in given : i <= j) = 1
    BY <1>2, <1>3
  <2> QED BY <1>1, <1>2, <1>3, <2>1 DEF Launch!FirstOf
<1>4. CASE ~Launch!Truthy(a)
  BY <1>2, <1>4 DEF Launch!FirstOf
<1> QED BY <1>3, <1>4

\* The first value that is set, of two places.
LEMMA FirstOfTwo ==
  ASSUME NEW a, NEW b, NEW d
  PROVE  Launch!FirstOf(<<a, b>>, d) =
           IF Launch!Truthy(a) THEN a ELSE IF Launch!Truthy(b) THEN b ELSE d
<1> DEFINE s == <<a, b>>
           given == {i \in DOMAIN s : Launch!Truthy(s[i])}
           least == CHOOSE i \in given : \A j \in given : i <= j
<1>1. DOMAIN s = {1, 2} /\ s[1] = a /\ s[2] = b
  OBVIOUS
<1>2. \A i : i \in given <=> \/ i = 1 /\ Launch!Truthy(a)
                             \/ i = 2 /\ Launch!Truthy(b)
  BY <1>1
<1>3. CASE Launch!Truthy(a)
  <2>1. 1 \in given /\ \A j \in given : 1 <= j
    BY <1>2, <1>3
  <2>2. least \in given /\ \A j \in given : least <= j
    BY <2>1
  <2>3. least = 1
    BY <1>2, <2>1, <2>2
  <2> QED BY <1>1, <1>3, <2>1, <2>3 DEF Launch!FirstOf
<1>4. CASE ~Launch!Truthy(a) /\ Launch!Truthy(b)
  <2>1. given = {2}
    BY <1>2, <1>4
  <2>2. least = 2
    BY <2>1
  <2> QED BY <1>1, <1>4, <2>1, <2>2 DEF Launch!FirstOf
<1>5. CASE ~Launch!Truthy(a) /\ ~Launch!Truthy(b)
  <2>1. given = {}
    BY <1>2, <1>5
  <2> QED BY <1>5, <2>1 DEF Launch!FirstOf
<1> QED BY <1>3, <1>4, <1>5

\* The first value that is set, of three places.
LEMMA FirstOfThree ==
  ASSUME NEW a, NEW b, NEW c, NEW d
  PROVE  Launch!FirstOf(<<a, b, c>>, d) =
           IF Launch!Truthy(a) THEN a ELSE IF Launch!Truthy(b) THEN b
           ELSE IF Launch!Truthy(c) THEN c ELSE d
<1> DEFINE s == <<a, b, c>>
           given == {i \in DOMAIN s : Launch!Truthy(s[i])}
           least == CHOOSE i \in given : \A j \in given : i <= j
<1>1. DOMAIN s = {1, 2, 3} /\ s[1] = a /\ s[2] = b /\ s[3] = c
  OBVIOUS
<1>2. \A i : i \in given <=> \/ i = 1 /\ Launch!Truthy(a)
                             \/ i = 2 /\ Launch!Truthy(b)
                             \/ i = 3 /\ Launch!Truthy(c)
  BY <1>1
<1>3. CASE Launch!Truthy(a)
  <2>1. 1 \in given /\ \A j \in given : 1 <= j
    BY <1>2, <1>3
  <2>2. least \in given /\ \A j \in given : least <= j
    BY <2>1
  <2>3. least = 1
    BY <1>2, <2>1, <2>2
  <2> QED BY <1>1, <1>3, <2>1, <2>3 DEF Launch!FirstOf
<1>4. CASE ~Launch!Truthy(a) /\ Launch!Truthy(b)
  <2>1. 2 \in given /\ \A j \in given : 2 <= j
    BY <1>2, <1>4
  <2>2. least \in given /\ \A j \in given : least <= j
    BY <2>1
  <2>3. least = 2
    BY <1>2, <1>4, <2>1, <2>2
  <2> QED BY <1>1, <1>4, <2>1, <2>3 DEF Launch!FirstOf
<1>5. CASE ~Launch!Truthy(a) /\ ~Launch!Truthy(b) /\ Launch!Truthy(c)
  <2>1. given = {3}
    BY <1>2, <1>5
  <2>2. least = 3
    BY <2>1
  <2> QED BY <1>1, <1>5, <2>1, <2>2 DEF Launch!FirstOf
<1>6. CASE ~Launch!Truthy(a) /\ ~Launch!Truthy(b) /\ ~Launch!Truthy(c)
  <2>1. given = {}
    BY <1>2, <1>6
  <2> QED BY <1>6, <2>1 DEF Launch!FirstOf
<1> QED BY <1>3, <1>4, <1>5, <1>6

\* What the environment holds once .env was loaded, where the credentials come
\* from, and which of them the environment shows; the tunnel's marker is written
\* after its binary.
Merged(n) ==
  IF Launch!Truthy(shell[n]) \/ ~Launch!Truthy(envFile[n]) THEN shell[n] ELSE envFile[n]
Precede ==
  \A n \in Launch!Names :
    credentials[n] =
      Launch!FirstOf(<<shell[n], envFile[n]>>
              \o (IF credentials["key"] = "config" THEN <<config[n]>> ELSE <<>>),
              IF n = "url" THEN "default" ELSE Launch!Unset)
Loaded ==
  /\ launching = "load" => environ = shell
  /\ launching = "resolve" /\ program = "eval" =>
       \A n \in Launch!Names : environ[n] = Merged(n)
Exporting ==
  launching = "export" =>
    /\ Precede
    /\ \/ environ["key"] \in {Launch!Unset, credentials["key"]}
       \/ shell["key"] = Launch!Empty
Exported ==
  launching \in {"prepare", "write_binary", "write_marker", "eval"} =>
    \/ credentials = Launch!NoCredentials
    \/ /\ Precede
       /\ environ["key"] = credentials["key"] \/ shell["key"] = Launch!Empty
MarkerLast ==
  /\ marker = "whole" => binary = "whole"
  /\ launching = "write_binary" => marker # "whole"
  /\ launching = "write_marker" => binary = "whole"
  /\ launching = "eval" /\ windows => binary = "whole"

LaunchInv == Launch!TypeOK /\ Loaded /\ Exporting /\ Exported /\ MarkerLast

\* The credentials that are resolved are of the types their places allow.
LEMMA ResolvedType ==
  ASSUME Launch!TypeOK
  PROVE  /\ Launch!Resolved \in
              [Launch!Names -> {Launch!Unset, "shell", "file", "config", "default"}]
         /\ "default" \notin {Launch!Resolved["key"], Launch!Resolved["team"]}
<1> USE DEF Launch!Names, Launch!Unset, Launch!Empty, Launch!NoCredentials
<1>1. CASE Launch!Truthy(environ["key"])
  <2>1. PICK t, u :
          /\ Launch!Resolved = [key |-> environ["key"], team |-> t, url |-> u]
          /\ t = IF Launch!Truthy(environ["team"]) THEN environ["team"] ELSE Launch!Unset
          /\ u = IF Launch!Truthy(environ["url"]) THEN environ["url"] ELSE "default"
    BY <1>1, FirstOfOne DEF Launch!Resolved
  <2>2. /\ environ["key"] \in {"shell", "file", "config"}
        /\ t \in {Launch!Unset, "shell", "file", "config"}
        /\ u \in {"shell", "file", "config", "default"}
    BY <2>1, <1>1 DEF Launch!TypeOK, Launch!Truthy
  <2> QED BY <2>1, <2>2
<1>2. CASE ~Launch!Truthy(environ["key"]) /\ ~Launch!Truthy(config["key"])
  BY <1>2 DEF Launch!Resolved
<1>3. CASE ~Launch!Truthy(environ["key"]) /\ Launch!Truthy(config["key"])
  <2>0. Launch!Resolved =
          [key |-> config["key"],
           team |-> IF Launch!Truthy(environ["team"]) THEN environ["team"]
                    ELSE IF Launch!Truthy(config["team"]) THEN config["team"] ELSE Launch!Unset,
           url |-> IF Launch!Truthy(environ["url"]) THEN environ["url"]
                   ELSE IF Launch!Truthy(config["url"]) THEN config["url"] ELSE "default"]
    BY <1>3, FirstOfTwo DEF Launch!Resolved
  <2>1. PICK t, u :
          /\ Launch!Resolved = [key |-> config["key"], team |-> t, url |-> u]
          /\ t = IF Launch!Truthy(environ["team"]) THEN environ["team"]
                  ELSE IF Launch!Truthy(config["team"]) THEN config["team"] ELSE Launch!Unset
          /\ u = IF Launch!Truthy(environ["url"]) THEN environ["url"]
                  ELSE IF Launch!Truthy(config["url"]) THEN config["url"] ELSE "default"
    BY <2>0
  <2>2. /\ config["key"] = "config"
        /\ t \in {Launch!Unset, "shell", "file", "config"}
        /\ u \in {"shell", "file", "config", "default"}
    BY <2>1, <1>3 DEF Launch!TypeOK, Launch!Truthy
  <2> QED BY <2>1, <2>2
<1> QED BY <1>1, <1>2, <1>3

\* An evaluation resolves to credentials that keep the order of their places:
\* the environment holds the shell's values before those of .env, and a login
\* lends its team and endpoint to its own key only.
LEMMA ResolvedPrecedes ==
  ASSUME LaunchInv, Launch!Resolve, program = "eval", Launch!Resolved # Launch!NoCredentials
  PROVE  /\ Precede'
         /\ environ'["key"] \in {Launch!Unset, credentials'["key"]} \/ shell'["key"] = Launch!Empty
<1> USE DEF Launch!Names, Launch!Unset, Launch!Empty, Launch!NoCredentials, LaunchInv
<1>same. /\ shell' = shell /\ environ' = environ /\ envFile' = envFile /\ config' = config
         /\ credentials' = Launch!Resolved
  BY DEF Launch!Resolve, Launch!inputVars
<1>env. \A n \in Launch!Names : environ[n] = Merged(n)
  BY DEF Launch!Resolve, Loaded
<1>first. \A n \in Launch!Names :
            /\ Launch!Truthy(environ[n]) <=> Launch!Truthy(shell[n]) \/ Launch!Truthy(envFile[n])
            /\ Launch!Truthy(environ[n]) =>
                 environ[n] = IF Launch!Truthy(shell[n]) THEN shell[n] ELSE envFile[n]
  BY <1>env DEF Merged
<1>two. \A a, b, d : <<a, b>> \o <<>> = <<a, b>>
  OBVIOUS
<1>three. ASSUME NEW a, NEW b, NEW c
          PROVE  <<a, b>> \o <<c>> = <<a, b, c>>
  <2> DEFINE T == {a, b, c}
  <2>1. <<a, b>> \in Seq(T) /\ <<c>> \in Seq(T)
    OBVIOUS
  <2>2. /\ Len(<<a, b>> \o <<c>>) = 3 /\ <<a, b>> \o <<c>> \in Seq(T)
        /\ \A i \in 1..3 : (<<a, b>> \o <<c>>)[i] = IF i <= 2 THEN <<a, b>>[i] ELSE <<c>>[i - 2]
    BY <2>1, ConcatProperties
  <2>3. <<a, b, c>> \in Seq(T) /\ Len(<<a, b, c>>) = 3
    OBVIOUS
  <2>4. \A i \in 1..3 : (<<a, b>> \o <<c>>)[i] = <<a, b, c>>[i]
    BY <2>2
  <2> HIDE DEF T
  <2> QED BY <2>2, <2>3, <2>4, SeqEqual
<1>ty. /\ \A n \in Launch!Names : shell[n] # "config" /\ envFile[n] # "config"
       /\ \A n \in Launch!Names : Launch!Truthy(config[n]) => config[n] = "config"
  BY DEF Launch!TypeOK, Launch!Truthy
<1>1. CASE Launch!Truthy(environ["key"])
  <2>1. Launch!Resolved =
          [key |-> environ["key"],
           team |-> IF Launch!Truthy(environ["team"]) THEN environ["team"] ELSE Launch!Unset,
           url |-> IF Launch!Truthy(environ["url"]) THEN environ["url"] ELSE "default"]
    BY <1>1, FirstOfOne DEF Launch!Resolved
  <2>2. Launch!Resolved["key"] = environ["key"] /\ environ["key"] # "config"
    BY <2>1, <1>1, <1>first, <1>ty
  <2>3. \A n \in Launch!Names :
          Launch!Resolved[n] = IF Launch!Truthy(environ[n]) THEN environ[n]
                               ELSE IF n = "url" THEN "default" ELSE Launch!Unset
    BY <2>1, <1>1
  <2>4. ASSUME NEW n \in Launch!Names
        PROVE  Launch!Resolved[n] =
                 Launch!FirstOf(<<shell[n], envFile[n]>>,
                         IF n = "url" THEN "default" ELSE Launch!Unset)
    BY <2>3, <1>first, FirstOfTwo
  <2>5. Precede'
    BY <2>2, <2>4, <1>same, <1>two DEF Precede
  <2> QED BY <2>2, <2>5, <1>same
<1>2. CASE ~Launch!Truthy(environ["key"]) /\ ~Launch!Truthy(config["key"])
  BY <1>2 DEF Launch!Resolved
<1>3. CASE ~Launch!Truthy(environ["key"]) /\ Launch!Truthy(config["key"])
  <2>1. Launch!Resolved =
          [key |-> config["key"],
           team |-> IF Launch!Truthy(environ["team"]) THEN environ["team"]
                    ELSE IF Launch!Truthy(config["team"]) THEN config["team"] ELSE Launch!Unset,
           url |-> IF Launch!Truthy(environ["url"]) THEN environ["url"]
                   ELSE IF Launch!Truthy(config["url"]) THEN config["url"] ELSE "default"]
    BY <1>3, FirstOfTwo DEF Launch!Resolved
  <2>2. Launch!Resolved["key"] = "config"
    BY <2>1, <1>3, <1>ty
  <2>3. \A n \in Launch!Names :
          Launch!Resolved[n] = IF Launch!Truthy(environ[n]) THEN environ[n]
                               ELSE IF Launch!Truthy(config[n]) THEN config[n]
                               ELSE IF n = "url" THEN "default" ELSE Launch!Unset
    BY <2>1, <1>3
  <2>4. ASSUME NEW n \in Launch!Names
        PROVE  Launch!Resolved[n] =
                 Launch!FirstOf(<<shell[n], envFile[n], config[n]>>,
                         IF n = "url" THEN "default" ELSE Launch!Unset)
    BY <2>3, <1>first, FirstOfThree
  <2>5. Precede'
    <3>1. \A n \in Launch!Names :
            <<shell[n], envFile[n]>> \o <<config[n]>> = <<shell[n], envFile[n], config[n]>>
      BY <1>three
    <3> QED BY <2>2, <2>4, <1>same, <3>1 DEF Precede
  <2>6. environ["key"] = Launch!Unset \/ shell["key"] = Launch!Empty
    BY <1>3, <1>env DEF Merged, Launch!Truthy, Launch!TypeOK
  <2> QED BY <2>5, <2>6, <1>same
<1> QED BY <1>1, <1>2, <1>3

\* Every step of a launch keeps its invariant.
LEMMA LaunchStep ==
  ASSUME LaunchInv, Launch!Next
  PROVE  LaunchInv'
<1> USE DEF Launch!inputVars, Launch!tunnelVars, Launch!Quiet, Launch!Stages, Launch!Programs
<1>inv. Launch!TypeOK /\ Loaded /\ Exporting /\ Exported /\ MarkerLast
  BY DEF LaunchInv
<1>1. CASE Launch!Launch
  <2>1. launching' \in {"load", "resolve"} /\ environ' = shell' /\ (program' = "publish" \/ launching' = "load")
    BY <1>1 DEF Launch!Launch
  <2>2. Launch!TypeOK'
    <3>1. environ' \in [Launch!Names -> {Launch!Unset, Launch!Empty, "shell", "file", "config"}]
      BY <1>1 DEF Launch!Launch
    <3>2. /\ credentials' \in [Launch!Names -> {Launch!Unset, "shell", "file", "config", "default"}]
          /\ "default" \notin {credentials'["key"], credentials'["team"]}
      BY <1>1 DEF Launch!Launch, Launch!NoCredentials, Launch!Names, Launch!Unset
    <3> QED
    BY <1>1, <3>1, <3>2, <1>inv DEF Launch!Launch, Launch!TypeOK, Launch!NoCredentials, Launch!Names, Launch!Unset, Launch!Empty
  <2>3. MarkerLast'
    BY <1>1, <2>1, <1>inv DEF Launch!Launch, MarkerLast
  <2> QED BY <2>1, <2>2, <2>3 DEF LaunchInv, Loaded, Exporting, Exported
<1>2. CASE Launch!LoadEnvFile
  <2>1. Launch!TypeOK'
    BY <1>2, <1>inv DEF Launch!LoadEnvFile, Launch!TypeOK, Launch!Names, Launch!Unset, Launch!Empty
  <2>2. Loaded'
    BY <1>2, <1>inv DEF Launch!LoadEnvFile, Loaded, Merged
  <2> QED BY <1>2, <1>inv, <2>1, <2>2 DEF Launch!LoadEnvFile, LaunchInv, Exporting, Exported, MarkerLast
<1>3. CASE Launch!Resolve
  <2>1. \/ launching' = "export" /\ program = "eval" /\ Launch!Resolved # Launch!NoCredentials
        \/ launching' = "prepare" /\ credentials' = Launch!NoCredentials
        \/ launching' \in {"publish", "login"}
    BY <1>3 DEF Launch!Resolve
  <2>2. Launch!TypeOK'
    BY <1>3, <1>inv, <2>1, ResolvedType DEF Launch!Resolve, Launch!TypeOK
  <2>3. Loaded' /\ Exporting' /\ Exported'
    BY <1>3, <2>1, ResolvedPrecedes DEF Loaded, Exporting, Exported
  <2> QED BY <1>3, <1>inv, <2>1, <2>2, <2>3 DEF Launch!Resolve, LaunchInv, MarkerLast
<1>4. CASE Launch!Export
  <2>1. Launch!TypeOK'
    BY <1>4, <1>inv DEF Launch!Export, Launch!TypeOK, Launch!Names, Launch!Unset, Launch!Empty
  <2>2. Exported'
    BY <1>4, <1>inv DEF Launch!Export, Exporting, Exported, Precede, Launch!Names
  <2> QED BY <1>4, <1>inv, <2>1, <2>2 DEF Launch!Export, LaunchInv, Loaded, Exporting, MarkerLast
<1>5. CASE Launch!Prepare
  BY <1>5, <1>inv DEF Launch!Prepare, Launch!Installed, LaunchInv, Launch!TypeOK, Loaded, Exporting,
     Exported, Precede, MarkerLast
<1>6. CASE Launch!InstallFails \/ Launch!WriteBinary \/ Launch!WriteMarker
  BY <1>6, <1>inv DEF Launch!InstallFails, Launch!WriteBinary, Launch!WriteMarker, LaunchInv, Launch!TypeOK,
     Loaded, Exporting, Exported, Precede, MarkerLast
<1>7. CASE Launch!Ends
  BY <1>7, <1>inv DEF Launch!Ends, LaunchInv, Launch!TypeOK, Loaded, Exporting, Exported, MarkerLast,
     Launch!NoCredentials, Launch!Names, Launch!Unset, Launch!Empty
<1> QED BY <1>1, <1>2, <1>3, <1>4, <1>5, <1>6, <1>7 DEF Launch!Next

-----------------------------------------------------------------------------
\* Dataset: the export and the runs, by the proofs about them alone, whose
\* definitions are those of the component under another name.
Whole == INSTANCE DatasetExportProofs

DatasetInv == Whole!Inv /\ Whole!WritesAlone

\* The two names of the next-state relation mean the same.
LEMMA SameDatasetStep == Dataset!Next => Whole!Next
BY DEF Dataset!Next, Whole!Next, Dataset!StartExport, Whole!StartExport, Dataset!Replace,
  Whole!Replace, Dataset!UnlinkHoldout, Whole!UnlinkHoldout, Dataset!ExportBreaksOff,
  Whole!ExportBreaksOff, Dataset!StartRun, Whole!StartRun, Dataset!Copy, Whole!Copy,
  Dataset!InspectHoldout, Whole!InspectHoldout, Dataset!Load, Whole!Load, Dataset!Refuse,
  Whole!Refuse, Dataset!Install, Whole!Install, Dataset!Advance, Whole!Advance, Dataset!Goto,
  Whole!Goto, Dataset!runVars, Whole!runVars, Dataset!history, Whole!history,
  Dataset!exportVars, Whole!exportVars, Dataset!Active, Whole!Active, Dataset!After,
  Whole!After, Dataset!AfterCopy, Whole!AfterCopy, Dataset!Loads, Whole!Loads,
  Dataset!Lines, Whole!Lines, Dataset!Written, Whole!Written, Dataset!RowFiles, Whole!RowFiles

\* The empty directory satisfies the invariant of the dataset.
LEMMA DatasetStart == Dataset!DatasetAssumption /\ Dataset!Init => DatasetInv
BY DEF Dataset!Init, Dataset!DatasetAssumption, DatasetInv, Whole!Inv, Whole!WritesAlone,
  Whole!Alone, Whole!TypeOK, Whole!Finished, Whole!ExportStages, Whole!RunStages, Dataset!NoFiles,
  Dataset!Files, Dataset!RowFiles, Whole!Files, Whole!RowFiles

\* Every step of an export or of a run keeps it.
LEMMA DatasetStep ==
  ASSUME Dataset!DatasetAssumption, DatasetInv, Dataset!Next \/ UNCHANGED datasetVars
  PROVE  DatasetInv'
<1>1. Whole!DatasetAssumption
  BY DEF Dataset!DatasetAssumption, Whole!DatasetAssumption
<1>2. Whole!TypeOK /\ [Whole!Next]_Whole!vars
  BY SameDatasetStep DEF DatasetInv, Whole!Inv, Whole!vars, datasetVars
<1> QED
  BY <1>1, <1>2, Whole!InvIsInductive, Whole!WritesAloneIsInductive DEF DatasetInv

\* It implies what is promised of the dataset.
LEMMA DatasetPromises ==
  ASSUME Dataset!DatasetAssumption, DatasetInv
  PROVE  Dataset!TypeOK /\ Dataset!TrainsOnOneExport /\ Dataset!ExportedDatasetLoads
<1>a. Whole!DatasetAssumption
  BY DEF Dataset!DatasetAssumption, Whole!DatasetAssumption
<1>1. Dataset!TypeOK
  BY DEF DatasetInv, Whole!Inv, Whole!TypeOK, Dataset!TypeOK, Whole!ExportStages, Dataset!ExportStages,
     Whole!RunStages, Dataset!RunStages, Whole!Files, Dataset!Files, Whole!RowFiles, Dataset!RowFiles
<1>2. Dataset!TrainsOnOneExport
  BY <1>a, Whole!OneExport DEF DatasetInv, Whole!TrainsOnOneExport, Dataset!TrainsOnOneExport,
     Whole!Files, Dataset!Files, Whole!RowFiles, Dataset!RowFiles
<1>3. Dataset!ExportedDatasetLoads
  BY <1>a, Whole!OwnFilesLoad DEF DatasetInv, Whole!Inv, Whole!ExportedDatasetLoads,
     Dataset!ExportedDatasetLoads, Whole!Loads, Dataset!Loads, Whole!Lines, Dataset!Lines,
     Whole!Written, Dataset!Written, Whole!RowFiles, Dataset!RowFiles
<1> QED BY <1>1, <1>2, <1>3

-----------------------------------------------------------------------------
\* Traces, the graph of a trace: an argument over all numbers looks at the least one that fails.
Less == {ss \in Nat \X Nat : ss[1] < ss[2]}

\* The order of the numbers is well founded,
LEMMA LessIsWellFounded == IsWellFoundedOn(Less, Nat)
BY NatLessThanWellFounded DEF OpToRel, Less

\* so that every set of numbers has a least member.
LEMMA LeastNat ==
  ASSUME NEW T, T \subseteq Nat, T # {}
  PROVE  \E m \in T : \A k \in T : m <= k
<1>1. PICK m \in T : \A k \in T : ~(<<k, m>> \in Less)
  BY LessIsWellFounded, WFMin
<1>2. \A k \in T : ~(k < m)
  BY <1>1 DEF Less
<1> QED BY <1>2

\* What goes on from a value, step by step.
Orbit(f, n, V, v, advance) ==
  f \in [0..n -> V] /\ f[0] = v /\ \A k \in 1..n : f[k] = advance[k][f[k - 1]]

\* It is a function: recursive functions over the numbers up to n have a value.
LEMMA Iterated ==
  ASSUME NEW n \in Nat, NEW V, NEW v \in V, NEW advance \in [1..n -> [V -> V]]
  PROVE  \E f : Orbit(f, n, V, v, advance)
<1> DEFINE Upto(f, m) == f[0] = v /\ \A k \in 1..m : f[k] = advance[k][f[k - 1]]
           Good(m) == \E f \in [0..m -> V] : Upto(f, m)
           Bad == {m \in 0..n : ~Good(m)}
<1>0. Good(0)
  <2> DEFINE f == [k \in 0..0 |-> v]
  <2>1. f \in [0..0 -> V] /\ Upto(f, 0)
    OBVIOUS
  <2> QED BY <2>1
<1>1. ASSUME NEW m \in 0..n, m < n, Good(m)
      PROVE  Good(m + 1)
  <2> PICK f \in [0..m -> V] : Upto(f, m)
    BY <1>1
  <2> PICK w : w = advance[m + 1][f[m]]
    OBVIOUS
  <2> DEFINE h == [k \in 0..(m + 1) |-> IF k <= m THEN f[k] ELSE w]
  <2>1. m + 1 \in 1..n /\ f[m] \in V
    BY <1>1
  <2>2. w \in V
    BY <2>1
  <2>3. h \in [0..(m + 1) -> V]
    BY <2>2
  <2>4. (\A k \in 0..m : h[k] = f[k]) /\ h[m + 1] = w
    OBVIOUS
  <2> HIDE DEF h
  <2>5. ASSUME NEW k \in 1..(m + 1)
        PROVE  h[k] = advance[k][h[k - 1]]
    <3>1. CASE k <= m
      <4>1. k \in 0..m /\ k - 1 \in 0..m /\ k \in 1..m
        BY <3>1
      <4> QED BY <2>4, <4>1
    <3>2. CASE k = m + 1
      <4>1. k - 1 = m /\ m \in 0..m
        BY <3>2
      <4> QED BY <2>4, <4>1, <3>2
    <3> QED BY <3>1, <3>2
  <2>6. h[0] = v
    BY <2>4
  <2> QED BY <2>3, <2>5, <2>6
<1> HIDE DEF Good
<1>2. Bad = {}
  <2> SUFFICES ASSUME Bad # {} PROVE FALSE
    OBVIOUS
  <2>0. Bad \subseteq Nat
    OBVIOUS
  <2>1. PICK m \in Bad : \A k \in Bad : m <= k
    <3> HIDE DEF Bad
    <3> QED BY <2>0, LeastNat
  <2>2. m # 0 /\ m - 1 \in 0..n /\ m - 1 < n /\ m - 1 \notin Bad
    BY <1>0, <2>1
  <2> QED BY <1>1, <2>1, <2>2
<1>3. Good(n)
  BY <1>2
<1> QED BY <1>3 DEF Good, Orbit

\* A set of numbers with a bound has a largest member.
LEMMA LargestOf ==
  ASSUME NEW n \in Nat, NEW S, S \subseteq 0..n, S # {}
  PROVE  \E m \in S : \A i \in S : m >= i
<1> DEFINE Down == {n - i : i \in S}
<1>1. Down \subseteq Nat /\ Down # {}
  <2>1. \A i \in S : n - i \in Nat
    OBVIOUS
  <2> QED BY <2>1
<1>2. PICK d \in Down : \A e \in Down : d <= e
  <2> HIDE DEF Down
  <2> QED BY <1>1, LeastNat
<1>3. PICK m \in S : d = n - m
  OBVIOUS
<1>4. ASSUME NEW i \in S
      PROVE  m >= i
  <2>1. n - m <= n - i
    BY <1>2, <1>3
  <2> QED BY <2>1
<1> QED BY <1>4

\* The chain of parents of a node, as the recursion of Ancestors defines it.
IsChain(up, g, n, i) ==
  up = [k \in 0..n |-> IF k = 0 THEN i ELSE IF up[k - 1] = 0 THEN 0 ELSE g[up[k - 1]].parent]

\* Every node has a chain of parents, as long as the graph is large.
LEMMA ChainExists ==
  ASSUME NEW n \in Nat, NEW g \in [1..n -> [type : Traces!NodeTypes, parent : 0..n]],
         NEW i \in 0..n
  PROVE  \E up : IsChain(up, g, n, i)
<1> DEFINE next(u) == IF u = 0 THEN 0 ELSE g[u].parent
           advance == [k \in 1..n |-> [u \in 0..n |-> next(u)]]
           e(f, k) == IF k = 0 THEN i ELSE next(f[k - 1])
<1>1. \A u \in 0..n : next(u) \in 0..n
  OBVIOUS
<1> HIDE DEF next
<1>2. advance \in [1..n -> [0..n -> 0..n]] /\ \A k \in 1..n, u \in 0..n : advance[k][u] = next(u)
  BY <1>1
<1> HIDE DEF advance
<1>3. PICK f : Orbit(f, n, 0..n, i, advance)
  BY <1>2, Iterated
<1>4. \A k \in 1..n : k - 1 \in 0..n /\ f[k] = next(f[k - 1])
  <2> SUFFICES ASSUME NEW k \in 1..n PROVE k - 1 \in 0..n /\ f[k] = next(f[k - 1])
    OBVIOUS
  <2>1. k - 1 \in 0..n
    OBVIOUS
  <2>2. f[k - 1] \in 0..n /\ f[k] = advance[k][f[k - 1]]
    BY <1>3, <2>1 DEF Orbit
  <2> QED BY <1>2, <2>1, <2>2
<1>5. \A k \in 0..n : f[k] = e(f, k)
  BY <1>3, <1>4 DEF Orbit
<1> HIDE DEF e
<1>6. f = [k \in 0..n |-> e(f, k)]
  BY <1>3, <1>5 DEF Orbit
<1> QED BY <1>6 DEF IsChain, e, next

\* Which is what Parents returns for it.
LEMMA ParentsIsChain ==
  ASSUME NEW n \in Nat, NEW g \in [1..n -> [type : Traces!NodeTypes, parent : 0..n]],
         NEW i \in 0..n
  PROVE  IsChain(Traces!Parents(g, i), g, n, i)
<1>1. Len(g) = n
  OBVIOUS
<1>2. Traces!Parents(g, i) = CHOOSE f : IsChain(f, g, n, i)
  BY <1>1 DEF Traces!Parents, IsChain
<1> QED BY <1>2, ChainExists

\* Its l nodes come before the first 0, which stays.
Ends(up, g, n, i, l) ==
  /\ {k \in 0..n : up[k] # 0} = 0..(l - 1)
  /\ up[0] = i /\ up[l] = 0
  /\ \A k \in 0..(l - 1) : up[k] \in 1..n /\ g[up[k]].parent = up[k + 1]

\* What the chain of a valid path says: it goes from the node to a root and
\* has no end before the root.
LEMMA ChainShape ==
  ASSUME NEW n \in Nat, NEW g \in Traces!Graphs(n),
         NEW i \in 1..n, NEW up, IsChain(up, g, n, i), up[n] = 0
  PROVE  \E l \in 1..n : Ends(up, g, n, i, l)
<1>g. g \in [1..n -> [type : Traces!NodeTypes, parent : 0..n]]
  BY DEF Traces!Graphs
<1>eq. /\ up[0] = i
       /\ \A k \in 1..n : up[k] = IF up[k - 1] = 0 THEN 0 ELSE g[up[k - 1]].parent
  <2> DEFINE e(k) == IF k = 0 THEN i ELSE IF up[k - 1] = 0 THEN 0 ELSE g[up[k - 1]].parent
  <2>1. up = [k \in 0..n |-> e(k)]
    BY DEF IsChain
  <2> HIDE DEF e
  <2>2. \A k \in 0..n : up[k] = e(k)
    BY <2>1
  <2>3. 0 \in 0..n /\ \A k \in 1..n : k \in 0..n /\ k # 0
    OBVIOUS
  <2> QED BY <2>2, <2>3 DEF e
<1>1. \A k \in 0..n : up[k] \in 0..n
  <2> DEFINE Bad == {k \in 0..n : up[k] \notin 0..n}
  <2> SUFFICES ASSUME Bad # {} PROVE FALSE
    OBVIOUS
  <2>0. Bad \subseteq Nat
    OBVIOUS
  <2>1. PICK m \in Bad : \A k \in Bad : m <= k
    <3> HIDE DEF Bad
    <3> QED BY <2>0, LeastNat
  <2>2. m \in 1..n /\ m - 1 \in 0..n /\ m - 1 \notin Bad
    BY <2>1, <1>eq
  <2>3. up[m - 1] \in 0..n
    BY <2>2
  <2>4. up[m] \in 0..n
    <3>1. CASE up[m - 1] = 0
      BY <3>1, <2>2, <1>eq
    <3>2. CASE up[m - 1] # 0
      <4>1. up[m - 1] \in 1..n
        BY <2>3, <3>2
      <4>2. g[up[m - 1]].parent \in 0..n
        BY <4>1, <1>g
      <4> QED BY <3>2, <4>2, <2>2, <1>eq
    <3> QED BY <3>1, <3>2
  <2> QED BY <2>1, <2>4
<1> DEFINE Zeros == {k \in 0..n : up[k] = 0}
<1>2. PICK l \in Zeros : \A k \in Zeros : l <= k
  <2>1. n \in Zeros /\ Zeros \subseteq Nat
    OBVIOUS
  <2> HIDE DEF Zeros
  <2>2. Zeros # {}
    BY <2>1
  <2> QED BY <2>1, <2>2, LeastNat
<1>3. l \in 1..n
  BY <1>2, <1>eq
<1>4. \A k \in 0..n : k >= l => up[k] = 0
  <2> DEFINE Bad == {k \in 0..n : k >= l /\ up[k] # 0}
  <2> SUFFICES ASSUME Bad # {} PROVE FALSE
    OBVIOUS
  <2>0. Bad \subseteq Nat
    OBVIOUS
  <2>1. PICK m \in Bad : \A k \in Bad : m <= k
    <3> HIDE DEF Bad
    <3> QED BY <2>0, LeastNat
  <2>2. m # l /\ m \in 1..n /\ m - 1 \in 0..n /\ m - 1 >= l /\ m - 1 \notin Bad
    BY <2>1, <1>2, <1>3
  <2>3. up[m - 1] = 0
    BY <2>2
  <2> QED BY <2>1, <2>2, <2>3, <1>eq
<1>5. \A k \in 0..n : k < l => up[k] # 0
  BY <1>2
<1>6. {k \in 0..n : up[k] # 0} = 0..(l - 1)
  BY <1>3, <1>4, <1>5
<1>7. ASSUME NEW k \in 0..(l - 1)
      PROVE  up[k] \in 1..n /\ g[up[k]].parent = up[k + 1]
  <2>1. k \in 0..n /\ k + 1 \in 1..n /\ (k + 1) - 1 = k
    BY <1>3
  <2>2. up[k] # 0 /\ up[k] \in 0..n
    BY <1>1, <1>5, <1>3, <2>1
  <2>3. up[k + 1] = IF up[k] = 0 THEN 0 ELSE g[up[k]].parent
    BY <1>eq, <2>1
  <2> QED BY <2>2, <2>3
<1>8. up[0] = i /\ up[l] = 0
  BY <1>eq, <1>2
<1>9. Ends(up, g, n, i, l)
  BY <1>6, <1>7, <1>8 DEF Ends
<1> QED BY <1>3, <1>9

\* The path of a node that is not rejected: it ends at the node, begins at a
\* root, and each node on it is the parent of the next.
LEMMA PathOfNode ==
  ASSUME NEW n \in Nat, NEW g \in Traces!Graphs(n), NEW i \in 1..n,
         Traces!HasRoot(g, i)
  PROVE  LET p == Traces!Ancestors(g, i)
         IN  /\ p # <<>> /\ Len(p) \in 1..n /\ DOMAIN p = 1..Len(p)
             /\ p[Len(p)] = i /\ g[p[1]].parent = 0
             /\ \A k \in 1..Len(p) : p[k] \in 1..n
             /\ \A k \in 2..Len(p) : g[p[k]].parent = p[k - 1]
<1> PICK up : up = Traces!Parents(g, i)
  OBVIOUS
<1> DEFINE p == Traces!Ancestors(g, i)
<1>0. g \in [1..n -> [type : Traces!NodeTypes, parent : 0..n]]
  BY DEF Traces!Graphs
<1>1. g \in [1..n -> [type : Traces!NodeTypes, parent : 0..n]] /\ Len(g) = n
  BY <1>0
<1>2. IsChain(up, g, n, i)
  BY ParentsIsChain, <1>1
<1>3. up[n] = 0 /\ p = [k \in 1..Cardinality({j \in 0..n : up[j] # 0}) |->
                          up[Cardinality({j \in 0..n : up[j] # 0}) - k]]
  BY <1>1 DEF Traces!HasRoot, Traces!Ancestors, Traces!Cardinality, Cardinality
<1> HIDE DEF p
<1>4. PICK l \in 1..n : Ends(up, g, n, i, l)
  BY <1>2, <1>3, ChainShape
<1>5. Cardinality(0..(l - 1)) = l
  <2>1. 0 \in Int /\ l - 1 \in Int /\ ~(0 > l - 1) /\ (l - 1) - 0 + 1 = l
    OBVIOUS
  <2> QED BY <2>1, FS_Interval
<1>6. p = [k \in 1..l |-> up[l - k]]
  BY <1>3, <1>4, <1>5 DEF Ends
<1>7. DOMAIN p = 1..l /\ Len(p) = l
  BY <1>6
<1>8. \A k \in 1..l : l - k \in 0..(l - 1) /\ p[k] = up[l - k]
  BY <1>6
<1>9. p[l] = i /\ p[1] = up[l - 1] /\ g[up[l - 1]].parent = 0
  <2>1. l \in 1..l /\ 1 \in 1..l /\ l - 1 \in 0..(l - 1) /\ l - l = 0 /\ (l - 1) + 1 = l
    OBVIOUS
  <2> QED BY <1>4, <1>8, <2>1 DEF Ends
<1>10. \A k \in 1..l : p[k] \in 1..n
  BY <1>4, <1>8 DEF Ends
<1>11. ASSUME NEW k \in 2..l
       PROVE  g[p[k]].parent = p[k - 1]
  <2>1. k \in 1..l /\ k - 1 \in 1..l /\ l - k \in 0..(l - 1) /\ (l - k) + 1 = l - (k - 1)
    OBVIOUS
  <2> QED BY <1>4, <1>8, <2>1 DEF Ends
<1>12. p # <<>>
  BY <1>7
<1> QED BY <1>7, <1>9, <1>10, <1>11, <1>12 DEF p

\* The row of a trace is one path with every useful turn on it, for every
\* graph of every size.
LEMMA RowsArePaths ==
  ASSUME NEW n \in Nat, NEW g \in Traces!Graphs(n), ~Traces!Rejected(g),
         Traces!Targets(g) # {}, ~Traces!Branched(g)
  PROVE  LET p == Traces!Sample(g).path
         IN  /\ p # <<>> /\ g[p[1]].parent = 0
             /\ \A k \in 2..Len(p) : g[p[k]].parent = p[k - 1]
             /\ \A i \in DOMAIN g : g[i].type \in {"tool", "mixed", "final"}
                                      => \E k \in DOMAIN p : p[k] = i
             /\ \/ g[p[Len(p)]].type \in {"tool", "mixed", "final"}
                \/ Len(p) > 1 /\ g[p[Len(p) - 1]].type = "failed"
<1> DEFINE last == Traces!Last(g)
<1>g. g \in [1..n -> [type : Traces!NodeTypes, parent : 0..n]] /\ DOMAIN g = 1..n
  BY DEF Traces!Graphs
<1>sub. Traces!Targets(g) \subseteq Traces!Sampled(g) /\ Traces!Sampled(g) \subseteq 1..n
  BY <1>g DEF Traces!Targets, Traces!Sampled
<1>root. \A i \in Traces!Sampled(g) : Traces!HasRoot(g, i)
  BY DEF Traces!Rejected
<1>1. last \in Traces!Targets(g)
  <2>1. Traces!Targets(g) \subseteq 0..n
    BY <1>sub
  <2>2. PICK m \in Traces!Targets(g) : \A i \in Traces!Targets(g) : m >= i
    BY <2>1, LargestOf
  <2> QED BY <2>2 DEF Traces!Last, Traces!Sets!Max
<1>2. last \in 1..n /\ last \in Traces!Sampled(g)
  BY <1>1, <1>sub
<1> HIDE DEF last
<1>3. PICK p : p = Traces!Ancestors(g, last)
  OBVIOUS
<1>4. Traces!Sample(g).path = p
  BY <1>3 DEF Traces!Sample, last
<1>5. /\ p # <<>> /\ Len(p) \in 1..n /\ DOMAIN p = 1..Len(p)
      /\ p[Len(p)] = last /\ g[p[1]].parent = 0
      /\ \A k \in 1..Len(p) : p[k] \in 1..n
      /\ \A k \in 2..Len(p) : g[p[k]].parent = p[k - 1]
  BY <1>2, <1>3, <1>root, PathOfNode
<1>6. ASSUME NEW i \in DOMAIN g, g[i].type \in {"tool", "mixed", "final"}
      PROVE  \E k \in DOMAIN p : p[k] = i
  <2>1. i \in Traces!Sampled(g)
    BY <1>6 DEF Traces!Sampled, Traces!Turns
  <2>2. PICK q : q = Traces!Ancestors(g, i)
    OBVIOUS
  <2>3. q[Len(q)] = i
    BY <2>1, <2>2, <1>sub, <1>root, PathOfNode
  <2>4. Traces!Kinds(g, q) # {}
    BY <1>6, <2>3 DEF Traces!Kinds
  <2>5. i \in Traces!Targets(g)
    BY <2>1, <2>2, <2>4 DEF Traces!Targets
  <2> QED BY <2>5, <1>3 DEF Traces!Branched, last
<1>7. \/ g[p[Len(p)]].type \in {"tool", "mixed", "final"}
      \/ Len(p) > 1 /\ g[p[Len(p) - 1]].type = "failed"
  <2>1. Traces!Kinds(g, p) # {}
    BY <1>1, <1>3 DEF Traces!Targets
  <2> QED BY <2>1 DEF Traces!Kinds
<1> QED BY <1>4, <1>5, <1>6, <1>7

\* What is being read is a trace, every row is that of a kept trace and every
\* kept trace has its row, no two rows are of one trace, and what was counted
\* when the export ended stays true.
ProperTrace ==
  reading = "convert" =>
    /\ current.id \in TraceIds /\ current.split \in Traces!Splits
    /\ \E n \in Nat : current.nodes \in Traces!Graphs(n)
KeptRows ==
  /\ \A s \in Traces!Splits : IsFiniteSet(rows[s]) /\ \A r \in rows[s] : <<r.id, s>> \in kept
  /\ \A k \in kept : \E r \in rows[k[2]] : r.id = k[1]
RowsDiffer ==
  \A s, t \in Traces!Splits : \A r \in rows[s], q \in rows[t] : r.id = q.id => s = t /\ r = q
Counted ==
  /\ reading = "ended" => Traces!Required(contract) \subseteq Traces!KindsOf(rows["train"])
  /\ reading = "ready" => Traces!Enough(prepared, contract)

TracesInv == Traces!TypeOK /\ ProperTrace /\ KeptRows /\ RowsDiffer /\ Counted

\* Before the first trace nothing is kept.
LEMMA TracesStart == Traces!Init => TracesInv
<1> SUFFICES ASSUME Traces!Init PROVE TracesInv
  OBVIOUS
<1>1. IsFiniteSet({})
  BY FS_EmptySet
<1> QED BY <1>1 DEF Traces!Init, TracesInv, Traces!TypeOK, ProperTrace, KeptRows, RowsDiffer, Counted,
          Traces!NoTrace, Traces!Splits

\* The row of a trace with a useful turn has a kind.
LEMMA RowHasKinds ==
  ASSUME NEW g, Traces!Targets(g) # {}
  PROVE  Traces!Sample(g).kinds # {}
<1>1. PICK i \in Traces!Targets(g) : TRUE
  OBVIOUS
<1>2. Traces!Kinds(g, Traces!Ancestors(g, i)) # {}
  BY <1>1 DEF Traces!Targets
<1> QED BY <1>1, <1>2 DEF Traces!Sample

\* Every step of an export keeps its invariant: a row is added only under an
\* identity that no row of either split has.
LEMMA TracesStep ==
  ASSUME TracesInv, Traces!Next
  PROVE  TracesInv'
<1> USE DEF TracesInv
<1>1. CASE Traces!Read
  <2>1. reading = "traces" /\ UNCHANGED <<rows, kept, prepared>>
    BY <1>1 DEF Traces!Read, Traces!Fail
  <2>2. \/ reading' = "failed" /\ current' = Traces!NoTrace
        \/ UNCHANGED <<reading, current>>
        \/ /\ reading' = "convert"
           /\ \E id \in TraceIds, s \in Traces!Splits, n \in Nat : \E g \in Traces!Graphs(n) :
                current' = [id |-> id, split |-> s, nodes |-> g]
    <3>1. NodeLimit \in Nat /\ LaterNodes \in Nat
      BY ProgramsAssumption DEF Traces!TraceExportAssumption
    <3> QED BY <1>1, <3>1 DEF Traces!Read, Traces!Fail
  <2>3. contract' \in {"none", "rpc", "native"}
    BY <1>1 DEF Traces!Read, Traces!TypeOK
  <2>4. Traces!TypeOK'
    BY <2>1, <2>2, <2>3 DEF Traces!TypeOK, Traces!NoTrace
  <2>5. ProperTrace'
    BY <2>1, <2>2 DEF ProperTrace
  <2>6. Counted' /\ KeptRows' /\ RowsDiffer'
    BY <2>1, <2>2 DEF Counted, KeptRows, RowsDiffer
  <2> QED BY <2>4, <2>5, <2>6
<1>2. CASE Traces!Convert
  <2> DEFINE g == current.nodes
             row == [id |-> current.id, kinds |-> Traces!Sample(g).kinds]
  <2>1. reading = "convert" /\ UNCHANGED <<contract, prepared>>
    BY <1>2 DEF Traces!Convert
  <2>2. reading' \in {"failed", "traces"} /\ current' = Traces!NoTrace
    BY <1>2 DEF Traces!Convert, Traces!Fail
  <2>3. ProperTrace' /\ Counted'
    BY <2>2 DEF ProperTrace, Counted
  <2>4. CASE UNCHANGED <<rows, kept>>
    <3>1. Traces!TypeOK'
      BY <2>1, <2>2, <2>4 DEF Traces!TypeOK, Traces!NoTrace
    <3>2. KeptRows' /\ RowsDiffer'
      BY <2>4 DEF KeptRows, RowsDiffer
    <3> QED BY <3>1, <3>2, <2>3
  <2>5. CASE ~UNCHANGED <<rows, kept>>
    <3>1. /\ ~Traces!IsKept(current.id, current.split) /\ Traces!Targets(g) # {}
          /\ rows' = [rows EXCEPT ![current.split] = @ \cup {row}]
          /\ kept' = kept \cup {<<current.id, current.split>>}
      BY <1>2, <2>5 DEF Traces!Convert, Traces!Fail
    <3> PICK new : new = row
      OBVIOUS
    <3>2. new.id = current.id /\ new.kinds # {}
      BY <3>1, RowHasKinds
    <3> PICK id, s : id = current.id /\ s = current.split
      OBVIOUS
    <3>3. id \in TraceIds /\ s \in Traces!Splits
      BY <2>1 DEF ProperTrace
    <3> HIDE DEF row, g
    <3>4. /\ rows' = [rows EXCEPT ![s] = @ \cup {new}] /\ kept' = kept \cup {<<id, s>>}
          /\ new.id = id /\ \A t \in Traces!Splits : \A r \in rows[t] : r.id # id
      BY <3>1, <3>2 DEF Traces!IsKept
    <3>5. /\ DOMAIN rows = Traces!Splits /\ DOMAIN rows' = Traces!Splits
          /\ rows'[s] = rows[s] \cup {new}
          /\ \A t \in Traces!Splits : t # s => rows'[t] = rows[t]
      BY <3>3, <3>4 DEF Traces!TypeOK
    <3>6. Traces!TypeOK'
      BY <2>1, <2>2, <3>2, <3>3, <3>4, <3>5 DEF Traces!TypeOK, Traces!NoTrace
    <3>7. RowsDiffer'
      BY <3>3, <3>4, <3>5 DEF RowsDiffer
    <3>8. KeptRows'
      <4>1. IsFiniteSet(rows[s] \cup {new})
        BY <3>3, FS_AddElement DEF KeptRows
      <4>2. \A t \in Traces!Splits : IsFiniteSet(rows'[t])
        BY <4>1, <3>5 DEF KeptRows
      <4>3. \A t \in Traces!Splits : \A r \in rows'[t] : <<r.id, t>> \in kept'
        BY <3>4, <3>5 DEF KeptRows
      <4>4. ASSUME NEW k \in kept' PROVE \E r \in rows'[k[2]] : r.id = k[1]
        <5>1. CASE k = <<id, s>>
          BY <5>1, <3>4, <3>5
        <5>2. CASE k \in kept
          <6>1. PICK r \in rows[k[2]] : r.id = k[1]
            BY <5>2 DEF KeptRows
          <6>2. k[2] \in Traces!Splits
            BY <5>2 DEF Traces!TypeOK
          <6> QED BY <6>1, <6>2, <3>5
        <5> QED BY <5>1, <5>2, <3>4
      <4> QED BY <4>2, <4>3, <4>4 DEF KeptRows
    <3> QED BY <3>6, <3>7, <3>8, <2>3
  <2> QED BY <2>4, <2>5
<1>3. CASE Traces!EndOfTraces
  <2>1. /\ UNCHANGED <<contract, rows, kept, prepared, current>>
        /\ reading' \in {"ended", "failed"}
        /\ reading' = "ended" => Traces!Enough(rows, contract)
    BY <1>3 DEF Traces!EndOfTraces
  <2>2. Traces!TypeOK' /\ ProperTrace' /\ KeptRows' /\ RowsDiffer'
    BY <2>1 DEF Traces!TypeOK, ProperTrace, KeptRows, RowsDiffer
  <2>3. Counted'
    BY <2>1 DEF Counted, Traces!Enough
  <2> QED BY <2>2, <2>3
<1>4. CASE Traces!Prepare
  <2>1. UNCHANGED <<contract, rows, kept, current>> /\ reading' \in {"ready", "failed"}
    BY <1>4 DEF Traces!Prepare
  <2>2. \/ UNCHANGED prepared /\ reading' = "failed"
        \/ /\ Traces!Enough(prepared', contract) /\ DOMAIN prepared' = Traces!Splits
           /\ \A s \in Traces!Splits : prepared'[s] \subseteq rows[s]
    BY <1>4 DEF Traces!Prepare, Traces!Splits
  <2>3. Traces!TypeOK'
    BY <2>1, <2>2 DEF Traces!TypeOK
  <2>4. ProperTrace' /\ KeptRows' /\ RowsDiffer'
    BY <2>1 DEF ProperTrace, KeptRows, RowsDiffer
  <2>5. Counted'
    BY <2>1, <2>2 DEF Counted
  <2> QED BY <2>3, <2>4, <2>5
<1> QED BY <1>1, <1>2, <1>3, <1>4 DEF Traces!Next

\* Rows of different traces are as many as their traces.
LEMMA AsManyTraces ==
  ASSUME NEW S, IsFiniteSet(S), \A r, q \in S : r.id = q.id => r = q
  PROVE  Cardinality({r.id : r \in S}) = Cardinality(S)
<1> DEFINE T == {r.id : r \in S}
           f == [r \in S |-> r.id]
<1>1. f \in Surjection(S, T)
  BY DEF Surjection
<1>2. f \in Injection(S, T)
  <2>1. f \in [S -> T] /\ \A r \in S : f[r] = r.id
    OBVIOUS
  <2> HIDE DEF f
  <2> QED BY <2>1 DEF Injection, IsInjective
<1> HIDE DEF f
<1> QED BY <1>1, <1>2, FS_Surjection

\* What the invariant says of the rows and of what is trained on.
LEMMA TracesPromises ==
  ASSUME TracesInv
  PROVE  Traces!RowIsOnePath /\ Traces!SplitsAreApart /\ Traces!TrainingIsComplete
<1> USE DEF TracesInv
<1>1. Traces!RowIsOnePath
  <2> DEFINE g == current.nodes
  <2> SUFFICES ASSUME reading = "convert", ~Traces!Rejected(g), Traces!Targets(g) # {},
                      ~Traces!Branched(g)
               PROVE  LET p == Traces!Sample(g).path
                      IN  /\ p # <<>> /\ g[p[1]].parent = 0
                          /\ \A k \in 2..Len(p) : g[p[k]].parent = p[k - 1]
                          /\ \A i \in DOMAIN g : g[i].type \in {"tool", "mixed", "final"}
                                                   => \E k \in DOMAIN p : p[k] = i
                          /\ \/ g[p[Len(p)]].type \in {"tool", "mixed", "final"}
                             \/ Len(p) > 1 /\ g[p[Len(p) - 1]].type = "failed"
    BY DEF Traces!RowIsOnePath
  <2>1. PICK n \in Nat : g \in Traces!Graphs(n)
    BY DEF ProperTrace
  <2> HIDE DEF g
  <2> QED BY <2>1, RowsArePaths
<1>2. Traces!SplitsAreApart
  <2>1. \A r \in rows["train"], v \in rows["validation"] : r.id # v.id
    BY DEF RowsDiffer, Traces!Splits
  <2>2. ASSUME NEW k \in kept, NEW l \in kept, k[1] = l[1]
        PROVE  k = l
    <3>1. k \in TraceIds \X Traces!Splits /\ l \in TraceIds \X Traces!Splits
      BY DEF Traces!TypeOK
    <3>2. PICK r \in rows[k[2]] : r.id = k[1]
      BY DEF KeptRows
    <3>3. PICK q \in rows[l[2]] : q.id = l[1]
      BY DEF KeptRows
    <3>4. k[2] = l[2]
      BY <2>2, <3>1, <3>2, <3>3 DEF RowsDiffer
    <3> QED BY <2>2, <3>1, <3>4
  <2> QED BY <2>1, <2>2 DEF Traces!SplitsAreApart
<1>3. Traces!TrainingIsComplete
  <2>1. ASSUME reading = "ready"
        PROVE  /\ Traces!Required(contract) \subseteq Traces!KindsOf(prepared["train"])
               /\ Cardinality({r.id : r \in prepared["train"]}) >= MinimumTrain
               /\ Cardinality({r.id : r \in prepared["validation"]}) >= MinimumValid
    <3>1. ASSUME NEW s \in Traces!Splits
          PROVE  Cardinality({r.id : r \in prepared[s]}) = Cardinality(prepared[s])
      <4>1. prepared[s] \subseteq rows[s] /\ IsFiniteSet(rows[s])
        BY DEF Traces!TypeOK, KeptRows
      <4>2. IsFiniteSet(prepared[s])
        BY <4>1, FS_Subset
      <4>3. \A r, q \in prepared[s] : r.id = q.id => r = q
        BY <4>1 DEF RowsDiffer
      <4> QED BY <4>2, <4>3, AsManyTraces
    <3>2. Traces!Enough(prepared, contract)
      BY <2>1 DEF Counted
    <3>3. /\ Cardinality({r.id : r \in prepared["train"]}) = Cardinality(prepared["train"])
          /\ Cardinality({r.id : r \in prepared["validation"]}) = Cardinality(prepared["validation"])
      BY <3>1 DEF Traces!Splits
    <3> QED BY <3>2, <3>3 DEF Traces!Enough, Traces!Cardinality, Cardinality
  <2> QED BY <2>1 DEF Traces!TrainingIsComplete, Counted, Traces!Cardinality, Cardinality
<1> QED BY <1>1, <1>2, <1>3

-----------------------------------------------------------------------------
\* Mining: the items are in order; two have one time only when the first of them
\* is a mutation and the second is not.
Stamp(i) == log[i].stamp
Ordered ==
  \A i, j \in DOMAIN log : i < j =>
    \/ Stamp(i) < Stamp(j)
    \/ /\ Stamp(i) = Stamp(j) /\ log[i].kind \in Mining!Mutating
       /\ log[j].kind \notin Mining!Mutating
\* Each item finds the file as the one before it left it.
Linked ==
  /\ disk = log[Len(log)].new
  /\ \A i \in DOMAIN log : i > 1 => log[i].old = log[i - 1].new
Effective == \A i \in DOMAIN log :
  /\ log[i].kind = "write" => log[i].new # log[i].old
  /\ log[i].kind \in {"edit", "delete"} => log[i].old # "absent"
Items == [kind : Mining!Kinds, sub : BOOLEAN, stamp : Nat, old : Mining!Texts, new : Mining!Texts]
Commits == [text : Mining!Texts, stamp : Nat]

MiningInv ==
  /\ disk \in Mining!Texts
  /\ log \in Seq(Items) /\ Len(log) >= 2 /\ Len(log) <= MaxItems
  /\ log[1].kind = "user" /\ clock = Stamp(Len(log)) /\ clock \in 1..Len(log)
  /\ branch \subseteq DOMAIN log
  /\ commits \in Seq(Commits) /\ Len(commits) >= 1 /\ commits[1].stamp = 0
  /\ \A c \in DOMAIN commits : commits[c].stamp <= clock
  /\ Ordered /\ Linked /\ Effective

\* A session of a request and its first edit satisfies it.
LEMMA MiningStart == Mining!MiningAssumption /\ Mining!Init => MiningInv
<1> SUFFICES ASSUME Mining!MiningAssumption, Mining!Init
             PROVE  MiningInv
  OBVIOUS
<1> PICK old \in Contents, new \in Contents, t \in Contents \cup {"absent"} :
      /\ new # old /\ disk = new /\ clock = 2 /\ branch = {1, 2}
      /\ log = <<[kind |-> "user", sub |-> FALSE, stamp |-> 1, old |-> old, new |-> old],
                 [kind |-> "edit", sub |-> FALSE, stamp |-> 2, old |-> old, new |-> new]>>
      /\ commits = <<[text |-> t, stamp |-> 0]>>
  BY DEF Mining!Init
<1> PICK one, two, base :
      /\ one = [kind |-> "user", sub |-> FALSE, stamp |-> 1, old |-> old, new |-> old]
      /\ two = [kind |-> "edit", sub |-> FALSE, stamp |-> 2, old |-> old, new |-> new]
      /\ base = [text |-> t, stamp |-> 0]
  OBVIOUS
<1>1. /\ one.kind = "user" /\ one.stamp = 1 /\ one.old = old /\ one.new = old
      /\ two.kind = "edit" /\ two.stamp = 2 /\ two.old = old /\ two.new = new
      /\ base.text = t /\ base.stamp = 0
  OBVIOUS
<1>2. one \in Items /\ two \in Items /\ base \in Commits
  <2>1. ASSUME NEW k \in Mining!Kinds, NEW s \in BOOLEAN, NEW m \in Nat,
               NEW a \in Mining!Texts, NEW b \in Mining!Texts
        PROVE  [kind |-> k, sub |-> s, stamp |-> m, old |-> a, new |-> b] \in Items
    BY DEF Items
  <2>2. /\ "user" \in Mining!Kinds /\ "edit" \in Mining!Kinds /\ FALSE \in BOOLEAN
        /\ old \in Mining!Texts /\ new \in Mining!Texts /\ t \in Mining!Texts
    BY DEF Mining!Kinds, Mining!Mutating, Mining!Texts
  <2>3. 1 \in Nat /\ 2 \in Nat /\ 0 \in Nat
    OBVIOUS
  <2>4. one \in Items
    BY <2>1, <2>2, <2>3, Zenon
  <2>5. two \in Items
    BY <2>1, <2>2, <2>3, Zenon
  <2> QED BY <2>2, <2>3, <2>4, <2>5 DEF Commits
<1>3. log = <<one, two>> /\ commits = <<base>>
  OBVIOUS
<1>4. /\ log \in Seq(Items) /\ Len(log) = 2 /\ DOMAIN log = {1, 2} /\ log[1] = one /\ log[2] = two
      /\ commits \in Seq(Commits) /\ Len(commits) = 1 /\ DOMAIN commits = {1} /\ commits[1] = base
  BY <1>2, <1>3
<1>5. Ordered
  BY <1>1, <1>4 DEF Ordered, Stamp
<1>6. Linked /\ Effective
  BY <1>1, <1>4 DEF Linked, Effective, Mining!MiningAssumption
<1>7. Len(log) <= MaxItems
  BY <1>4 DEF Mining!MiningAssumption
<1> QED BY <1>1, <1>4, <1>5, <1>6, <1>7 DEF MiningInv, Stamp, Mining!Texts

\* One more item keeps the order and the links.
LEMMA RecordStep ==
  ASSUME Mining!MiningAssumption, MiningInv,
         NEW kind \in Mining!Kinds, NEW sub \in BOOLEAN, NEW text \in Mining!Texts,
         Mining!Record(kind, sub, text),
         kind = "write" => text # disk, kind \in {"edit", "delete"} => disk # "absent",
         \/ commits' = commits
         \/ commits' = Append(commits, [text |-> disk, stamp |-> clock])
  PROVE  MiningInv'
<1> PICK n : n = Len(log)
  OBVIOUS
<1>1. /\ n \in Nat /\ n >= 2 /\ DOMAIN log = 1..n /\ log \in Seq(Items) /\ n < MaxItems
      /\ clock = Stamp(n) /\ clock \in 1..n /\ log[1].kind = "user"
      /\ disk \in Mining!Texts /\ disk' = text
  BY DEF MiningInv, Mining!Record
<1> PICK item, now : item = Mining!Item(kind, sub, clock', text) /\ now = clock'
  OBVIOUS
<1>2. item.kind = kind /\ item.stamp = now /\ item.old = disk /\ item.new = text
  BY DEF Mining!Item
<1>3. /\ now \in Nat /\ now \in 1..(n + 1)
      /\ now = clock + 1 \/ (now = clock /\ kind \in {"user", "pass", "fail"} /\ log[n].kind \in Mining!Mutating)
  BY <1>1 DEF Mining!Record, Mining!Tie
<1>4. item \in Items
  BY <1>1, <1>3 DEF Mining!Item, Items
<1>5. log' = Append(log, item)
  BY DEF Mining!Record
<1>6. /\ log' \in Seq(Items) /\ Len(log') = n + 1 /\ DOMAIN log' = 1..(n + 1)
      /\ log'[n + 1] = item /\ \A i \in 1..n : log'[i] = log[i]
  BY <1>1, <1>4, <1>5
<1>7. branch' \subseteq DOMAIN log'
  <2>1. branch \subseteq 1..n /\ 1..n \subseteq 1..(n + 1) /\ n + 1 \in 1..(n + 1)
    BY <1>1 DEF MiningInv
  <2>2. branch' \subseteq branch \cup {n + 1}
    BY DEF Mining!Record
  <2> QED BY <1>6, <2>1, <2>2
<1>8. Ordered'
  <2> SUFFICES ASSUME NEW i \in 1..(n + 1), NEW j \in 1..(n + 1), i < j
               PROVE  \/ log'[i].stamp < log'[j].stamp
                      \/ /\ log'[i].stamp = log'[j].stamp /\ log'[i].kind \in Mining!Mutating
                         /\ log'[j].kind \notin Mining!Mutating
    BY <1>6 DEF Ordered, Stamp
  <2>1. i \in 1..n
    BY <1>1
  <2>2. CASE j \in 1..n
    <3>1. \/ log[i].stamp < log[j].stamp
          \/ /\ log[i].stamp = log[j].stamp /\ log[i].kind \in Mining!Mutating
             /\ log[j].kind \notin Mining!Mutating
      BY <1>1, <2>1, <2>2 DEF MiningInv, Ordered, Stamp
    <3>2. log'[i] = log[i] /\ log'[j] = log[j]
      BY <1>6, <2>1, <2>2
    <3> QED BY <3>1, <3>2
  <2>3. CASE j = n + 1
    <3>1. Stamp(i) \in Nat /\ clock \in Nat
      <4>1. log[i] \in Items
        BY <1>1, <2>1
      <4> QED BY <1>1, <4>1 DEF Items, Stamp
    <3>2. \/ Stamp(i) < clock
          \/ Stamp(i) = clock /\ (i = n \/ log[n].kind \notin Mining!Mutating)
      <4>1. CASE i = n
        BY <1>1, <4>1
      <4>2. CASE i # n
        <5>1. i \in DOMAIN log /\ n \in DOMAIN log /\ i < n
          BY <1>1, <2>1, <4>2
        <5> QED BY <1>1, <5>1 DEF MiningInv, Ordered
      <4> QED BY <4>1, <4>2
    <3>3. log'[i] = log[i] /\ log'[j] = item
      BY <1>6, <2>1, <2>3
    <3>4. CASE now = clock + 1
      BY <1>2, <3>1, <3>2, <3>3, <3>4 DEF Stamp
    <3>5. CASE now = clock /\ kind \in {"user", "pass", "fail"} /\ log[n].kind \in Mining!Mutating
      BY <1>2, <3>1, <3>2, <3>3, <3>5 DEF Stamp, Mining!Mutating
    <3> QED BY <1>3, <3>4, <3>5
  <2> QED BY <1>1, <2>2, <2>3
<1>9. Linked'
  <2>1. Linked
    BY DEF MiningInv
  <2> SUFFICES ASSUME NEW i \in 1..(n + 1), i > 1
               PROVE  log'[i].old = log'[i - 1].new
    BY <1>1, <1>2, <1>6 DEF Linked
  <2>2. CASE i \in 1..n
    <3>1. i - 1 \in 1..n
      BY <1>1, <2>2
    <3> QED BY <1>1, <1>6, <2>1, <2>2, <3>1 DEF Linked
  <2>3. CASE i = n + 1
    <3>1. i - 1 = n /\ n \in 1..n
      BY <1>1, <2>3
    <3> QED BY <1>1, <1>2, <1>6, <2>1, <2>3, <3>1 DEF Linked
  <2> QED BY <1>1, <2>2, <2>3
<1>10. Effective'
  <2>1. Effective
    BY DEF MiningInv
  <2>2. \A i \in 1..(n + 1) : i \in 1..n \/ i = n + 1
    BY <1>1
  <2> QED BY <1>1, <1>2, <1>6, <2>1, <2>2 DEF Effective
<1>11. /\ commits' \in Seq(Commits) /\ Len(commits') >= 1 /\ commits'[1].stamp = 0
       /\ \A c \in DOMAIN commits' : commits'[c].stamp <= now
  <2>1. /\ commits \in Seq(Commits) /\ Len(commits) >= 1 /\ commits[1].stamp = 0
        /\ \A c \in DOMAIN commits : commits[c].stamp <= clock
    BY DEF MiningInv
  <2>2. \A c \in DOMAIN commits : commits[c].stamp \in Nat
    <3>1. \A c \in DOMAIN commits : commits[c] \in Commits
      BY <2>1
    <3> QED BY <3>1 DEF Commits
  <2>3. clock <= now /\ clock \in Nat
    BY <1>1, <1>3
  <2>4. CASE commits' = commits
    BY <1>3, <2>1, <2>2, <2>3, <2>4
  <2>5. CASE commits' = Append(commits, [text |-> disk, stamp |-> clock])
    <3> PICK c0, m : c0 = [text |-> disk, stamp |-> clock] /\ m = Len(commits)
      OBVIOUS
    <3>1. c0 \in Commits /\ c0.stamp = clock
      BY <1>1, <2>3 DEF Commits
    <3>2. /\ m \in Nat /\ DOMAIN commits = 1..m /\ commits' \in Seq(Commits) /\ Len(commits') = m + 1
          /\ DOMAIN commits' = 1..(m + 1) /\ commits'[m + 1] = c0
          /\ \A c \in 1..m : commits'[c] = commits[c]
      BY <2>1, <2>5, <3>1
    <3>3. \A c \in 1..(m + 1) : commits'[c].stamp <= now
      <4>1. \A c \in 1..(m + 1) : c \in 1..m \/ c = m + 1
        BY <3>2
      <4> QED BY <1>3, <2>1, <2>2, <2>3, <3>1, <3>2, <4>1, SMTT(30)
    <3>4. 1 \in 1..m
      BY <2>1, <3>2
    <3> QED BY <2>1, <3>2, <3>3, <3>4
  <2> QED BY <2>4, <2>5
<1>12. clock' = Stamp(Len(log))' /\ clock' \in 1..Len(log')
  BY <1>2, <1>3, <1>6 DEF Stamp
<1>13. log'[1].kind = "user" /\ Len(log') >= 2 /\ Len(log') <= MaxItems
  <2>1. 1 \in 1..n
    BY <1>1
  <2> QED BY <1>1, <1>6, <2>1 DEF Mining!MiningAssumption
<1>14. \A c \in DOMAIN commits' : commits'[c].stamp <= clock'
  BY <1>11
<1> QED BY <1>1, <1>6, <1>7, <1>8, <1>9, <1>10, <1>11, <1>12, <1>13, <1>14 DEF MiningInv

\* Every step records an item, or leaves a branch.
LEMMA MiningStep ==
  ASSUME Mining!MiningAssumption, MiningInv, Mining!Next
  PROVE  MiningInv'
<1>0. disk \in Mining!Texts /\ Contents \subseteq Mining!Texts /\ "absent" \in Mining!Texts
  BY DEF MiningInv, Mining!Texts
<1> USE DEF Mining!Kinds, Mining!Mutating
<1>1. ASSUME NEW t \in Contents, NEW commit \in BOOLEAN, Mining!Ask(t, commit) PROVE MiningInv'
  <2>1. /\ Mining!Record("user", FALSE, t)
        /\ commits' = commits \/ commits' = Append(commits, [text |-> disk, stamp |-> clock])
    BY <1>1 DEF Mining!Ask
  <2> QED BY <1>0, <2>1, RecordStep
<1>2. CASE Mining!Exit
  BY <1>0, <1>2, RecordStep DEF Mining!Exit
<1>3. CASE Mining!Delete
  BY <1>0, <1>3, RecordStep DEF Mining!Delete
<1>4. CASE Mining!GoBack
  <2>1. branch' \subseteq branch /\ UNCHANGED <<disk, log, clock, commits>>
    BY <1>4 DEF Mining!GoBack
  <2> QED BY <2>1 DEF MiningInv, Ordered, Linked, Effective, Stamp
<1>5. ASSUME NEW r \in {"pass", "fail"}, Mining!Test(r) PROVE MiningInv'
  BY <1>0, <1>5, RecordStep DEF Mining!Test
<1>6. ASSUME NEW t \in Contents, Mining!Write(t) \/ Mining!EditPruned(t) PROVE MiningInv'
  BY <1>0, <1>6, RecordStep DEF Mining!Write, Mining!EditPruned
<1>7. ASSUME NEW t \in Contents, NEW sub \in BOOLEAN, Mining!Edit(sub, t) PROVE MiningInv'
  BY <1>0, <1>7, RecordStep DEF Mining!Edit
<1> QED BY <1>1, <1>2, <1>3, <1>4, <1>5, <1>6, <1>7 DEF Mining!Next

\* What the reader sees are items of the session; their times are numbers up to
\* the clock, in the order of the items.
LEMMA ItemTimes ==
  ASSUME MiningInv
  PROVE  /\ Mining!Read \subseteq DOMAIN log /\ DOMAIN log = 1..Len(log) /\ Len(log) \in Nat
         /\ clock \in Nat /\ \A i \in DOMAIN log : Stamp(i) \in Nat /\ Stamp(i) <= clock
         /\ \A i, j \in DOMAIN log : Stamp(i) < Stamp(j) => i < j
<1> PICK n : n = Len(log)
  OBVIOUS
<1>1. /\ DOMAIN log = 1..n /\ n \in Nat /\ n >= 2 /\ log \in Seq(Items) /\ clock = Stamp(n) /\ Ordered
      /\ branch \subseteq 1..n
  BY DEF MiningInv
<1>2. \A i \in 1..n : Stamp(i) \in Nat
  <2>1. \A i \in 1..n : log[i] \in Items
    BY <1>1
  <2> QED BY <2>1 DEF Stamp, Items
<1>3. \A i \in 1..n : Stamp(i) <= Stamp(n)
  <2> TAKE i \in 1..n
  <2>1. n \in 1..n /\ (i < n \/ i = n)
    BY <1>1
  <2> QED BY <1>1, <1>2, <2>1, SMTT(30) DEF Ordered
<1>4. ASSUME NEW i \in 1..n, NEW j \in 1..n, Stamp(i) < Stamp(j) PROVE i < j
  <2> SUFFICES ASSUME j < i \/ i = j PROVE FALSE
    BY <1>1
  <2> QED BY <1>1, <1>2, <1>4 DEF Ordered
<1>5. Mining!Read \subseteq 1..n
  BY <1>1 DEF Mining!Read
<1> QED BY <1>1, <1>2, <1>3, <1>4, <1>5

\* Items of different times are numbered by their times.
LEMMA NumberedByTime ==
  ASSUME MiningInv, NEW i \in DOMAIN log, NEW j \in DOMAIN log, Stamp(i) # Stamp(j)
  PROVE  Mining!Before(i, j) <=> Stamp(i) < Stamp(j)
<1>1. Stamp(i) \in Nat /\ Stamp(j) \in Nat
  BY ItemTimes
<1> DEFINE rank(n) == <<log[n].stamp, IF log[n].sub THEN 1 ELSE 0,
                        IF log[n].kind \in Mining!Mutating THEN 0 ELSE 1, n>>
<1> PICK a, b : a = rank(i) /\ b = rank(j)
  OBVIOUS
<1>2. DOMAIN a = 1..4 /\ DOMAIN b = 1..4 /\ a[1] = Stamp(i) /\ b[1] = Stamp(j)
  BY DEF Stamp
<1>3. Mining!Before(i, j) <=> Mining!Earlier(a, b)
  BY DEF Mining!Before
<1>4. Mining!Earlier(a, b) <=> \E k \in 1..4 : a[k] < b[k] /\ \A l \in 1..(k - 1) : a[l] = b[l]
  BY <1>2 DEF Mining!Earlier
<1>5. \A k \in 1..4 : k = 1 \/ 1 \in 1..(k - 1)
  OBVIOUS
<1>6. 1 \in 1..4 /\ \A l \in 1..(1 - 1) : FALSE
  OBVIOUS
<1> HIDE DEF rank
<1> QED BY <1>1, <1>2, <1>3, <1>4, <1>5, <1>6

\* In an episode whose items have different times, numbering is the order in
\* which things happened.
LEMMA NumberedInOrder ==
  ASSUME MiningInv, NEW u, Mining!Distinct(u),
         NEW i \in Mining!Window(u), NEW j \in Mining!Window(u), i # j
  PROVE  Mining!Before(i, j) <=> i < j
<1>1. i \in DOMAIN log /\ j \in DOMAIN log
  BY ItemTimes DEF Mining!Window
<1>2. Stamp(i) # Stamp(j)
  BY DEF Mining!Distinct, Stamp
<1>3. Stamp(i) \in Nat /\ Stamp(j) \in Nat /\ i \in Nat /\ j \in Nat
  BY <1>1, ItemTimes
<1>4. Stamp(i) < Stamp(j) <=> i < j
  BY <1>1, <1>2, <1>3, ItemTimes
<1> QED BY <1>1, <1>2, <1>4, NumberedByTime

\* Its first and its last item are then the least and the largest.
LEMMA EndsOfEpisode ==
  ASSUME MiningInv, NEW u, Mining!Distinct(u),
         NEW S, S \subseteq Mining!Window(u), S # {}
  PROVE  /\ Mining!FirstBy(S) \in S /\ \A j \in S \ {Mining!FirstBy(S)} : Mining!FirstBy(S) < j
         /\ Mining!LastBy(S) \in S /\ \A j \in S \ {Mining!LastBy(S)} : j < Mining!LastBy(S)
         /\ Mining!FirstBy(S) = Mining!FS!Min(S) /\ Mining!LastBy(S) = Mining!FS!Max(S)
<1>1. S \subseteq 1..Len(log) /\ Len(log) \in Nat
  BY ItemTimes DEF Mining!Window
<1>2. S \subseteq Nat /\ S \subseteq 0..Len(log)
  BY <1>1
<1>3. PICK least \in S : \A k \in S : least <= k
  BY <1>2, LeastNat
<1>4. PICK last \in S : \A k \in S : last >= k
  BY <1>1, <1>2, LargestOf
<1>5. \A i, j \in S : i # j => (Mining!Before(i, j) <=> i < j)
  BY NumberedInOrder
<1>6. \A x, y \in S : (x <= y /\ y <= x => x = y) /\ (x < y \/ y < x \/ x = y) /\ (x >= y <=> y <= x)
                     /\ (x < y <=> x <= y /\ x # y)
  BY <1>2
<1>7. \A m \in S : (\A j \in S \ {m} : Mining!Before(m, j)) <=> m = least
  BY <1>3, <1>5, <1>6
<1>8. \A m \in S : (\A j \in S \ {m} : Mining!Before(j, m)) <=> m = last
  BY <1>4, <1>5, <1>6
<1>9. Mining!FirstBy(S) = least
  BY <1>3, <1>7 DEF Mining!FirstBy
<1>10. Mining!LastBy(S) = last
  BY <1>4, <1>8 DEF Mining!LastBy
<1>11. \A m \in S : (\A j \in S : m <= j) <=> m = least
  BY <1>3, <1>6
<1>12. Mining!FS!Min(S) = least
  BY <1>3, <1>11 DEF Mining!FS!Min
<1>13. \A m \in S : (\A j \in S : m >= j) <=> m = last
  BY <1>4, <1>6
<1>14. Mining!FS!Max(S) = last
  BY <1>4, <1>13 DEF Mining!FS!Max
<1>15. (\A j \in S \ {least} : least < j) /\ (\A j \in S \ {last} : j < last)
  BY <1>3, <1>4, <1>6
<1> QED BY <1>3, <1>4, <1>9, <1>10, <1>12, <1>14, <1>15

\* The request of an episode is inside its window.
LEMMA RequestIsInside ==
  ASSUME MiningInv, NEW u \in Mining!Starts
  PROVE  u \in Mining!Window(u)
<1>1. u \in Mining!Read /\ u \in DOMAIN log /\ log[u].kind = "user"
  BY ItemTimes DEF Mining!Starts, Mining!Of
<1> DEFINE next == {log[v].stamp : v \in Mining!NextStarts(u)}
           exits == {log[e].stamp : e \in {e \in Mining!Of({"exit"}) :
                       /\ log[u].stamp < log[e].stamp
                       /\ \A t \in next : log[e].stamp < t}}
           all == {log[i].stamp : i \in Mining!Read}
<1>2. \A t \in next : t \in Nat /\ Stamp(u) < t
  <2> SUFFICES ASSUME NEW v \in Mining!NextStarts(u) PROVE Stamp(v) \in Nat /\ Stamp(u) < Stamp(v)
    BY DEF Stamp
  <2>1. v \in DOMAIN log /\ v > u /\ u \in Nat /\ v \in Nat
    BY <1>1, ItemTimes DEF Mining!NextStarts, Mining!Starts, Mining!Of
  <2>2. log[u].kind \notin Mining!Mutating
    BY <1>1 DEF Mining!Mutating
  <2> QED BY <1>1, <2>1, <2>2, ItemTimes DEF MiningInv, Ordered
<1>3. \A t \in exits : t \in Nat /\ Stamp(u) < t
  BY ItemTimes DEF Mining!Of, Stamp
<1>4. \A t \in all : t \in 0..clock
  BY ItemTimes DEF Stamp
<1>5. Stamp(u) \in all
  BY <1>1 DEF Stamp
<1>6. Mining!EndOf(u) =
        IF exits # {} THEN [at |-> Mining!FS!Min(exits), inclusive |-> FALSE]
        ELSE IF next # {} THEN [at |-> Mining!FS!Min(next), inclusive |-> FALSE]
        ELSE [at |-> Mining!FS!Max(all), inclusive |-> TRUE]
  BY DEF Mining!EndOf
<1> HIDE DEF next, exits, all
<1>7. CASE exits # {}
  <2>1. \E m \in exits : \A k \in exits : m <= k
    BY <1>3, <1>7, LeastNat
  <2>2. Mining!FS!Min(exits) \in exits
    BY <2>1 DEF Mining!FS!Min
  <2>3. Mining!EndOf(u).at = Mining!FS!Min(exits)
    BY <1>6, <1>7
  <2> QED BY <1>1, <1>3, <2>2, <2>3, ItemTimes DEF Mining!Window, Stamp
<1>8. CASE exits = {} /\ next # {}
  <2>1. \E m \in next : \A k \in next : m <= k
    BY <1>2, <1>8, LeastNat
  <2>2. Mining!FS!Min(next) \in next
    BY <2>1 DEF Mining!FS!Min
  <2>3. Mining!EndOf(u).at = Mining!FS!Min(next)
    BY <1>6, <1>8
  <2> QED BY <1>1, <1>2, <2>2, <2>3, ItemTimes DEF Mining!Window, Stamp
<1>9. CASE exits = {} /\ next = {}
  <2>1. \E m \in all : \A k \in all : m >= k
    BY <1>4, <1>5, ItemTimes, LargestOf
  <2>2. Mining!FS!Max(all) \in all /\ Mining!FS!Max(all) >= Stamp(u)
    BY <1>5, <2>1 DEF Mining!FS!Max
  <2>3. Mining!EndOf(u).at = Mining!FS!Max(all)
    BY <1>6, <1>9
  <2>4. Mining!EndOf(u).inclusive = TRUE
    BY <1>6, <1>9
  <2>5. Mining!EndOf(u).at \in Nat /\ Stamp(u) \in Nat
    BY <1>1, <1>4, <2>2, <2>3, ItemTimes
  <2>6. Stamp(u) <= Stamp(u) /\ (Stamp(u) < Mining!EndOf(u).at \/ Stamp(u) = Mining!EndOf(u).at)
    BY <2>2, <2>3, <2>5
  <2> QED BY <1>1, <2>4, <2>6 DEF Mining!Window, Stamp
<1> QED BY <1>7, <1>8, <1>9

\* The run that failed came before the one that passed, and that one after a
\* change of the episode.
LEMMA ProofsAreReal == MiningInv => Mining!ProofIsReal
<1> SUFFICES ASSUME MiningInv, NEW u \in Mining!Minted, Mining!Distinct(u)
             PROVE  /\ \E f \in Mining!Failing(u) : f < Mining!PassingRun(u)
                    /\ \E m \in Mining!Mutations(u) : u < m /\ m < Mining!PassingRun(u)
  BY DEF Mining!ProofIsReal
<1> PICK W, p, m : /\ W = Mining!Window(u) /\ p = Mining!PassingRun(u)
                   /\ m = Mining!FirstBy(Mining!Mutations(u))
  OBVIOUS
<1>1. /\ u \in Mining!Starts /\ Mining!Mutations(u) # {} /\ Mining!Passing(u) # {} /\ Mining!Failing(u) # {}
  BY DEF Mining!Minted, Mining!IsCandidate
<1>2. /\ Mining!Mutations(u) \subseteq W /\ Mining!Passing(u) \subseteq W /\ Mining!Failing(u) \subseteq W
      /\ W \subseteq DOMAIN log
  BY ItemTimes DEF Mining!Mutations, Mining!Passing, Mining!Failing, Mining!TestRuns, Mining!Window
<1>3. p \in Mining!Passing(u)
  BY <1>1, <1>2, EndsOfEpisode DEF Mining!PassingRun
<1>4. m \in Mining!Mutations(u)
  BY <1>1, <1>2, EndsOfEpisode
<1>5. p \in W /\ log[p].kind = "pass" /\ Mining!Before(m, p)
  BY <1>2, <1>3 DEF Mining!Passing, Mining!TestRuns
<1>6. m \in W /\ log[m].kind \in Mining!Mutating
  BY <1>2, <1>4 DEF Mining!Mutations
<1>7. \E f \in Mining!Failing(u) : f < p
  <2> PICK f \in Mining!Failing(u) : TRUE
    BY <1>1
  <2>1. f \in W /\ log[f].kind = "fail" /\ Mining!Before(f, p)
    BY <1>2 DEF Mining!Failing, Mining!TestRuns
  <2>2. f < p
    BY <1>5, <2>1, NumberedInOrder
  <2> QED BY <2>2
<1>8. m < p
  BY <1>5, <1>6, NumberedInOrder DEF Mining!Mutating
<1>9. u < m
  <2>1. u \in W /\ log[u].kind = "user" /\ u \in DOMAIN log /\ m \in DOMAIN log
    BY <1>1, <1>2, <1>6, RequestIsInside DEF Mining!Starts, Mining!Of
  <2>2. u # m
    BY <1>6, <2>1 DEF Mining!Mutating
  <2>3. Stamp(u) <= Stamp(m) /\ Stamp(u) # Stamp(m)
    BY <1>6, <2>1, <2>2 DEF Mining!Window, Mining!Distinct, Stamp
  <2> QED BY <2>1, <2>3, ItemTimes
<1> QED BY <1>4, <1>7, <1>8, <1>9

\* The start state is what the first change of the episode found, and the replay
\* ends as the last one did.
LEMMA ReplaysAreFaithful == MiningInv => Mining!ReplayIsFaithful
<1> SUFFICES ASSUME MiningInv, NEW u \in Mining!Minted, Mining!Distinct(u)
             PROVE  /\ \/ log[Mining!FS!Min(Mining!Mutations(u))].kind = "write"
                       \/ Mining!StartState(u) = log[Mining!FS!Min(Mining!Mutations(u))].old
                    /\ Mining!EndState(u) = log[Mining!FS!Max(Mining!Mutations(u))].new
  BY DEF Mining!ReplayIsFaithful
<1>1. Mining!Mutations(u) # {} /\ Mining!Mutations(u) \subseteq Mining!Window(u) /\ Mining!Bases(u) # {}
  BY DEF Mining!Minted, Mining!IsCandidate, Mining!Mutations
<1>2. /\ Mining!FirstBy(Mining!Mutations(u)) = Mining!FS!Min(Mining!Mutations(u))
      /\ Mining!LastBy(Mining!Mutations(u)) = Mining!FS!Max(Mining!Mutations(u))
  BY <1>1, EndsOfEpisode
<1>3. Mining!EndState(u) = log[Mining!FS!Max(Mining!Mutations(u))].new
  BY <1>2 DEF Mining!EndState
<1> PICK c : c = Mining!FS!Max(Mining!Bases(u))
  OBVIOUS
<1>4. c \in Mining!Bases(u)
  <2>1. DOMAIN commits = 1..Len(commits) /\ Len(commits) \in Nat
    BY DEF MiningInv
  <2>2. Mining!Bases(u) \subseteq 0..Len(commits)
    BY <2>1 DEF Mining!Bases
  <2>3. \E k \in Mining!Bases(u) : \A l \in Mining!Bases(u) : k >= l
    BY <1>1, <2>1, <2>2, LargestOf
  <2> QED BY <2>3 DEF Mining!FS!Max
<1>5. Mining!Matches(u, c) /\ Mining!StartState(u) = Mining!PreState(u, c)
  BY <1>4 DEF Mining!Bases, Mining!StartState
<1>6. \/ log[Mining!FS!Min(Mining!Mutations(u))].kind = "write"
      \/ Mining!StartState(u) = log[Mining!FS!Min(Mining!Mutations(u))].old
  BY <1>2, <1>5 DEF Mining!Matches
<1> QED BY <1>3, <1>6

\* An undisturbed session is read as a whole, and an item is in the episode of
\* the last request before it.
LEMMA EpisodeOfUndisturbed ==
  ASSUME MiningInv, Mining!Undisturbed, NEW u \in Mining!Starts
  PROVE  /\ Mining!Read = DOMAIN log /\ Mining!Distinct(u)
         /\ Mining!Window(u) =
              {i \in DOMAIN log : u <= i /\ \A w \in Mining!Starts : w > u => i < w}
<1> PICK n : n = Len(log)
  OBVIOUS
<1>1. /\ DOMAIN log = 1..n /\ n \in Nat /\ Mining!Read = 1..n /\ u \in 1..n
      /\ \A i \in 1..n : Stamp(i) \in Nat /\ Stamp(i) <= clock
      /\ \A i, j \in 1..n : Stamp(i) < Stamp(j) => i < j
  BY ItemTimes DEF Mining!Undisturbed, Mining!Starts, Mining!Of
<1>2. \A i, j \in 1..n : i < j => Stamp(i) < Stamp(j)
  <2> SUFFICES ASSUME NEW i \in 1..n, NEW j \in 1..n, i < j PROVE Stamp(i) < Stamp(j)
    OBVIOUS
  <2>1. j - 1 \in 1..n /\ (i < j - 1 \/ i = j - 1) /\ j > 1
    BY <1>1
  <2>2. Stamp(j) > Stamp(j - 1)
    BY <1>1, <2>1 DEF Mining!Undisturbed, Stamp
  <2>3. Stamp(i) <= Stamp(j - 1)
    <3>1. CASE i = j - 1
      BY <1>1, <2>1, <3>1
    <3>2. CASE i < j - 1
      <4>1. PICK k : k = j - 1
        OBVIOUS
      <4>2. i \in DOMAIN log /\ k \in DOMAIN log /\ i < k
        BY <1>1, <2>1, <3>2, <4>1
      <4>3. Stamp(i) < Stamp(k) \/ Stamp(i) = Stamp(k)
        BY <4>2 DEF MiningInv, Ordered
      <4>4. Stamp(i) \in Nat /\ Stamp(k) \in Nat
        BY <1>1, <4>2
      <4> QED BY <4>1, <4>3, <4>4
    <3> QED BY <2>1, <3>1, <3>2
  <2> QED BY <1>1, <2>1, <2>2, <2>3
<1>3. \A i, j \in 1..n : (Stamp(i) < Stamp(j) <=> i < j) /\ (Stamp(i) <= Stamp(j) <=> i <= j)
  <2> SUFFICES ASSUME NEW i \in 1..n, NEW j \in 1..n
               PROVE  (Stamp(i) < Stamp(j) <=> i < j) /\ (Stamp(i) <= Stamp(j) <=> i <= j)
    OBVIOUS
  <2>1. i < j \/ j < i \/ i = j
    BY <1>1
  <2> QED BY <1>1, <1>2, <2>1
<1>4. Mining!Distinct(u)
  <2>1. Mining!Window(u) \subseteq 1..n
    BY <1>1 DEF Mining!Window
  <2>2. \A i, j \in 1..n : i # j => Stamp(i) # Stamp(j)
    <3> SUFFICES ASSUME NEW i \in 1..n, NEW j \in 1..n, i # j PROVE Stamp(i) # Stamp(j)
      OBVIOUS
    <3>1. i < j \/ j < i
      BY <1>1
    <3> QED BY <1>1, <1>2, <3>1
  <2> QED BY <2>1, <2>2 DEF Mining!Distinct, Stamp
<1> DEFINE next == {log[v].stamp : v \in Mining!NextStarts(u)}
           exits == {log[e].stamp : e \in {e \in Mining!Of({"exit"}) :
                       /\ log[u].stamp < log[e].stamp
                       /\ \A t \in next : log[e].stamp < t}}
           all == {log[i].stamp : i \in Mining!Read}
           end == Mining!EndOf(u)
<1>5. exits = {}
  BY <1>1 DEF Mining!Undisturbed, Mining!Of
<1>6. end = IF next # {} THEN [at |-> Mining!FS!Min(next), inclusive |-> FALSE]
            ELSE [at |-> Mining!FS!Max(all), inclusive |-> TRUE]
  BY <1>5 DEF Mining!EndOf
<1>7. next \subseteq Nat /\ Mining!NextStarts(u) = {w \in Mining!Starts : w > u}
      /\ Mining!Starts \subseteq 1..n
  BY <1>1 DEF Mining!NextStarts, Mining!Starts, Mining!Of, Stamp
<1>8. \A i \in 1..n :
        (\A t \in next : Stamp(i) < t) <=> (\A w \in Mining!Starts : w > u => i < w)
  <2> SUFFICES ASSUME NEW i \in 1..n
               PROVE  (\A t \in next : Stamp(i) < t) <=> (\A w \in Mining!Starts : w > u => i < w)
    OBVIOUS
  <2>1. (\A t \in next : Stamp(i) < t) <=> \A w \in Mining!NextStarts(u) : Stamp(i) < Stamp(w)
    BY DEF Stamp
  <2>2. (\A w \in Mining!NextStarts(u) : Stamp(i) < Stamp(w))
          <=> (\A w \in Mining!Starts : w > u => i < w)
    <3> HIDE DEF next
    <3> QED BY <1>3, <1>7
  <2> QED BY <2>1, <2>2
<1>9. all \subseteq 0..clock /\ \A i \in 1..n : Stamp(i) \in all
  BY <1>1 DEF Stamp
<1>10. Mining!Window(u) =
         {i \in 1..n : Stamp(u) <= Stamp(i) /\ (Stamp(i) < end.at \/ (end.inclusive /\ Stamp(i) = end.at))}
  BY <1>1 DEF Mining!Window, Stamp
<1> HIDE DEF next, all, end, exits
<1>11. ASSUME NEW i \in 1..n
       PROVE  (Stamp(i) < end.at \/ (end.inclusive /\ Stamp(i) = end.at))
                <=> \A w \in Mining!Starts : w > u => i < w
  <2>1. CASE next # {}
    <3>1. PICK least \in next : \A t \in next : least <= t
      BY <1>7, <2>1, LeastNat
    <3>2. Mining!FS!Min(next) \in next /\ \A t \in next : Mining!FS!Min(next) <= t
      BY <3>1 DEF Mining!FS!Min
    <3>3. end.at = Mining!FS!Min(next)
      BY <1>6, <2>1
    <3>4. end.inclusive = FALSE
      BY <1>6, <2>1
    <3>5. Stamp(i) < end.at <=> \A t \in next : Stamp(i) < t
      <4>1. Stamp(i) \in Nat /\ end.at \in next /\ \A t \in next : end.at <= t /\ t \in Nat
        BY <1>1, <1>7, <3>2, <3>3
      <4> QED BY <4>1
    <3> QED BY <1>8, <3>4, <3>5
  <2>2. CASE next = {}
    <3>1. PICK last \in all : \A t \in all : last >= t
      BY <1>1, <1>9, ItemTimes, LargestOf
    <3>2. Mining!FS!Max(all) \in all /\ \A t \in all : Mining!FS!Max(all) >= t
      BY <3>1 DEF Mining!FS!Max
    <3>3. end.at = Mining!FS!Max(all)
      BY <1>6, <2>2
    <3>4. end.inclusive = TRUE
      BY <1>6, <2>2
    <3>5. Stamp(i) < end.at \/ Stamp(i) = end.at
      <4>1. Stamp(i) \in Nat /\ end.at \in Nat /\ end.at >= Stamp(i)
        <5>1. Stamp(i) \in Nat /\ Stamp(i) \in all
          BY <1>1, <1>9
        <5>2. end.at \in 0..clock /\ end.at >= Stamp(i)
          BY <1>9, <3>2, <3>3, <5>1
        <5>3. \A c \in Nat : 0..c \subseteq Nat
          OBVIOUS
        <5> QED BY <5>1, <5>2, <5>3, ItemTimes
      <4> QED BY <4>1
    <3>6. \A w \in Mining!Starts : w > u => i < w
      BY <1>8, <2>2
    <3> QED BY <3>4, <3>5, <3>6
  <2> QED BY <2>1, <2>2
<1>12. Mining!Window(u) = {i \in 1..n : u <= i /\ \A w \in Mining!Starts : w > u => i < w}
  BY <1>1, <1>3, <1>10, <1>11
<1> QED BY <1>1, <1>4, <1>12

\* Every item of such a session is in the episode of one request.
LEMMA HasEpisode ==
  ASSUME MiningInv, Mining!Undisturbed, NEW j \in DOMAIN log
  PROVE  \E v \in Mining!Starts : v <= j /\ j \in Mining!Window(v)
<1>1. Mining!Read = DOMAIN log /\ DOMAIN log = 1..Len(log) /\ Len(log) \in Nat /\ Len(log) >= 2
  BY ItemTimes DEF Mining!Undisturbed, MiningInv
<1> DEFINE S == {v \in Mining!Starts : v <= j}
<1>2. Mining!Starts \subseteq DOMAIN log /\ 1 \in S
  BY <1>1 DEF Mining!Starts, Mining!Of, MiningInv
<1>3. S \subseteq 0..Len(log) /\ S # {}
  BY <1>1, <1>2
<1>4. PICK v \in S : \A w \in S : v >= w
  <2> HIDE DEF S
  <2> QED BY <1>1, <1>3, LargestOf
<1>5. \A w \in Mining!Starts : w > v => j < w
  <2> SUFFICES ASSUME NEW w \in Mining!Starts, w > v, ~(j < w) PROVE FALSE
    OBVIOUS
  <2>1. w \in S /\ v \in Nat /\ w \in Nat
    BY <1>1, <1>2
  <2> QED BY <1>4, <2>1
<1>6. j \in Mining!Window(v)
  BY <1>5, EpisodeOfUndisturbed
<1> QED BY <1>6

\* Where nothing is changed between two items, the second finds what the first left.
LEMMA Unchanged ==
  ASSUME MiningInv, Mining!Undisturbed, NEW k \in DOMAIN log, NEW m \in DOMAIN log, k < m,
         \A j \in DOMAIN log : k < j /\ j < m => log[j].kind \notin Mining!Mutating
  PROVE  log[m].old = log[k].new
<1>1. DOMAIN log = 1..Len(log) /\ Len(log) \in Nat
  BY ItemTimes
<1> DEFINE Bad == {j \in DOMAIN log : k < j /\ j <= m /\ log[j].old # log[k].new}
<1>2. CASE Bad = {}
  BY <1>1, <1>2
<1>3. CASE Bad # {}
  <2>1. PICK b \in Bad : \A j \in Bad : b <= j
    <3>1. Bad \subseteq Nat
      BY <1>1
    <3> HIDE DEF Bad
    <3> QED BY <1>3, <3>1, LeastNat
  <2>2. b \in 1..Len(log) /\ b > 1 /\ b - 1 \in 1..Len(log) /\ k < b /\ b <= m
    BY <1>1, <2>1
  <2>3. log[b].old = log[b - 1].new
    BY <1>1, <2>2 DEF MiningInv, Linked
  <2>4. CASE b - 1 = k
    BY <2>1, <2>3, <2>4
  <2>5. CASE b - 1 # k
    <3>1. k < b - 1 /\ b - 1 < m /\ b - 1 <= m /\ ~(b <= b - 1)
      BY <1>1, <2>2, <2>5
    <3>2. log[b - 1].old = log[k].new
      BY <1>1, <2>1, <2>2, <3>1
    <3>3. log[b - 1].new = log[b - 1].old
      BY <1>1, <2>2, <3>1 DEF Mining!Undisturbed
    <3> QED BY <2>1, <2>3, <3>2, <3>3
  <2> QED BY <2>4, <2>5
<1> QED BY <1>2, <1>3

\* A session that worked alone on a committed file is anchored at its first commit
\* in every one of its episodes.
LEMMA UndisturbedAreAnchored == MiningInv => Mining!UndisturbedIsAnchored
<1> SUFFICES ASSUME MiningInv, NEW u \in Mining!Starts, Mining!Mutations(u) # {}, Mining!Undisturbed
             PROVE  1 \in Mining!Bases(u)
  BY DEF Mining!UndisturbedIsAnchored
<1> PICK m, n : m = Mining!FirstBy(Mining!Mutations(u)) /\ n = Len(log)
  OBVIOUS
<1>1. DOMAIN log = 1..n /\ n \in Nat /\ n >= 2 /\ Mining!Starts \subseteq 1..n /\ u \in 1..n
  BY ItemTimes DEF Mining!Starts, Mining!Of, MiningInv
<1>2. \A v \in Mining!Starts : Mining!Mutations(v) \subseteq Mining!Window(v) /\ Mining!Window(v) \subseteq 1..n
  BY <1>1, ItemTimes DEF Mining!Mutations, Mining!Window
<1>3. /\ m \in Mining!Mutations(u) /\ \A j \in Mining!Mutations(u) \ {m} : m < j
  BY <1>2, EpisodeOfUndisturbed, EndsOfEpisode
<1>4. /\ m \in 1..n /\ log[m].kind \in Mining!Mutating /\ u <= m
      /\ \A w \in Mining!Starts : w > u => m < w
  <2>1. m \in Mining!Window(u) /\ log[m].kind \in Mining!Mutating
    BY <1>3 DEF Mining!Mutations
  <2> QED BY <1>1, <2>1, EpisodeOfUndisturbed
\* A change before m is one of an earlier episode.
<1>5. ASSUME NEW j \in 1..n, j < m, log[j].kind \in Mining!Mutating
      PROVE  \E w \in Mining!Starts : w < u /\ j \in Mining!Mutations(w)
  <2>1. PICK w \in Mining!Starts : w <= j /\ j \in Mining!Window(w)
    BY <1>1, HasEpisode
  <2>2. j \in Mining!Mutations(w)
    BY <1>5, <2>1 DEF Mining!Mutations
  <2>3. w \in Nat /\ u \in Nat /\ m \in Nat /\ j \in Nat
    BY <1>1, <1>4
  <2>4. ~(w > u)
    BY <1>4, <1>5, <2>1, <2>3
  <2>5. w # u
    BY <1>3, <1>5, <2>2, <2>3
  <2> QED BY <2>2, <2>3, <2>4, <2>5
<1>6. Mining!PreState(u, 1) = log[m].old
  <2>1. CASE Mining!Overlay(u) = {}
    <3>1. \A j \in 1..n : j < m => log[j].kind \notin Mining!Mutating
      BY <1>5, <2>1 DEF Mining!Overlay
    <3>2. Mining!PreState(u, 1) = log[1].old
      BY <2>1 DEF Mining!PreState, Mining!Undisturbed
    <3>3. log[1].kind = "user" /\ 1 \in 1..n /\ m # 1
      BY <1>1, <1>4 DEF MiningInv, Mining!Mutating
    <3>4. log[1].new = log[1].old
      BY <1>1, <3>3 DEF Mining!Undisturbed, Mining!Mutating
    <3>5. log[m].old = log[1].new
      BY <1>1, <1>4, <3>1, <3>3, Unchanged
    <3> QED BY <3>2, <3>4, <3>5
  <2>2. CASE Mining!Overlay(u) # {}
    <3> DEFINE V == {v \in Mining!Starts : v < u /\ Mining!Mutations(v) # {}}
    <3>1. V # {} /\ V \subseteq 0..n
      <4>1. \E v \in Mining!Starts : v < u /\ Mining!Mutations(v) # {}
        BY <2>2 DEF Mining!Overlay
      <4>2. \A v \in 1..n : v \in 0..n
        BY <1>1
      <4>3. V \subseteq 1..n
        BY <1>1
      <4>4. V # {}
        BY <4>1
      <4> HIDE DEF V
      <4> QED BY <4>2, <4>3, <4>4
    <3>2. PICK v : v = Mining!FS!Max(V)
      OBVIOUS
    <3>3. v \in V /\ \A w \in V : v >= w
      <4>1. \E x \in V : \A w \in V : x >= w
        <5> HIDE DEF V
        <5> QED BY <1>1, <3>1, LargestOf
      <4> QED BY <3>2, <4>1 DEF Mining!FS!Max
    <3>4. v \in Mining!Starts /\ v < u /\ Mining!Mutations(v) # {} /\ v \in 1..n
      BY <1>1, <3>3
    <3>5. PICK k : k = Mining!LastBy(Mining!Mutations(v))
      OBVIOUS
    <3>6. k \in Mining!Mutations(v) /\ \A j \in Mining!Mutations(v) \ {k} : j < k
      BY <1>2, <3>4, <3>5, EpisodeOfUndisturbed, EndsOfEpisode
    <3>7. Mining!PreState(u, 1) = log[k].new
      BY <2>2, <3>2, <3>5 DEF Mining!PreState, Mining!Left
    <3>8. k \in 1..n /\ v <= k /\ \A w \in Mining!Starts : w > v => k < w
      <4>1. k \in Mining!Window(v)
        BY <1>2, <3>4, <3>6
      <4> QED BY <1>1, <3>4, <4>1, EpisodeOfUndisturbed
    <3>9. k < m
      BY <1>1, <1>4, <3>4, <3>8
    <3>10. ASSUME NEW j \in 1..n, k < j, j < m PROVE log[j].kind \notin Mining!Mutating
      <4> SUFFICES ASSUME log[j].kind \in Mining!Mutating PROVE FALSE
        OBVIOUS
      <4>1. PICK w \in Mining!Starts : w < u /\ j \in Mining!Mutations(w)
        BY <1>5, <3>10
      <4>2. w \in V /\ w \in 1..n
        BY <1>1, <4>1
      <4>3. v >= w
        BY <3>3, <4>2
      <4>4. w = v
        <5>1. j \in Mining!Window(w)
          BY <1>2, <4>1
        <5>2. v > w => j < v
          BY <1>1, <3>4, <4>1, <5>1, EpisodeOfUndisturbed
        <5> QED BY <3>4, <3>8, <3>10, <4>2, <4>3, <5>2
      <4> QED BY <3>6, <3>8, <3>10, <4>1, <4>4
    <3>11. log[m].old = log[k].new
      BY <1>1, <1>4, <3>8, <3>9, <3>10, Unchanged
    <3> QED BY <3>7, <3>11
  <2> QED BY <2>1, <2>2
<1>7. Mining!Matches(u, 1)
  <2>1. /\ log[m].kind = "write" => log[m].new # log[m].old
        /\ log[m].kind # "write" => log[m].old # "absent"
    BY <1>1, <1>4 DEF MiningInv, Effective, Mining!Mutating
  <2> QED BY <1>6, <2>1 DEF Mining!Matches
<1>8. 1 \in DOMAIN commits /\ commits[1].stamp <= log[u].stamp
  <2>1. Stamp(u) \in Nat
    BY <1>1, ItemTimes
  <2> QED BY <2>1 DEF MiningInv, Stamp
<1> QED BY <1>7, <1>8 DEF Mining!Bases

\* The types of mining follow.
LEMMA MiningTypes == MiningInv => Mining!TypeOK
<1> SUFFICES ASSUME MiningInv PROVE Mining!TypeOK
  OBVIOUS
<1>1. \A i \in DOMAIN log : log[i] \in Items
  BY DEF MiningInv
<1>2. \A i \in DOMAIN log :
        /\ log[i].kind \in Mining!Kinds /\ log[i].sub \in BOOLEAN
        /\ log[i].old \in Mining!Texts /\ log[i].new \in Mining!Texts
  BY <1>1 DEF Items
<1>3. \A i \in DOMAIN log : log[i].stamp \in 0..clock
  BY ItemTimes DEF Stamp
<1>4. \A c \in DOMAIN commits : commits[c].stamp \in 0..clock /\ commits[c].text \in Mining!Texts
  <2>1. \A c \in DOMAIN commits : commits[c] \in Commits
    BY DEF MiningInv
  <2> QED BY <2>1, ItemTimes DEF MiningInv, Commits
<1>5. clock \in 1..MaxItems /\ Len(log) <= MaxItems /\ disk \in Mining!Texts /\ branch \subseteq DOMAIN log
  <2>1. clock \in 1..Len(log) /\ Len(log) <= MaxItems /\ Len(log) \in Nat /\ MaxItems \in Nat
    BY ItemTimes, ProgramsAssumption DEF MiningInv, Mining!MiningAssumption
  <2> QED BY <2>1 DEF MiningInv
<1> QED BY <1>2, <1>3, <1>4, <1>5 DEF Mining!TypeOK

-----------------------------------------------------------------------------
\* Local models: the models after the one at hand were not looked at, the gate
\* was passed by exact answers only, whose server runs, and what the results
\* are worth.
Unjudged ==
  /\ \A m \in LocalModels!Models : m > model => verdict[m] = "none"
  /\ step \in {"fuse", "spawn", "await", "probe"} => verdict[model] = "none"
Exactly ==
  /\ clean => exact
  /\ step \in {"eval", "stop", "kill"} /\ verdict[model] = "passed" => exact /\ asked = Probes
OneServer ==
  /\ step \in {"fuse", "spawn", "judge"} => server = "none"
  /\ orphans # {} => outcome = "raised" /\ step = "ended"
  /\ step = "ended" /\ orphans = {} => server \in {"none", "exited"}
Results ==
  /\ purpose = "select" => \A m \in LocalModels!Models : sealed[m] = 0
  /\ purpose = "evaluate" /\ model > 1 => verdict[1] = "passed"
  /\ \A m \in LocalModels!Models :
       verdict[m] = "improved" => purpose = "evaluate" /\ m # 1 /\ sealed[m] > sealed[1]
Chosen ==
  outcome = "selected" => step = "ended" /\ selected \in LocalModels!Models

ModelsInv ==
  /\ LocalModels!TypeOK /\ Unjudged /\ Exactly /\ OneServer /\ Results /\ Chosen
  /\ LocalModels!SelectedIsProven

\* No model has been looked at.
LEMMA ModelsStart == LocalModels!LocalModelsAssumption /\ LocalModels!Init => ModelsInv
BY DEF LocalModels!LocalModelsAssumption, LocalModels!Init, ModelsInv, LocalModels!TypeOK, Unjudged,
   Exactly, OneServer, Results, Chosen, LocalModels!SelectedIsProven, LocalModels!Models,
   LocalModels!Rewards

\* The rules of the gate together accept only the one expected call.
LEMMA OnlyExpectedIsAcceptable ==
  ASSUME NEW a \in LocalModels!Answers, LocalModels!Acceptable(a)
  PROVE  LocalModels!IsExpected(a)
<1> DEFINE names == {"expected", "more", "other", "broken"}
<1>1. a.finish = "tool_calls"
  BY DEF LocalModels!Acceptable, LocalModels!Passes
<1>2. LocalModels!Parsed(a) = DOMAIN a.calls
  BY DEF LocalModels!Acceptable, LocalModels!Passes
<1>3. \A i \in DOMAIN a.calls : a.calls[i] \in {"expected", "more"}
  BY <1>2 DEF LocalModels!Acceptable, LocalModels!Passes
<1>4. Cardinality(DOMAIN a.calls) = 1
  BY <1>2 DEF LocalModels!Acceptable, LocalModels!Passes, LocalModels!Cardinality, Cardinality
<1>5. \/ a.calls = <<>>
      \/ \E c \in names : a.calls = <<c>>
      \/ \E c \in names : a.calls = <<"expected", c>>
  BY DEF LocalModels!Answers
<1>6. CASE a.calls = <<>>
  <2>1. DOMAIN a.calls = {}
    BY <1>6
  <2> QED BY <1>4, <2>1, FS_EmptySet
<1>7. CASE \E c \in names : a.calls = <<c>>
  <2> PICK c \in names : a.calls = <<c>>
    BY <1>7
  <2>1. 1 \in DOMAIN a.calls /\ a.calls[1] = c
    OBVIOUS
  <2> QED BY <1>1, <1>3, <2>1 DEF LocalModels!IsExpected
<1>8. CASE \E c \in names : a.calls = <<"expected", c>>
  <2>1. DOMAIN a.calls = 1..2
    BY <1>8
  <2>2. Cardinality(1..2) = 2
    <3>1. 1 \in Int /\ 2 \in Int /\ ~(1 > 2) /\ 2 - 1 + 1 = 2
      OBVIOUS
    <3> QED BY <3>1, FS_Interval
  <2> QED BY <1>4, <2>1, <2>2
<1> QED BY <1>5, <1>6, <1>7, <1>8

\* Every step keeps the invariant of the models.
LEMMA ModelsStep ==
  ASSUME LocalModels!LocalModelsAssumption, ModelsInv, LocalModels!Next
  PROVE  ModelsInv'
<1>0. Count \in Nat /\ Count > 1 /\ Probes \in Nat \ {0}
  BY DEF LocalModels!LocalModelsAssumption
<1> USE DEF ModelsInv, LocalModels!TypeOK, LocalModels!Models, LocalModels!processVars,
      LocalModels!probeVars, LocalModels!Goto, LocalModels!End, LocalModels!Fails
<1>1. CASE LocalModels!Fuse
  BY <1>0, <1>1 DEF LocalModels!Fuse, Unjudged, Exactly, OneServer, Results, Chosen,
     LocalModels!SelectedIsProven
<1>2. CASE LocalModels!Spawn
  <2> USE <1>0, <1>2 DEF LocalModels!Spawn
  <2>1. LocalModels!TypeOK'
    <3>1. 0 \in 0..Probes /\ logs \cup {model} \subseteq 1..Count
      OBVIOUS
    <3>2. UNCHANGED <<purpose, model, sealed, selected, outcome>> /\ asked' = 0 /\ clean' /\ exact'
      OBVIOUS
    <3>3. CASE step' = "await"
      BY <3>1, <3>2, <3>3
    <3>4. CASE step' = "judge"
      BY <3>1, <3>2, <3>4
    <3> QED BY <3>3, <3>4
  <2>2. Unjudged'
    BY DEF Unjudged
  <2>3. Exactly'
    BY DEF Exactly
  <2>4. OneServer'
    BY DEF OneServer
  <2>5. Results'
    BY DEF Results, Unjudged
  <2>6. Chosen' /\ LocalModels!SelectedIsProven'
    BY DEF Chosen, LocalModels!SelectedIsProven
  <2> QED BY <2>1, <2>2, <2>3, <2>4, <2>5, <2>6
<1>3. CASE LocalModels!PortTaken
  BY <1>0, <1>3 DEF LocalModels!PortTaken, Unjudged, Exactly, OneServer, Results, Chosen,
     LocalModels!SelectedIsProven, LocalModels!Good
<1>4. CASE LocalModels!ServerStep
  BY <1>0, <1>4 DEF LocalModels!ServerStep, Unjudged, Exactly, OneServer, Results, Chosen,
     LocalModels!SelectedIsProven, LocalModels!Good
<1>5. CASE LocalModels!Await
  <2> USE <1>0, <1>5 DEF LocalModels!Await
  <2>1. LocalModels!TypeOK'
    OBVIOUS
  <2>2. Unjudged'
    BY DEF Unjudged
  <2>3. Exactly'
    BY DEF Exactly
  <2>4. OneServer'
    BY DEF OneServer
  <2>5. Results'
    BY DEF Results, Unjudged
  <2>6. Chosen' /\ LocalModels!SelectedIsProven'
    BY DEF Chosen, LocalModels!SelectedIsProven
  <2> QED BY <2>1, <2>2, <2>3, <2>4, <2>5, <2>6
<1>6. CASE LocalModels!AwaitRaises
  BY <1>0, <1>6 DEF LocalModels!AwaitRaises, Unjudged, Exactly, OneServer, Results, Chosen,
     LocalModels!SelectedIsProven
<1>7. CASE LocalModels!Probe
  <2>1. \/ /\ \E a \in LocalModels!Answers :
                clean' = (clean /\ LocalModels!Acceptable(a)) /\ exact' = (exact /\ LocalModels!IsExpected(a))
           /\ asked' = asked + 1 /\ asked < Probes /\ step' = step /\ UNCHANGED verdict
        \/ /\ verdict' = [verdict EXCEPT ![model] = "failed"] /\ step' = "stop"
           /\ UNCHANGED <<asked, clean, exact>>
    BY <1>7 DEF LocalModels!Probe
  <2>2. /\ step = "probe"
        /\ UNCHANGED <<outcome, selected, model, purpose, sealed, server, port, logs, orphans>>
    BY <1>7 DEF LocalModels!Probe
  <2>3. clean' \in BOOLEAN /\ exact' \in BOOLEAN /\ (clean' => exact')
    <3>1. CASE UNCHANGED <<clean, exact>>
      BY <3>1 DEF Exactly
    <3>2. CASE \E a \in LocalModels!Answers :
                 /\ clean' = (clean /\ LocalModels!Acceptable(a))
                 /\ exact' = (exact /\ LocalModels!IsExpected(a))
      <4> PICK a \in LocalModels!Answers : /\ clean' = (clean /\ LocalModels!Acceptable(a))
                                          /\ exact' = (exact /\ LocalModels!IsExpected(a))
        BY <3>2
      <4>1. LocalModels!Acceptable(a) => LocalModels!IsExpected(a)
        BY OnlyExpectedIsAcceptable
      <4>2. clean => exact
        BY DEF Exactly
      <4> QED BY <4>1, <4>2, Zenon
    <3> QED BY <2>1, <3>1, <3>2
  <2>4. LocalModels!TypeOK'
    BY <1>0, <2>1, <2>2, <2>3
  <2>5. Unjudged' /\ Exactly' /\ OneServer' /\ Results' /\ Chosen' /\ LocalModels!SelectedIsProven'
    BY <1>0, <2>1, <2>2, <2>3 DEF Unjudged, Exactly, OneServer, Results, Chosen,
       LocalModels!SelectedIsProven
  <2> QED BY <2>4, <2>5
<1>8. CASE LocalModels!ProbeRaises
  BY <1>0, <1>8 DEF LocalModels!ProbeRaises, Unjudged, Exactly, OneServer, Results, Chosen,
     LocalModels!SelectedIsProven
<1>9. CASE LocalModels!Gate
  BY <1>0, <1>9 DEF LocalModels!Gate, Unjudged, Exactly, OneServer, Results, Chosen,
     LocalModels!SelectedIsProven
<1>10. CASE LocalModels!RunEval
  BY <1>0, <1>10 DEF LocalModels!RunEval, Unjudged, Exactly, OneServer, Results, Chosen,
     LocalModels!SelectedIsProven
<1>11. CASE LocalModels!Stop
  <2> USE <1>0, <1>11 DEF LocalModels!Stop, LocalModels!AfterStop
  <2>1. LocalModels!TypeOK'
    OBVIOUS
  <2>2. Unjudged'
    BY DEF Unjudged
  <2>3. Exactly'
    BY DEF Exactly
  <2>4. OneServer'
    BY DEF OneServer
  <2>5. Results'
    BY DEF Results, Unjudged
  <2>6. Chosen' /\ LocalModels!SelectedIsProven'
    BY DEF Chosen, LocalModels!SelectedIsProven
  <2> QED BY <2>1, <2>2, <2>3, <2>4, <2>5, <2>6
<1>12. CASE LocalModels!Judge
  <2>1. /\ step = "judge" /\ server = "none" /\ outcome # "selected" /\ orphans = {}
        /\ UNCHANGED <<purpose, server, port, logs, orphans, asked, clean, exact>>
    BY <1>12 DEF LocalModels!Judge, Chosen, OneServer
  <2>2. /\ verdict' \in [1..Count -> {"none", "failed", "passed", "improved", "rejected"}]
        /\ sealed' \in [1..Count -> LocalModels!Rewards]
        /\ \A m \in 1..Count : m # model => verdict'[m] = verdict[m] /\ sealed'[m] = sealed[m]
        /\ purpose = "select" => verdict' = verdict /\ sealed' = sealed
        /\ verdict'[model] = "improved" => /\ purpose = "evaluate" /\ model # 1
                                           /\ sealed'[model] > sealed'[1]
    <3>1. CASE purpose = "evaluate" /\ verdict[model] = "passed"
      <4>1. LocalModels!Measured
        BY <1>12, <3>1 DEF LocalModels!Judge
      <4>2. CASE verdict' = [verdict EXCEPT ![model] = "failed"] /\ UNCHANGED sealed
        BY <3>1, <4>2
      <4>3. ASSUME NEW r \in LocalModels!Rewards, NEW w \in {"passed", "improved", "rejected"},
                   sealed' = [sealed EXCEPT ![model] = r],
                   verdict' = [verdict EXCEPT ![model] = w],
                   w = "improved" => model > 1 /\ r > sealed[1]
            PROVE  /\ verdict' \in [1..Count -> {"none", "failed", "passed", "improved", "rejected"}]
                   /\ sealed' \in [1..Count -> LocalModels!Rewards]
                   /\ \A m \in 1..Count :
                        m # model => verdict'[m] = verdict[m] /\ sealed'[m] = sealed[m]
                   /\ verdict'[model] = "improved" => model # 1 /\ sealed'[model] > sealed'[1]
        BY <1>0, <4>3
      <4>4. CASE \E r \in LocalModels!Rewards, worse \in BOOLEAN :
                   /\ sealed' = [sealed EXCEPT ![model] = r]
                   /\ verdict' = [verdict EXCEPT ![model] =
                                   CASE model = 1 -> "passed"
                                     [] model > 1 /\ r > sealed[1] /\ ~worse -> "improved"
                                     [] OTHER -> "rejected"]
        <5> PICK r \in LocalModels!Rewards, worse \in BOOLEAN :
                   /\ sealed' = [sealed EXCEPT ![model] = r]
                   /\ verdict' = [verdict EXCEPT ![model] =
                                   CASE model = 1 -> "passed"
                                     [] model > 1 /\ r > sealed[1] /\ ~worse -> "improved"
                                     [] OTHER -> "rejected"]
          BY <4>4
        <5> PICK w : w = CASE model = 1 -> "passed"
                           [] model > 1 /\ r > sealed[1] /\ ~worse -> "improved"
                           [] OTHER -> "rejected"
          OBVIOUS
        <5>1. w \in {"passed", "improved", "rejected"}
          OBVIOUS
        <5>2. w = "improved" => model > 1 /\ r > sealed[1]
          OBVIOUS
        <5> QED BY <3>1, <4>3, <5>1, <5>2
      <4> QED BY <4>1, <4>2, <4>4 DEF LocalModels!Measured
    <3>2. CASE ~(purpose = "evaluate" /\ verdict[model] = "passed")
      BY <1>0, <1>12, <3>2 DEF LocalModels!Judge, Results
    <3> QED BY <3>1, <3>2
  <2>3. \A m \in 1..Count : m > model => verdict'[m] = "none"
    BY <2>2 DEF Unjudged
  <2>4. \A m \in 1..Count :
          verdict'[m] = "improved" => purpose = "evaluate" /\ m # 1 /\ sealed'[m] > sealed'[1]
    <3> SUFFICES ASSUME NEW m \in 1..Count, verdict'[m] = "improved"
                 PROVE  purpose = "evaluate" /\ m # 1 /\ sealed'[m] > sealed'[1]
      OBVIOUS
    <3>1. CASE m = model
      BY <2>2, <3>1
    <3>2. CASE m # model
      <4>1. verdict[m] = "improved" /\ ~(m > model)
        BY <2>2, <2>3, <3>2
      <4>2. purpose = "evaluate" /\ m # 1 /\ sealed[m] > sealed[1]
        BY <4>1 DEF Results
      <4>3. model # 1
        BY <3>2, <4>1
      <4> QED BY <1>0, <2>2, <3>2, <4>2, <4>3
    <3> QED BY <3>1, <3>2
  <2>5. purpose = "evaluate" /\ model > 1 => verdict'[1] = "passed"
    BY <1>0, <2>2 DEF Results
  <2>6. \/ /\ outcome' = "failed" /\ step' = "ended" /\ UNCHANGED <<model, selected>>
        \/ /\ ~LocalModels!NoBaseline /\ model = Count /\ LocalModels!Choose /\ step' = "ended"
           /\ UNCHANGED model
        \/ /\ ~LocalModels!NoBaseline /\ model < Count /\ model' = model + 1
           /\ step' = IF purpose = "evaluate" THEN "fuse" ELSE "spawn"
           /\ UNCHANGED <<outcome, selected>>
    BY <1>12 DEF LocalModels!Judge
  <2>7. \/ outcome' \in {"none", "failed", "raised", "rejected"} /\ selected' \in 0..Count
        \/ /\ outcome' = "selected" /\ selected' \in 1..Count /\ step' = "ended" /\ model = Count
           /\ verdict'[selected'] = LocalModels!Good
           /\ \A n \in 1..Count : verdict'[n] = LocalModels!Good =>
                \/ sealed'[n] < sealed'[selected']
                \/ /\ sealed'[n] = sealed'[selected']
                   /\ purpose = "evaluate" \/ selected' <= n
    <3>1. CASE LocalModels!Choose /\ step' = "ended" /\ model = Count
      BY <3>1, <2>1 DEF LocalModels!Choose, LocalModels!Best, LocalModels!Good
    <3>2. CASE outcome' = outcome /\ selected' = selected
      BY <2>1, <3>2
    <3>3. CASE outcome' = "failed" /\ selected' = selected
      BY <3>3
    <3> QED BY <2>6, <3>1, <3>2, <3>3
  <2>8. LocalModels!TypeOK'
    BY <1>0, <2>1, <2>2, <2>6, <2>7
  <2>9. Unjudged' /\ OneServer' /\ Chosen'
    BY <1>0, <2>1, <2>3, <2>6, <2>7 DEF Unjudged, OneServer, Chosen
  <2>10. Exactly'
    BY <2>1, <2>6 DEF Exactly
  <2>11. Results'
    <3>1. purpose = "select" => \A m \in 1..Count : sealed'[m] = 0
      BY <2>2 DEF Results
    <3>2. purpose = "evaluate" /\ model' > 1 => verdict'[1] = "passed"
      BY <1>0, <2>5, <2>6 DEF LocalModels!NoBaseline
    <3> QED BY <2>1, <2>4, <3>1, <3>2 DEF Results
  <2>12. LocalModels!SelectedIsProven'
    <3> SUFFICES ASSUME outcome' = "selected" PROVE LocalModels!SelectedIsProven'
      BY DEF LocalModels!SelectedIsProven
    <3>1. /\ selected' \in 1..Count /\ model = Count
          /\ verdict'[selected'] = LocalModels!Good
          /\ \A n \in 1..Count : verdict'[n] = LocalModels!Good =>
               \/ sealed'[n] < sealed'[selected']
               \/ /\ sealed'[n] = sealed'[selected']
                  /\ purpose = "evaluate" \/ selected' <= n
      BY <2>7
    <3>2. LocalModels!Good' = LocalModels!Good
      BY <2>1 DEF LocalModels!Good
    <3>3. CASE purpose = "evaluate"
      <4>1. verdict'[1] = "passed" /\ verdict'[selected'] = "improved"
        BY <1>0, <2>5, <3>1, <3>3 DEF LocalModels!Good
      <4>2. selected' # 1 /\ sealed'[selected'] > sealed'[1]
        BY <2>4, <3>1, <4>1
      <4>3. \A m \in 1..Count : verdict'[m] = "improved" => sealed'[m] <= sealed'[selected']
        BY <2>2, <3>1, <3>3 DEF LocalModels!Good, LocalModels!Rewards
      <4> QED BY <2>1, <3>1, <3>2, <3>3, <4>1, <4>2, <4>3 DEF LocalModels!SelectedIsProven
    <3>4. CASE purpose = "select"
      <4>1. \A m \in 1..Count : sealed'[m] = 0
        BY <2>2, <3>4 DEF Results
      <4>2. \A n \in 1..Count : verdict'[n] = "passed" => selected' <= n
        BY <3>1, <3>4, <4>1 DEF LocalModels!Good
      <4>3. \A m \in 1..(selected' - 1) : verdict'[m] # "passed"
        <5> SUFFICES ASSUME NEW m \in 1..(selected' - 1) PROVE verdict'[m] # "passed"
          OBVIOUS
        <5>1. m \in 1..Count /\ ~(selected' <= m)
          <6>1. \A N \in Nat : \A k \in 1..N : \A j \in 1..(k - 1) : j \in 1..N /\ ~(k <= j)
            OBVIOUS
          <6>2. selected' \in 1..Count
            BY <3>1
          <6> QED BY <1>0, <6>1, <6>2
        <5> QED BY <4>2, <5>1
      <4> QED BY <2>1, <3>1, <3>2, <3>4, <4>3 DEF LocalModels!SelectedIsProven
    <3> QED BY <3>3, <3>4
  <2> QED BY <2>8, <2>9, <2>10, <2>11, <2>12
<1> QED BY <1>1, <1>2, <1>3, <1>4, <1>5, <1>6, <1>7, <1>8, <1>9, <1>10, <1>11, <1>12
        DEF LocalModels!Next

-----------------------------------------------------------------------------
\* Metrics: a turn is a sequence of names of calls, or of the one name "none".
Said == Metrics!CallNames \cup {"none"}
Proper == Metrics!CallNames \ {"broken"}
Signed(turn) == {k \in DOMAIN turn : Metrics!IsSigned(turn[k])}

\* The parsed calls of a turn are as many as its signed calls, and there are
\* none where nothing is signed.
LEMMA SignaturesAreSigned ==
  ASSUME NEW turn \in Seq(Said)
  PROVE  /\ Metrics!Signatures(turn) \in Seq(Said) /\ Metrics!Signatures(turn) \in Seq(Proper)
         /\ Len(Metrics!Signatures(turn)) = Cardinality(Signed(turn))
<1> PICK n \in Nat : n = Len(turn) /\ turn \in [1..n -> Said]
  OBVIOUS
<1> DEFINE next(s, k) == IF Metrics!IsSigned(turn[k]) THEN Append(s, turn[k]) ELSE s
           e(f, k) == IF k = 0 THEN <<>> ELSE next(f[k - 1], k)
           advance == [k \in 1..n |-> [s \in Seq(Proper) |-> next(s, k)]]
<1>1. \A k \in 1..n, s \in Seq(Proper) : next(s, k) \in Seq(Proper)
  <2>1. \A k \in 1..n : Metrics!IsSigned(turn[k]) => turn[k] \in Proper
    BY DEF Metrics!IsSigned, Said, Proper
  <2> QED BY <2>1
<1>2. \A k \in 1..n, s \in Seq(Proper) :
        Len(next(s, k)) = IF Metrics!IsSigned(turn[k]) THEN Len(s) + 1 ELSE Len(s)
  OBVIOUS
<1> HIDE DEF next
<1>3. /\ advance \in [1..n -> [Seq(Proper) -> Seq(Proper)]]
      /\ \A k \in 1..n, s \in Seq(Proper) : advance[k][s] = next(s, k)
  BY <1>1
<1> HIDE DEF advance
<1>4. PICK f : Orbit(f, n, Seq(Proper), <<>>, advance)
  <2>1. <<>> \in Seq(Proper)
    OBVIOUS
  <2> QED BY <1>3, <2>1, Iterated
<1>5. ASSUME NEW k \in 1..n
      PROVE  k - 1 \in 0..n /\ f[k] = next(f[k - 1], k)
  <2>1. k - 1 \in 0..n
    OBVIOUS
  <2>2. f[k - 1] \in Seq(Proper) /\ f[k] = advance[k][f[k - 1]]
    BY <1>4, <2>1 DEF Orbit
  <2> QED BY <1>3, <2>1, <2>2
<1>6. \A k \in 0..n : f[k] = e(f, k)
  BY <1>4, <1>5 DEF Orbit
<1> HIDE DEF e
<1>7. f = [k \in 0..n |-> e(f, k)]
  BY <1>4, <1>6 DEF Orbit
<1> DEFINE Is(h) == h = [k \in 0..n |-> e(h, k)]
           parsed == CHOOSE h : Is(h)
<1>8. Is(parsed)
  BY <1>7
<1>9. Metrics!Signatures(turn) = parsed[n]
  BY DEF Metrics!Signatures, e, next
<1> HIDE DEF parsed
<1>10. \A k \in 0..n : parsed[k] = e(parsed, k)
  BY <1>8
<1> DEFINE Upto(k) == {j \in 1..k : Metrics!IsSigned(turn[j])}
           Right(k) == /\ parsed[k] \in Seq(Proper) /\ IsFiniteSet(Upto(k))
                       /\ Len(parsed[k]) = Cardinality(Upto(k))
           Bad == {k \in 0..n : ~Right(k)}
<1>11. Right(0)
  <2>1. Upto(0) = {} /\ parsed[0] = <<>>
    BY <1>10 DEF e
  <2> QED BY <2>1, FS_EmptySet
<1>12. ASSUME NEW k \in 1..n, Right(k - 1)
       PROVE  Right(k)
  <2>1. parsed[k] = next(parsed[k - 1], k)
    BY <1>10 DEF e
  <2>2. parsed[k] \in Seq(Proper)
    BY <1>1, <1>12, <2>1
  <2>3. CASE Metrics!IsSigned(turn[k])
    <3>1. Upto(k) = Upto(k - 1) \cup {k} /\ k \notin Upto(k - 1)
      BY <2>3
    <3>2. IsFiniteSet(Upto(k)) /\ Cardinality(Upto(k)) = Cardinality(Upto(k - 1)) + 1
      <4>1. IsFiniteSet(Upto(k - 1))
        BY <1>12
      <4> PICK before : before = Upto(k - 1)
        OBVIOUS
      <4>2. IsFiniteSet(before) /\ k \notin before
        BY <3>1, <4>1
      <4>3. IsFiniteSet(before \cup {k}) /\ Cardinality(before \cup {k}) = Cardinality(before) + 1
        BY <4>2, FS_AddElement
      <4>4. Upto(k) = before \cup {k}
        BY <3>1
      <4> HIDE DEF Upto
      <4> QED BY <4>3, <4>4
    <3> QED BY <1>2, <1>12, <2>1, <2>2, <2>3, <3>2
  <2>4. CASE ~Metrics!IsSigned(turn[k])
    <3>1. Upto(k) = Upto(k - 1)
      BY <2>4
    <3> QED BY <1>2, <1>12, <2>1, <2>2, <2>4, <3>1
  <2> QED BY <2>3, <2>4
<1> HIDE DEF Right
<1>13. Bad = {}
  <2> SUFFICES ASSUME Bad # {} PROVE FALSE
    OBVIOUS
  <2>0. Bad \subseteq Nat
    OBVIOUS
  <2>1. PICK m \in Bad : \A k \in Bad : m <= k
    <3> HIDE DEF Bad
    <3> QED BY <2>0, LeastNat
  <2>2. m \in 1..n /\ m - 1 \in 0..n /\ m - 1 \notin Bad
    BY <1>11, <2>1
  <2> QED BY <1>12, <2>1, <2>2
<1>14. Right(n) /\ Signed(turn) = Upto(n)
  BY <1>13 DEF Signed
<1>15. Seq(Proper) \subseteq Seq(Said)
  BY DEF Proper, Said
<1> QED BY <1>9, <1>14, <1>15 DEF Right

\* A subset of the calls of a turn is finite and not larger than the turn.
LEMMA CallsOfTurn ==
  ASSUME NEW turn \in Seq(Said), NEW S, S \subseteq DOMAIN turn
  PROVE  IsFiniteSet(S) /\ Cardinality(S) \in Nat /\ Cardinality(S) <= Len(turn)
<1>1. DOMAIN turn = 1..Len(turn) /\ Len(turn) \in Nat
  OBVIOUS
<1>2. IsFiniteSet(1..Len(turn)) /\ Cardinality(1..Len(turn)) = Len(turn)
  <2>1. \A m \in Nat : IsFiniteSet(1..m) /\ Cardinality(1..m) = m
    <3> TAKE m \in Nat
    <3>1. 1 \in Int /\ m \in Int /\ (1 > m => m = 0) /\ m - 1 + 1 = m
      OBVIOUS
    <3> QED BY <3>1, FS_Interval
  <2> QED BY <1>1, <2>1
<1> QED BY <1>1, <1>2, FS_Subset, FS_CardinalityType

InvalidNames == {"wrong", "unknown", "broken", "none"}
\* What measure_traces adds for a turn: parsed and invalid calls are among the
\* calls that were tried and make them up, and the unavailable ones are invalid.
LEMMA CountsOfTurn ==
  ASSUME NEW turn \in Seq(Said)
  PROVE  LET parsed == Len(Metrics!Signatures(turn))
             invalid == Metrics!Number(turn, InvalidNames)
             unavailable == Metrics!Number(turn, {"unknown"})
         IN  /\ parsed \in Nat /\ invalid \in Nat /\ unavailable \in Nat
             /\ parsed <= Len(turn) /\ invalid <= Len(turn) /\ unavailable <= invalid
             /\ parsed + invalid >= Len(turn)
<1> DEFINE S == Signed(turn)
           B == {k \in DOMAIN turn : turn[k] \in InvalidNames}
           U == {k \in DOMAIN turn : turn[k] \in {"unknown"}}
<1>1. S \subseteq DOMAIN turn /\ B \subseteq DOMAIN turn /\ U \subseteq B /\ S \cup B = DOMAIN turn
  BY DEF Signed, InvalidNames, Said, Metrics!IsSigned, Metrics!CallNames
<1>2. /\ Len(Metrics!Signatures(turn)) = Cardinality(S)
      /\ Metrics!Number(turn, InvalidNames) = Cardinality(B) /\ Metrics!Number(turn, {"unknown"}) = Cardinality(U)
  BY SignaturesAreSigned DEF Metrics!Number, Metrics!Cardinality, Cardinality
<1> HIDE DEF S, B, U
<1>3. /\ IsFiniteSet(S) /\ Cardinality(S) \in Nat /\ Cardinality(S) <= Len(turn)
      /\ IsFiniteSet(B) /\ Cardinality(B) \in Nat /\ Cardinality(B) <= Len(turn)
  BY <1>1, CallsOfTurn
<1>4. IsFiniteSet(U) /\ Cardinality(U) \in Nat /\ Cardinality(U) <= Cardinality(B)
  BY <1>1, <1>3, FS_Subset, FS_CardinalityType
<1>5. Cardinality(DOMAIN turn) = Len(turn)
  <2>1. \A m \in Nat : Cardinality(1..m) = m
    <3> TAKE m \in Nat
    <3>1. 1 \in Int /\ m \in Int /\ (1 > m => m = 0) /\ m - 1 + 1 = m
      OBVIOUS
    <3> QED BY <3>1, FS_Interval
  <2> QED BY <2>1
<1>6. Cardinality(S) + Cardinality(B) >= Len(turn)
  <2>1. Cardinality(S \cup B) = Cardinality(S) + Cardinality(B) - Cardinality(S \cap B)
    BY <1>3, FS_Union
  <2>2. Cardinality(S \cap B) \in Nat
    BY <1>3, FS_Subset, FS_CardinalityType
  <2> QED BY <1>1, <1>3, <1>5, <2>1, <2>2
<1> QED BY <1>2, <1>3, <1>4, <1>6

\* Calls are repeated in a turn when two of them are alike.
LEMMA AlikeCalls ==
  ASSUME NEW s \in Seq(Said)
  PROVE  Cardinality(Metrics!SE!ToSet(s)) # Len(s) <=> \E k, l \in DOMAIN s : k # l /\ s[k] = s[l]
<1> PICK n \in Nat : n = Len(s) /\ s \in [1..n -> Said] /\ DOMAIN s = 1..n
  OBVIOUS
<1>1. Metrics!SE!ToSet(s) = {s[i] : i \in DOMAIN s}
  BY DEF Metrics!SE!ToSet
<1> DEFINE T == {s[i] : i \in 1..n}
<1>2. IsFiniteSet(1..n) /\ Cardinality(1..n) = n
  <2>1. 1 \in Int /\ n \in Int /\ (1 > n => n = 0) /\ n - 1 + 1 = n
    OBVIOUS
  <2> QED BY <2>1, FS_Interval
<1>3. s \in Surjection(1..n, T)
  <2>1. s \in [1..n -> T]
    OBVIOUS
  <2> QED BY <2>1 DEF Surjection
<1>4. Cardinality(T) = n <=> s \in Injection(1..n, T)
  <2> HIDE DEF T
  <2> QED BY <1>2, <1>3, FS_Surjection
<1>5. s \in Injection(1..n, T) <=> \A k, l \in 1..n : s[k] = s[l] => k = l
  <2>1. s \in [1..n -> T]
    OBVIOUS
  <2> QED BY <2>1 DEF Injection, IsInjective
<1> QED BY <1>1, <1>4, <1>5

-----------------------------------------------------------------------------
\* What the counters hold: the turns that repeat, shares of the turns and of
\* the calls; and the last calls of the trace at hand.
Remembers(trace) ==
  LET spoke == Metrics!Spoke(trace, Len(trace) + 1)
  IN  \/ spoke = {} /\ previous = <<>>
      \/ \E j \in spoke : /\ \A k \in spoke : k <= j
                         /\ previous = Metrics!Signatures(trace[j])
Shares ==
  /\ counts.repeated <= counts.parsedTurns /\ counts.parsedTurns <= counts.sampled
  /\ counts.parsed <= counts.attempts /\ counts.invalid <= counts.attempts
  /\ counts.unavailable <= counts.invalid
  /\ counts.parsed + counts.invalid >= counts.attempts

MetricsInv ==
  /\ measuring \in {"turns", "ended", "failed"}
  /\ counts \in [DOMAIN Metrics!Zeros -> Nat]
  /\ said \in Seq(Seq(Metrics!TurnsOf)) /\ said # <<>> /\ previous \in Seq(Proper)
  /\ IsFiniteSet(Metrics!AllLoops) /\ counts.repeated = Cardinality(Metrics!AllLoops)
  /\ Remembers(said[Len(said)]) /\ Shares

\* A turn is a sequence of names.
LEMMA TurnsAreNames ==
  /\ \A turn \in Metrics!TurnsOf : turn \in Seq(Said)
  /\ \A turn \in Metrics!TurnsOf, k \in Nat : k \in DOMAIN turn /\ turn # <<"none">> => turn[k] # "none"
<1>1. \A turn \in Metrics!SE!BoundedSeq(Metrics!CallNames, TurnCalls) :
        \E m \in Nat : turn \in [1..m -> Metrics!CallNames]
  <2>1. TurnCalls \in Nat
    BY ProgramsAssumption DEF Metrics!ToolMetricsAssumption
  <2>2. \A m \in 0..TurnCalls : m \in Nat
    BY <2>1
  <2> QED BY <2>2 DEF Metrics!SE!BoundedSeq, Metrics!SE!SeqOf
<1>2. ASSUME NEW m \in Nat, NEW turn \in [1..m -> Metrics!CallNames]
      PROVE  turn \in Seq(Said) /\ \A k \in DOMAIN turn : turn[k] # "none"
  BY DEF Said, Metrics!CallNames
<1>3. <<"none">> \in Seq(Said)
  BY DEF Said
<1> QED BY <1>1, <1>2, <1>3 DEF Metrics!TurnsOf

\* A turn at the end of a trace repeats just if it repeats what is remembered.
LEMMA LoopsOfLonger ==
  ASSUME NEW trace \in Seq(Metrics!TurnsOf), Remembers(trace), NEW turn \in Metrics!TurnsOf
  PROVE  Metrics!Loops(Append(trace, turn)) =
           Metrics!Loops(trace) \cup
             (IF Metrics!Repeats(Metrics!Signatures(turn), previous) THEN {Len(trace) + 1} ELSE {})
<1> DEFINE n == Len(trace)
           longer == Append(trace, turn)
           Sig(t) == Metrics!Signatures(t)
           Twice(t) == \E k, l \in DOMAIN Sig(t) : k # l /\ Sig(t)[k] = Sig(t)[l]
           Again(tr, i) == \E j \in Metrics!Spoke(tr, i) :
                             /\ \A k \in Metrics!Spoke(tr, i) : k <= j
                             /\ Sig(tr[i]) = Sig(tr[j])
<1>1. /\ n \in Nat /\ DOMAIN trace = 1..n /\ DOMAIN longer = 1..(n + 1)
      /\ longer[n + 1] = turn /\ \A i \in 1..n : longer[i] = trace[i]
  OBVIOUS
<1> PICK q : q = Append(trace, turn)
  OBVIOUS
<1>2. \A tr : Metrics!Loops(tr) = {i \in DOMAIN tr : Twice(tr[i]) \/ Again(tr, i)}
  BY DEF Metrics!Loops
<1> HIDE DEF longer
<1>3. \A i \in 1..(n + 1) : Metrics!Spoke(longer, i) = Metrics!Spoke(trace, i)
  <2> TAKE i \in 1..(n + 1)
  <2>1. \A j \in 1..(i - 1) : j \in 1..n
    BY <1>1
  <2> QED BY <1>1, <2>1 DEF Metrics!Spoke
<1>4. \A i \in 1..n : Again(longer, i) <=> Again(trace, i)
  <2> SUFFICES ASSUME NEW i \in 1..n PROVE Again(longer, i) <=> Again(trace, i)
    OBVIOUS
  <2>1. Metrics!Spoke(longer, i) = Metrics!Spoke(trace, i)
    BY <1>1, <1>3
  <2>2. \A j \in Metrics!Spoke(trace, i) : longer[j] = trace[j]
    BY <1>1 DEF Metrics!Spoke
  <2> QED BY <1>1, <2>1, <2>2
<1>5. Again(longer, n + 1) <=> Sig(turn) # <<>> /\ Sig(turn) = previous
  <2>1. Metrics!Spoke(longer, n + 1) = Metrics!Spoke(trace, n + 1)
    BY <1>1, <1>3
  <2>2. \A j \in Metrics!Spoke(trace, n + 1) : longer[j] = trace[j] /\ Sig(trace[j]) # <<>> /\ j \in 1..n
    BY <1>1 DEF Metrics!Spoke
  <2>3. CASE Metrics!Spoke(trace, n + 1) = {} /\ previous = <<>>
    BY <2>1, <2>3
  <2>4. CASE \E j \in Metrics!Spoke(trace, n + 1) :
               /\ \A k \in Metrics!Spoke(trace, n + 1) : k <= j
               /\ previous = Sig(trace[j])
    <3> PICK j \in Metrics!Spoke(trace, n + 1) :
               /\ \A k \in Metrics!Spoke(trace, n + 1) : k <= j
               /\ previous = Sig(trace[j])
      BY <2>4
    <3>1. \A i \in Metrics!Spoke(trace, n + 1) :
            (\A k \in Metrics!Spoke(trace, n + 1) : k <= i) => i = j
      BY <2>2
    <3> HIDE DEF Sig
    <3> QED BY <1>1, <2>1, <2>2, <3>1
  <2> QED BY <2>3, <2>4 DEF Remembers
<1>6. Twice(turn) <=> Cardinality(Metrics!SE!ToSet(Sig(turn))) # Len(Sig(turn))
  BY TurnsAreNames, SignaturesAreSigned, AlikeCalls
<1>7. Twice(turn) \/ Again(longer, n + 1) <=> Metrics!Repeats(Sig(turn), previous)
  BY <1>5, <1>6 DEF Metrics!Repeats, Metrics!Cardinality, Cardinality
<1> HIDE DEF Twice, Again, Sig
<1>8. Metrics!Loops(longer) = {i \in 1..(n + 1) : Twice(longer[i]) \/ Again(longer, i)}
  BY <1>1, <1>2
<1>9. Metrics!Loops(trace) = {i \in 1..n : Twice(trace[i]) \/ Again(trace, i)}
  BY <1>1, <1>2
<1> QED BY <1>1, <1>4, <1>7, <1>8, <1>9 DEF longer, Sig

\* Nothing has been said.
LEMMA MetricsStart == Metrics!Init => MetricsInv
<1> SUFFICES ASSUME Metrics!Init PROVE MetricsInv
  OBVIOUS
<1> USE DEF Metrics!Init
<1>1. /\ counts \in [DOMAIN Metrics!Zeros -> Nat] /\ counts.repeated = 0 /\ Shares
  BY DEF Metrics!Zeros, Shares
<1>2. said \in Seq(Seq(Metrics!TurnsOf)) /\ said # <<>> /\ DOMAIN said = {1} /\ said[Len(said)] = <<>>
      /\ said[1] = <<>>
  OBVIOUS
<1>3. Metrics!Loops(<<>>) = {}
  BY DEF Metrics!Loops
<1>4. Metrics!AllLoops = {}
  BY <1>2, <1>3 DEF Metrics!AllLoops
<1>5. Remembers(<<>>)
  BY DEF Remembers, Metrics!Spoke
<1> QED BY <1>1, <1>2, <1>4, <1>5, FS_EmptySet DEF MetricsInv

\* Shares of two sets of calls are shares of both together.
LEMMA MoreCalls ==
  \A p, a, q, b \in Nat : p <= a /\ q <= b => p + q <= a + b
OBVIOUS

\* A further turn counts as it is, and the trace remembers the last calls.
LEMMA TurnStep ==
  ASSUME MetricsInv, Metrics!Turn
  PROVE  MetricsInv'
<1> PICK turn \in Metrics!TurnsOf :
      /\ said' = [said EXCEPT ![Len(said)] = Append(@, turn)]
      /\ counts' = Metrics!Counted(turn) /\ previous' = Metrics!Remembered(turn)
  BY DEF Metrics!Turn
<1> PICK n, trace, longer : n = Len(said) /\ trace = said[n] /\ longer = Append(trace, turn)
  OBVIOUS
<1> DEFINE again == Metrics!Repeats(Metrics!Signatures(turn), previous)
<1>0. measuring' = measuring /\ measuring \in {"turns", "ended", "failed"}
  BY DEF Metrics!Turn, MetricsInv
<1>1. /\ said \in Seq(Seq(Metrics!TurnsOf)) /\ n \in Nat /\ n \in DOMAIN said /\ DOMAIN said = 1..n
      /\ trace \in Seq(Metrics!TurnsOf) /\ Remembers(trace)
  BY DEF MetricsInv
<1>2. longer \in Seq(Metrics!TurnsOf)
  BY <1>1
<1>3. said' = [said EXCEPT ![n] = longer]
  OBVIOUS
<1>4. /\ said' \in Seq(Seq(Metrics!TurnsOf)) /\ Len(said') = n /\ DOMAIN said' = 1..n
      /\ said'[n] = longer /\ \A t \in 1..n : t # n => said'[t] = said[t]
  BY <1>1, <1>2, <1>3
<1>5. said' # <<>>
  BY <1>1, <1>4
\* The loops of all traces.
<1>6. Metrics!Loops(longer) = Metrics!Loops(trace) \cup (IF again THEN {Len(trace) + 1} ELSE {})
  BY <1>1, LoopsOfLonger
<1>7. Metrics!AllLoops' = Metrics!AllLoops \cup (IF again THEN {<<n, Len(trace) + 1>>} ELSE {})
  <2>1. Metrics!AllLoops' = UNION {{<<t, i>> : i \in Metrics!Loops(said'[t])} : t \in 1..n}
    BY <1>4 DEF Metrics!AllLoops, Metrics!Loops, Metrics!Spoke, Metrics!Signatures
  <2>2. Metrics!AllLoops = UNION {{<<t, i>> : i \in Metrics!Loops(said[t])} : t \in 1..n}
    BY <1>1 DEF Metrics!AllLoops
  <2> HIDE DEF again
  <2> QED BY <1>1, <1>4, <1>6, <2>1, <2>2
<1>8. <<n, Len(trace) + 1>> \notin Metrics!AllLoops
  <2>1. Len(trace) + 1 \notin Metrics!Loops(trace)
    BY <1>1 DEF Metrics!Loops
  <2> QED BY <2>1 DEF Metrics!AllLoops
<1>9. /\ IsFiniteSet(Metrics!AllLoops')
      /\ Cardinality(Metrics!AllLoops') =
           IF again THEN Cardinality(Metrics!AllLoops) + 1 ELSE Cardinality(Metrics!AllLoops)
  <2>1. IsFiniteSet(Metrics!AllLoops)
    BY DEF MetricsInv
  <2> QED BY <1>7, <1>8, <2>1, FS_AddElement
\* The counters.
<1>10. turn \in Seq(Said)
  BY TurnsAreNames
<1> PICK parsed, invalid, unavailable :
      /\ parsed = Len(Metrics!Signatures(turn)) /\ invalid = Metrics!Number(turn, InvalidNames)
      /\ unavailable = Metrics!Number(turn, {"unknown"})
  OBVIOUS
<1>11. /\ parsed \in Nat /\ invalid \in Nat /\ unavailable \in Nat /\ Len(turn) \in Nat
       /\ parsed <= Len(turn) /\ invalid <= Len(turn) /\ unavailable <= invalid
       /\ parsed + invalid >= Len(turn)
  BY <1>10, CountsOfTurn
<1>12. counts \in [{"sampled", "parsedTurns", "parsed", "attempts", "invalid", "unavailable", "repeated"} -> Nat]
  BY DEF MetricsInv, Metrics!Zeros
<1>13. /\ counts' \in [{"sampled", "parsedTurns", "parsed", "attempts", "invalid", "unavailable", "repeated"} -> Nat]
       /\ counts'.sampled = counts.sampled + 1
       /\ counts'.parsedTurns = IF turn \in {<<>>, <<"none">>} THEN counts.parsedTurns ELSE counts.parsedTurns + 1
       /\ counts'.attempts = counts.attempts + Len(turn) /\ counts'.parsed = counts.parsed + parsed
       /\ counts'.invalid = counts.invalid + invalid
       /\ counts'.unavailable = counts.unavailable + unavailable
       /\ counts'.repeated = IF again THEN counts.repeated + 1 ELSE counts.repeated
  <2> HIDE DEF again
  <2> PICK with, loops :
        /\ with = IF turn \in {<<>>, <<"none">>} THEN counts.parsedTurns ELSE counts.parsedTurns + 1
        /\ loops = IF again THEN counts.repeated + 1 ELSE counts.repeated
    OBVIOUS
  <2> PICK f : f = counts'
    OBVIOUS
  <2>1. f = [counts EXCEPT
     !.sampled = counts.sampled + 1, !.parsedTurns = with,
     !.attempts = counts.attempts + Len(turn), !.parsed = counts.parsed + parsed,
     !.invalid = counts.invalid + invalid, !.unavailable = counts.unavailable + unavailable,
     !.repeated = loops]
    BY <1>12 DEF Metrics!Counted, InvalidNames, again
  <2>2. with \in Nat /\ loops \in Nat
    BY <1>12, SMTT(30)
  <2>3. /\ f.sampled = counts.sampled + 1 /\ f.parsedTurns = with /\ f.repeated = loops
        /\ f.attempts = counts.attempts + Len(turn) /\ f.parsed = counts.parsed + parsed
        /\ f.invalid = counts.invalid + invalid /\ f.unavailable = counts.unavailable + unavailable
    BY <1>12, <2>1
  <2>4. DOMAIN f = DOMAIN counts /\ f = [x \in DOMAIN f |-> f[x]]
    BY <1>12, <2>1
  <2>5. f \in [{"sampled", "parsedTurns", "parsed", "attempts", "invalid", "unavailable", "repeated"} -> Nat]
    <3>0. \A x, y \in Nat : x + y \in Nat
      OBVIOUS
    <3>1. /\ counts.sampled + 1 \in Nat /\ counts.attempts + Len(turn) \in Nat
          /\ counts.parsed + parsed \in Nat /\ counts.invalid + invalid \in Nat
          /\ counts.unavailable + unavailable \in Nat
      <4>1. /\ counts.sampled \in Nat /\ counts.attempts \in Nat /\ counts.parsed \in Nat
            /\ counts.invalid \in Nat /\ counts.unavailable \in Nat /\ 1 \in Nat
        BY <1>12
      <4> QED BY <1>11, <3>0, <4>1
    <3>2. \A x \in {"sampled", "parsedTurns", "parsed", "attempts", "invalid", "unavailable", "repeated"} :
            f[x] \in Nat
      BY <2>2, <2>3, <3>1
    <3>3. DOMAIN f = {"sampled", "parsedTurns", "parsed", "attempts", "invalid", "unavailable", "repeated"}
      BY <1>12, <2>4
    <3> QED BY <2>4, <3>2, <3>3
  <2> QED BY <2>3, <2>5
<1>14. again => turn \notin {<<>>, <<"none">>}
  <2> SUFFICES ASSUME again, turn \in {<<>>, <<"none">>} PROVE FALSE
    OBVIOUS
  <2>1. Signed(turn) = {}
    BY DEF Signed, Metrics!IsSigned
  <2>2. Len(Metrics!Signatures(turn)) = 0 /\ Metrics!Signatures(turn) \in Seq(Said)
    BY <1>10, <2>1, SignaturesAreSigned, FS_EmptySet
  <2>3. Metrics!Signatures(turn) = <<>>
    BY <2>2
  <2>4. Metrics!SE!ToSet(<<>>) = {}
    BY DEF Metrics!SE!ToSet
  <2> QED BY <2>3, <2>4, FS_EmptySet DEF Metrics!Repeats, Metrics!Cardinality, Cardinality
<1>15. Shares'
  <2> HIDE DEF again
  <2>1. Shares
    BY DEF MetricsInv
  <2>2. /\ counts.sampled \in Nat /\ counts.parsedTurns \in Nat /\ counts.repeated \in Nat
        /\ counts.attempts \in Nat /\ counts.parsed \in Nat /\ counts.invalid \in Nat
        /\ counts.unavailable \in Nat
    BY <1>12
  <2> PICK p, i, u, a, l, t, s :
        /\ p = counts.parsed /\ i = counts.invalid /\ u = counts.unavailable
        /\ a = counts.attempts /\ l = counts.repeated /\ t = counts.parsedTurns
        /\ s = counts.sampled
    OBVIOUS
  <2> PICK pp, ii, uu, aa, ll, tt, ss :
        /\ pp = counts'.parsed /\ ii = counts'.invalid /\ uu = counts'.unavailable
        /\ aa = counts'.attempts /\ ll = counts'.repeated /\ tt = counts'.parsedTurns
        /\ ss = counts'.sampled
    OBVIOUS
  <2> PICK m : m = Len(turn)
    OBVIOUS
  <2>3. /\ p \in Nat /\ i \in Nat /\ u \in Nat /\ a \in Nat /\ l \in Nat /\ t \in Nat /\ s \in Nat
        /\ l <= t /\ t <= s /\ p <= a /\ i <= a /\ u <= i /\ p + i >= a
    BY <2>1, <2>2 DEF Shares
  <2>4. /\ pp = p + parsed /\ ii = i + invalid /\ uu = u + unavailable /\ aa = a + m /\ ss = s + 1
        /\ tt = (IF turn \in {<<>>, <<"none">>} THEN t ELSE t + 1)
        /\ ll = (IF again THEN l + 1 ELSE l)
    BY <1>13
  <2>5. /\ m \in Nat /\ parsed <= m /\ invalid <= m /\ unavailable <= invalid /\ parsed + invalid >= m
    BY <1>11
  <2>41. pp = p + parsed /\ ii = i + invalid /\ uu = u + unavailable /\ aa = a + m
    BY <2>4
  <2>42. ss = s + 1
    BY <2>4
  <2>6. pp <= aa /\ ii <= aa /\ uu <= ii /\ pp + ii >= aa
    <3>1. parsed \in Nat /\ invalid \in Nat /\ unavailable \in Nat
      BY <1>11
    <3>2. p + parsed <= a + m
      BY <2>3, <2>5, <3>1, MoreCalls
    <3>3. i + invalid <= a + m
      BY <2>3, <2>5, <3>1, MoreCalls
    <3>4. u + unavailable <= i + invalid
      BY <2>3, <2>5, <3>1, MoreCalls
    <3>5. (p + parsed) + (i + invalid) >= a + m
      <4>0. \A x, y \in Nat : x + y \in Nat /\ \A z \in Nat : x + y >= z => z <= x + y
        OBVIOUS
      <4>1. a <= p + i /\ m <= parsed + invalid /\ p + i \in Nat /\ parsed + invalid \in Nat
        <5>1. p + i \in Nat /\ a <= p + i
          BY <2>3, <4>0
        <5>2. parsed + invalid \in Nat /\ m <= parsed + invalid
          BY <2>5, <3>1, <4>0
        <5> QED BY <5>1, <5>2
      <4>2. a + m <= (p + i) + (parsed + invalid)
        BY <2>3, <2>5, <4>1, MoreCalls
      <4>3. \A w, x, y, z \in Nat : (w + x) + (y + z) = (w + y) + (x + z)
        OBVIOUS
      <4>4. (p + i) + (parsed + invalid) = (p + parsed) + (i + invalid)
        BY <2>3, <3>1, <4>3, SMTT(30)
      <4> QED BY <2>3, <2>5, <3>1, <4>2, <4>4
    <3> QED BY <2>41, <3>2, <3>3, <3>4, <3>5
  <2>7. ll <= tt /\ tt <= ss
    <3>1. CASE turn \in {<<>>, <<"none">>}
      <4>1. ll = l /\ tt = t
        BY <1>14, <2>4, <3>1
      <4>2. l <= t /\ t <= s + 1
        BY <2>3
      <4> QED BY <2>42, <4>1, <4>2
    <3>2. CASE turn \notin {<<>>, <<"none">>}
      <4>1. tt = t + 1 /\ ll \in {l, l + 1}
        BY <2>4, <3>2
      <4>0. \A x, y \in Nat : x <= y => x <= y + 1 /\ x + 1 <= y + 1
        OBVIOUS
      <4>2. l <= t + 1 /\ l + 1 <= t + 1 /\ t + 1 <= s + 1
        BY <2>3, <4>0
      <4> QED BY <2>42, <4>1, <4>2
    <3> QED BY <3>1, <3>2
  <2> QED BY <2>6, <2>7 DEF Shares
\* What the trace remembers.
<1>16. Remembers(longer)'
  <2> DEFINE m == Len(trace)
             spoke == Metrics!Spoke(trace, m + 1)
             now == Metrics!Spoke(longer, m + 2)
  <2>1. /\ m \in Nat /\ Len(longer) = m + 1 /\ longer[m + 1] = turn
        /\ \A j \in 1..m : longer[j] = trace[j]
    BY <1>1
  <2>2. now = spoke \cup (IF Metrics!Signatures(turn) # <<>> THEN {m + 1} ELSE {})
    <3>1. spoke = {j \in 1..m : Metrics!Signatures(trace[j]) # <<>>}
      BY <2>1 DEF Metrics!Spoke
    <3>2. now = {j \in 1..(m + 1) : Metrics!Signatures(longer[j]) # <<>>}
      BY <2>1 DEF Metrics!Spoke
    <3> QED BY <2>1, <3>1, <3>2
  <2>3. \A j \in spoke : j \in 1..m
    BY <2>1 DEF Metrics!Spoke
  <2>4. \/ now = {} /\ previous' = <<>>
        \/ \E j \in now : /\ \A k \in now : k <= j
                         /\ previous' = Metrics!Signatures(longer[j])
    <3>1. CASE Metrics!Signatures(turn) # <<>>
      <4>1. previous' = Metrics!Signatures(longer[m + 1])
        BY <2>1, <3>1 DEF Metrics!Remembered
      <4>2. m + 1 \in now /\ \A k \in now : k <= m + 1
        BY <2>1, <2>2, <2>3, <3>1
      <4> QED BY <4>1, <4>2
    <3>2. CASE Metrics!Signatures(turn) = <<>>
      <4>1. previous' = previous /\ now = spoke
        BY <2>2, <3>2 DEF Metrics!Remembered
      <4>2. \/ spoke = {} /\ previous = <<>>
            \/ \E j \in spoke : /\ \A k \in spoke : k <= j
                               /\ previous = Metrics!Signatures(trace[j])
        BY <1>1 DEF Remembers
      <4> QED BY <2>1, <2>3, <4>1, <4>2
    <3> QED BY <3>1, <3>2
  <2>5. Metrics!Spoke(longer, Len(longer) + 1) = now
    BY <2>1
  <2> QED BY <2>4, <2>5 DEF Remembers
<1>17. counts'.repeated = Cardinality(Metrics!AllLoops')
  BY <1>9, <1>13 DEF MetricsInv
<1>18. counts' \in [DOMAIN Metrics!Zeros -> Nat]
  BY <1>13 DEF Metrics!Zeros
<1>19. previous' \in Seq(Proper)
  <2>1. turn \in Seq(Said)
    BY TurnsAreNames
  <2>2. Metrics!Signatures(turn) \in Seq(Proper)
    BY <2>1, SignaturesAreSigned
  <2> QED BY <2>2 DEF Metrics!Remembered, MetricsInv
<1>20. Remembers(said[Len(said)])'
  BY <1>4, <1>16
<1> QED BY <1>0, <1>4, <1>5, <1>9, <1>15, <1>17, <1>18, <1>19, <1>20 DEF MetricsInv

\* A further trace starts with nothing to remember.
LEMMA TraceStep ==
  ASSUME MetricsInv, Metrics!NextTrace
  PROVE  MetricsInv'
<1> PICK n : n = Len(said)
  OBVIOUS
<1>1. /\ said \in Seq(Seq(Metrics!TurnsOf)) /\ n \in Nat /\ n \in DOMAIN said /\ DOMAIN said = 1..n
      /\ said' = Append(said, <<>>) /\ previous' = <<>> /\ counts' = counts
      /\ measuring' = measuring /\ measuring \in {"turns", "ended", "failed"}
  BY DEF MetricsInv, Metrics!NextTrace
<1>2. /\ said' \in Seq(Seq(Metrics!TurnsOf)) /\ Len(said') = n + 1 /\ DOMAIN said' = 1..(n + 1)
      /\ said'[n + 1] = <<>> /\ \A t \in 1..n : said'[t] = said[t]
  BY <1>1
<1>3. said' # <<>>
  BY <1>1, <1>2
<1>4. Metrics!AllLoops' = Metrics!AllLoops
  <2>1. Metrics!AllLoops' = UNION {{<<t, i>> : i \in Metrics!Loops(said'[t])} : t \in 1..(n + 1)}
    BY <1>2 DEF Metrics!AllLoops, Metrics!Loops, Metrics!Spoke, Metrics!Signatures
  <2>2. Metrics!AllLoops = UNION {{<<t, i>> : i \in Metrics!Loops(said[t])} : t \in 1..n}
    BY <1>1 DEF Metrics!AllLoops
  <2>3. Metrics!Loops(<<>>) = {}
    BY DEF Metrics!Loops
  <2>4. \A t \in 1..(n + 1) : t = n + 1 \/ t \in 1..n
    BY <1>1
  <2>5. 1..n \subseteq 1..(n + 1)
    BY <1>1
  <2> QED BY <1>2, <2>1, <2>2, <2>3, <2>4, <2>5
<1>5. Remembers(<<>>)'
  BY <1>1 DEF Remembers, Metrics!Spoke
<1>6. /\ counts \in [DOMAIN Metrics!Zeros -> Nat] /\ Shares
      /\ IsFiniteSet(Metrics!AllLoops) /\ counts.repeated = Cardinality(Metrics!AllLoops)
  BY DEF MetricsInv
<1>7. Shares'
  BY <1>1, <1>6 DEF Shares
<1>8. Remembers(said[Len(said)])'
  BY <1>2, <1>5
<1> QED BY <1>1, <1>2, <1>3, <1>4, <1>6, <1>7, <1>8 DEF MetricsInv

\* Measuring keeps the shares.
LEMMA MetricsStep ==
  ASSUME MetricsInv, [Metrics!Next]_metricsVars
  PROVE  MetricsInv'
<1>1. CASE Metrics!Turn
  BY <1>1, TurnStep
<1>2. CASE Metrics!NextTrace
  BY <1>2, TraceStep
<1>3. ASSUME UNCHANGED <<said, previous, counts>>, measuring' \in {"turns", "ended", "failed"}
      PROVE  MetricsInv'
  <2>1. said' = said /\ previous' = previous /\ counts' = counts
    BY <1>3
  <2>2. Metrics!AllLoops' = Metrics!AllLoops
    BY <2>1 DEF Metrics!AllLoops, Metrics!Loops, Metrics!Spoke, Metrics!Signatures
  <2>3. Shares' <=> Shares
    BY <2>1 DEF Shares
  <2>4. Remembers(said[Len(said)])' <=> Remembers(said[Len(said)])
    BY <2>1 DEF Remembers, Metrics!Spoke, Metrics!Signatures
  <2> QED BY <1>3, <2>1, <2>2, <2>3, <2>4 DEF MetricsInv
<1>4. CASE Metrics!Finish
  BY <1>3, <1>4 DEF Metrics!Finish
<1>5. CASE UNCHANGED metricsVars
  BY <1>3, <1>5 DEF metricsVars, MetricsInv
<1> QED BY <1>1, <1>2, <1>4, <1>5 DEF Metrics!Next

\* They are what the metrics promise.
LEMMA MetricsPromises == MetricsInv => Metrics!RatesAreShares
<1> SUFFICES ASSUME MetricsInv PROVE Metrics!RatesAreShares
  OBVIOUS
<1>1. counts.repeated = Cardinality(Metrics!AllLoops) /\ Shares
  BY DEF MetricsInv
<1>2. counts.repeated = Metrics!Cardinality(Metrics!AllLoops)
  BY <1>1 DEF Cardinality, Metrics!Cardinality
<1> QED BY <1>1, <1>2 DEF Shares, Metrics!RatesAreShares

-----------------------------------------------------------------------------
\* The whole: a step is one of the program the behaviour is about, or none.
LEMMA StepOfPart ==
  ASSUME [Next]_vars
  PROVE  /\ part' = part
         /\ part = "install" => Harness!Next \/ UNCHANGED installVars
         /\ part = "rollout" => Rollout!Next \/ UNCHANGED rolloutVars
         /\ part = "command" => Command!Next \/ UNCHANGED commandVars
         /\ part = "mining" => Mining!Next \/ UNCHANGED miningVars
         /\ part = "launch" => Launch!Next \/ UNCHANGED launchVars
         /\ part = "publication" => Publication!Next \/ UNCHANGED publicationVars
         /\ part = "dataset" => Dataset!Next \/ UNCHANGED datasetVars
         /\ part = "traces" => Traces!Next \/ UNCHANGED tracesVars
         /\ part = "metrics" => Metrics!Next \/ UNCHANGED metricsVars
         /\ part = "models" => LocalModels!Next \/ UNCHANGED modelsVars
         /\ part = "bench" => Bench!Next \/ UNCHANGED benchVars
<1>1. CASE UNCHANGED vars
  BY <1>1 DEF vars
<1>2. CASE Next
  BY <1>2 DEF Next
<1> QED BY <1>1, <1>2

\* It begins as that program does.
LEMMA InitOfPart ==
  ASSUME Init
  PROVE  /\ part = "install" => Harness!Init
         /\ part = "rollout" => Rollout!Init
         /\ part = "command" => Command!Init
         /\ part = "mining" => Mining!Init
         /\ part = "launch" => Launch!Init
         /\ part = "publication" => Publication!Init
         /\ part = "dataset" => Dataset!Init
         /\ part = "traces" => Traces!Init
         /\ part = "metrics" => Metrics!Init
         /\ part = "models" => LocalModels!Init
         /\ part = "bench" => Bench!Init
BY DEF Init

\* A minted task that no call has published yet.
LEMMA PublicationStart == Publication!Init => PublicationInv
<1> SUFFICES ASSUME Publication!Init  PROVE PublicationInv
  OBVIOUS
<1> USE DEF Publication!Init, Publication!Images, Publication!NotPublished, Publication!Ids
<1>1. Builds \in Nat
  BY ProgramsAssumption DEF Publication!PublicationAssumption
<1>2. Publication!TypeOK
  <2>1. provenance \in [state : {"ok", "torn"},
                       published : [build : 0..Builds, image : Publication!Images,
                                    local : Publication!Images]]
    BY <1>1
  <2>2. status \in [1..Builds -> {"none", "created", "uploaded", "running", "completed", "failed"}]
    OBVIOUS
  <2>3. manifest \in [state : {"ok", "torn"}, image : Publication!Images]
    OBVIOUS
  <2> QED BY <1>1, <2>1, <2>2, <2>3 DEF Publication!TypeOK, Publication!Stages
<1>3. Waiting /\ OwnBuild /\ KnownStatus /\ Unreported /\ ManifestFirst /\ NamesBuild /\ NotYetAsked
  BY DEF Waiting, OwnBuild, KnownStatus, Unreported, ManifestFirst, NamesBuild, NotYetAsked, AtBuild
<1> QED BY <1>2, <1>3 DEF PublicationInv, Publication!PointsAtBuiltImage,
           Publication!ReportedIsRecorded

\* The invariant of the publications, in the behaviours that are about one.
PublicationsHold ==
  part = "publication" => PublicationInv

\* It holds in all of them.
LEMMA PublicationsKept == Spec => []PublicationsHold
<1> USE DEF PublicationsHold
<1>1. Init => PublicationsHold
  BY InitOfPart, PublicationStart
<1>2. PublicationsHold /\ [Next]_vars => PublicationsHold'
  <2> SUFFICES ASSUME PublicationsHold, [Next]_vars, part' = "publication"
               PROVE  PublicationInv'
    OBVIOUS
  <2>1. PublicationInv /\ (Publication!Next \/ UNCHANGED publicationVars)
    BY StepOfPart
  <2>2. CASE Publication!Next
    BY <2>1, <2>2, PublicationStep, ProgramsAssumption
  <2>3. CASE UNCHANGED publicationVars
    BY <2>1, <2>3 DEF publicationVars, PublicationInv, Publication!TypeOK, Waiting, OwnBuild, KnownStatus,
       Unreported, ManifestFirst, NamesBuild, NotYetAsked, Publication!PointsAtBuiltImage,
       Publication!ReportedIsRecorded, Publication!Completed
  <2> QED BY <2>1, <2>2, <2>3
<1> QED BY <1>1, <1>2, PTL DEF Spec

\* A task names only images that Prime has built, and a publication that was
\* reported is recorded in both files, for any number of builds and owners,
\* whatever fails, comes late or is killed (publish_task).
THEOREM PublicationsAreSound == Spec => []PublicationIsSound
<1>1. PublicationsHold => PublicationIsSound
  BY DEF PublicationsHold, PublicationInv, PublicationIsSound
<1> QED BY <1>1, PublicationsKept, PTL

\* Before the first start there are no credentials and no tunnel files.
LEMMA LaunchStart == Launch!Init => LaunchInv
BY DEF Launch!Init, LaunchInv, Launch!TypeOK, Loaded, Exporting, Exported, MarkerLast, Launch!Stages,
   Launch!Programs, Launch!NoCredentials, Launch!Names, Launch!Unset, Launch!Empty

\* The invariant of the launches, in the behaviours that are about one.
LaunchesHold ==
  part = "launch" => LaunchInv

\* It holds in all of them.
LEMMA LaunchesKept == Spec => []LaunchesHold
<1> USE DEF LaunchesHold
<1>1. Init => LaunchesHold
  BY InitOfPart, LaunchStart
<1>2. LaunchesHold /\ [Next]_vars => LaunchesHold'
  <2> SUFFICES ASSUME LaunchesHold, [Next]_vars, part' = "launch"
               PROVE  LaunchInv'
    OBVIOUS
  <2>1. LaunchInv /\ (Launch!Next \/ UNCHANGED launchVars)
    BY StepOfPart
  <2>2. CASE Launch!Next
    BY <2>1, <2>2, LaunchStep
  <2>3. CASE UNCHANGED launchVars
    BY <2>1, <2>3 DEF launchVars, LaunchInv, Launch!TypeOK, Loaded, Merged, Exporting, Exported, Precede,
       MarkerLast
  <2> QED BY <2>1, <2>2, <2>3
<1> QED BY <1>1, <1>2, PTL DEF Spec

\* The evaluation sees the key that was resolved, credentials of two places are
\* not mixed and no half installed tunnel client is used, for every set of
\* variables that the shell may empty and after any number of killed starts
\* (load_env_file, prime_credentials, install_windows_frpc).
THEOREM LaunchesAreSound == Spec => []LaunchIsSound
<1>1. LaunchesHold => LaunchIsSound
  <2> SUFFICES ASSUME LaunchInv
               PROVE  Launch!KeyIsVisible /\ Launch!CredentialsPrecede /\ Launch!TunnelIsWhole
    BY DEF LaunchesHold, LaunchIsSound
  <2> QED BY DEF LaunchInv, Exported, Precede, MarkerLast, Launch!KeyIsVisible,
             Launch!CredentialsPrecede, Launch!TunnelIsWhole
<1> QED BY <1>1, LaunchesKept, PTL

\* The invariants of the datasets and of the rows they are made of.
DatasetsHold ==
  /\ part = "dataset" => DatasetInv
  /\ part = "traces" => TracesInv

\* They hold in the behaviours that are about them.
LEMMA DatasetsKept == Spec => []DatasetsHold
<1> USE DEF DatasetsHold
<1>1. Init => DatasetsHold
  BY InitOfPart, DatasetStart, TracesStart, ProgramsAssumption
<1>2. DatasetsHold /\ [Next]_vars => DatasetsHold'
  <2> SUFFICES ASSUME DatasetsHold, [Next]_vars
               PROVE  DatasetsHold'
    OBVIOUS
  <2>1. CASE part = "dataset"
    <3>1. DatasetInv /\ (Dataset!Next \/ UNCHANGED datasetVars)
      BY <2>1, StepOfPart
    <3>2. DatasetInv'
      BY <3>1, DatasetStep, ProgramsAssumption
    <3> QED BY <2>1, <3>2, StepOfPart
  <2>2. CASE part = "traces"
    <3>1. TracesInv /\ (Traces!Next \/ UNCHANGED tracesVars)
      BY <2>2, StepOfPart
    <3>2. CASE Traces!Next
      BY <2>2, <3>1, <3>2, TracesStep, StepOfPart
    <3>3. CASE UNCHANGED tracesVars
      <4>1. TracesInv'
        BY <3>1, <3>3 DEF tracesVars, TracesInv, Traces!TypeOK, ProperTrace, KeptRows, RowsDiffer,
           Counted, Traces!Enough, Traces!Required, Traces!KindsOf
      <4> QED BY <2>2, <4>1, StepOfPart
    <3> QED BY <3>1, <3>2, <3>3
  <2>3. CASE part # "dataset" /\ part # "traces"
    BY <2>3, StepOfPart
  <2> QED BY <2>1, <2>2, <2>3
<1> QED BY <1>1, <1>2, PTL DEF Spec

\* A row is one path of one trace, in one split, and every call of it is whole;
\* a run trains on the rows of one finished export, and an export that nobody
\* disturbed loads: for any number of traces, for graphs of any size, and for
\* any number of exports and runs (training.py).
THEOREM DatasetsAreSound == Spec => []DatasetIsSound
<1>1. DatasetsHold => DatasetIsSound
  BY DatasetPromises, TracesPromises, ProgramsAssumption DEF DatasetsHold, DatasetIsSound
<1> QED BY <1>1, DatasetsKept, PTL

\* The invariant of the recorded sessions, in the behaviours that are about one.
MiningHolds ==
  part = "mining" => MiningInv

\* It holds in all of them.
LEMMA MiningKept == Spec => []MiningHolds
<1> USE DEF MiningHolds
<1>1. Init => MiningHolds
  BY InitOfPart, MiningStart, ProgramsAssumption
<1>2. MiningHolds /\ [Next]_vars => MiningHolds'
  <2> SUFFICES ASSUME MiningHolds, [Next]_vars, part' = "mining"
               PROVE  MiningInv'
    OBVIOUS
  <2>1. MiningInv /\ (Mining!Next \/ UNCHANGED miningVars)
    BY StepOfPart
  <2>2. CASE Mining!Next
    BY <2>1, <2>2, MiningStep, ProgramsAssumption
  <2>3. CASE UNCHANGED miningVars
    BY <2>1, <2>3 DEF miningVars, MiningInv, Ordered, Linked, Effective, Stamp
  <2> QED BY <2>1, <2>2, <2>3
<1> QED BY <1>1, <1>2, PTL DEF Spec

\* A mined task has a red and a green run of its own session, and its start and
\* solved trees are those of the session: for sessions of any length, over any
\* contents (sessions.py, mint.py).
THEOREM MinedTasksAreSound == Spec => []MiningIsSound
<1>1. MiningHolds => MiningIsSound
  BY ProofsAreReal, ReplaysAreFaithful, UndisturbedAreAnchored DEF MiningHolds, MiningIsSound
<1> QED BY <1>1, MiningKept, PTL
=============================================================================
