--------------------------- MODULE OmpPrograms ----------------------------
(***************************************************************************)
(* The programs and file formats around a rollout, explored side by side:  *)
(* a behaviour belongs to one of them, and the variables of the others are *)
(* unused in it.  They share no memory; what one takes from another, a     *)
(* file or an answer, is a choice inside its own module.                   *)
(***************************************************************************)
EXTENDS Naturals, FiniteSets, Sequences

CONSTANTS
  Rollouts, Arches, Runners, Expected, MaxOdd, Contents, MaxItems, Emptied, Owners,
  Builds, Exports, Runs, Separators, TraceIds, NodeLimit, LaterNodes,
  MinimumTrain, MinimumValid, TurnLimit, TurnCalls, Count, Probes, ModelCount,
  Alike, Requests, TaskSets, RolloutLimit, CallLimit

VARIABLES
  part,   \* which of the components this behaviour is about
  setup, arch, bytes, temporary, installed, memory, lock, stores,
  phase, native, tree, hidden, odd, ok, usage, collected, artifacts, fresh,
  reward,
  output, paid,
  disk, log, branch, clock, commits,
  launching, windows, program, shell, environ, envFile, config, credentials,
  client, binary, marker,
  stage, owner, build, late, localImage, report, status, image, manifest,
  provenance,
  export, files, snapshot, run, adapter, latest, overlapped,
  reading, contract, current, rows, kept, prepared,
  measuring, said, previous, counts,
  purpose, model, step, server, port, logs, orphans, asked, clean, exact,
  verdict, sealed, selected, outcome,
  benchStep, settings, queue, runDirs, dirs, evaluated, table, calls, json,
  markdown, done

Harness == INSTANCE HarnessInstall
Rollout == INSTANCE RepositoryRollout
Command == INSTANCE SealedCommand
Mining == INSTANCE EpisodeMining
Launch == INSTANCE HostedLaunch
Publication == INSTANCE TaskPublication
Dataset == INSTANCE DatasetExport
Traces == INSTANCE TraceExport
Metrics == INSTANCE ToolMetrics
LocalModels == INSTANCE LocalModels
Bench == INSTANCE BenchRuns

ASSUME ProgramsAssumption ==
  /\ Harness!InstallAssumption
  /\ Rollout!RolloutAssumption
  /\ Command!CommandAssumption
  /\ Mining!MiningAssumption
  /\ Launch!LaunchAssumption
  /\ Publication!PublicationAssumption
  /\ Dataset!DatasetAssumption
  /\ Traces!TraceExportAssumption
  /\ Metrics!ToolMetricsAssumption
  /\ LocalModels!LocalModelsAssumption
  /\ Bench!BenchAssumption

installVars == <<setup, arch, bytes, temporary, installed, memory, lock, stores>>
rolloutVars == <<phase, native, tree, hidden, odd, ok, usage, collected,
  artifacts, fresh, reward>>
commandVars == <<output, paid>>
miningVars == <<disk, log, branch, clock, commits>>
launchVars == <<launching, windows, program, shell, environ, envFile, config,
  credentials, client, binary, marker>>
publicationVars == <<stage, owner, build, late, localImage, report, status,
  image, manifest, provenance>>
datasetVars == <<export, files, snapshot, run, adapter, latest, overlapped>>
tracesVars == <<reading, contract, current, rows, kept, prepared>>
metricsVars == <<measuring, said, previous, counts>>
modelsVars == <<purpose, model, step, server, port, logs, orphans, asked, clean,
  exact, verdict, sealed, selected, outcome>>
benchVars == <<benchStep, settings, queue, runDirs, dirs, evaluated, table,
  calls, json, markdown, done>>
vars == <<part, installVars, rolloutVars, commandVars, miningVars, launchVars, publicationVars, datasetVars, tracesVars, metricsVars, modelsVars, benchVars>>

\* The variables of a component in the behaviours of the others.
NoHarness ==
  /\ setup = "unused" /\ arch = "unused" /\ bytes = "unused"
  /\ temporary = "unused" /\ installed = "unused" /\ memory = "unused"
  /\ lock = "unused" /\ stores = "unused"
NoRollout ==
  /\ phase = "unused" /\ native = "unused" /\ tree = "unused"
  /\ hidden = "unused" /\ odd = "unused" /\ ok = "unused"
  /\ usage = "unused" /\ collected = "unused" /\ artifacts = "unused"
  /\ fresh = "unused" /\ reward = "unused"
NoCommand == output = "unused" /\ paid = "unused"
NoMining ==
  /\ disk = "unused" /\ log = "unused" /\ branch = "unused" /\ clock = "unused"
  /\ commits = "unused"
NoLaunch ==
  /\ launching = "unused" /\ windows = "unused" /\ program = "unused"
  /\ shell = "unused" /\ environ = "unused" /\ envFile = "unused"
  /\ config = "unused" /\ credentials = "unused" /\ client = "unused"
  /\ binary = "unused" /\ marker = "unused"
NoPublication ==
  /\ stage = "unused" /\ owner = "unused" /\ build = "unused" /\ late = "unused"
  /\ localImage = "unused" /\ report = "unused" /\ status = "unused"
  /\ image = "unused" /\ manifest = "unused" /\ provenance = "unused"
NoDataset ==
  /\ export = "unused" /\ files = "unused" /\ snapshot = "unused"
  /\ run = "unused" /\ adapter = "unused" /\ latest = "unused"
  /\ overlapped = "unused"
NoTraces ==
  /\ reading = "unused" /\ contract = "unused" /\ current = "unused"
  /\ rows = "unused" /\ kept = "unused" /\ prepared = "unused"
NoMetrics ==
  /\ measuring = "unused" /\ said = "unused" /\ previous = "unused"
  /\ counts = "unused"
NoLocalModels ==
  /\ purpose = "unused" /\ model = "unused" /\ step = "unused"
  /\ server = "unused" /\ port = "unused" /\ logs = "unused"
  /\ orphans = "unused" /\ asked = "unused" /\ clean = "unused"
  /\ exact = "unused" /\ verdict = "unused" /\ sealed = "unused"
  /\ selected = "unused" /\ outcome = "unused"
NoBench ==
  /\ benchStep = "unused" /\ settings = "unused" /\ queue = "unused"
  /\ runDirs = "unused" /\ dirs = "unused" /\ evaluated = "unused"
  /\ table = "unused" /\ calls = "unused" /\ json = "unused"
  /\ markdown = "unused" /\ done = "unused"

Init ==
  \/ part = "install" /\ Harness!Init /\ NoRollout /\ NoCommand /\ NoMining /\ NoLaunch /\ NoPublication /\ NoDataset /\ NoTraces /\ NoMetrics /\ NoLocalModels /\ NoBench
  \/ part = "rollout" /\ Rollout!Init /\ NoHarness /\ NoCommand /\ NoMining /\ NoLaunch /\ NoPublication /\ NoDataset /\ NoTraces /\ NoMetrics /\ NoLocalModels /\ NoBench
  \/ part = "command" /\ Command!Init /\ NoHarness /\ NoRollout /\ NoMining /\ NoLaunch /\ NoPublication /\ NoDataset /\ NoTraces /\ NoMetrics /\ NoLocalModels /\ NoBench
  \/ part = "mining" /\ Mining!Init /\ NoHarness /\ NoRollout /\ NoCommand /\ NoLaunch /\ NoPublication /\ NoDataset /\ NoTraces /\ NoMetrics /\ NoLocalModels /\ NoBench
  \/ part = "launch" /\ Launch!Init /\ NoHarness /\ NoRollout /\ NoCommand /\ NoMining /\ NoPublication /\ NoDataset /\ NoTraces /\ NoMetrics /\ NoLocalModels /\ NoBench
  \/ part = "publication" /\ Publication!Init /\ NoHarness /\ NoRollout /\ NoCommand /\ NoMining /\ NoLaunch /\ NoDataset /\ NoTraces /\ NoMetrics /\ NoLocalModels /\ NoBench
  \/ part = "dataset" /\ Dataset!Init /\ NoHarness /\ NoRollout /\ NoCommand /\ NoMining /\ NoLaunch /\ NoPublication /\ NoTraces /\ NoMetrics /\ NoLocalModels /\ NoBench
  \/ part = "traces" /\ Traces!Init /\ NoHarness /\ NoRollout /\ NoCommand /\ NoMining /\ NoLaunch /\ NoPublication /\ NoDataset /\ NoMetrics /\ NoLocalModels /\ NoBench
  \/ part = "metrics" /\ Metrics!Init /\ NoHarness /\ NoRollout /\ NoCommand /\ NoMining /\ NoLaunch /\ NoPublication /\ NoDataset /\ NoTraces /\ NoLocalModels /\ NoBench
  \/ part = "models" /\ LocalModels!Init /\ NoHarness /\ NoRollout /\ NoCommand /\ NoMining /\ NoLaunch /\ NoPublication /\ NoDataset /\ NoTraces /\ NoMetrics /\ NoBench
  \/ part = "bench" /\ Bench!Init /\ NoHarness /\ NoRollout /\ NoCommand /\ NoMining /\ NoLaunch /\ NoPublication /\ NoDataset /\ NoTraces /\ NoMetrics /\ NoLocalModels

Next ==
  \/ part = "install" /\ Harness!Next
     /\ UNCHANGED <<part, rolloutVars, commandVars, miningVars, launchVars,
                    publicationVars, datasetVars, tracesVars, metricsVars,
                    modelsVars, benchVars>>
  \/ part = "rollout" /\ Rollout!Next
     /\ UNCHANGED <<part, installVars, commandVars, miningVars, launchVars,
                    publicationVars, datasetVars, tracesVars, metricsVars,
                    modelsVars, benchVars>>
  \/ part = "command" /\ Command!Next
     /\ UNCHANGED <<part, installVars, rolloutVars, miningVars, launchVars,
                    publicationVars, datasetVars, tracesVars, metricsVars,
                    modelsVars, benchVars>>
  \/ part = "mining" /\ Mining!Next
     /\ UNCHANGED <<part, installVars, rolloutVars, commandVars,
                    launchVars, publicationVars, datasetVars, tracesVars,
                    metricsVars, modelsVars, benchVars>>
  \/ part = "launch" /\ Launch!Next
     /\ UNCHANGED <<part, installVars, rolloutVars, commandVars,
                    miningVars, publicationVars, datasetVars, tracesVars,
                    metricsVars, modelsVars, benchVars>>
  \/ part = "publication" /\ Publication!Next
     /\ UNCHANGED <<part, installVars, rolloutVars, commandVars,
                    miningVars, launchVars, datasetVars, tracesVars,
                    metricsVars, modelsVars, benchVars>>
  \/ part = "dataset" /\ Dataset!Next
     /\ UNCHANGED <<part, installVars, rolloutVars, commandVars,
                    miningVars, launchVars, publicationVars, tracesVars,
                    metricsVars, modelsVars, benchVars>>
  \/ part = "traces" /\ Traces!Next
     /\ UNCHANGED <<part, installVars, rolloutVars, commandVars,
                    miningVars, launchVars, publicationVars, datasetVars,
                    metricsVars, modelsVars, benchVars>>
  \/ part = "metrics" /\ Metrics!Next
     /\ UNCHANGED <<part, installVars, rolloutVars, commandVars,
                    miningVars, launchVars, publicationVars, datasetVars,
                    tracesVars, modelsVars, benchVars>>
  \/ part = "models" /\ LocalModels!Next
     /\ UNCHANGED <<part, installVars, rolloutVars, commandVars,
                    miningVars, launchVars, publicationVars, datasetVars,
                    tracesVars, metricsVars, benchVars>>
  \/ part = "bench" /\ Bench!Next
     /\ UNCHANGED <<part, installVars, rolloutVars, commandVars,
                    miningVars, launchVars, publicationVars, datasetVars,
                    tracesVars, metricsVars, modelsVars>>

Spec == Init /\ [][Next]_vars
\* A publication is run and the clock goes on; the service owes nothing but
\* answers.
Fairness ==
  /\ WF_publicationVars(part = "publication" /\ Publication!Call)
  /\ WF_publicationVars(part = "publication" /\ Publication!DeadlinePasses)
FairSpec == Spec /\ Fairness
-----------------------------------------------------------------------------
TypeOK ==
  /\ part = "install" => Harness!TypeOK
  /\ part = "rollout" => Rollout!TypeOK
  /\ part = "command" => Command!TypeOK
  /\ part = "mining" => Mining!TypeOK
  /\ part = "launch" => Launch!TypeOK
  /\ part = "publication" => Publication!TypeOK
  /\ part = "dataset" => Dataset!TypeOK
  /\ part = "traces" => Traces!TypeOK
  /\ part = "metrics" => Metrics!TypeOK
  /\ part = "models" => LocalModels!TypeOK
  /\ part = "bench" => Bench!TypeOK

\* The evaluation sees the key that was resolved, credentials of two places are
\* not mixed, and no half installed tunnel client is used (prime.py).
LaunchIsSound ==
  part = "launch" => Launch!KeyIsVisible /\ Launch!CredentialsPrecede /\ Launch!TunnelIsWhole

\* A task names only images that Prime has built, and a publication that was
\* reported is recorded in both files (publish_task).
PublicationIsSound ==
  part = "publication" => Publication!PointsAtBuiltImage /\ Publication!ReportedIsRecorded

\* A call of publish_task ends although its build may not: again and again no
\* call is under way (_wait_for_build).
EveryPublicationEnds == []<>(part = "publication" => stage = "idle")

\* A row is one path of one trace, in one split, and every call of it is whole; a
\* run trains on the rows of one finished export, which loads (training.py).
DatasetIsSound ==
  /\ part = "traces" =>
       Traces!RowIsOnePath /\ Traces!SplitsAreApart /\ Traces!TrainingIsComplete
  /\ part = "dataset" => Dataset!TrainsOnOneExport /\ Dataset!ExportedDatasetLoads

\* A rollout runs the pinned release, stored once per process, and is paid for
\* what git saw of the files it left, in full only for a full run of the sealed
\* command (environment.py, testcommand.py).
RolloutIsSound ==
  /\ part = "install" => Harness!InstalledIsPinned /\ Harness!StoredOnce
  /\ part = "rollout" => Rollout!EarnedByFinalState
  /\ part = "command" => Command!FullRewardIsFullRun

\* A mined task has a red and a green run of its own session, and its start and
\* solved trees are those of the session (sessions.py, mint.py).
MiningIsSound ==
  part = "mining" => Mining!ProofIsReal /\ Mining!ReplayIsFaithful /\ Mining!UndisturbedIsAnchored

\* Models are compared by rows that are their own, whole and over the same tasks;
\* a model is selected only when it passed the gate, and no server is left
\* (bench.py, protocol.py, metrics.py).
ModelsAreSound ==
  /\ part = "models" =>
       LocalModels!SelectedIsProven /\ LocalModels!GateIsExact /\ LocalModels!NoServerLeft
  /\ part = "bench" =>
       /\ Bench!RowsAreOwn /\ Bench!RowsAreWhole
       /\ Bench!ComparedOverSameTasks /\ Bench!JsonComesFirst
  /\ part = "metrics" => Metrics!RatesAreShares
=============================================================================
