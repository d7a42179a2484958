# A TLA+ verification project for omp-gym

omp-gym turns coding sessions of the OMP agent into gradeable tasks, runs OMP on them in
containers, grades the outcome in fresh containers, and feeds the graded rollouts to
evaluation and training. This directory holds TLA+ models of its programs, the TLC
configurations that check them on small instances, and proofs for the TLA+ proof system.

`P/` below stands for `src/environments/omp_coding/omp_coding/`.

## Inventory of the system

| component | source | state it keeps | operations | hard part |
|---|---|---|---|---|
| Bounded process capture | `P/environment.py` 870-975 | one output budget, four asyncio tasks, a process | `_capture_process` | exit, overflow, time limit and cancellation in any order; descendants on the pipes |
| Tool controller and route | `P/environment.py` 1225-1500, `P/_container_tool.py` | a lock, `test_invocations`, `test_cache`, the file `TOOL_REQUEST`, the workspace | `dispatch` (read, write, edit, exec, tests), route shutdown, `OmpTask.finalize` | concurrent calls, stray processes, cached verdicts, shutdown in the middle of a call |
| Sealed case verifier | `P/verifier.py`, `P/environment.py` 978-1121 | deadline, position in the suite, residue of earlier cases | `_verify_artifacts`, `run_verifier_cases`, `_invoke_candidate` | two time limits, untrusted workers, cleaners that fail |
| Test-command grading | `P/testcommand.py` | none | `grade_outcome`, output parsers, grading script | the corner cases of the reward rule |
| Minting gate | `P/mint.py` 1001-1377 | `task.toml`, `provenance.json`, `Dockerfile`, the image tag | `mint_episode`, `gate_task`, `_record_gate` | two files without a transaction, crashes, hand edits, regating |
| Container tool | `P/_container_tool.py` | files and processes of a container | read, write, edit, scan, reap, clean | killed halfway |
| Episode finalization | `P/environment.py` 1124-1207, 1517-1606 | reward, metrics, errors of a trace | `OmpEnv.finalize`, `_grade_repository` | which failures are a zero reward and which an exception |
| OMP harness | `P/environment.py` 116-156, 684-860, `P/_runtime_harness.py` | binary cache, rollout home | setup, launch, cleanup | double-checked cache, cleanup after any failure |
| OMP RPC client | `P/_vendor/omp_rpc/client.py` | pending requests, event and error history, run counters | `_request`, `prompt_and_wait`, `wait_for_idle`, host tool calls, `stop` | threads, late and lost answers, bounded history |
| Session reader | `P/sessions.py` | none | `read_session`, timelines, episode windows | order of equal times, branches, torn files |
| Candidate selection | `P/mint.py` 368-546 | none | `select_candidate`, `anchor_repository` | which test run belongs to which edit |
| Prime publication | `P/prime.py` | `task.toml`, `provenance.json` | `publish_task`, `_record_publication` | partial records, publishing twice |
| Dataset and training | `P/training.py`, `P/masked_lora.py` | three row files, a manifest, an adapter | `export_traces`, `_snapshot_dataset`, `train_adapter` | several files replaced one by one, concurrent export |
| Bench and evaluation | `P/bench.py`, `P/evaluation.py`, `P/metrics.py` | run directories, reports | `run_models`, `evaluate_checkpoints` | collisions, reruns |
| Local model server | `P/protocol.py`, `P/hardware.py` | a server process, a log directory | start, readiness, stop, model selection | ports, stop after failure |
| Tasks and generators | `P/task.py`, `P/generated_tasks.py` | none | loading, validation | none that needs a model |
| Candidate workers | `P/_python_candidate.py`, `P/_node_candidate.mjs` | none | one request, one reply | untrusted: any reply |

How they interact. The harness launches OMP in the policy container; OMP's tool calls are
HTTP requests to the tool route on the host, which runs them through the tool controller;
the controller uses the capture for each process and the sealed verifier for `run_tests`.
When the rollout is over, `OmpTask.finalize` collects the files and `OmpEnv.finalize` grades
them: with the sealed cases, or, for minted tasks, by a run of the sealed test command through
the same capture and the reward rule. The gate of the minter decides with the same reward rule
whether a task is one. Sessions feed the minter; rollouts feed the dataset.

What makes each part correct is stated with the properties below. `PROJECT.json` lists the hazards at the
lines where they bite.

## Modules

| module | models | kind |
|---|---|---|
| `CandidateProcess` | a command with two output pipes and a descendant | environment (outside the repository) |
| `CaptureContract` | what a caller of `_capture_process` may rely on | abstract specification |
| `ProcessCapture` | `_capture_process`, `_read_bounded`, `_OutputBudget` | detailed specification |
| `ProcessCaptureProofs` | | proofs |
| `ToolController` | `_ToolController`, `_runtime_tool`, `_tool_route`, `OmpTask.finalize`, the writes of `_container_tool.py` | specification |
| `MCToolController` | symmetry for TLC | model |
| `ToolControllerProofs` | | proofs |
| `VerifierCases` | `_verify_artifacts`, `run_verifier_cases`, `_invoke_candidate`, `_clean_candidate` | specification |
| `VerifierCasesProofs` | | proofs |
| `GradeOutcome` | `grade_outcome` | operators |
| `MintGate` | `mint_episode`, `gate_task`, `_run_gate`, `_record_gate` | specification |
| `MintGateProofs` | reward rule and gate | proofs |
| `RpcRequests` | `_request`, `_handle_response`, `_deliver_correlated_error_response`, `_write_json`, `_mark_closed`, `_fail_pending`, `stop` of the RPC client | specification |
| `RpcLifecycle` | `prompt_and_wait`, `wait_for_idle`, `collect_events`, `_wait_for_agent_end`, `_BoundedHistory` | specification |
| `RpcFrames` | `_RpcFrameDecoder` | specification |
| `HarnessSession` | `_runtime_harness.main` around `start`, `_write_json`, the host tool calls and `stop` of the client | specification |
| `RpcClient` | the four modules above, side by side | composition |
| `RpcClientProofs` | | proofs |
| `HarnessInstall` | `OmpHarness.setup`, `_omp_binary_bytes` | specification |
| `RepositoryRollout` | `OmpTask.setup` and `finalize`, `OmpHarness.launch` and `cleanup`, `OmpEnv.finalize`, `_grade_repository`, `changes_script`, `grading_script` | specification |
| `SealedCommand` | `is_test_command`'s commands, `parse_test_output`, `_command_outcome`, what `_finalize_repository` pays | specification |
| `EpisodeMining` | `read_session`, `session_episodes`, `_merge_timelines`, `select_candidate`, `anchor_repository`, the replay | a session that grows, and operators on it |
| `HostedLaunch` | `prime.main`: `load_env_file`, `prime_credentials`, `export`, `install_windows_frpc` | specification |
| `TaskPublication` | `publish_task`, `_wait_for_build`, `_record_publication` | specification |
| `TraceExport` | `_trace_samples`, `export_traces`, `_prepare_training_data` | specification |
| `DatasetExport` | `_write_dataset_rows`, `_write_dataset_manifest`, `_snapshot_dataset`, `train_adapter` | specification |
| `DatasetExportProofs` | | proofs |
| `ToolMetrics` | the counters of `measure_traces` | specification |
| `LocalModels` | `start_local_model_server`, `run_local_protocol_gate`, `select_protocol_model`, `evaluate_checkpoints` | specification |
| `BenchRuns` | `run_models`, `aggregate_runs`, `write_report` | specification |
| `OmpPrograms` | the eleven specifications from `HarnessInstall` on, side by side | composition |
| `OmpProgramsProofs` | publication, launch, dataset, rows, mining, model selection, metrics | proofs |
| `OmpRolloutProofs` | installation, rollout, benchmarks, types | proofs |

Operators whose comment begins with "Mutant:" are not part of a specification. Each is a
plausible bug in the definition that follows it, and shows that a property would notice it.

### ProcessCapture

One action is one run of the event loop between two awaits, so a state is what other tasks can
see. `main` is the await at which the coroutine stands; `reader`, `waitTask` and `overflowTask`
are the four tasks; `kept`, `remaining` and `overflow` are the two bytearrays and the
`_OutputBudget`; `pipe` is what the operating system holds. Output is counted in units, because
no branch looks at its content. The two `asyncio.wait` limits are one `timer` that may expire at
any moment while armed: how long they are never matters for safety. The caller may cancel the
coroutine at any await (`Cancel`), up to `MaxCancels` times. The command is unconstrained: it
writes, blocks on a full pipe, forks a descendant that inherits the pipes, closes them, exits.

`CaptureContract` is the same process with a single step that answers. `ImplementsContract` is a
refinement: at the moment the caller gets a verdict it must be true of the process *as it then is*.
For `captured` this means an exited child, no writer on either pipe, and output equal to all that
was written; for `output_limit`, more written than the limit and exactly the limit returned; for
`timeout`, a killed and dead process.

### ToolController

`phase[c]` is the await at which the handler of call `c` is suspended. `queue` and `holder` are the
`asyncio.Lock` with its first-come order; `request` is the file `TOOL_REQUEST` that all calls
share; `workspace` is the editable files. `commandAlive` says that some process of the command
user runs: such a process may write any editable file at any time (`CommandWrites`), as the files
are world-writable. A tool run can be killed before, inside or after its write; a write cut in half
leaves the content `Torn`. Runtime calls may raise (`StageFails`, `CommandRaises`, `TestsFail`, `FinalizeFails`),
and closing the route cancels the handlers that are still there (`CancelHandler`). A verdict is
chosen freely when the verification ends, since a candidate may be flaky.
`lastExec` is a history variable for the properties.

### VerifierCases

`stage` is the await; `clock` is shared by the scoring limit (set first, around everything) and
the deadline of the walk (set when the runtime is up, to the same length). `residue` is the set of
cases whose processes or files are still in the runtime. A cleaner may leave anything behind, but
its exit code is zero only when nothing is left. `Raise` is the cancellation by the scoring limit
or an exception of the runtime; it is allowed at every await, because the limit may strike there.

### GradeOutcome and MintGate

`Grade` is `grade_outcome` on what `parse_test_output` extracts: whether a summary was recognized,
and its counts. The reward is kept as a fraction. `MintGate` is one task directory over its whole
life: minted, possibly with `--no-gate`, gated, its Dockerfile edited, gated again, minted again.
An image is identified with the Dockerfile it was built from. `Killed` ends the program between
any two steps, with the file being written torn, or a directory being removed half gone;
write errors are alternatives of the recording actions.

### The RPC client: RpcRequests, RpcLifecycle, RpcFrames, HarnessSession

`RpcRequests` has callers, the reader thread and closers. A step is one critical section, or one
operation on the table, a queue or a pipe. The server answers, answers late, answers a request
that gave up, sends errors that name only a command or that it could not parse the request, or goes
away. `stage[c]` is the place of a caller in `_request`; the queue of a waiter holds one item, as
`queue.Queue(maxsize=1)` does. A write is two steps, since `_write_json` holds `_write_lock` while it
writes, for as long as the pipe is `full`: `Fill` fills it and empties it, at will and for ever, and
`CloseStdin` waits for it too.
`RpcLifecycle` has threads that prompt and wait, the agent whose runs begin and end at any time,
the bounded history with the number of events it has dropped, and the two locks: the count of
scheduled and completed runs is under one, the history under the other, and the steps in between
are separate. `RpcFrames` is the decoder of chunked frames against any stream of lines.
`HarnessSession` is the main thread of the harness from `start` to `stop` with the reader thread
and one thread per host tool call; omp calls tools, cancels, opens dialogs, ends or falls silent.
`writer` is who holds the lock of `_write_json`, the reader included, which answers dialogs and refuses
calls itself. `held` says that a pipe is stuck: a write does not return, nor does `stop()` while it
closes the input, before it terminates omp, or the output, which a descendant may keep open.

### A rollout: HarnessInstall, RepositoryRollout

`HarnessInstall` interleaves rollouts at the awaits of `OmpHarness.setup`; `memory` and `lock` are
the two module globals, and a rollout may be cancelled at any await, also inside the lock.
`RepositoryRollout` is one rollout from setup to reward. Four paths stand for the kinds of file that
the scripts treat differently: tracked, sealed, installed but not tracked, and new. The agent may
write and remove any of them and owns `.git`. `hidden` holds the paths that are neither in the index
nor let in by the ignore rules: `add -A` passes over them, so the patch deletes one that the tagged
commit has and knows nothing of another (`UseGit`). `odd` holds the paths that it has tampered with, by
the start tag, skip-worktree or a filter (`Tamper`); the patch may say anything of them, or be
refused. `Changes` is what `git add -A` and the diff against the start tag then hold, and `fresh` is
the grading container after patch and sealed overlay. What the sealed command earns is a choice in
`RunCommand` and the subject of `SealedCommand`: it ends with any exit code and the summaries of any
runners, which `CountsOf` and `Parsed` read as the parsers do. `chained` tells a command whose runners
are joined by `&&`, where one that fails is the last; `is_test_command` accepts any other shell text
as well, and the exit code and the summaries are then independent. A handler that raises is
followed by the next one, as Verifiers does it, with `ok` false.

### From a session to a task: EpisodeMining

`log` is what really happened; the variables are what OMP recorded of it: entries of the main
branch, of an abandoned branch, of a subagent's file, with times that may be equal. The operators
are the program: what is read, numbered, cut into windows, selected, anchored and replayed. The
invariants compare the result with what happened, for every session within the bounds. Equal times
are generated only where the numbering has to choose.

### Programs beside a rollout

`HostedLaunch` names each value after its origin (shell, `.env`, login). An argument is chosen where
it is read. `TaskPublication` has the service (builds and images) and the two files; a request may
be served although its answer is lost. `DatasetExport` names the content of a file after the export
that wrote it; a digest is what it was taken from. `TraceExport` generates any graph of nodes with
node types instead of texts. `ToolMetrics` reads traces turn by turn and compares the counters with
a definition over whole traces. `LocalModels` has one server at a time, another program that may
take its port, and answers by the form of their calls. `BenchRuns` has the run directories as they
survive calls that fail or are killed, and the report as counts, never as floats.

`RpcClient` and `OmpPrograms` compose specifications that share no variable: a behaviour picks one
`part` and the variables of the others stay `"unused"`. This is one exploration for all of them,
with the invariants of a part guarded by its name. It is exact and not an approximation, because
these parts meet only through files and answers, which each module leaves open: every content that
another part could have left is a choice in it.

## Runs

| run | question | bounds | distinct states |
|---|---|---|---|
| `capture_safety` | are verdict, output and cleanup right in every interleaving, and does every call end | limit 2, pipes of 2, 2 units per stream (1 more from each writer), 2 cancellations | about 104 000 |
| `capture_no_deadlock` | does a blocked writer get on without the timer | pipes of 1, 2 units, limit 3 | 44 000 |
| `controller_safety` | isolation of requests, snapshots, verdicts, budget | 3 calls, 2 files, 2 contents, 2 verdicts, limit 2 | 2.1 million (with symmetry) |
| `controller_ends` | is every queued call answered or cancelled | 2 calls, 1 file | 43 000 |
| `verifier_cases` | one fate per case, isolation, order of the limits, end | 4 cases, limit 2, clock to 4 | 15 000 |
| `mint_gate` | what a recorded gate proves, over crashes and regating | counts to 3, `MAX_EXPECTED_CASES` 2, 2 Dockerfiles | 43 000 |
| `mint_gate_deleted`, `mint_gate_tested` | findings | as `mint_gate` | violation |
| `rpc_client` | answers, ends, cancellations and frames in every interleaving of threads, and does every wait end | see `RpcClient.cfg`: 2 calls, 2 threads, 2 runs, history of 2, 2 tool calls, chunks of 2 | 1.29 million |
| `harness_stop` | finding | 1 tool call | violation |
| `omp_programs` | is what the other programs leave and select right, after any order, failure and crash, and does a publication end | see `OmpPrograms.cfg` and below | 1.23 million |
| `rollout_travels` | finding | 1 path tampered with | violation |

Why the bounds are enough. The capture needs a limit that a stream can reach exactly, exceed by
one, and share with the other stream, and a pipe that fills before the limit is reached; units
beyond that repeat. Three calls are the smallest number in which one holds the lock, one waits and
one overtakes or repeats a test; two files are the smallest mixed snapshot; a test limit of two
with three calls is reached, and one below it. Four cases give a first, a last and two in between
for a break at each position; the clock passes both deadlines. Counts up to three stand below, at
and above an `expected_cases` of one to three, and `MAX_EXPECTED_CASES` of two makes a gated task
that does not load reachable. One edit is enough to make directory, manifest and tag differ.

RPC client. Two calls of one command and of two are needed for a late error to reach the wrong one;
a history of two with two runs drops an event that a waiter still needs; two threads give one that
waits while the other's run ends; two chunks of two identities interrupt each other.

Programs. Three rollouts and two architectures: one loads, one waits for it, one needs another
entry. Two runners and a count of two: the parser finds one summary and misses the other. Six items
are the shortest session in which a second episode starts from what the first left and has a red
and a green run. Three exports, one of them with a separator, can mix two others; three builds give
a failed, a late and a good one. Three nodes hold a branch, a failed call and a recovery; two
identities a copy. Three turns of up to two calls hold a repetition within a turn, and a call, a silent
turn and a repetition. One path that was tampered with stands beside three that were not. Three models give two
candidates and a baseline, or two that fail before one that passes. Two models of one directory
name, two calls and two rollouts per task are needed to collide, to find an old directory, and for
a pass@k that is neither 0 nor 1.

### What the properties say

Capture. `NoSilentLoss`: as long as the overflow flag is down nothing read was dropped, and kept
units and the remaining budget add up to the limit. `CompleteOutput`: a capture is all the command
ever wrote. `NothingOutlivesCall`: after the call no task is pending and the process is dead or
killed, provided the call was cancelled at most once; a second cancellation inside the `finally`
block does leave readers behind, which is why the condition is there. `EveryCaptureEnds`,
`NoPipeDeadlock`: see the table.

Controller. `RequestIntact`: a tool always finds the request of its own call.
`QuietUnlessReported`: a command process that outlives its exec is never hidden behind an `ok`.
`VerdictsAgree`: equal content, equal verdict. `TestsBudget`: the limit counts the calls that
reach the workspace, failed and cached ones included. `SnapshotsAreCurrent`: what is verified or
graded is one state of the workspace and the present one, unless the last exec failed; stray
processes after a failed exec can change files under the collector, and the code accepts that.

Verifier. `EveryCaseAccounted`, `CasesAreIsolated`, `EveryVerificationEnds`.
`ScoringLimitComesFirst`: because the outer limit is set first and both have one length, a result
with deadline failures exists only when the event loop delivers the cancellation late; a slow
candidate normally ends in an exception.

Gate. `RecordedFlips`: with the recorded count, the reference run earns the full reward and the
start state does not. `MintedIsProven`: a task reported as minted loads and carries a proof for the
image of its own Dockerfile, which is also the one the tag names. `ProvenanceComesLast`: the
provenance never tells of a gate that the manifest does not know.

RPC client. `RightAnswer`: a call returns the answer to its own request, or an error of a request of its
command that has left the table, or of one that the server could not parse. `ReaderIsSound`: the reader
thread never blocks on a waiter, the table holds exactly what is waited for, a frame that is handed on is
whole. `TurnIsRight`: a prompt gets all events since it began and, if no other run was around, the end of
its own. `IdleIsTrue`: idle is reported only when no counted run goes on, unless a run was lost or
another prompt is between its answer and its mark. `NoLostWakeup`; `AnsweredOnce`: a host tool call is
answered at most once, and not at all when it was cancelled while its tool ran; one whose tool has
returned may answer as its cancellation arrives. `StopsUnlessDisturbed`: `stop` terminates omp unless a
tool call begins or ends while it walks its table (finding 3). `EveryWaitEnds`: requests come back and
the harness ends whatever server and omp do, provided that the pipes are not stuck for ever
(`PipesFlow`): a write and the closing of a pipe have no time limit, so an omp that stops reading for
good blocks a request, and `stop()` before it has terminated omp, and a descendant that keeps the output
blocks `stop()` after that.

Programs; each property is the conjunction of the named ones of its modules.
- `RolloutIsSound`. `InstalledIsPinned`, `StoredOnce`; `EarnedByFinalState`: what earned a reward is what git
  saw of the state the agent left, with the sealed tests over it, for every path that was not tampered
  with; a file git did not see is that of the image, or missing if the tagged commit has it.
  `FullRewardIsFullRun`: exit code zero, no failure in the summaries that count, and no case of the
  reference missing, although only one runner's summaries count; no failure of any runner where they
  are joined by `&&`.
- `MiningIsSound`. `ProofIsReal`: the failing run really came before the passing one, and that one after a
  change of the episode; `ReplayIsFaithful`: start and solved trees are those of the session, the first
  two for episodes whose items have times of their own; `UndisturbedIsAnchored`: a session that worked
  alone on a committed file always has a base commit.
- `LaunchIsSound`. `KeyIsVisible`, `CredentialsPrecede`, `TunnelIsWhole`.
- `PublicationIsSound`. `PointsAtBuiltImage`, `ReportedIsRecorded`; and `EveryPublicationEnds`.
- `DatasetIsSound`. `RowIsOnePath`, `SplitsAreApart`, `TrainingIsComplete`, `TrainsOnOneExport`,
  `ExportedDatasetLoads`.
- `ModelsAreSound`. `SelectedIsProven`, `GateIsExact`, `NoServerLeft`; `RowsAreOwn`, `RowsAreWhole`,
  `ComparedOverSameTasks`, `JsonComesFirst`; `RatesAreShares`.

A conjunction has a mutant for each of its parts; `PROJECT.json` lists them.

### Findings

1. `mint_gate_deleted`: the repository's README says that tasks failing the gate are deleted without `--keep-failed`; a
   gate that fails while recording or reloading leaves the directory, and the report says it was not kept.
2. `mint_gate_tested`: the same README says that the sealed command runs on the start state and must fail; a
   container that could not be created, filled or started, or whose sealed files could not be restored, counts as failing.
3. `harness_stop`: `stop()` walks the table of tool calls without a lock while the reader inserts and
   tool threads remove; the `RuntimeError` that a change of its size raises ends `stop()` before the
   process group of omp is terminated.
4. `rollout_travels`: `changes_script` says that everything the agent changed, added or removed travels as
   one patch; a changed file that the agent takes out of the index and ignores travels as deleted.

### Known divergences without a run

The models have these behaviours, or say where they leave them out; no property claims more than the
code does.

- `P/prime.py:95`. A shell that sets `PRIME_API_KEY` to nothing hides the key of a login, because
  `export` uses `setdefault`. `KeyIsVisible` excepts a shell with an empty key.
- `P/environment.py:1416`. A repeated `run_tests` call on unchanged files is answered from the cache, although
  `README.md:37-38` of the repository says that each call checks a snapshot in a different container.
- `P/prime.py:404`. A second publication, or one after a crash between the two writes, records a
  remote image as the local tag that the docstring (438-439) says is kept in `provenance.json`.
- `P/mint.py:1443`. `omp-coding-mint publish` does not load `.env`, although `README.md:74` of the
  repository says it does; `HostedLaunch` goes from its start to `resolve`.
- `P/training.py:742`. A row with U+2028 or U+0085 makes a finished export fail its own digest, since
  reading splits lines where writing does not. `ExportedDatasetLoads` excepts such rows (`Separators`).
- `P/mint.py:3`. The module's docstring speaks of a test command that failed before its edits;
  `select_candidate` asks for a failing run before the passing one only, as `README.md:105` says.
- `P/protocol.py:829`. A connection dropped without an answer ends the readiness poll with an
  exception that is not caught, and process and log directory are left. `NoServerLeft` names the case.

## Fairness

- Capture, `FairSpec`: weak fairness of the coroutine, the tasks and the timer (the event loop runs
  what is ready, and time passes), and of the death of a killed process (SIGKILL). Nothing is
  asked of the command. `PatientSpec` drops the timer and asks instead that a write to a pipe with
  room completes.
- Controller, `FairSpec`: weak fairness of each call's handler. Every await of a handler has a time
  limit of its own (30 s captures, the scoring limit) or is a runtime call. Calls need not arrive
  and the route need not close.
- Verifier, `FairSpec`: weak fairness of the step to the next await; workers are cut off by their
  time limit. Neither the clock nor the scoring limit need help.

- RPC client, `FairSpec`: weak fairness of each caller's thread, of the harness's main thread, and of a
  thread in a write. Their waits have time limits, but for a write and the closing of a pipe, whose
  steps are enabled only while the pipe is not stuck; nothing says that it flows again, so
  `EveryWaitEnds` has that as its condition. Nothing is asked of the server, of omp or of the tools.
- Programs, `FairSpec`: weak fairness of the publishing call and of its deadline. The service need
  not end a build.

## Proofs

Every invariant that a passing run checks, the action property `IdleIsTrue` and the refinement
`ImplementsContract` are also theorems: the run shows the property on a small instance, the
theorem for every value of the constants that satisfies the named assumption of the module. These
assumptions say that sizes are natural numbers, or positive where the code divides by them or indexes
with them, that the sets of calls, requests and tasks are finite, and that the names of nothing
(`None`, `"none"`, `"absent"`) are not names of something. A module that is only instantiated
defines its assumption; the composition assumes it (`ProgramsAssumption`, `ClientAssumption`), so
that TLC evaluates it.

A property is seldom inductive as it stands. Each proof states what the code knows at every await
or stage as named conjuncts, shows action by action that a step keeps them, and derives the
property. Where several conjuncts need different arguments, each has a lemma of its own.

- `ProcessCaptureProofs`. `CompleteOutput` needs what the readers know: one is done only when its pipe
  is empty and has no writer (`CaptureInv`). What the coroutine has established at each wait is
  `DecisionInv`: an exit is waited for before the drain, a kill comes before the reap, an overflow means
  more written than kept, and after the `finally` block no task is pending. An answer that is held
  until the processes are joined stays true because the processes only move on
  (`ProcessesMoveOn`, `VerdictsStayRight`). From this follow `NothingOutlivesCall` and the
  refinement: `ContractStep` maps every action to a step of the processes, the one answer, or a stutter.
- `ToolControllerProofs`. A handler past the lock is the holder, hence alone; a verifying call has
  collected content without a verdict; the verdict of an answered call is the one in the cache.
  `StrayInv` follows the exec that ended last: it may answer `ok` only after a reap that found nothing
  alive. So nothing changes the files under a collector that comes later (`SnapshotInv`).
  `BudgetInv` compares the set of calls that began to collect with the counter, by its
  cardinality. That a cancelled waiter takes just itself out of the queue is `WithoutIsQueue`.
- `VerifierCasesProofs`. Passed cases and failures always add up to the cases behind the position, and
  the list is ordered (`TurnInv`), which an early end keeps because it appends the rest in order.
- `MintGateProofs`. `FullRewardIffPassed` is about the reward rule alone, `ReferenceRegraded` about
  grading the reference again with its own count. `GateInv` keeps what the gate knows at each stage, for
  unbounded counts; `DirectoryInv` what the directory holds then, whatever was left by crashes before.
- `DatasetExportProofs`. A file that names an export was written by it, the manifest last; so a snapshot
  whose rows match its manifest is of an export that had finished them. `WritesAlone` follows the last
  export to begin for as long as no other is active.
- `RpcClientProofs`. Requests: one who takes a request out of the table alone may fill its
  queue (`OneHolder`), and what is in a queue is for its call or is an error of its command
  (`AllFair`). Turns: the log of all events is a history variable, the bounded history is its end
  (`HistoryIsEnd`), and a run is either counted, running or about to be counted (`Counted`). Harness: a
  result is sent from one place and once (`AnswersLeft`); only a changed table stops the walk
  (`WalkIsQuiet`). `IdleIsIdle` is the action property, from `LifecycleInv`.
- `OmpProgramsProofs`. A behaviour belongs to one program, so the step lemmas are about one component
  and `StepOfPart` carries them over. Publication: what the service knows of the build at each stage.
  Launch: what each place may contain, and that the marker is written last. Dataset: the theorems of
  `DatasetExportProofs`, instantiated, for the same next-state relation with more variables. Traces:
  `RowsArePaths` shows for graphs of any size that the path of the last sampled node holds every useful
  turn; the counts of rows are cardinalities. Mining: the invariant is about the session (order, links,
  effects); what the program finds in it (`NumberedByTime`, `EndsOfEpisode`, `ProofsAreReal`,
  `ReplaysAreFaithful`, `UndisturbedAreAnchored`) are lemmas about the operators for sessions of any
  length. Models: what has been judged, and that a server is left only by the named exception. Metrics:
  the loops of a trace are a set, and a turn adds at most one (`LoopsOfLonger`).
- `OmpRolloutProofs`. Install: who is inside the lock and how often each entry was stored. Rollout: what a
  collected patch says of the paths that were not tampered with (`PatchOfPath`), and what is in the fresh
  container when the sealed command runs. Sealed command: the sums of the parsers are bounded for any number
  of runners (`SumBounds`, `CountsBound`). Bench: a report holds a row per evaluated model with sums over
  its tasks (`RowOfModel`); that its chosen order exists is `SortedList`, for the comparison of rates as
  fractions, which is total and transitive (`BetterCompares`, `OrderIsRanked`). `PassIsShare` shows that the
  product by which `pass_at_k` is computed is the share of the k-subsets with a pass: subsets with a given
  element are counted against those without it (`SizeStep`, `SizesOf`). `TypeCorrect` puts the invariants of
  all eleven programs together.

Recursion. The models use recursive functions (`f[n \in Nat] == ...`), which the provers can unfold.
What such a function computes is proved by least counterexample: `LeastNat` says that a nonempty
set of numbers has a least one, and the step below it is then right. The library's
induction theorems are not used, as they take an operator as a parameter, which none of the provers can
instantiate.

Only model-checked: the liveness properties (`EveryCaptureEnds`, `NoPipeDeadlock`, `EveryCallEnds`,
`EveryVerificationEnds`, `EveryWaitEnds`, `EveryPublicationEnds`), since liveness under fairness is
outside what the proof system can do, and the four findings, whose counterexamples are the result.

## What the models leave out

- The content of output, files and replies; encodings; the regular expressions of the parsers of test
  runner output (they are reduced to the summaries they find).
- What a killed tool or an `open_process` that raises does inside the container *after* the call
  that started it is over.
- Commands that replace an editable file by a link or remove it: `finalize` then raises
  (`FinalizeFails` covers the outcome, not the cause).
- HTTP request checks of the route, which answer before the controller is reached.
- A removal of a directory that fails without a crash (`rmtree` with ignored errors).
- The RPC client's typed commands, todo lists, host URIs (the harness registers none) and the parsing
  of notifications (`P/_vendor/omp_rpc/protocol.py`): they translate data and keep no state of their own.
- Files with several paths in one episode, line ends, and paths outside the repository.
- Durations: a time limit may pass at any step while it is armed.
- A `process.kill()` that itself raises in the `finally` block of the capture.
- A local server that survives SIGKILL, so that the second wait of `_stop_server` raises, and a kill of
  the program that runs one.
- The difference between the action kinds of tools in `TraceExport`: four kinds count as one there.
- What git makes of a path that was tampered with: any content, any change or none.
- Updates a host tool sends while it runs: they are messages like its result and change no state.

### Not modelled

- Task definitions and generated tasks (`P/task.py`, `P/generated_tasks.py`): a validation of one
  document and a seeded choice; no steps and no state.
- Candidate workers: untrusted, any reply is allowed where they are called. Packaged fixtures: data.
- Numeric training (`P/masked_lora.py`), hardware checks, cost, token and wall-clock figures and the
  bootstrap over floats: arithmetic over reals is outside what TLC evaluates.

## Plan

What is left, in order.

1. An abstract dataset, replaced in one step, that `DatasetExport` implements for a run that trains,
   with the refinement proved as that of the capture contract.
2. The refinement of an abstract request (answered, failed or given up, once) by `RpcRequests`.
3. Several paths in `EpisodeMining`.
