----------------------------- MODULE LocalModels -----------------------------
(***************************************************************************)
(* Local models one after the other (protocol.py, evaluation.py): an MLX   *)
(* server is started on a port that was free a moment ago, awaited, asked  *)
(* the probes of the protocol gate and stopped.  select-local picks the    *)
(* first model that passes; omp-coding-evaluate compares fused             *)
(* checkpoints with model 1, the baseline, by a Prime evaluation.  Another *)
(* program may take the port, and a server may end at any time.            *)
(***************************************************************************)
EXTENDS Integers, FiniteSets

CONSTANTS
  Count,     \* the models; in an evaluation the first is the baseline
  Probes     \* the number of probes

LocalModelsAssumption == Count \in Nat \ {0, 1} /\ Probes \in Nat \ {0}

VARIABLES
  purpose,    \* "select" or "evaluate"
  model,      \* the model at hand
  step,       \* where the program is with it
  server,     \* the state of its process
  port,       \* who else has its port: nobody, a program that serves, or another
  logs,       \* the models whose log directory exists
  orphans,    \* the models whose process nobody will stop
  asked,      \* the probes answered so far
  clean,      \* the report of the gate has no failure so far
  exact,      \* every answer was the one expected call (history)
  verdict,    \* the result of each model
  sealed,     \* the sealed reward of each evaluated model
  selected,   \* the model it selected; 0: none
  outcome     \* what the program returned

vars == <<purpose, model, step, server, port, logs, orphans, asked, clean, exact,
          verdict, sealed, selected, outcome>>
processVars == <<server, port, logs, orphans>>
probeVars == <<asked, clean, exact>>

Models == 1..Count
Rewards == 0..2

TypeOK ==
  /\ purpose \in {"select", "evaluate"} /\ model \in Models
  /\ step \in {"fuse", "spawn", "await", "probe", "eval", "stop", "kill", "judge", "ended"}
  /\ server \in {"none", "starting", "serving", "exited"}
  /\ port \in {"free", "serves", "silent"}
  /\ logs \subseteq Models /\ orphans \subseteq Models
  /\ asked \in 0..Probes /\ clean \in BOOLEAN /\ exact \in BOOLEAN
  /\ verdict \in [Models -> {"none", "failed", "passed", "improved", "rejected"}]
  /\ sealed \in [Models -> Rewards]
  /\ outcome \in {"none", "failed", "raised", "rejected", "selected"} /\ selected \in 0..Count

Init ==
  /\ purpose \in {"select", "evaluate"} /\ model = 1 /\ step = "spawn"
  /\ server = "none" /\ port = "free" /\ logs = {} /\ orphans = {}
  /\ asked = 0 /\ clean = TRUE /\ exact = TRUE
  /\ verdict = [m \in Models |-> "none"] /\ sealed = [m \in Models |-> 0]
  /\ selected = 0 /\ outcome = "none"

Goto(s) == step' = s /\ UNCHANGED <<outcome, selected, model, purpose, sealed>>
End(result) == step' = "ended" /\ outcome' = result /\ UNCHANGED <<selected, model, purpose, sealed>>
Fails(s) == verdict' = [verdict EXCEPT ![model] = "failed"] /\ Goto(s)
-----------------------------------------------------------------------------
(* The rules of the gate.                                                  *)

\* The calls of an answer and how it ended.  "more" is the expected call with
\* further arguments, "other" a valid call of another tool or with other
\* arguments, "broken" one that is malformed, unknown or against its schema.
Answers ==
  [calls : {<<>>} \cup {<<c>> : c \in {"expected", "more", "other", "broken"}}
             \cup {<<"expected", c>> : c \in {"expected", "more", "other", "broken"}},
   finish : {"tool_calls", "stop", "length"}]

Parsed(a) == {i \in DOMAIN a.calls : a.calls[i] # "broken"}
Repeated(a) == \E i, j \in Parsed(a) : i # j /\ a.calls[i] = a.calls[j]

\* Mutant: further calls beside the expected one are accepted.
PassesAny(a) ==
  /\ \E i \in Parsed(a) : a.calls[i] \in {"expected", "more"}
  /\ Parsed(a) = DOMAIN a.calls /\ a.finish = "tool_calls"

\* _probe_result
Passes(a) ==
  /\ Parsed(a) = DOMAIN a.calls
  /\ Cardinality(Parsed(a)) = 1 /\ \A i \in Parsed(a) : a.calls[i] \in {"expected", "more"}
  /\ a.finish = "tool_calls"

\* protocol_gate_failure: all valid, all parsed, none invalid, all ended, no loop.
Acceptable(a) ==
  /\ Passes(a) /\ Parsed(a) # {} /\ Parsed(a) = DOMAIN a.calls
  /\ a.finish \in {"stop", "tool_calls"} /\ ~Repeated(a)

IsExpected(a) ==
  a.finish = "tool_calls" /\ (a.calls = <<"expected">> \/ a.calls = <<"more">>)
-----------------------------------------------------------------------------
(* One server.                                                             *)

\* _fuse_checkpoint; a checkpoint whose digest cannot be read ends everything.
Fuse ==
  /\ step = "fuse"
  /\ \/ Goto("spawn") /\ UNCHANGED verdict
     \/ Fails("judge")
     \/ End("failed") /\ UNCHANGED verdict
  /\ UNCHANGED <<processVars, probeVars>>

\* start_local_model_server: the checks, the port, the directory, the process.
Spawn ==
  /\ step = "spawn"
  /\ \/ /\ server' = "starting" /\ logs' = logs \cup {model} /\ port' = "free"
        /\ Goto("await") /\ UNCHANGED <<orphans, verdict>>
     \/ Fails("judge") /\ UNCHANGED processVars
  /\ asked' = 0 /\ clean' = TRUE /\ exact' = TRUE

\* _loopback_port closed its socket: until the server binds, anybody may.
PortTaken ==
  /\ server = "starting" /\ port = "free" /\ port' \in {"serves", "silent"}
  /\ UNCHANGED <<purpose, model, step, server, logs, orphans, probeVars, verdict, sealed,
                 selected, outcome>>

ServerStep ==
  /\ \/ server = "starting" /\ port = "free" /\ server' = "serving"
     \/ server \in {"starting", "serving"} /\ server' = "exited"
  /\ UNCHANGED <<purpose, model, step, port, logs, orphans, probeVars, verdict, sealed,
                 selected, outcome>>

Answering == server = "serving" \/ port = "serves"

\* One turn of _server_ready, or its deadline; a server that is not ready is
\* stopped and its directory removed.
Await ==
  /\ step = "await"
  /\ \/ server # "exited" /\ Answering /\ Goto("probe") /\ UNCHANGED <<processVars, verdict>>
     \/ /\ server' = "none" /\ logs' = logs \ {model}
        /\ Fails("judge") /\ UNCHANGED <<port, orphans>>
  /\ UNCHANGED probeVars

\* A connection that is dropped without an answer raises an error that
\* _server_ready does not catch.
AwaitRaises ==
  /\ step = "await" /\ (port # "free" \/ server = "serving")
  /\ orphans' = IF server = "exited" THEN orphans ELSE orphans \cup {model}
  /\ End("raised") /\ UNCHANGED <<server, port, logs, probeVars, verdict>>

\* run_protocol_gate asks one probe; no answer is a failure of the model.
Probe ==
  /\ step = "probe" /\ asked < Probes
  /\ \/ /\ Answering
        /\ \E a \in Answers : clean' = (clean /\ Acceptable(a)) /\ exact' = (exact /\ IsExpected(a))
        /\ asked' = asked + 1 /\ Goto("probe") /\ UNCHANGED verdict
     \/ Fails("stop") /\ UNCHANGED probeVars
  /\ UNCHANGED processVars

\* A connection that breaks within an answer raises; the finally stops the server.
ProbeRaises ==
  /\ step = "probe" /\ step' = "stop" /\ outcome' = "raised"
  /\ UNCHANGED <<model, purpose, sealed, selected, processVars, probeVars, verdict>>

\* The report of all probes and its verdict.
Gate ==
  /\ step = "probe" /\ asked = Probes
  /\ \/ ~clean /\ Fails("stop")
     \/ /\ clean /\ verdict' = [verdict EXCEPT ![model] = "passed"]
        /\ Goto(IF purpose = "evaluate" THEN "eval" ELSE "stop")
  /\ UNCHANGED <<processVars, probeVars>>

\* _run_prime_eval: a failing command, or not one trace file.
RunEval ==
  /\ step = "eval"
  /\ \/ Fails("stop")
     \/ Goto("stop") /\ UNCHANGED verdict
  /\ UNCHANGED <<processVars, probeVars>>

AfterStop == IF outcome = "raised" THEN End("raised") ELSE Goto("judge")

\* Mutant: a server that ignores terminate is left.
StopPolite ==
  /\ step = "stop"
  /\ orphans' = IF server \in {"starting", "serving"} THEN orphans \cup {model} ELSE orphans
  /\ server' = "none" /\ port' = "free" /\ logs' = logs \ {model}
  /\ AfterStop /\ UNCHANGED <<probeVars, verdict>>

\* _stop_server and stop_local_model_server: terminate, kill after the limit,
\* and a failure of the model when the directory cannot be removed.
Stop ==
  /\ step \in {"stop", "kill"}
  /\ \/ /\ server' = "none" /\ port' = "free" /\ AfterStop
        /\ \/ logs' = logs \ {model} /\ UNCHANGED verdict
           \/ verdict' = [verdict EXCEPT ![model] = "failed"] /\ UNCHANGED logs
     \/ /\ step = "stop" /\ server \in {"starting", "serving"} /\ Goto("kill")
        /\ UNCHANGED <<server, port, logs, verdict>>
  /\ UNCHANGED <<orphans, probeVars>>
-----------------------------------------------------------------------------
(* The models of one program.                                              *)

Good == IF purpose = "select" THEN "passed" ELSE "improved"

\* Mutant: any improved candidate is taken.
BestAny(good) == good

\* max takes the largest: all reports that passed are alike, so the first of
\* them; checkpoints are compared by their reward and then by their rates.
Best(good) ==
  {m \in good : \A n \in good :
     sealed'[n] < sealed'[m] \/ (sealed'[n] = sealed'[m] /\ (purpose = "evaluate" \/ m <= n))}

\* select_protocol_model and evaluate_checkpoints, after their last model.
Choose ==
  LET good == {m \in Models : verdict'[m] = Good}
  IN IF good = {} THEN outcome' = "rejected" /\ selected' = 0
     ELSE outcome' = "selected" /\ selected' \in Best(good)

\* measure_traces, and compare_metrics for a candidate: a gain of the sealed
\* reward without a tool rate that is worse (ToolMetrics computes them).
Measured ==
  \/ verdict' = [verdict EXCEPT ![model] = "failed"] /\ UNCHANGED sealed
  \/ \E r \in Rewards, worse \in BOOLEAN :
       /\ sealed' = [sealed EXCEPT ![model] = r]
       /\ verdict' = [verdict EXCEPT ![model] =
                        CASE model = 1 -> "passed"
                          [] model > 1 /\ r > sealed[1] /\ ~worse -> "improved"
                          [] OTHER -> "rejected"]

NoBaseline == purpose = "evaluate" /\ model = 1 /\ verdict'[1] # "passed"

Judge ==
  /\ step = "judge"
  /\ IF purpose = "evaluate" /\ verdict[model] = "passed"
     THEN Measured ELSE UNCHANGED <<verdict, sealed>>
  /\ \/ /\ NoBaseline /\ outcome' = "failed" /\ step' = "ended" /\ UNCHANGED <<model, selected>>
     \/ ~NoBaseline /\ model = Count /\ Choose /\ step' = "ended" /\ UNCHANGED model
     \/ /\ ~NoBaseline /\ model < Count /\ model' = model + 1
        /\ step' = IF purpose = "evaluate" THEN "fuse" ELSE "spawn"
        /\ UNCHANGED <<outcome, selected>>
  /\ UNCHANGED <<purpose, processVars, probeVars>>

Next ==
  \/ Fuse \/ Spawn \/ PortTaken \/ ServerStep \/ Await \/ AwaitRaises \/ Probe \/ ProbeRaises
  \/ Gate \/ RunEval \/ Stop \/ Judge

Spec == Init /\ [][Next]_vars
-----------------------------------------------------------------------------
\* A selected model passed every probe and no earlier one did; a selected
\* checkpoint gained over a baseline that was itself measured, and no improved
\* checkpoint has a larger reward (select_protocol_model, evaluate_checkpoints).
SelectedIsProven ==
  outcome = "selected" =>
    /\ verdict[selected] = Good
    /\ purpose = "evaluate" =>
         /\ selected # 1 /\ verdict[1] = "passed" /\ sealed[selected] > sealed[1]
         /\ \A m \in Models : verdict[m] = "improved" => sealed[m] <= sealed[selected]
    /\ purpose = "select" => \A m \in 1..(selected - 1) : verdict[m] # "passed"

\* The five rates of the gate let a model through only when each answer was the
\* one expected call and nothing else (_probe_result, protocol_gate_failure).
GateIsExact ==
  step \in {"eval", "stop"} /\ verdict[model] = "passed" => exact /\ asked = Probes

\* No server outlives its program, whatever failed, except one whose readiness
\* check raised: start_local_model_server has no handler for that.
NoServerLeft ==
  /\ orphans # {} => outcome = "raised"
  /\ step = "ended" /\ orphans = {} => server \in {"none", "exited"}
  /\ step \in {"spawn", "fuse"} => server = "none"
=============================================================================
