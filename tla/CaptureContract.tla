-------------------------- MODULE CaptureContract ---------------------------
(***************************************************************************)
(* What _capture_process promises its callers (the verifier, the grader    *)
(* and the tool route), in one step: a verdict, and with it the output     *)
(* that the verdict stands for.  Only "captured" may be graded, so it is   *)
(* the one that must mean a finished command and every unit it wrote.      *)
(***************************************************************************)
EXTENDS CandidateProcess

CONSTANT MaxOutput    \* MAX_COMMAND_OUTPUT_BYTES, shared by both streams

VARIABLES
  verdict,    \* what the caller is told
  returned    \* returned[s]: units of stream s handed to the caller

contractVars == <<procVars, verdict, returned>>

Verdicts == {"captured", "output_limit", "timeout", "process_leak",
             "unavailable", "raised"}

NoOutput == [s \in Streams |-> 0]

\* Verdict v with output out is right for the process as it now stands.
Justified(v, out) ==
  \/ /\ v = "captured"
     /\ child = "exited"
     /\ \A s \in Streams : holders[s] = {}
     /\ out = written
  \/ /\ v = "output_limit"
     /\ child = "exited"
     /\ written["stdout"] + written["stderr"] > MaxOutput
     /\ out["stdout"] + out["stderr"] = MaxOutput
  \/ /\ v = "timeout"
     /\ child = "exited" /\ killed
     /\ \A s \in Streams : out[s] <= written[s]
  \/ /\ v = "process_leak"
     /\ child = "exited"
     /\ \A s \in Streams : out[s] <= written[s]
  \/ /\ v = "unavailable"
     /\ child = "unborn"
     /\ out = NoOutput
  \/ /\ v = "raised"
     /\ out = NoOutput

ContractInit ==
  /\ ProcInit
  /\ verdict = "none"
  /\ returned = NoOutput

Environment ==
  \/ Spawn \/ Fork \/ Exit \/ Die \/ Kill
  \/ \E s \in Streams : BeginWrite(s)
  \/ \E p \in Writers, s \in Streams : Write(p, s) \/ Close(p, s)

Finish ==
  /\ verdict = "none"
  /\ verdict' \in Verdicts
  /\ Justified(verdict', returned')
  /\ UNCHANGED procVars

ContractNext ==
  \/ Environment /\ UNCHANGED <<verdict, returned>>
  \/ Finish

ContractSpec == ContractInit /\ [][ContractNext]_contractVars
=============================================================================
