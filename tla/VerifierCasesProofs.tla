------------------------- MODULE VerifierCasesProofs -------------------------
(***************************************************************************)
(* Proofs about VerifierCases for suites of any size and any time limit:   *)
(* the walk accounts for every case once, isolates the cases from each     *)
(* other, and is cut off by the scoring limit before its own deadline.     *)
(***************************************************************************)
EXTENDS VerifierCases, SequenceTheorems, TLAPS

Failures == [case : Cases, reason : Reasons]

(* Every await in which a case is in hand.                                 *)
InTurn == Awaits \ {"provision"}

(* The list speaks of the cases before n at most, each once and in order.  *)
Ordered(fs, n) ==
  /\ \A i \in 1..Len(fs) : fs[i].case < n
  /\ \A i, j \in 1..Len(fs) : i < j => fs[i].case < fs[j].case

(* The two ways in which the list grows, and what they add to it.          *)
OneMore(fs, n, reason) == Append(fs, [case |-> n, reason |-> reason])
TheRest(fs, first, reason) == fs \o FailedFrom(first, reason)
Adds(fs, more, reason) ==
  \A i \in 1..Len(more) : (i \in 1..Len(fs) /\ more[i] = fs[i]) \/ more[i].reason = reason

(* What the code has in hand when the coroutine is suspended in a turn.    *)
TurnInv ==
  /\ TypeOK
  /\ stage \in InTurn => index \in Cases
  /\ stage = "provision" => index = 1
  /\ stage # "returned" => passed + Len(failures) = index - 1 /\ Ordered(failures, index)
  /\ stage = "returned" => passed + Len(failures) = NumCases
                           /\ Ordered(failures, NumCases + 1)

(* Between the cleaner's good exit code and the end of the worker nothing  *)
(* of an earlier case is in the runtime.                                   *)
IsolationInv ==
  /\ stage \in {"write_request", "worker"} => residue = {}
  /\ stage = "worker" => request = index

(* The deadline of the walk is set later than the scoring limit, and to    *)
(* the same length.                                                        *)
DeadlineInv ==
  /\ stage \in InTurn => deadline >= TimeLimit
  /\ ScoringLimitComesFirst

VerifierInv == TurnInv /\ IsolationInv /\ DeadlineInv

(* The list of the cases that were not run names each of them once, in     *)
(* order.                                                                  *)
LEMMA FailedFromProperties ==
  ASSUME NEW first \in 1..NumCases + 1, NEW reason \in Reasons
  PROVE  /\ FailedFrom(first, reason) \in Seq(Failures)
         /\ Len(FailedFrom(first, reason)) = NumCases - first + 1
         /\ \A i \in 1..NumCases - first + 1 :
              /\ FailedFrom(first, reason)[i].case = first + i - 1
              /\ FailedFrom(first, reason)[i].reason = reason
<1> DEFINE n == NumCases - first + 1
<1>1. n \in Nat /\ NumCases \in Nat
  BY VerifierAssumption
<1>2. \A i \in 1..n : [case |-> first + i - 1, reason |-> reason] \in Failures
  BY <1>1 DEF Failures, Cases
<1>3. FailedFrom(first, reason) \in [1..n -> Failures]
  BY <1>2 DEF FailedFrom
<1>4. FailedFrom(first, reason) \in Seq(Failures)
  BY <1>1, <1>3, IsASeq DEF FailedFrom
<1>5. Len(FailedFrom(first, reason)) = n
  BY <1>1, <1>3, <1>4, LenProperties
<1> QED
  BY <1>3, <1>4, <1>5 DEF FailedFrom

(* The cases of a list are numbers.                                        *)
LEMMA CasesAreNumbers ==
  ASSUME NEW fs \in Seq(Failures)
  PROVE  \A i \in 1..Len(fs) : fs[i].case \in Int
<1>1. \A i \in 1..Len(fs) : fs[i] \in Failures
  BY ElementOfSeq
<1>2. \A f \in Failures : f.case \in Int
  BY VerifierAssumption DEF Failures, Cases
<1> QED
  BY <1>1, <1>2

(* The cases from first on, listed after an ordered list of earlier ones.  *)
LEMMA ListTheRest ==
  ASSUME NEW fs \in Seq(Failures), NEW first \in 1..NumCases + 1, NEW reason \in Reasons,
         Ordered(fs, first)
  PROVE  /\ TheRest(fs, first, reason) \in Seq(Failures)
         /\ Len(TheRest(fs, first, reason)) = Len(fs) + NumCases - first + 1
         /\ Ordered(TheRest(fs, first, reason), NumCases + 1)
         /\ Adds(fs, TheRest(fs, first, reason), reason)
<1> DEFINE rest == FailedFrom(first, reason)
           all  == TheRest(fs, first, reason)
<1>1. /\ rest \in Seq(Failures) /\ Len(rest) = NumCases - first + 1
      /\ \A i \in 1..NumCases - first + 1 : rest[i].case = first + i - 1 /\ rest[i].reason = reason
  BY FailedFromProperties
<1>2. NumCases \in Nat /\ Len(fs) \in Nat
  BY VerifierAssumption, LenProperties
<1>3. /\ all \in Seq(Failures) /\ Len(all) = Len(fs) + Len(rest)
      /\ \A i \in 1..Len(fs) + Len(rest) : all[i] = IF i <= Len(fs) THEN fs[i] ELSE rest[i - Len(fs)]
  BY <1>1, ConcatProperties DEF TheRest
<1> HIDE DEF all, rest
<1>4. \A i \in 1..Len(all) : i > Len(fs) =>
        all[i].case = first + (i - Len(fs)) - 1 /\ all[i].reason = reason
  <2> SUFFICES ASSUME NEW i \in 1..Len(all), i > Len(fs)
               PROVE  all[i].case = first + (i - Len(fs)) - 1 /\ all[i].reason = reason
    OBVIOUS
  <2> DEFINE k == i - Len(fs)
  <2>1. Len(all) = Len(fs) + (NumCases - first + 1) /\ Len(rest) = NumCases - first + 1
    BY <1>1, <1>3
  <2>2. k \in 1..NumCases - first + 1 /\ i \in 1..Len(fs) + Len(rest) /\ ~(i <= Len(fs))
    BY <1>2, <2>1
  <2>3. all[i] = rest[k]
    BY <1>3, <2>2
  <2>4. rest[k].case = first + k - 1 /\ rest[k].reason = reason
    BY <1>1, <2>2
  <2> QED
    BY <2>3, <2>4
<1>5. \A i \in 1..Len(fs) : all[i] = fs[i] /\ fs[i].case < first /\ fs[i].case \in Int
  <2>1. \A i \in 1..Len(fs) : all[i] = fs[i]
    <3>1. Len(rest) \in Nat /\ \A i \in 1..Len(fs) : i \in 1..Len(fs) + Len(rest) /\ i <= Len(fs)
      BY <1>1, <1>2
    <3> QED
      BY <1>3, <3>1
  <2> QED
    BY <2>1, CasesAreNumbers DEF Ordered
<1>6. Ordered(all, NumCases + 1)
  <2>1. Len(all) = Len(fs) + NumCases - first + 1 /\ Len(all) \in Nat
    BY <1>1, <1>2, <1>3
  <2>2. \A i \in 1..Len(fs) : all[i].case < first /\ all[i].case \in Int
    BY <1>5
  <2>3. \A i \in 1..Len(all) : all[i].case < NumCases + 1
    BY <1>2, <1>4, <2>1, <2>2
  <2>4. \A i, j \in 1..Len(all) : i < j => all[i].case < all[j].case
    <3> SUFFICES ASSUME NEW i \in 1..Len(all), NEW j \in 1..Len(all), i < j
                 PROVE  all[i].case < all[j].case
      OBVIOUS
    <3>1. CASE j <= Len(fs)
      <4>1. i \in 1..Len(fs) /\ j \in 1..Len(fs)
        BY <1>2, <2>1, <3>1
      <4>2. fs[i].case < fs[j].case
        BY <4>1 DEF Ordered
      <4> QED
        BY <1>5, <4>1, <4>2
    <3>2. CASE j > Len(fs)
      BY <1>2, <1>4, <2>1, <2>2, <3>2, SMTT(30)
    <3> QED
      BY <1>2, <2>1, <3>1, <3>2
  <2> QED
    BY <2>3, <2>4 DEF Ordered
<1>7. Len(all) = Len(fs) + NumCases - first + 1
  BY <1>1, <1>2, <1>3
<1>8. \A i \in 1..Len(all) : (i \in 1..Len(fs) /\ all[i] = fs[i]) \/ all[i].reason = reason
  BY <1>2, <1>3, <1>4, <1>5
<1> QED
  BY <1>3, <1>6, <1>7, <1>8 DEF all, Adds

(* One more failed case at the end of the list.                            *)
LEMMA ListOneMore ==
  ASSUME NEW fs \in Seq(Failures), NEW n \in Cases, NEW reason \in Reasons, Ordered(fs, n)
  PROVE  /\ OneMore(fs, n, reason) \in Seq(Failures)
         /\ Len(OneMore(fs, n, reason)) = Len(fs) + 1
         /\ Ordered(OneMore(fs, n, reason), n + 1)
         /\ Adds(fs, OneMore(fs, n, reason), reason)
<1> DEFINE new  == [case |-> n, reason |-> reason]
           more == OneMore(fs, n, reason)
<1>1. new \in Failures /\ Len(fs) \in Nat /\ n \in Int
  BY LenProperties, VerifierAssumption DEF Failures, Cases
<1>2. /\ more \in Seq(Failures) /\ Len(more) = Len(fs) + 1
      /\ \A i \in 1..Len(fs) : more[i] = fs[i]
      /\ more[Len(fs) + 1] = new
  BY <1>1, AppendProperties DEF OneMore
<1> HIDE DEF more, new
<1>3. \A i \in 1..Len(fs) : fs[i].case < n /\ fs[i].case \in Int
  BY CasesAreNumbers DEF Ordered
<1>4. Ordered(more, n + 1)
  <2>1. \A i \in 1..Len(fs) : more[i].case < n /\ more[i].case \in Int
    BY <1>2, <1>3
  <2>2. more[Len(fs) + 1].case = n
    BY <1>2 DEF new
  <2>3. \A i \in 1..Len(more) : i \in 1..Len(fs) \/ i = Len(fs) + 1
    BY <1>1, <1>2
  <2>4. \A i, j \in 1..Len(more) : i < j => more[i].case < more[j].case
    <3> SUFFICES ASSUME NEW i \in 1..Len(more), NEW j \in 1..Len(more), i < j
                 PROVE  more[i].case < more[j].case
      OBVIOUS
    <3>1. i \in 1..Len(fs)
      BY <1>1, <1>2, <2>3
    <3>2. CASE j = Len(fs) + 1
      BY <2>1, <2>2, <3>1, <3>2
    <3>3. CASE j \in 1..Len(fs)
      <4>1. fs[i].case < fs[j].case
        BY <3>1, <3>3 DEF Ordered
      <4> QED
        BY <1>2, <3>1, <3>3, <4>1
    <3> QED
      BY <2>3, <3>2, <3>3
  <2>5. \A i \in 1..Len(more) : more[i].case < n + 1
    BY <1>1, <2>1, <2>2, <2>3
  <2> QED
    BY <2>4, <2>5 DEF Ordered
<1>5. \A i \in 1..Len(more) : (i \in 1..Len(fs) /\ more[i] = fs[i]) \/ more[i].reason = reason
  BY <1>1, <1>2 DEF new
<1> QED
  BY <1>2, <1>4, <1>5 DEF more, Adds

-----------------------------------------------------------------------------
(* The head of the loop, for a turn that may begin.                        *)
LEMMA TakeTurnKeeps ==
  ASSUME NEW i \in 1..NumCases + 1, NEW fs \in Seq(Failures), NEW p \in Nat, NEW limit \in Nat,
         clock \in Nat, TakeTurn(i, fs, limit), passed' = p,
         p + Len(fs) = i - 1, Ordered(fs, i)
  PROVE  /\ stage' \in {"returned", "clean_before"} /\ index' = i /\ failures' \in Seq(Failures)
         /\ passed' \in 0..NumCases
         /\ stage' = "clean_before" => i \in Cases
         /\ stage' # "returned" => passed' + Len(failures') = index' - 1 /\ Ordered(failures', index')
         /\ stage' = "returned" => passed' + Len(failures') = NumCases
                                   /\ Ordered(failures', NumCases + 1)
         /\ \A k \in 1..Len(failures') : \/ k \in 1..Len(fs) /\ failures'[k] = fs[k]
                                         \/ limit <= clock
<1>1. NumCases \in Nat /\ Len(fs) \in Nat
  BY VerifierAssumption, LenProperties
<1>2. index' = i
  BY DEF TakeTurn
<1>3. passed' \in 0..NumCases
  BY <1>1
<1>4. CASE i > NumCases
  BY <1>1, <1>2, <1>3, <1>4 DEF TakeTurn
<1>5. CASE i <= NumCases /\ limit <= clock
  <2>1. stage' = "returned" /\ failures' = TheRest(fs, i, "deadline")
    BY <1>1, <1>5 DEF TakeTurn, TheRest
  <2>2. /\ failures' \in Seq(Failures)
        /\ Len(failures') = Len(fs) + NumCases - i + 1
        /\ Ordered(failures', NumCases + 1)
    BY <2>1, ListTheRest DEF Reasons
  <2>3. passed' + Len(failures') = NumCases
    BY <1>1, <2>2
  <2> QED
    BY <1>2, <1>3, <1>5, <2>1, <2>2, <2>3
<1>6. CASE i <= NumCases /\ ~(limit <= clock)
  BY <1>1, <1>2, <1>3, <1>6 DEF TakeTurn, Cases
<1> QED
  BY <1>1, <1>4, <1>5, <1>6

(* Giving up at a case accounts for it and for all after it.               *)
LEMMA AbandonKeeps ==
  ASSUME NEW reason \in {"candidate_failure", "reply_limits"}, TypeOK, index \in Cases,
         passed + Len(failures) = index - 1, Ordered(failures, index),
         Abandon(reason), passed' = passed
  PROVE  /\ stage' = "returned" /\ index' = index /\ failures' \in Seq(Failures)
         /\ passed' + Len(failures') = NumCases
         /\ Ordered(failures', NumCases + 1)
         /\ \A k \in 1..Len(failures') : \/ k \in 1..Len(failures) /\ failures'[k] = failures[k]
                                         \/ failures'[k].reason # "deadline"
<1> DEFINE more == OneMore(failures, index, reason)
<1>1. NumCases \in Nat /\ failures \in Seq(Failures) /\ Len(failures) \in Nat /\ passed \in Nat
      /\ index \in 1..NumCases
  BY VerifierAssumption, LenProperties DEF TypeOK, Failures, Cases
<1>2. /\ more \in Seq(Failures) /\ Len(more) = Len(failures) + 1 /\ Ordered(more, index + 1)
      /\ Adds(failures, more, reason)
  <2>1. reason \in Reasons
    BY DEF Reasons
  <2> QED
    BY <1>1, <2>1, ListOneMore
<1>3. index + 1 \in 1..NumCases + 1
  BY <1>1
<1>4. /\ stage' = "returned" /\ index' = index
      /\ failures' = TheRest(more, index + 1, "not_run")
  BY DEF Abandon, OneMore, TheRest
<1> HIDE DEF more
<1>5. /\ failures' \in Seq(Failures)
      /\ Len(failures') = Len(more) + NumCases - (index + 1) + 1
      /\ Ordered(failures', NumCases + 1)
      /\ Adds(more, failures', "not_run")
  BY <1>2, <1>3, <1>4, ListTheRest DEF Reasons
<1>6. passed' + Len(failures') = NumCases
  BY <1>1, <1>2, <1>5, SMTT(30)
<1>7. ASSUME NEW k \in 1..Len(failures')
      PROVE  \/ k \in 1..Len(failures) /\ failures'[k] = failures[k]
             \/ failures'[k].reason # "deadline"
  BY <1>2, <1>5 DEF Adds
<1> QED
  BY <1>4, <1>5, <1>6, <1>7

-----------------------------------------------------------------------------
(* No step of the walk loses a case or takes one twice.                    *)
LEMMA TurnStep ==
  ASSUME VerifierInv, [Next]_vars
  PROVE  TurnInv'
<1> USE DEF VerifierInv, TurnInv
<1>1. /\ NumCases \in Nat /\ TimeLimit \in Nat /\ clock \in Nat /\ deadline \in Nat
      /\ failures \in Seq(Failures) /\ passed \in Nat /\ 1 \in 1..NumCases + 1
  BY VerifierAssumption DEF TypeOK, Failures
<1>2. ASSUME stage \in InTurn \cup {"provision"}, stage' \in InTurn \cup {"raised"},
             stage = "provision" => stage' = "raised",
             UNCHANGED <<index, failures, passed, deadline>>, clock' \in Nat,
             residue' \subseteq Cases, request' \in Cases \cup {0},
             captured' \in Captures \cup {"none"}, cleaned' \in BOOLEAN
      PROVE  TurnInv'
  BY <1>2 DEF InTurn, Awaits, TypeOK
<1>3. CASE Tick
  BY <1>1, <1>3 DEF Tick, TypeOK, InTurn, Awaits
<1>4. CASE Provisioned
  <2>1. /\ TakeTurn(1, failures, deadline') /\ deadline' \in Nat /\ passed' = passed
        /\ UNCHANGED <<clock, residue, request, captured, cleaned>>
        /\ passed + Len(failures) = 1 - 1 /\ Ordered(failures, 1)
    BY <1>1, <1>4 DEF Provisioned
  <2>2. /\ stage' \in {"returned", "clean_before"} /\ index' = 1 /\ failures' \in Seq(Failures)
        /\ passed' \in 0..NumCases
        /\ stage' = "clean_before" => 1 \in Cases
        /\ stage' # "returned" => passed' + Len(failures') = index' - 1 /\ Ordered(failures', index')
        /\ stage' = "returned" => passed' + Len(failures') = NumCases
                                  /\ Ordered(failures', NumCases + 1)
    BY <1>1, <2>1, TakeTurnKeeps
  <2> QED
    BY <1>1, <2>1, <2>2 DEF TypeOK, InTurn, Awaits, Failures
<1>5. ASSUME NEW reason \in {"candidate_failure", "reply_limits"},
             stage \in InTurn, Abandon(reason), passed' = passed, clock' = clock,
             deadline' = deadline, residue' \subseteq Cases, request' \in Cases \cup {0},
             captured' = captured, cleaned' = cleaned
      PROVE  TurnInv'
  <2>1. index \in Cases /\ passed + Len(failures) = index - 1 /\ Ordered(failures, index)
    BY <1>5 DEF InTurn, Awaits
  <2>2. /\ stage' = "returned" /\ index' = index /\ failures' \in Seq(Failures)
        /\ passed' + Len(failures') = NumCases
        /\ Ordered(failures', NumCases + 1)
    BY <1>5, <2>1, AbandonKeeps
  <2> QED
    BY <1>5, <2>2 DEF TypeOK, InTurn, Awaits, Failures
<1>6. CASE CleanBefore
  <2>1. CASE UNCHANGED <<index, failures>> /\ stage' = "write_request"
    BY <1>1, <1>2, <1>6, <2>1 DEF CleanBefore, InTurn, Awaits, TypeOK
  <2>2. CASE Abandon("candidate_failure")
    BY <1>5, <1>6, <2>2 DEF CleanBefore, InTurn, Awaits, TypeOK
  <2> QED
    BY <1>6, <2>1, <2>2 DEF CleanBefore
<1>7. CASE WriteRequest
  BY <1>1, <1>2, <1>7 DEF WriteRequest, InTurn, Awaits, TypeOK
<1>8. CASE WorkerEnds
  BY <1>1, <1>2, <1>8 DEF WorkerEnds, InTurn, Awaits, TypeOK
<1>9. CASE CleanAfter
  <2>1. cleaned' \in BOOLEAN
    BY <1>9 DEF CleanAfter, CleanerSays
  <2> QED
    BY <1>1, <1>2, <1>9, <2>1 DEF CleanAfter, InTurn, Awaits, TypeOK
<1>10. CASE RemoveRequest
  <2>1. /\ stage \in InTurn /\ index \in Cases /\ index + 1 \in 1..NumCases + 1 /\ index \in Int
        /\ passed + Len(failures) = index - 1 /\ Ordered(failures, index)
        /\ request' \in Cases \cup {0} /\ Len(failures) \in Nat
        /\ UNCHANGED <<clock, deadline, residue, captured, cleaned>>
    BY <1>1, <1>10, LenProperties DEF RemoveRequest, InTurn, Awaits, TypeOK, Cases
  <2>2. CASE Abandon("candidate_failure") /\ passed' = passed
    BY <1>5, <2>1, <2>2 DEF TypeOK
  <2>3. CASE Abandon("reply_limits") /\ passed' = passed
    BY <1>5, <2>1, <2>3 DEF TypeOK
  <2>4. ASSUME NEW fs \in Seq(Failures), NEW p \in Nat, passed' = p,
               TakeTurn(index + 1, fs, deadline), p + Len(fs) = index, Ordered(fs, index + 1)
        PROVE  TurnInv'
    <3>1. p + Len(fs) = (index + 1) - 1
      BY <2>1, <2>4
    <3>2. /\ stage' \in {"returned", "clean_before"} /\ index' = index + 1
          /\ failures' \in Seq(Failures) /\ passed' \in 0..NumCases
          /\ stage' = "clean_before" => index + 1 \in Cases
          /\ stage' # "returned" => passed' + Len(failures') = index' - 1 /\ Ordered(failures', index')
          /\ stage' = "returned" => passed' + Len(failures') = NumCases
                                    /\ Ordered(failures', NumCases + 1)
      BY <1>1, <2>1, <2>4, <3>1, TakeTurnKeeps
    <3> QED
      BY <2>1, <3>2 DEF TypeOK, InTurn, Awaits, Failures
  <2>5. CASE /\ TakeTurn(index + 1, OneMore(failures, index, "mismatch"), deadline)
             /\ passed' = passed
    <3>1. /\ OneMore(failures, index, "mismatch") \in Seq(Failures)
          /\ Len(OneMore(failures, index, "mismatch")) = Len(failures) + 1
          /\ Ordered(OneMore(failures, index, "mismatch"), index + 1)
      BY <1>1, <2>1, ListOneMore DEF Reasons
    <3>2. passed + Len(OneMore(failures, index, "mismatch")) = index
      BY <1>1, <2>1, <3>1
    <3> QED
      BY <1>1, <2>4, <2>5, <3>1, <3>2
  <2>6. CASE TakeTurn(index + 1, failures, deadline) /\ passed' = passed + 1
    <3>1. Ordered(failures, index + 1)
      BY <1>1, <2>1, CasesAreNumbers DEF Ordered
    <3>2. passed + 1 + Len(failures) = index /\ passed + 1 \in Nat
      BY <1>1, <2>1
    <3> QED
      BY <1>1, <2>4, <2>6, <3>1, <3>2
  <2> QED
    BY <1>10, <2>2, <2>3, <2>5, <2>6 DEF RemoveRequest, Judge, OneMore
<1>11. CASE Raise
  <2>1. index \in Cases \/ stage # "worker"
    BY DEF InTurn, Awaits
  <2> QED
    BY <1>1, <1>2, <1>11, <2>1 DEF Raise, InTurn, Awaits, TypeOK
<1>12. CASE Over \/ UNCHANGED vars
  BY <1>12 DEF Over, vars, TypeOK
<1> QED
  BY <1>3, <1>4, <1>6, <1>7, <1>8, <1>9, <1>10, <1>11, <1>12 DEF Next, Step

(* Nothing comes into the runtime between the cleaner and the worker but   *)
(* the request of the case.                                                *)
LEMMA IsolationStep ==
  ASSUME VerifierInv, [Next]_vars
  PROVE  IsolationInv'
<1> USE DEF VerifierInv, IsolationInv
<1>1. CASE CleanBefore
  BY <1>1 DEF CleanBefore, CleanerSays, Abandon
<1>2. CASE WriteRequest
  BY <1>2 DEF WriteRequest
<1>3. CASE Tick \/ Over \/ UNCHANGED vars
  BY <1>3 DEF Tick, Over, vars
<1>4. CASE Provisioned \/ WorkerEnds \/ CleanAfter \/ RemoveRequest \/ Raise
  <2>1. stage' \notin {"write_request", "worker"}
    BY <1>4 DEF Provisioned, WorkerEnds, CleanAfter, RemoveRequest, Raise, Judge, TakeTurn, Abandon
  <2> QED
    BY <2>1
<1> QED
  BY <1>1, <1>2, <1>3, <1>4 DEF Next, Step

(* The deadline is a reason only in a turn that begins past it, and then   *)
(* the scoring limit, which is not later, has passed too.                  *)
LEMMA DeadlineStep ==
  ASSUME VerifierInv, [Next]_vars
  PROVE  DeadlineInv'
<1> USE DEF VerifierInv, TurnInv, DeadlineInv
<1>1. /\ NumCases \in Nat /\ TimeLimit \in Nat /\ clock \in Nat /\ deadline \in Nat
      /\ failures \in Seq(Failures) /\ passed \in Nat /\ 1 \in 1..NumCases + 1
  BY VerifierAssumption DEF TypeOK, Failures
<1>2. ASSUME NEW fs, clock' = clock,
             \A k \in 1..Len(fs) : fs[k].reason = "deadline" => clock >= TimeLimit,
             \A k \in 1..Len(failures') : \/ k \in 1..Len(fs) /\ failures'[k] = fs[k]
                                          \/ failures'[k].reason # "deadline"
                                          \/ clock >= TimeLimit
      PROVE  ScoringLimitComesFirst'
  BY <1>2 DEF ScoringLimitComesFirst
<1>3. \A k \in 1..Len(failures) : failures[k].reason = "deadline" => clock >= TimeLimit
  BY DEF ScoringLimitComesFirst
<1>4. CASE Tick
  BY <1>1, <1>4 DEF Tick, InTurn, Awaits, ScoringLimitComesFirst
<1>5. CASE Provisioned
  <2>1. /\ TakeTurn(1, failures, deadline') /\ deadline' \in Nat /\ passed' = passed /\ clock' = clock
        /\ deadline' >= TimeLimit /\ passed + Len(failures) = 1 - 1 /\ Ordered(failures, 1)
    BY <1>1, <1>5 DEF Provisioned
  <2>2. \A k \in 1..Len(failures') : \/ k \in 1..Len(failures) /\ failures'[k] = failures[k]
                                     \/ deadline' <= clock
    BY <1>1, <2>1, TakeTurnKeeps
  <2>3. deadline' <= clock => clock >= TimeLimit
    BY <1>1, <2>1
  <2> QED
    BY <1>2, <1>3, <2>1, <2>2, <2>3
<1>6. ASSUME NEW reason \in {"candidate_failure", "reply_limits"},
             stage \in InTurn, Abandon(reason), passed' = passed, clock' = clock
      PROVE  DeadlineInv'
  <2>1. index \in Cases /\ passed + Len(failures) = index - 1 /\ Ordered(failures, index)
    BY <1>6 DEF InTurn, Awaits
  <2>2. /\ stage' = "returned"
        /\ \A k \in 1..Len(failures') : \/ k \in 1..Len(failures) /\ failures'[k] = failures[k]
                                        \/ failures'[k].reason # "deadline"
    BY <1>6, <2>1, AbandonKeeps
  <2>3. ScoringLimitComesFirst'
    BY <1>2, <1>3, <1>6, <2>2
  <2> QED
    BY <2>2, <2>3 DEF InTurn, Awaits
<1>7. CASE CleanBefore
  <2>1. CASE Abandon("candidate_failure")
    BY <1>6, <1>7, <2>1 DEF CleanBefore, InTurn, Awaits
  <2>2. CASE UNCHANGED <<index, failures>>
    BY <1>7, <2>2 DEF CleanBefore, InTurn, Awaits, ScoringLimitComesFirst
  <2> QED
    BY <1>7, <2>1, <2>2 DEF CleanBefore
<1>8. CASE WriteRequest \/ WorkerEnds \/ CleanAfter \/ Raise \/ Over \/ UNCHANGED vars
  <2>1. UNCHANGED <<clock, deadline, failures>> /\ (stage' \in InTurn => stage \in InTurn)
    BY <1>8 DEF WriteRequest, WorkerEnds, CleanAfter, Raise, Over, vars, InTurn, Awaits
  <2> QED
    BY <2>1 DEF ScoringLimitComesFirst
<1>9. CASE RemoveRequest
  <2>1. /\ stage \in InTurn /\ index \in Cases /\ index + 1 \in 1..NumCases + 1 /\ index \in Int
        /\ passed + Len(failures) = index - 1 /\ Ordered(failures, index)
        /\ Len(failures) \in Nat /\ UNCHANGED <<clock, deadline>>
    BY <1>1, <1>9, LenProperties DEF RemoveRequest, InTurn, Awaits, Cases
  <2>2. CASE Abandon("candidate_failure") /\ passed' = passed
    BY <1>6, <2>1, <2>2
  <2>3. CASE Abandon("reply_limits") /\ passed' = passed
    BY <1>6, <2>1, <2>3
  <2>4. ASSUME NEW fs \in Seq(Failures), NEW p \in Nat, passed' = p,
               TakeTurn(index + 1, fs, deadline), p + Len(fs) = index, Ordered(fs, index + 1),
               \A k \in 1..Len(fs) : fs[k].reason = "deadline" => clock >= TimeLimit
        PROVE  DeadlineInv'
    <3>1. p + Len(fs) = (index + 1) - 1
      BY <2>1, <2>4
    <3>2. \A k \in 1..Len(failures') : \/ k \in 1..Len(fs) /\ failures'[k] = fs[k]
                                       \/ deadline <= clock
      BY <1>1, <2>1, <2>4, <3>1, TakeTurnKeeps
    <3>3. deadline >= TimeLimit /\ (deadline <= clock => clock >= TimeLimit)
      BY <1>1, <2>1
    <3>4. ScoringLimitComesFirst'
      BY <1>2, <2>1, <2>4, <3>2, <3>3
    <3> QED
      BY <2>1, <3>3, <3>4
  <2>5. CASE /\ TakeTurn(index + 1, OneMore(failures, index, "mismatch"), deadline)
             /\ passed' = passed
    <3>1. /\ OneMore(failures, index, "mismatch") \in Seq(Failures)
          /\ Len(OneMore(failures, index, "mismatch")) = Len(failures) + 1
          /\ Ordered(OneMore(failures, index, "mismatch"), index + 1)
          /\ Adds(failures, OneMore(failures, index, "mismatch"), "mismatch")
      BY <1>1, <2>1, ListOneMore DEF Reasons
    <3>2. passed + Len(OneMore(failures, index, "mismatch")) = index
      BY <1>1, <2>1, <3>1
    <3>3. \A k \in 1..Len(OneMore(failures, index, "mismatch")) :
            OneMore(failures, index, "mismatch")[k].reason = "deadline" => clock >= TimeLimit
      BY <1>3, <3>1 DEF Adds
    <3> QED
      BY <1>1, <2>4, <2>5, <3>1, <3>2, <3>3
  <2>6. CASE TakeTurn(index + 1, failures, deadline) /\ passed' = passed + 1
    <3>1. Ordered(failures, index + 1)
      BY <1>1, <2>1, CasesAreNumbers DEF Ordered
    <3>2. passed + 1 + Len(failures) = index /\ passed + 1 \in Nat
      BY <1>1, <2>1
    <3> QED
      BY <1>1, <1>3, <2>4, <2>6, <3>1, <3>2
  <2> QED
    BY <1>9, <2>2, <2>3, <2>5, <2>6 DEF RemoveRequest, Judge, OneMore
<1> QED
  BY <1>4, <1>5, <1>7, <1>8, <1>9 DEF Next, Step

(* The invariant of the walk holds in every behaviour.                     *)
LEMMA VerifierInvariant == Spec => []VerifierInv
<1>1. Init => VerifierInv
  <2> SUFFICES ASSUME Init PROVE VerifierInv
    OBVIOUS
  <2>1. failures \in Seq(Failures) /\ Len(failures) = 0
    BY EmptySeq DEF Init
  <2>2. Ordered(failures, 1)
    BY <2>1 DEF Ordered
  <2> QED
    BY <2>1, <2>2, VerifierAssumption
    DEF Init, VerifierInv, TurnInv, IsolationInv, DeadlineInv, TypeOK, InTurn, Awaits,
        ScoringLimitComesFirst, Failures, Cases
<1>2. VerifierInv /\ [Next]_vars => VerifierInv'
  BY TurnStep, IsolationStep, DeadlineStep DEF VerifierInv
<1> QED
  BY <1>1, <1>2, PTL DEF Spec

(* The variables of the walk are of their types for suites of any size     *)
(* (run_verifier_cases).                                                   *)
THEOREM TypeCorrect == Spec => []TypeOK
<1>1. VerifierInv => TypeOK
  BY DEF VerifierInv, TurnInv
<1> QED
  BY <1>1, VerifierInvariant, PTL

(* Wherever the walk of run_verifier_cases breaks off, a returned result   *)
(* speaks of every case of the suite, and of each of them once.            *)
THEOREM CasesHaveOneFate == Spec => []EveryCaseAccounted
<1>1. VerifierInv => EveryCaseAccounted
  BY DEF VerifierInv, TurnInv, EveryCaseAccounted, Ordered
<1> QED
  BY <1>1, VerifierInvariant, PTL

(* A worker never meets a process, a file or the request of another case.  *)
THEOREM WorkersAreIsolated == Spec => []CasesAreIsolated
<1>1. VerifierInv => CasesAreIsolated
  BY DEF VerifierInv, IsolationInv, CasesAreIsolated
<1> QED
  BY <1>1, VerifierInvariant, PTL

(* Deadline failures are returned only after the scoring limit has passed. *)
THEOREM LimitComesFirst == Spec => []ScoringLimitComesFirst
<1>1. VerifierInv => ScoringLimitComesFirst
  BY DEF VerifierInv, DeadlineInv
<1> QED
  BY <1>1, VerifierInvariant, PTL
=============================================================================
