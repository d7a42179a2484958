-------------------------- MODULE OmpRolloutProofs --------------------------
(***************************************************************************)
(* Proofs about rollouts and their benchmarks: the release they install,   *)
(* what they are paid for, and the reports that compare models.  With what *)
(* OmpProgramsProofs says of the models that are selected and measured     *)
(* they give what is promised of the comparison, and with all of it the    *)
(* types of OmpPrograms.                                                   *)
(***************************************************************************)
EXTENDS OmpProgramsProofs

-----------------------------------------------------------------------------
\* Installation: who is under the lock, what the cache holds and how often it
\* was set.
Holder == \A r \in Rollouts : setup[r] \in {"inside", "load"} <=> lock = r
Cached ==
  \A a \in Arches :
    memory[a] \in {"none", "pinned"} /\ stores[a] = IF memory[a] = "none" THEN 0 ELSE 1
Loading == \A r \in Rollouts : setup[r] = "load" => memory[arch[r]] = "none"

InstallInv == Harness!TypeOK /\ Holder /\ Cached /\ Loading /\ Harness!InstalledIsPinned

\* No rollout has begun and the cache is empty.
LEMMA InstallStart == Harness!InstallAssumption /\ Harness!Init => InstallInv
BY DEF Harness!Init, InstallInv, Harness!TypeOK, Holder, Cached, Loading, Harness!InstalledIsPinned,
   Harness!Stages, Harness!Bytes, Harness!InstallAssumption

\* Every step of an installation keeps its invariant: an entry of the cache is
\* set by the holder of the lock, who found none.
LEMMA InstallStep ==
  ASSUME Harness!InstallAssumption, InstallInv, Harness!Next
  PROVE  InstallInv'
<1> USE DEF InstallInv, Harness!Goto, Harness!InHand, Harness!cacheVars, Harness!containerVars,
      Harness!Stages, Harness!Bytes, Harness!InstallAssumption
<1> PICK r \in Rollouts :
      \/ Harness!Probe(r) \/ Harness!LookUp(r) \/ Harness!Enter(r) \/ Harness!LookAgain(r)
      \/ Harness!Load(r) \/ Harness!Write(r) \/ Harness!Script(r) \/ Harness!Cancel(r)
  BY DEF Harness!Next
<1>1. CASE Harness!Probe(r)
  BY <1>1 DEF Harness!Probe, Harness!TypeOK, Holder, Cached, Loading, Harness!InstalledIsPinned
<1>2. CASE Harness!LookUp(r)
  BY <1>2 DEF Harness!LookUp, Harness!TypeOK, Holder, Cached, Loading, Harness!InstalledIsPinned
<1>3. CASE Harness!Enter(r)
  BY <1>3 DEF Harness!Enter, Harness!TypeOK, Holder, Cached, Loading, Harness!InstalledIsPinned
<1>4. CASE Harness!LookAgain(r)
  BY <1>4 DEF Harness!LookAgain, Harness!TypeOK, Holder, Cached, Loading, Harness!InstalledIsPinned
<1>5. CASE Harness!Load(r)
  <2>1. setup[r] = "load" /\ lock = r /\ lock' = "none" /\ UNCHANGED <<arch, temporary, installed>>
    BY <1>5 DEF Harness!Load, Holder
  <2>2. CASE setup' = [setup EXCEPT ![r] = "failed"] /\ UNCHANGED <<memory, stores, bytes>>
    BY <2>1, <2>2 DEF Harness!TypeOK, Holder, Cached, Loading, Harness!InstalledIsPinned
  <2>3. CASE /\ memory' = [memory EXCEPT ![arch[r]] = "pinned"]
             /\ stores' = [stores EXCEPT ![arch[r]] = IF @ < 2 THEN @ + 1 ELSE @]
             /\ bytes' = [bytes EXCEPT ![r] = "pinned"] /\ setup' = [setup EXCEPT ![r] = "write"]
    <3>1. stores[arch[r]] = 0 /\ arch[r] \in Arches
      BY <2>1 DEF Loading, Cached, Harness!TypeOK
    <3>2. Harness!TypeOK'
      BY <2>1, <2>3, <3>1 DEF Harness!TypeOK
    <3>3. Cached'
      BY <2>3, <3>1 DEF Cached, Harness!TypeOK
    <3>4. Holder' /\ Loading' /\ Harness!InstalledIsPinned'
      BY <2>1, <2>3 DEF Harness!TypeOK, Holder, Loading, Harness!InstalledIsPinned
    <3> QED BY <3>2, <3>3, <3>4
  <2> QED BY <1>5, <2>2, <2>3 DEF Harness!Load, Harness!Checked
<1>6. CASE Harness!Write(r)
  BY <1>6 DEF Harness!Write, Harness!TypeOK, Holder, Cached, Loading, Harness!InstalledIsPinned
<1>7. CASE Harness!Script(r)
  BY <1>7 DEF Harness!Script, Harness!TypeOK, Holder, Cached, Loading, Harness!InstalledIsPinned
<1>8. CASE Harness!Cancel(r)
  BY <1>8 DEF Harness!Cancel, Harness!TypeOK, Holder, Cached, Loading, Harness!InstalledIsPinned
<1> QED BY <1>1, <1>2, <1>3, <1>4, <1>5, <1>6, <1>7, <1>8

-----------------------------------------------------------------------------
\* Rollout: what the agent may touch, what was recorded of it, what is graded
\* and what has been paid.
Workspace ==
  /\ tree \in [Rollout!Paths -> Rollout!FileContents]
  /\ ~native => \A p \in Rollout!Paths \ Rollout!Editable : tree[p] = Rollout!StartTree[p]
Recorded ==
  collected =>
    /\ phase \in {"cleanup", "score", "grade", "run", "refused", "scored", "raised"}
    /\ IF native THEN artifacts \in Rollout!Changes
       ELSE artifacts = [p \in Rollout!Editable |-> tree[p]]
Graded ==
  /\ phase \in {"grade", "run", "refused"} => collected /\ ok /\ usage = "within"
  /\ phase = "run" => fresh = IF native THEN Rollout!Overlay ELSE Rollout!Restored
Paid ==
  /\ phase # "scored" => reward = "none"
  /\ reward \in {"part", "full"} =>
       /\ collected /\ ok /\ usage = "within"
       /\ fresh = IF native THEN Rollout!Overlay ELSE Rollout!Restored

RolloutInv ==
  /\ native \in BOOLEAN /\ ok \in BOOLEAN /\ collected \in BOOLEAN
  /\ Workspace /\ Recorded /\ Graded /\ Paid

\* A rollout that has done nothing.
LEMMA RolloutStart == Rollout!Init => RolloutInv
BY DEF Rollout!Init, RolloutInv, Workspace, Recorded, Graded, Paid, Rollout!StartTree,
   Rollout!Paths, Rollout!FileContents

\* A patch says of a path that was not tampered with what the index does.
LEMMA PatchOfPath ==
  ASSUME NEW patch \in Rollout!Changes, NEW p \in Rollout!Paths \ odd
  PROVE  /\ p \in DOMAIN patch <=> Rollout!Index[p] # Rollout!Committed[p]
         /\ p \in DOMAIN patch => patch[p] = Rollout!Index[p]
<1> DEFINE changed == {q \in Rollout!Paths \ odd : Rollout!Index[q] # Rollout!Committed[q]}
<1>1. PICK found \in UNION {[P -> Rollout!FileContents] : P \in SUBSET odd} :
        patch = [q \in changed \cup DOMAIN found |->
                   IF q \in DOMAIN found THEN found[q] ELSE Rollout!Index[q]]
  BY DEF Rollout!Changes
<1>2. p \notin DOMAIN found
  OBVIOUS
<1> HIDE DEF changed
<1>3. /\ DOMAIN patch = changed \cup DOMAIN found
      /\ p \in changed => patch[p] = Rollout!Index[p]
  BY <1>1, <1>2
<1> QED BY <1>2, <1>3 DEF changed

\* What was paid for is what git saw of what the agent left.
LEMMA RolloutPromises == RolloutInv => Rollout!EarnedByFinalState
<1> DEFINE seen(p) == p \notin hidden /\ (p \in Rollout!StartTracked \/ tree[p] # "absent")
           graded(p) == IF seen(p) \/ ~native THEN tree[p]
                        ELSE IF p \in Rollout!StartTracked THEN "absent" ELSE Rollout!StartTree[p]
<1> SUFFICES ASSUME RolloutInv, reward \in {"part", "full"}
             PROVE  /\ ok /\ usage = "within"
                    /\ native => \A p \in Rollout!Sealed : fresh[p] = "sealed"
                    /\ \A p \in Rollout!Paths \ (IF native THEN Rollout!Sealed \cup odd ELSE {}) :
                         fresh[p] = graded(p)
  BY DEF Rollout!EarnedByFinalState
<1>1. /\ collected /\ ok /\ usage = "within"
      /\ fresh = IF native THEN Rollout!Overlay ELSE Rollout!Restored
      /\ IF native THEN artifacts \in Rollout!Changes
         ELSE artifacts = [p \in Rollout!Editable |-> tree[p]]
  BY DEF RolloutInv, Paid, Recorded
<1>2. CASE native
  <2>1. fresh = Rollout!Overlay /\ artifacts \in Rollout!Changes
    BY <1>1, <1>2
  <2>2. \A p \in Rollout!Sealed : fresh[p] = "sealed"
    BY <2>1 DEF Rollout!Overlay, Rollout!Sealed, Rollout!Paths
  <2>3. ASSUME NEW p \in Rollout!Paths \ (Rollout!Sealed \cup odd)
        PROVE  fresh[p] = graded(p)
    <3>1. fresh[p] = IF Rollout!Index[p] # Rollout!Committed[p] THEN Rollout!Index[p]
                     ELSE Rollout!StartTree[p]
      BY <2>1, PatchOfPath DEF Rollout!Overlay
    <3>2. Rollout!Index[p] = IF p \in hidden THEN "absent" ELSE tree[p]
      BY DEF Rollout!Index
    <3>3. /\ Rollout!Committed[p] = IF p \in Rollout!StartTracked THEN "start" ELSE "absent"
          /\ p \in Rollout!StartTracked => Rollout!StartTree[p] = "start"
      BY DEF Rollout!Committed, Rollout!StartTree, Rollout!StartTracked
    <3> QED BY <1>2, <3>1, <3>2, <3>3
  <2> QED BY <1>1, <1>2, <2>2, <2>3
<1>3. CASE ~native
  <2>1. fresh = Rollout!Restored /\ artifacts = [p \in Rollout!Editable |-> tree[p]]
    BY <1>1, <1>3
  <2>2. \A p \in Rollout!Paths \ Rollout!Editable : tree[p] = Rollout!StartTree[p]
    BY <1>3 DEF RolloutInv, Workspace
  <2>3. \A p \in Rollout!Paths : fresh[p] = tree[p]
    BY <2>1, <2>2 DEF Rollout!Restored
  <2> QED BY <1>1, <1>3, <2>3
<1> QED BY <1>2, <1>3

\* The summaries of a run are a sequence.
Texts == UNION {[1..n -> Command!Summaries] : n \in Nat}

\* The running sums of a count over the summaries of some runners.
Running(f, text, R, c) ==
  /\ f \in [0..Len(text) -> Nat] /\ f[0] = 0
  /\ \A k \in 1..Len(text) :
       f[k] = f[k - 1] + (IF text[k].runner \in R THEN text[k][c] ELSE 0)

\* SumOf is the last of them.
LEMMA SumIsRunning ==
  ASSUME NEW text \in Texts, NEW R, NEW c \in {"passed", "failed"}
  PROVE  \E f : Running(f, text, R, c) /\ Command!SumOf(text, R, c) = f[Len(text)]
<1> PICK n \in Nat : text \in [1..n -> Command!Summaries]
  BY DEF Texts
<1>0. Len(text) = n
  OBVIOUS
<1> DEFINE add(k) == IF text[k].runner \in R THEN text[k][c] ELSE 0
           e(f, k) == IF k = 0 THEN 0 ELSE f[k - 1] + add(k)
           advance == [k \in 1..n |-> [u \in Nat |-> u + add(k)]]
<1>1. \A k \in 1..n : add(k) \in Nat
  BY DEF Command!Summaries
<1> HIDE DEF add
<1>2. advance \in [1..n -> [Nat -> Nat]]
  BY <1>1
<1>3. \A k \in 1..n, u \in Nat : advance[k][u] = u + add(k)
  OBVIOUS
<1> HIDE DEF advance, e
<1>4. PICK f : Orbit(f, n, Nat, 0, advance)
  <2>1. 0 \in Nat
    OBVIOUS
  <2> QED BY <1>2, <2>1, Iterated
<1>5. ASSUME NEW k \in 1..n
      PROVE  f[k] = f[k - 1] + add(k)
  <2>1. k - 1 \in 0..n
    OBVIOUS
  <2> QED BY <1>3, <1>4, <2>1 DEF Orbit
<1>6. \A k \in 0..n : f[k] = e(f, k)
  BY <1>4, <1>5 DEF e, Orbit
<1>7. f = [k \in 0..n |-> e(f, k)]
  BY <1>4, <1>6 DEF Orbit
<1> DEFINE Is(h) == h = [k \in 0..n |-> e(h, k)]
           sum == CHOOSE h : Is(h)
<1>8. Is(sum)
  BY <1>7 DEF e
<1>9. Command!SumOf(text, R, c) = sum[n]
  BY <1>0 DEF Command!SumOf, add, e
<1>10. sum = f
  <2> HIDE DEF sum
  <2>1. \A k \in 0..n : sum[k] = e(sum, k)
    <3> HIDE DEF e
    <3> QED BY <1>8
  <2> DEFINE Bad == {k \in 0..n : sum[k] # f[k]}
  <2>2. Bad = {}
    <3> SUFFICES ASSUME Bad # {} PROVE FALSE
      OBVIOUS
    <3>0. Bad \subseteq Nat
      OBVIOUS
    <3>1. PICK m \in Bad : \A k \in Bad : m <= k
      <4> HIDE DEF Bad
      <4> QED BY <3>0, LeastNat
    <3>2. m \in 0..n /\ m # 0
      BY <2>1, <1>6 DEF e
    <3>3. m - 1 \in 0..n /\ m - 1 \notin Bad
      BY <3>1, <3>2
    <3>4. sum[m] = f[m - 1] + add(m)
      BY <2>1, <3>2, <3>3 DEF e
    <3> QED BY <3>1, <3>4, <3>2, <1>6 DEF e
  <2>3. sum = [k \in 0..n |-> sum[k]] /\ f = [k \in 0..n |-> f[k]]
    BY <1>4, <1>8 DEF Orbit, sum
  <2> QED BY <2>2, <2>3
<1>11. Running(f, text, R, c)
  BY <1>0, <1>4, <1>5 DEF Running, add, Orbit
<1> QED BY <1>0, <1>9, <1>10, <1>11

\* No count of one summary, and no sum over fewer runners, is above the sum over
\* all of them.
LEMMA SumBounds ==
  ASSUME NEW text \in Texts, NEW c \in {"passed", "failed"}
  PROVE  /\ \A R : Command!SumOf(text, R, c) <= Command!SumOf(text, Runners, c)
         /\ \A R : Command!SumOf(text, R, c) \in Nat
         /\ \A i \in DOMAIN text : text[i][c] <= Command!SumOf(text, Runners, c)
<1> PICK n \in Nat : text \in [1..n -> Command!Summaries]
  BY DEF Texts
<1>0. Len(text) = n /\ DOMAIN text = 1..n
  OBVIOUS
<1>1. \A k \in 1..n : text[k].runner \in Runners /\ text[k][c] \in Nat
  BY DEF Command!Summaries
<1>2. PICK all : Running(all, text, Runners, c) /\ Command!SumOf(text, Runners, c) = all[n]
  BY <1>0, SumIsRunning
<1>3. \A k \in 0..n : all[k] \in Nat
  BY <1>0, <1>2 DEF Running
<1>4. \A k \in 1..n : k - 1 \in 0..n /\ all[k] = all[k - 1] + text[k][c]
  BY <1>0, <1>1, <1>2 DEF Running
<1>5. ASSUME NEW R
      PROVE  Command!SumOf(text, R, c) \in Nat /\ Command!SumOf(text, R, c) <= all[n]
  <2>1. PICK f : Running(f, text, R, c) /\ Command!SumOf(text, R, c) = f[n]
    BY <1>0, SumIsRunning
  <2>2. \A k \in 0..n : f[k] \in Nat
    BY <1>0, <2>1 DEF Running
  <2>3. f[0] = 0 /\ all[0] = 0
    BY <1>2, <2>1 DEF Running
  <2>4. \A k \in 1..n : f[k] = f[k - 1] \/ f[k] = f[k - 1] + text[k][c]
    <3> SUFFICES ASSUME NEW k \in 1..n
                 PROVE  f[k] = f[k - 1] \/ f[k] = f[k - 1] + text[k][c]
      OBVIOUS
    <3>1. f[k] = f[k - 1] + (IF text[k].runner \in R THEN text[k][c] ELSE 0)
      BY <1>0, <2>1 DEF Running
    <3>2. f[k - 1] \in Nat
      BY <1>4, <2>2
    <3> QED BY <3>1, <3>2
  <2> DEFINE Bad == {k \in 0..n : ~(f[k] <= all[k])}
  <2>5. Bad = {}
    <3> SUFFICES ASSUME Bad # {} PROVE FALSE
      OBVIOUS
    <3>0. Bad \subseteq Nat
      OBVIOUS
    <3>1. PICK m \in Bad : \A k \in Bad : m <= k
      <4> HIDE DEF Bad
      <4> QED BY <3>0, LeastNat
    <3>2. m \in 1..n
      BY <2>3
    <3>3. m - 1 \in 0..n /\ m - 1 \notin Bad
      BY <3>1, <3>2
    <3>4. f[m - 1] \in Nat /\ all[m - 1] \in Nat /\ f[m - 1] <= all[m - 1]
      BY <3>3, <1>3, <2>2
    <3> QED BY <3>2, <3>4, <2>4, <1>4, <1>1
  <2>6. n \in 0..n
    OBVIOUS
  <2> QED BY <2>1, <2>2, <2>5, <2>6
<1>6. ASSUME NEW i \in 1..n
      PROVE  text[i][c] <= all[n]
  <2> DEFINE Bad == {k \in 0..n : k >= i /\ ~(text[i][c] <= all[k])}
  <2>1. Bad = {}
    <3> SUFFICES ASSUME Bad # {} PROVE FALSE
      OBVIOUS
    <3>0. Bad \subseteq Nat
      OBVIOUS
    <3>1. PICK m \in Bad : \A k \in Bad : m <= k
      <4> HIDE DEF Bad
      <4> QED BY <3>0, LeastNat
    <3>2. m \in 1..n /\ m - 1 \in 0..n /\ m >= i /\ m - 1 \notin Bad
      BY <3>1
    <3>3. all[m - 1] \in Nat /\ text[m][c] \in Nat /\ text[i][c] \in Nat
          /\ all[m] = all[m - 1] + text[m][c]
      BY <3>2, <1>1, <1>3, <1>4
    <3>4. CASE m = i
      BY <3>1, <3>3, <3>4
    <3>5. CASE m # i
      <4>1. m - 1 >= i
        BY <3>2, <3>5
      <4>2. text[i][c] <= all[m - 1]
        BY <3>2, <4>1
      <4> QED BY <3>1, <3>3, <4>2
    <3> QED BY <3>4, <3>5
  <2>2. n \in 0..n /\ n >= i
    OBVIOUS
  <2> QED BY <2>1, <2>2
<1> QED BY <1>0, <1>2, <1>5, <1>6

\* A reward that is not zero is one of a command that exited as the tests do,
\* and a full one of a run without a failure.
LEMMA FullGrade ==
  ASSUME NEW o \in Command!Outcomes, NEW e \in Nat \ {0},
         NEW g, g = Command!Grade(o, e), g.num # 0
  PROVE  /\ o.exit \notin {"patch", "overlay"}
         /\ Command!FullReward(g) =>
              /\ o.exit = "zero" /\ ~o.timedOut
              /\ ~o.recognized => e = 1
              /\ o.recognized => o.passed >= e /\ o.failed = 0
<1> USE DEF Command!Zero
<1>1. ~o.timedOut /\ o.exit \notin {"patch", "overlay"}
  BY DEF Command!Grade
<1>2. CASE ~o.recognized
  BY <1>1, <1>2 DEF Command!Grade, Command!GradeByExitCode
<1>3. CASE o.recognized
  <2>1. g = Command!GradeByCounts(o, e)
    BY <1>1, <1>3 DEF Command!Grade
  <2>2. /\ ~(Command!Total(o) < e) /\ Command!Total(o) # 0
        /\ ~(o.exit # "zero" /\ Command!Bad(o) = 0)
        /\ g.num = o.passed /\ g.den = Command!Total(o)
    BY <2>1 DEF Command!GradeByCounts
  <2>3. o.passed \in Nat /\ o.failed \in Nat /\ o.errors \in Nat
    BY DEF Command!Outcomes
  <2> QED BY <1>1, <1>3, <2>2, <2>3 DEF Command!Total, Command!Bad, Command!FullReward
<1> QED BY <1>2, <1>3

\* What one parser finds is not more than the run did.
LEMMA CountsBound ==
  ASSUME NEW text \in Texts, NEW r
  PROVE  LET n == Command!CountsOf(r, text)
         IN  /\ n.found \in BOOLEAN /\ n.passed \in Nat /\ n.failed \in Nat
             /\ ~n.found => n.failed = 0
             /\ n.passed <= Command!SumOf(text, Runners, "passed")
<1> DEFINE mine == {i \in DOMAIN text : text[i].runner = r}
           of(f) == IF r \in Command!Summed THEN Command!SumOf(text, {r}, f)
                    ELSE text[Command!SE!Max(mine)][f]
           found == mine # {} /\ ~(r \in {"pytest", "go"} /\ of("passed") + of("failed") = 0)
<1>1. Command!CountsOf(r, text) =
        [found |-> found, passed |-> IF found THEN of("passed") ELSE 0,
         failed |-> IF found THEN of("failed") ELSE 0]
  BY DEF Command!CountsOf
<1>2. Command!SumOf(text, Runners, "passed") \in Nat
  BY SumBounds
<1>3. ASSUME mine # {}
      PROVE  /\ of("passed") \in Nat /\ of("failed") \in Nat
             /\ of("passed") <= Command!SumOf(text, Runners, "passed")
  <2>1. CASE r \in Command!Summed
    BY <2>1, SumBounds
  <2>2. CASE r \notin Command!Summed
    <3> PICK n \in Nat : text \in [1..n -> Command!Summaries]
      BY DEF Texts
    <3>1. mine \subseteq 0..n
      OBVIOUS
    <3>2. PICK m \in mine : \A i \in mine : m >= i
      <4> HIDE DEF mine
      <4> QED BY <1>3, <3>1, LargestOf
    <3> PICK last : last = Command!SE!Max(mine)
      OBVIOUS
    <3>3. last \in mine
      <4> HIDE DEF mine
      <4> QED BY <3>2 DEF Command!SE!Max
    <3>4. last \in DOMAIN text /\ text[last] \in Command!Summaries
      BY <3>3
    <3>5. text[last]["passed"] \in Nat /\ text[last]["failed"] \in Nat
      BY <3>4 DEF Command!Summaries
    <3>6. text[last]["passed"] <= Command!SumOf(text, Runners, "passed")
      BY <3>4, SumBounds
    <3> QED BY <2>2, <3>5, <3>6
  <2> QED BY <2>1, <2>2
<1> HIDE DEF of
<1>4. CASE found
  <2>1. Command!CountsOf(r, text) = [found |-> TRUE, passed |-> of("passed"), failed |-> of("failed")]
    BY <1>1, <1>4
  <2> QED BY <1>3, <1>4, <2>1
<1>5. CASE ~found
  <2>1. Command!CountsOf(r, text) = [found |-> FALSE, passed |-> 0, failed |-> 0]
    BY <1>1, <1>5
  <2> QED BY <1>2, <2>1
<1> QED BY <1>4, <1>5

\* Nor is what parse_test_output returns.
LEMMA ParsedBound ==
  ASSUME NEW text \in Texts
  PROVE  LET n == Command!Parsed(text)
         IN  /\ n.found \in BOOLEAN /\ n.passed \in Nat /\ n.failed \in Nat
             /\ ~n.found => n.failed = 0
             /\ n.passed <= Command!SumOf(text, Runners, "passed")
<1> DEFINE finders == {i \in DOMAIN Command!Parsers : Command!CountsOf(Command!Parsers[i], text).found}
<1>1. CASE finders = {}
  <2>1. Command!Parsed(text) = [found |-> FALSE, passed |-> 0, failed |-> 0]
    BY <1>1 DEF Command!Parsed
  <2> QED BY <2>1, SumBounds
<1>2. CASE finders # {}
  <2>1. \E r : Command!Parsed(text) = Command!CountsOf(r, text)
    BY <1>2 DEF Command!Parsed
  <2> QED BY <2>1, CountsBound
<1> QED BY <1>1, <1>2

\* The output of a command has its summaries in order.
LEMMA OutputTexts == \A o \in Command!Outputs : o.text \in Texts
<1> SUFFICES ASSUME NEW o \in Command!Outputs PROVE o.text \in Texts
  OBVIOUS
<1>1. o.text \in Command!SE!BoundedSeq(Command!Summaries, Command!MaxRuns)
  BY DEF Command!Outputs
<1>2. \A m \in 0..2 : m \in Nat
  OBVIOUS
<1> QED BY <1>1, <1>2 DEF Texts, Command!MaxRuns, Command!SE!BoundedSeq, Command!SE!SeqOf

\* A command with a full reward is a full run.
LEMMA Rewarded ==
  ASSUME Command!CommandAssumption, NEW o \in Command!CommandOutputs, Command!RewardOf(o) = "full"
  PROVE  /\ o.exit = "zero" /\ ~o.timedOut
         /\ Command!Parsed(o.text).failed = 0
         /\ o.chained => \A i \in DOMAIN o.text : o.text[i].failed = 0
         /\ Expected = 1 \/ Command!SumOf(o.text, Runners, "passed") >= Expected
<1> PICK n : n = Command!Parsed(o.text)
  OBVIOUS
<1> DEFINE c == [exit |-> o.exit, timedOut |-> o.timedOut, recognized |-> n.found,
                 passed |-> n.passed, failed |-> n.failed, errors |-> 0]
           g == Command!Grade(c, Expected)
<1>0. Expected \in Nat \ {0} /\ o \in Command!Outputs
  BY DEF Command!CommandAssumption, Command!CommandOutputs
<1>1. o.exit \in Command!ExitCodes /\ o.timedOut \in BOOLEAN
  BY <1>0 DEF Command!Outputs
<1>2. o.text \in Texts
  BY <1>0, OutputTexts
<1>3. /\ n.found \in BOOLEAN /\ n.passed \in Nat /\ n.failed \in Nat
      /\ ~n.found => n.failed = 0
      /\ n.passed <= Command!SumOf(o.text, Runners, "passed")
  BY <1>2, ParsedBound
<1>4. c \in Command!Outcomes
  BY <1>1, <1>3 DEF Command!Outcomes
<1>5. Command!GradeOf(o) = g
  BY DEF Command!GradeOf
<1>6. g.num # 0 /\ Command!FullReward(g)
  BY <1>5 DEF Command!RewardOf
<1>7. c.exit = o.exit /\ c.passed = n.passed /\ c.failed = n.failed
  OBVIOUS
<1>8. (c.timedOut <=> o.timedOut) /\ (c.recognized <=> n.found)
  OBVIOUS
<1> HIDE DEF c
<1>9. /\ c.exit = "zero" /\ ~c.timedOut
      /\ ~c.recognized => Expected = 1
      /\ c.recognized => c.passed >= Expected /\ c.failed = 0
  BY <1>0, <1>4, <1>6, FullGrade
<1>10. Command!SumOf(o.text, Runners, "passed") \in Nat
  BY <1>2, SumBounds
<1> HIDE DEF g
<1>11. n.failed = 0 /\ (Expected = 1 \/ n.passed >= Expected)
  BY <1>3, <1>7, <1>8, <1>9
<1>12. Expected = 1 \/ Command!SumOf(o.text, Runners, "passed") >= Expected
  BY <1>0, <1>3, <1>10, <1>11
<1>13. o.exit = "zero" /\ ~o.timedOut
  BY <1>7, <1>8, <1>9
<1>14. o.chained => \A i \in DOMAIN o.text : o.text[i].failed \in Nat /\ ~(o.text[i].failed > 0)
  BY <1>2, <1>13 DEF Texts, Command!Summaries, Command!CommandOutputs
<1> QED BY <1>11, <1>12, <1>13, <1>14

\* What has been paid is a reward, and a full one for a full run.
CommandInv == Command!TypeOK /\ Command!FullRewardIsFullRun

\* Nothing has been paid.
LEMMA CommandStart == Command!Init => CommandInv
BY DEF Command!Init, CommandInv, Command!TypeOK, Command!FullRewardIsFullRun

\* Every step of the sealed command keeps that.
LEMMA CommandStep ==
  ASSUME Command!CommandAssumption, CommandInv, Command!Next
  PROVE  CommandInv'
<1>1. /\ output' = output /\ output \in Command!CommandOutputs
      /\ paid' = Command!RewardOf(output)
  BY DEF CommandInv, Command!TypeOK, Command!Next, Command!Pay
<1>2. Command!TypeOK'
  BY <1>1 DEF Command!TypeOK, Command!RewardOf
<1>3. Command!FullRewardIsFullRun'
  BY <1>1, Rewarded DEF Command!FullRewardIsFullRun
<1> QED BY <1>2, <1>3 DEF CommandInv

\* Every step of a rollout keeps its invariant: nothing changes what the agent
\* left, and what is graded is what was recorded of it.
LEMMA RolloutStep ==
  ASSUME RolloutInv, Rollout!Next
  PROVE  RolloutInv'
<1> DEFINE Same == UNCHANGED <<tree, hidden, odd, native>>
<1>0. /\ native \in BOOLEAN /\ ok \in BOOLEAN /\ collected \in BOOLEAN
      /\ Workspace /\ Recorded /\ Graded /\ Paid
  BY DEF RolloutInv
<1> USE DEF Rollout!agentVars, Rollout!gradingVars, Rollout!Raise
\* The steps of the agent.
<1>1. CASE \/ \E p \in Rollout!Paths : Rollout!Work(p) \/ Rollout!Remove(p) \/ Rollout!Tamper(p)
           \/ Rollout!UseGit
  <2>1. /\ phase = "agent"
        /\ UNCHANGED <<phase, native, ok, usage, collected, artifacts, fresh, reward>>
    BY <1>1 DEF Rollout!Work, Rollout!Remove, Rollout!Tamper, Rollout!UseGit
  <2>2. Workspace'
    <3>1. CASE \E p \in Rollout!Paths : Rollout!Work(p)
      BY <1>0, <3>1 DEF Rollout!Work, Rollout!MayWrite, Workspace, Rollout!FileContents
    <3>2. CASE \E p \in Rollout!Paths : Rollout!Remove(p)
      BY <1>0, <3>2 DEF Rollout!Remove, Workspace, Rollout!FileContents
    <3>3. CASE Rollout!UseGit \/ \E p \in Rollout!Paths : Rollout!Tamper(p)
      BY <1>0, <3>3 DEF Rollout!UseGit, Rollout!Tamper, Workspace
    <3> QED BY <1>1, <3>1, <3>2, <3>3
  <2>3. Recorded' /\ Graded' /\ Paid'
    BY <1>0, <2>1 DEF Recorded, Graded, Paid
  <2> QED BY <1>0, <2>1, <2>2, <2>3 DEF RolloutInv
\* The other steps leave the workspace alone.
<1>2. ASSUME Same PROVE Workspace' /\ Rollout!Changes' = Rollout!Changes
  BY <1>0, <1>2 DEF Workspace, Rollout!Changes, Rollout!Index
<1>3. CASE Rollout!Setup \/ Rollout!Install \/ Rollout!Launch \/ Rollout!AgentEnds \/ Rollout!Cleanup
  <2>1. /\ phase \in {"setup", "install", "launch", "agent", "cleanup"}
        /\ phase' \in {"install", "launch", "agent", "finalize", "cleanup", "score"}
        /\ ok' \in BOOLEAN
        /\ phase = "cleanup" => phase' = "score"
        /\ Same /\ UNCHANGED <<collected, artifacts, fresh, reward>>
    BY <1>0, <1>3 DEF Rollout!Setup, Rollout!Install, Rollout!Launch, Rollout!AgentEnds, Rollout!Cleanup
  <2>2. Recorded' /\ Graded' /\ Paid'
    BY <1>0, <1>2, <2>1 DEF Recorded, Graded, Paid
  <2> QED BY <1>0, <1>2, <2>1, <2>2 DEF RolloutInv
<1>4. CASE Rollout!Finalize
  <2>1. /\ phase = "finalize" /\ phase' = "cleanup" /\ Same
        /\ UNCHANGED <<usage, fresh, reward>>
    BY <1>4 DEF Rollout!Finalize
  <2>2. ok' \in BOOLEAN /\ collected' \in BOOLEAN
    BY <1>0, <1>4 DEF Rollout!Finalize
  <2>3. \/ collected' = collected /\ artifacts' = artifacts
        \/ native /\ artifacts' \in Rollout!Changes
        \/ ~native /\ artifacts' = [p \in Rollout!Editable |-> tree[p]]
    BY <1>4 DEF Rollout!Finalize
  <2>4. ~collected
    BY <1>0, <2>1 DEF Recorded
  <2>5. Recorded' /\ Graded' /\ Paid'
    BY <1>0, <1>2, <2>1, <2>3, <2>4 DEF Recorded, Graded, Paid
  <2> QED BY <1>0, <1>2, <2>1, <2>2, <2>5 DEF RolloutInv
<1>5. CASE Rollout!Score
  <2>1. /\ phase = "score" /\ Same /\ UNCHANGED <<usage, collected, artifacts, fresh>>
        /\ ok' = (ok /\ usage = "within")
    BY <1>5 DEF Rollout!Score
  <2>2. \/ phase' = "scored" /\ reward' = "zero"
        \/ phase' = "raised" /\ reward' = reward
        \/ ~Rollout!Worthless /\ collected /\ phase' = "grade" /\ reward' = reward
    BY <1>5 DEF Rollout!Score
  <2>3. reward = "none"
    BY <1>0, <2>1 DEF Paid
  <2>4. ok' \in BOOLEAN
    BY <2>1
  <2>5. Recorded' /\ Paid'
    BY <1>0, <1>2, <2>1, <2>2, <2>3 DEF Recorded, Paid
  <2>6. phase' = "grade" => collected' /\ ok' /\ usage' = "within"
    BY <2>1, <2>2, Zenon DEF Rollout!Worthless
  <2>7. Graded'
    BY <2>2, <2>6 DEF Graded
  <2> QED BY <1>0, <1>2, <2>1, <2>4, <2>5, <2>7 DEF RolloutInv
<1>6. CASE Rollout!GradeRaises
  <2>1. /\ phase \in {"grade", "run", "refused"} /\ phase' = "raised" /\ Same
        /\ UNCHANGED <<ok, usage, collected, artifacts, fresh, reward>>
    BY <1>6 DEF Rollout!GradeRaises
  <2>2. Recorded' /\ Graded' /\ Paid'
    BY <1>0, <1>2, <2>1 DEF Recorded, Graded, Paid
  <2> QED BY <1>0, <1>2, <2>1, <2>2 DEF RolloutInv
<1>7. CASE Rollout!StageGrading
  <2>1. /\ phase = "grade" /\ phase' \in {"run", "refused"} /\ Same
        /\ UNCHANGED <<ok, usage, collected, artifacts, reward>>
        /\ phase' = "run" => fresh' = IF native THEN Rollout!Overlay ELSE Rollout!Restored
    BY <1>7 DEF Rollout!StageGrading
  <2>2. reward = "none"
    BY <1>0, <2>1 DEF Paid
  <2>3. Recorded' /\ Paid'
    BY <1>0, <1>2, <2>1, <2>2 DEF Recorded, Paid
  <2>4. Graded'
    BY <1>0, <2>1 DEF Graded, Rollout!Restored, Rollout!Overlay
  <2> QED BY <1>0, <1>2, <2>1, <2>3, <2>4 DEF RolloutInv
<1>8. CASE Rollout!RunCommand \/ Rollout!RunCases
  <2>1. /\ phase \in {"run", "refused"} /\ phase' = "scored" /\ Same
        /\ reward' \in {"part", "full"} => phase = "run"
        /\ UNCHANGED <<ok, usage, collected, artifacts, fresh>>
    BY <1>8 DEF Rollout!RunCommand, Rollout!RunCases
  <2>2. /\ collected /\ ok /\ usage = "within"
        /\ phase = "run" => fresh = IF native THEN Rollout!Overlay ELSE Rollout!Restored
    BY <1>0, <2>1 DEF Graded
  <2>3. Rollout!Overlay' = Rollout!Overlay /\ Rollout!Restored' = Rollout!Restored
    BY <2>1 DEF Rollout!Overlay, Rollout!Restored
  <2>4. Recorded' /\ Graded'
    BY <1>0, <1>2, <2>1 DEF Recorded, Graded
  <2>5. Paid'
    BY <2>1, <2>2, <2>3 DEF Paid
  <2> QED BY <1>0, <1>2, <2>1, <2>4, <2>5 DEF RolloutInv
<1> QED BY <1>1, <1>3, <1>4, <1>5, <1>6, <1>7, <1>8 DEF Rollout!Next

-----------------------------------------------------------------------------
\* Benchmarks: the numbers a row divides by.
Positive == Nat \ {0}

\* The products that the binomial coefficients and the leaderboard need.
LEMMA Products ==
  /\ \A a, b \in Nat : a * b \in Nat /\ a * b = b * a
  /\ \A a, b \in Positive : a * b \in Positive
  /\ \A a, b, c \in Nat : (a * b) * c = a * (b * c)
  /\ \A a, b, c \in Nat : (a + b) * c = a * c + b * c
<1>1. \A a, b \in Nat : a * b \in Nat /\ a * b = b * a
  OBVIOUS
<1>2. \A a, b \in Positive : a * b \in Positive
  BY DEF Positive
<1>3. \A a, b, c \in Nat : (a * b) * c = a * (b * c)
  OBVIOUS
<1>4. \A a, b, c \in Nat : (a + b) * c = a * c + b * c
  OBVIOUS
<1> QED BY <1>1, <1>2, <1>3, <1>4

\* Dividing takes a factor away.
LEMMA Quotient == \A a \in Nat, b \in Positive : (a * b) \div b = a
<1> SUFFICES ASSUME NEW a \in Nat, NEW b \in Positive PROVE (a * b) \div b = a
  OBVIOUS
<1>1. b \in Int /\ b > 0 /\ a * b \in Int
  BY DEF Positive
<1> QED BY <1>1, SMTT(30) DEF Positive

\* The factorials of the estimator.
Factorial == Bench!Comb!factorial

\* They start with one, each is its number times the one before, and none is 0.
LEMMA FactorialIs ==
  /\ Factorial[0] = 1
  /\ \A n \in Nat : Factorial[n] \in Positive /\ Factorial[n + 1] = (n + 1) * Factorial[n]
<1> DEFINE Good(g, n) == /\ g \in [0..n -> Positive] /\ g[0] = 1
                         /\ \A k \in 1..n : g[k] = k * g[k - 1]
           G(n) == CHOOSE g : Good(g, n)
           f == [n \in Nat |-> G(n)[n]]
<1>1. ASSUME NEW n \in Nat PROVE Good(G(n), n)
  <2> DEFINE advance == [k \in 1..n |-> [x \in Positive |-> k * x]]
  <2>1. \A k \in 1..n, x \in Positive : k * x \in Positive
    BY Products DEF Positive
  <2>2. advance \in [1..n -> [Positive -> Positive]] /\ \A k \in 1..n, x \in Positive : advance[k][x] = k * x
    BY <2>1
  <2> HIDE DEF advance
  <2>3. 1 \in Positive
    BY DEF Positive
  <2>4. PICK g : Orbit(g, n, Positive, 1, advance)
    BY <2>2, <2>3, Iterated
  <2>5. ASSUME NEW k \in 1..n PROVE g[k] = k * g[k - 1]
    <3>1. k - 1 \in 0..n
      OBVIOUS
    <3>2. g[k] = advance[k][g[k - 1]] /\ g[k - 1] \in Positive
      BY <2>4, <3>1 DEF Orbit
    <3> QED BY <2>2, <3>2
  <2>6. Good(g, n)
    BY <2>4, <2>5 DEF Orbit
  <2> QED BY <2>6
<1> HIDE DEF G
<1>2. ASSUME NEW n \in Nat PROVE G(n + 1)[n] = G(n)[n]
  <2> PICK g, h : g = G(n) /\ h = G(n + 1)
    OBVIOUS
  <2>1. Good(g, n) /\ Good(h, n + 1)
    BY <1>1
  <2> DEFINE Bad == {k \in 0..n : g[k] # h[k]}
  <2>2. Bad = {}
    <3> SUFFICES ASSUME Bad # {} PROVE FALSE
      OBVIOUS
    <3>1. Bad \subseteq Nat
      OBVIOUS
    <3>2. PICK m \in Bad : \A k \in Bad : m <= k
      <4> HIDE DEF Bad
      <4> QED BY <3>1, LeastNat
    <3>3. m # 0 /\ m \in 1..n /\ m \in 1..(n + 1) /\ m - 1 \in 0..n /\ m - 1 \notin Bad
      BY <2>1, <3>2
    <3>4. g[m] = m * g[m - 1] /\ h[m] = m * h[m - 1] /\ g[m - 1] = h[m - 1]
      BY <2>1, <3>3
    <3> QED BY <3>2, <3>4
  <2>3. g[n] = h[n]
    BY <2>2
  <2> QED BY <2>3
<1>3. \A n \in Nat : f[n] \in Positive
  <2> SUFFICES ASSUME NEW n \in Nat PROVE G(n)[n] \in Positive
    OBVIOUS
  <2>1. Good(G(n), n) /\ n \in 0..n
    BY <1>1
  <2> QED BY <2>1
<1>4. \A n \in Nat : f[n + 1] = (n + 1) * f[n]
  <2> SUFFICES ASSUME NEW n \in Nat PROVE G(n + 1)[n + 1] = (n + 1) * G(n)[n]
    OBVIOUS
  <2>1. Good(G(n + 1), n + 1) /\ n + 1 \in 1..(n + 1) /\ (n + 1) - 1 = n
    BY <1>1
  <2> QED BY <1>2, <2>1
<1>5. f[0] = 1
  <2>1. Good(G(0), 0)
    BY <1>1
  <2> QED BY <2>1
<1> DEFINE e(h, n) == IF n = 0 THEN 1 ELSE n * h[n - 1]
<1>6. \A n \in Nat : f[n] = e(f, n)
  <2> SUFFICES ASSUME NEW n \in Nat, n # 0 PROVE f[n] = n * f[n - 1]
    BY <1>5
  <2>1. n - 1 \in Nat /\ (n - 1) + 1 = n
    OBVIOUS
  <2> HIDE DEF f
  <2> QED BY <1>4, <2>1
<1> HIDE DEF e
<1>7. f = [n \in Nat |-> e(f, n)]
  BY <1>6
<1> HIDE DEF f, Good
<1> DEFINE Is(h) == h = [n \in Nat |-> e(h, n)]
<1>8. Factorial = CHOOSE h : Is(h)
  BY DEF Factorial, Bench!Comb!factorial, e
<1>9. Is(Factorial)
  BY <1>7, <1>8
<1> PICK F : F = Factorial
  OBVIOUS
<1>10. \A n \in Nat : F[n] = e(F, n)
  BY <1>9
<1>11. F[0] = 1 /\ \A n \in Nat : F[n + 1] = (n + 1) * F[n]
  <2>1. \A n \in Nat : n + 1 \in Nat /\ n + 1 # 0 /\ (n + 1) - 1 = n
    OBVIOUS
  <2> QED BY <1>10, <2>1 DEF e
<1>12. \A n \in Nat : F[n] \in Positive
  <2> DEFINE Bad == {n \in Nat : F[n] \notin Positive}
  <2> SUFFICES ASSUME Bad # {} PROVE FALSE
    OBVIOUS
  <2>1. Bad \subseteq Nat
    OBVIOUS
  <2>2. PICK m \in Bad : \A k \in Bad : m <= k
    <3> HIDE DEF Bad
    <3> QED BY <2>1, LeastNat
  <2>3. m # 0 /\ m \in Nat
    BY <1>11, <2>2 DEF Positive
  <2>4. m - 1 \in Nat /\ (m - 1) + 1 = m /\ ~(m <= m - 1)
    BY <2>3
  <2>5. F[m - 1] \in Positive /\ F[m] = m * F[m - 1]
    BY <1>11, <2>2, <2>4
  <2> QED BY <2>2, <2>3, <2>5, Products DEF Positive
<1> QED BY <1>11, <1>12

\* The subsets of a size, counted: as many as the binomial coefficient.
OfSize(k, S) == {s \in SUBSET S : Cardinality(s) = k}
SizeLaw(S, k, n) ==
  /\ IsFiniteSet(OfSize(k, S)) /\ Cardinality(OfSize(k, S)) \in Nat
  /\ Cardinality(OfSize(k, S)) * (Factorial[k] * Factorial[n - k]) = Factorial[n]

\* One subset has no member, one has all.
LEMMA SizeEnds ==
  ASSUME NEW n \in Nat, NEW S, IsFiniteSet(S), Cardinality(S) = n
  PROVE  SizeLaw(S, 0, n) /\ SizeLaw(S, n, n)
<1>1. OfSize(0, S) = {{}}
  <2>1. \A s \in SUBSET S : Cardinality(s) = 0 <=> s = {}
    BY FS_Subset, FS_EmptySet
  <2> QED BY <2>1 DEF OfSize
<1>2. OfSize(n, S) = {S}
  <2>1. \A s \in SUBSET S : Cardinality(s) = n <=> s = S
    BY FS_Subset
  <2> QED BY <2>1 DEF OfSize
<1>3. \A x : IsFiniteSet({x}) /\ Cardinality({x}) = 1
  BY FS_Singleton
<1>4. Factorial[0] = 1 /\ Factorial[n] \in Positive /\ n - 0 = n /\ n - n = 0
  BY FactorialIs
<1>5. \A x \in Positive : 1 * (1 * x) = x /\ 1 * (x * 1) = x
  BY DEF Positive
<1>6. SizeLaw(S, 0, n)
  <2>1. IsFiniteSet(OfSize(0, S)) /\ Cardinality(OfSize(0, S)) = 1
    BY <1>1, <1>3
  <2>2. 1 * (Factorial[0] * Factorial[n - 0]) = Factorial[n]
    BY <1>4, <1>5
  <2> QED BY <2>1, <2>2 DEF SizeLaw
<1>7. SizeLaw(S, n, n)
  <2>1. IsFiniteSet(OfSize(n, S)) /\ Cardinality(OfSize(n, S)) = 1
    BY <1>2, <1>3
  <2>2. 1 * (Factorial[n] * Factorial[n - n]) = Factorial[n]
    BY <1>4, <1>5
  <2> QED BY <2>1, <2>2 DEF SizeLaw
<1> QED BY <1>6, <1>7

\* A subset has a further member or has it not.
LEMMA SizeStep ==
  ASSUME NEW n \in Nat, NEW R, IsFiniteSet(R), Cardinality(R) = n, NEW x, x \notin R,
         NEW k \in 1..n, SizeLaw(R, k, n), SizeLaw(R, k - 1, n)
  PROVE  SizeLaw(R \cup {x}, k, n + 1)
<1> DEFINE A == OfSize(k, R)
           L == OfSize(k - 1, R)
           B == {s \cup {x} : s \in L}
<1>1. \A s \in SUBSET R : IsFiniteSet(s) /\ Cardinality(s) \in Nat
                         /\ Cardinality(s \cup {x}) = Cardinality(s) + 1
  <2> TAKE s \in SUBSET R
  <2>1. IsFiniteSet(s) /\ x \notin s
    BY FS_Subset
  <2> QED BY <2>1, FS_AddElement, FS_CardinalityType
<1>2. OfSize(k, R \cup {x}) = A \cup B
  <2>1. ASSUME NEW s \in OfSize(k, R \cup {x}) PROVE s \in A \cup B
    <3>1. CASE x \notin s
      BY <2>1, <3>1 DEF OfSize
    <3>2. CASE x \in s
      <4> PICK t : t = s \ {x}
        OBVIOUS
      <4>1. t \in SUBSET R /\ s = t \cup {x} /\ Cardinality(s) = k
        BY <2>1, <3>2 DEF OfSize
      <4>2. Cardinality(t) = k - 1
        <5>1. Cardinality(t) \in Nat /\ k = Cardinality(t) + 1
          BY <1>1, <4>1
        <5> QED BY <5>1
      <4> QED BY <4>1, <4>2 DEF OfSize
    <3> QED BY <3>1, <3>2
  <2>2. ASSUME NEW s \in A PROVE s \in OfSize(k, R \cup {x})
    BY <2>2 DEF OfSize
  <2>3. ASSUME NEW t \in L PROVE t \cup {x} \in OfSize(k, R \cup {x})
    <3>1. t \in SUBSET R /\ Cardinality(t) = k - 1
      BY <2>3 DEF OfSize
    <3>2. Cardinality(t \cup {x}) = k
      <4>1. Cardinality(t \cup {x}) = (k - 1) + 1
        BY <1>1, <3>1
      <4> QED BY <4>1
    <3> QED BY <3>1, <3>2 DEF OfSize
  <2> QED BY <2>1, <2>2, <2>3
<1>3. IsFiniteSet(A) /\ IsFiniteSet(L) /\ Cardinality(A) \in Nat /\ Cardinality(L) \in Nat
  BY DEF SizeLaw
<1>4. IsFiniteSet(B) /\ Cardinality(B) = Cardinality(L)
  <2> DEFINE h == [s \in L |-> s \cup {x}]
  <2>1. \A s, t \in L : s \cup {x} = t \cup {x} => s = t
    BY DEF OfSize
  <2>2. h \in Bijection(L, B)
    <3>1. h \in [L -> B] /\ (\A b \in B : \E s \in L : h[s] = b) /\ \A s, t \in L : h[s] = h[t] => s = t
      BY <2>1
    <3> HIDE DEF h, L, B
    <3> QED BY <3>1 DEF Bijection, Injection, Surjection, IsInjective
  <2> HIDE DEF h, L, B
  <2> QED BY <1>3, <2>2, FS_Bijection DEF ExistsBijection
<1>5. A \cap B = {}
  BY DEF OfSize
<1>6. IsFiniteSet(A \cup B) /\ Cardinality(A \cup B) = Cardinality(A) + Cardinality(B)
  <2>0. IsFiniteSet(A \cap B) /\ Cardinality(A \cap B) = 0
    BY <1>5, FS_EmptySet
  <2> HIDE DEF A, B
  <2>1. IsFiniteSet(A \cup B) /\ Cardinality(A \cup B) = Cardinality(A) + Cardinality(B) - Cardinality(A \cap B)
    BY <1>3, <1>4, FS_Union
  <2> QED BY <1>3, <1>4, <2>0, <2>1
<1> PICK a, b, F, fk, fj, rest, whole :
      /\ a = Cardinality(A) /\ b = Cardinality(L) /\ F = Factorial
      /\ fk = Factorial[k] /\ fj = Factorial[k - 1] /\ rest = Factorial[n - k] /\ whole = Factorial[n]
  OBVIOUS
<1> PICK j, r : j = k - 1 /\ r = n - k
  OBVIOUS
<1>7. /\ j \in Nat /\ r \in Nat /\ k = j + 1 /\ n - (k - 1) = r + 1 /\ (n + 1) - k = r + 1
      /\ n = r + k /\ k \in Nat
  OBVIOUS
<1>8. /\ fj \in Nat /\ rest \in Nat /\ whole \in Nat /\ fk \in Nat /\ a \in Nat /\ b \in Nat
      /\ fk = k * fj /\ Factorial[r + 1] = (r + 1) * rest /\ Factorial[n + 1] = (n + 1) * whole
      /\ a * (fk * rest) = whole /\ b * (fj * ((r + 1) * rest)) = whole
  <2>1. Factorial[r + 1] = (r + 1) * rest /\ Factorial[n + 1] = (n + 1) * whole
    BY <1>7, FactorialIs
  <2>2. fk = k * fj
    BY <1>7, FactorialIs
  <2>3. fj \in Nat /\ rest \in Nat /\ whole \in Nat /\ fk \in Nat
    BY <1>7, FactorialIs DEF Positive
  <2>4. a * (fk * rest) = whole /\ b * (fj * Factorial[r + 1]) = whole
    BY <1>7 DEF SizeLaw
  <2> QED BY <1>3, <2>1, <2>2, <2>3, <2>4
<1>9. (a + b) * (fk * ((r + 1) * rest)) = (n + 1) * whole
  <2>1. a * (fk * ((r + 1) * rest)) = (r + 1) * whole
    <3>1. \A p, q, s, t \in Nat : p * (q * (s * t)) = s * (p * (q * t))
      OBVIOUS
    <3>2. a * (fk * ((r + 1) * rest)) = (r + 1) * (a * (fk * rest))
      BY <1>7, <1>8, <3>1
    <3> QED BY <1>8, <3>2
  <2>2. b * (fk * ((r + 1) * rest)) = k * whole
    <3>1. \A p, q, s, t \in Nat : p * ((s * q) * t) = s * (p * (q * t))
      OBVIOUS
    <3>2. (r + 1) * rest \in Nat
      BY <1>7, <1>8, Products
    <3>3. b * ((k * fj) * ((r + 1) * rest)) = k * (b * (fj * ((r + 1) * rest)))
      BY <1>7, <1>8, <3>1, <3>2
    <3> QED BY <1>8, <3>3
  <2>3. fk * ((r + 1) * rest) \in Nat
    BY <1>7, <1>8, Products
  <2>4. (a + b) * (fk * ((r + 1) * rest)) = a * (fk * ((r + 1) * rest)) + b * (fk * ((r + 1) * rest))
    BY <1>8, <2>3, Products
  <2>5. (r + 1) * whole + k * whole = ((r + 1) + k) * whole
    <3>1. \A p, q, s \in Nat : (p + 1) * s + q * s = ((p + 1) + q) * s
      OBVIOUS
    <3>2. r \in Nat /\ k \in Nat /\ whole \in Nat
      BY <1>7, <1>8
    <3> QED BY <3>1, <3>2
  <2>6. (r + 1) + k = n + 1
    BY <1>7
  <2> QED BY <2>1, <2>2, <2>4, <2>5, <2>6
<1>10. Cardinality(OfSize(k, R \cup {x})) = a + b /\ IsFiniteSet(OfSize(k, R \cup {x}))
  BY <1>2, <1>4, <1>6
<1>11. a + b \in Nat
  BY <1>8
<1> QED BY <1>7, <1>8, <1>9, <1>10, <1>11 DEF SizeLaw

\* The law holds for every size of every finite set.
LEMMA SizesOf ==
  \A n \in Nat : \A S : IsFiniteSet(S) /\ Cardinality(S) = n => \A k \in 0..n : SizeLaw(S, k, n)
<1> DEFINE Law(n) == \A S : IsFiniteSet(S) /\ Cardinality(S) = n => \A k \in 0..n : SizeLaw(S, k, n)
           Bad == {n \in Nat : ~Law(n)}
<1>1. Law(0)
  BY SizeEnds
<1>2. ASSUME NEW n \in Nat, Law(n) PROVE Law(n + 1)
  <2> SUFFICES ASSUME NEW S, IsFiniteSet(S), Cardinality(S) = n + 1, NEW k \in 0..(n + 1)
               PROVE  SizeLaw(S, k, n + 1)
    OBVIOUS
  <2>1. CASE k = 0 \/ k = n + 1
    BY <2>1, SizeEnds
  <2>2. CASE k \in 1..n
    <3>1. S # {}
      BY FS_EmptySet
    <3> PICK x \in S : TRUE
      BY <3>1
    <3> PICK R : R = S \ {x}
      OBVIOUS
    <3>2. IsFiniteSet(R) /\ Cardinality(R) = n
      <4>1. IsFiniteSet(S \ {x}) /\ Cardinality(S \ {x}) = (n + 1) - 1
        BY FS_RemoveElement
      <4> QED BY <4>1
    <3>3. k \in 0..n /\ k - 1 \in 0..n
      BY <2>2
    <3>4. SizeLaw(R, k, n) /\ SizeLaw(R, k - 1, n)
      BY <1>2, <3>2, <3>3
    <3>5. R \cup {x} = S /\ x \notin R
      OBVIOUS
    <3> QED BY <2>2, <3>2, <3>4, <3>5, SizeStep
  <2> QED BY <2>1, <2>2
<1> HIDE DEF Law
<1>3. Bad = {}
  <2> SUFFICES ASSUME Bad # {} PROVE FALSE
    OBVIOUS
  <2>1. Bad \subseteq Nat
    OBVIOUS
  <2>2. PICK m \in Bad : \A k \in Bad : m <= k
    <3> HIDE DEF Bad
    <3> QED BY <2>1, LeastNat
  <2>3. m # 0 /\ m \in Nat
    BY <1>1, <2>2
  <2>4. m - 1 \in Nat /\ (m - 1) + 1 = m /\ ~(m <= m - 1)
    BY <2>3
  <2> QED BY <1>2, <2>2, <2>4
<1>4. \A n \in Nat : Law(n)
  BY <1>3
<1> QED BY <1>4 DEF Law

\* The binomial coefficient of the library counts them.
LEMMA ChooseCounts ==
  ASSUME NEW n \in Nat, NEW S, IsFiniteSet(S), Cardinality(S) = n, NEW k \in 0..n
  PROVE  /\ Cardinality(OfSize(k, S)) = Bench!Comb!choose(n, k)
         /\ IsFiniteSet(OfSize(k, S)) /\ Cardinality(OfSize(k, S)) \in Nat
<1> PICK a, b : a = Cardinality(OfSize(k, S)) /\ b = Factorial[k] * Factorial[n - k]
  OBVIOUS
<1>1. a \in Nat /\ a * b = Factorial[n] /\ IsFiniteSet(OfSize(k, S))
  BY SizesOf DEF SizeLaw
<1>2. b \in Positive
  <2>1. k \in Nat /\ n - k \in Nat
    OBVIOUS
  <2> QED BY <2>1, FactorialIs, Products
<1>3. (a * b) \div b = a
  BY <1>1, <1>2, Quotient
<1>4. Bench!Comb!choose(n, k) = Factorial[n] \div b
  BY DEF Bench!Comb!choose, Factorial
<1> QED BY <1>1, <1>3, <1>4

-----------------------------------------------------------------------------
\* The members of a finite set in the order of a relation that compares all of them.
Compares(U, Rel) ==
  /\ \A x, y \in U : x # y => <<x, y>> \in Rel \/ <<y, x>> \in Rel
  /\ \A x, y, z \in U : <<x, y>> \in Rel /\ <<y, z>> \in Rel => <<x, z>> \in Rel

\* Some member comes after the others.
LEMMA GreatestOf ==
  ASSUME NEW U, NEW Rel, Compares(U, Rel)
  PROVE  \A n \in Nat : \A S \in SUBSET U : IsFiniteSet(S) /\ Cardinality(S) = n + 1 =>
           \E g \in S : \A x \in S \ {g} : <<x, g>> \in Rel
<1> DEFINE Law(n) == \A S \in SUBSET U : IsFiniteSet(S) /\ Cardinality(S) = n + 1 =>
                       \E g \in S : \A x \in S \ {g} : <<x, g>> \in Rel
           Bad == {n \in Nat : ~Law(n)}
<1>1. ASSUME NEW n \in Nat, n = 0 \/ Law(n - 1) PROVE Law(n)
  <2> SUFFICES ASSUME NEW S \in SUBSET U, IsFiniteSet(S), Cardinality(S) = n + 1
               PROVE  \E g \in S : \A x \in S \ {g} : <<x, g>> \in Rel
    OBVIOUS
  <2>1. S # {}
    BY FS_EmptySet
  <2> PICK x \in S : TRUE
    BY <2>1
  <2> PICK R : R = S \ {x}
    OBVIOUS
  <2>2. IsFiniteSet(R) /\ Cardinality(R) = n /\ R \in SUBSET U
    <3>1. IsFiniteSet(S \ {x}) /\ Cardinality(S \ {x}) = (n + 1) - 1
      BY FS_RemoveElement
    <3> QED BY <3>1
  <2>3. CASE n = 0
    <3>1. R = {}
      BY <2>2, <2>3, FS_EmptySet
    <3> QED BY <3>1
  <2>4. CASE n # 0
    <3>1. (n - 1) + 1 = n
      OBVIOUS
    <3>2. PICK g \in R : \A y \in R \ {g} : <<y, g>> \in Rel
      BY <1>1, <2>2, <2>4, <3>1
    <3>3. CASE <<x, g>> \in Rel
      BY <3>2, <3>3
    <3>4. CASE <<g, x>> \in Rel
      <4>1. \A y \in R : <<y, x>> \in Rel
        BY <3>2, <3>4 DEF Compares
      <4> QED BY <4>1
    <3> QED BY <3>2, <3>3, <3>4 DEF Compares
  <2> QED BY <2>3, <2>4
<1> HIDE DEF Law
<1>2. Bad = {}
  <2> SUFFICES ASSUME Bad # {} PROVE FALSE
    OBVIOUS
  <2>1. Bad \subseteq Nat
    OBVIOUS
  <2>2. PICK m \in Bad : \A k \in Bad : m <= k
    <3> HIDE DEF Bad
    <3> QED BY <2>1, LeastNat
  <2>3. m = 0 \/ (m - 1 \in Nat /\ ~(m <= m - 1))
    BY <2>2
  <2> QED BY <1>1, <2>2, <2>3
<1> QED BY <1>2 DEF Law

\* They have a list in that order.
LEMMA SortedList ==
  ASSUME NEW U, NEW Rel, Compares(U, Rel)
  PROVE  \A n \in Nat : \A S \in SUBSET U : IsFiniteSet(S) /\ Cardinality(S) = n =>
           \E s \in [1..n -> S] : \A i, j \in 1..n : i < j => <<s[i], s[j]>> \in Rel
<1> DEFINE Sorted(s, n) == \A i, j \in 1..n : i < j => <<s[i], s[j]>> \in Rel
           Law(n) == \A S \in SUBSET U : IsFiniteSet(S) /\ Cardinality(S) = n =>
                       \E s \in [1..n -> S] : Sorted(s, n)
           Bad == {n \in Nat : ~Law(n)}
<1>1. Law(0)
  <2> SUFFICES ASSUME NEW S \in SUBSET U
               PROVE  \E s \in [1..0 -> S] : Sorted(s, 0)
    OBVIOUS
  <2> DEFINE s == [i \in 1..0 |-> 0]
  <2>1. s \in [1..0 -> S] /\ Sorted(s, 0)
    OBVIOUS
  <2> QED BY <2>1
<1>2. ASSUME NEW n \in Nat, Law(n) PROVE Law(n + 1)
  <2> SUFFICES ASSUME NEW S \in SUBSET U, IsFiniteSet(S), Cardinality(S) = n + 1
               PROVE  \E s \in [1..(n + 1) -> S] : Sorted(s, n + 1)
    OBVIOUS
  <2>1. PICK g \in S : \A x \in S \ {g} : <<x, g>> \in Rel
    BY GreatestOf
  <2> PICK R : R = S \ {g}
    OBVIOUS
  <2>2. IsFiniteSet(R) /\ Cardinality(R) = n /\ R \in SUBSET U
    <3>1. IsFiniteSet(S \ {g}) /\ Cardinality(S \ {g}) = (n + 1) - 1
      BY FS_RemoveElement
    <3> QED BY <3>1
  <2>3. PICK r \in [1..n -> R] : Sorted(r, n)
    BY <1>2, <2>2
  <2> DEFINE s == [i \in 1..(n + 1) |-> IF i <= n THEN r[i] ELSE g]
  <2>4. s \in [1..(n + 1) -> S] /\ s[n + 1] = g /\ \A i \in 1..n : s[i] = r[i]
    <3>1. \A i \in 1..(n + 1) : i <= n => i \in 1..n
      OBVIOUS
    <3>2. \A i \in 1..n : i \in 1..(n + 1) /\ i <= n
      OBVIOUS
    <3>3. n + 1 \in 1..(n + 1) /\ ~(n + 1 <= n)
      OBVIOUS
    <3> QED BY <3>1, <3>2, <3>3
  <2> HIDE DEF s
  <2>5. ASSUME NEW i \in 1..(n + 1), NEW j \in 1..(n + 1), i < j PROVE <<s[i], s[j]>> \in Rel
    <3>1. i \in 1..n /\ (j \in 1..n \/ j = n + 1)
      BY <2>5
    <3>2. r[i] \in S \ {g}
      BY <3>1
    <3> QED BY <2>1, <2>3, <2>4, <2>5, <3>1, <3>2
  <2> QED BY <2>4, <2>5
<1> HIDE DEF Law
<1>3. Bad = {}
  <2> SUFFICES ASSUME Bad # {} PROVE FALSE
    OBVIOUS
  <2>1. Bad \subseteq Nat
    OBVIOUS
  <2>2. PICK m \in Bad : \A k \in Bad : m <= k
    <3> HIDE DEF Bad
    <3> QED BY <2>1, LeastNat
  <2>3. m # 0 /\ m \in Nat
    BY <1>1, <2>2
  <2>4. m - 1 \in Nat /\ (m - 1) + 1 = m /\ ~(m <= m - 1)
    BY <2>3
  <2> QED BY <1>2, <2>2, <2>4
<1> QED BY <1>3 DEF Law

\* InOrder is such a list.
LEMMA InOrderIs ==
  ASSUME NEW S, S \subseteq Nat, IsFiniteSet(S)
  PROVE  LET s == Bench!InOrder(S)
         IN  /\ s \in [1..Cardinality(S) -> S] /\ Cardinality(S) \in Nat
             /\ \A i, j \in 1..Cardinality(S) : i < j => s[i] < s[j]
<1> PICK n : n = Cardinality(S)
  OBVIOUS
<1>1. n \in Nat
  BY FS_CardinalityType
<1> DEFINE Rel == {p \in Nat \X Nat : p[1] < p[2]}
<1>2. \A x, y \in Nat : <<x, y>> \in Rel <=> x < y
  OBVIOUS
<1> HIDE DEF Rel
<1>3. Compares(Nat, Rel)
  BY <1>2 DEF Compares
<1>4. PICK s \in [1..n -> S] : \A i, j \in 1..n : i < j => <<s[i], s[j]>> \in Rel
  BY <1>1, <1>3, SortedList
<1>5. \A i, j \in 1..n : i < j => s[i] < s[j]
  BY <1>2, <1>4
<1>6. \A t \in [1..n -> S] : DOMAIN t = 1..n
  OBVIOUS
<1>7. Bench!InOrder(S) = CHOOSE t \in [1..n -> S] : \A i, j \in DOMAIN t : i < j => t[i] < t[j]
  BY DEF Bench!InOrder, Bench!Cardinality, Cardinality
<1>8. Bench!InOrder(S) \in [1..n -> S] /\ \A i, j \in DOMAIN Bench!InOrder(S) : i < j =>
        Bench!InOrder(S)[i] < Bench!InOrder(S)[j]
  BY <1>5, <1>6, <1>7
<1> QED BY <1>1, <1>6, <1>8

-----------------------------------------------------------------------------
\* Scaling both sides keeps a comparison.
LEMMA Scaled ==
  \A x, y \in Nat, z \in Positive : (x >= y <=> x * z >= y * z) /\ (x > y <=> x * z > y * z)
<1> SUFFICES ASSUME NEW x \in Nat, NEW y \in Nat, NEW z \in Positive
             PROVE  (x >= y <=> x * z >= y * z) /\ (x > y <=> x * z > y * z)
  OBVIOUS
<1>1. \A d \in Nat : (y + d) * z = y * z + d * z /\ (x + d) * z = x * z + d * z
                     /\ d * z \in Nat /\ (d # 0 => d * z # 0)
  BY DEF Positive
<1>2. x * z \in Nat /\ y * z \in Nat
  BY DEF Positive
<1>3. CASE x = y
  BY <1>2, <1>3
<1>4. CASE x > y
  <2>1. x - y \in Nat /\ x - y # 0 /\ y + (x - y) = x
    BY <1>4
  <2> PICK d \in Nat : d # 0 /\ y + d = x
    BY <2>1
  <2>2. x * z = y * z + d * z /\ d * z \in Nat /\ d * z # 0
    BY <1>1
  <2> QED BY <1>2, <1>4, <2>2
<1>5. CASE y > x
  <2>1. y - x \in Nat /\ y - x # 0 /\ x + (y - x) = y
    BY <1>5
  <2> PICK d \in Nat : d # 0 /\ x + d = y
    BY <2>1
  <2>2. y * z = x * z + d * z /\ d * z \in Nat /\ d * z # 0
    BY <1>1
  <2> QED BY <1>2, <1>5, <2>2
<1> QED BY <1>3, <1>4, <1>5

\* It is transitive, and strict where one of its steps is.
LEMMA Crossed ==
  ASSUME NEW g1 \in Nat, NEW n1 \in Positive, NEW g2 \in Nat, NEW n2 \in Positive,
         NEW g3 \in Nat, NEW n3 \in Positive, g1 * n2 >= g2 * n1, g2 * n3 >= g3 * n2
  PROVE  /\ g1 * n3 >= g3 * n1
         /\ g1 * n2 > g2 * n1 \/ g2 * n3 > g3 * n2 => g1 * n3 > g3 * n1
<1> PICK a, b, c, d, e, f : /\ a = g1 * n2 /\ b = g2 * n1 /\ c = g2 * n3 /\ d = g3 * n2
                            /\ e = g1 * n3 /\ f = g3 * n1
  OBVIOUS
<1>0. n1 \in Nat /\ n2 \in Nat /\ n3 \in Nat
  BY DEF Positive
<1>1. a \in Nat /\ b \in Nat /\ c \in Nat /\ d \in Nat /\ e \in Nat /\ f \in Nat
  BY <1>0, Products
<1>2. e * n2 = a * n3 /\ b * n3 = c * n1 /\ d * n1 = f * n2
  <2>1. \A p, q, r \in Nat : (p * q) * r = (p * r) * q
    OBVIOUS
  <2> QED BY <1>0, <2>1
<1>3. a * n3 >= b * n3 /\ (a > b => a * n3 > b * n3)
  BY <1>1, Scaled
<1>4. c * n1 >= d * n1 /\ (c > d => c * n1 > d * n1)
  BY <1>1, Scaled
<1>5. a * n3 \in Nat /\ b * n3 \in Nat /\ d * n1 \in Nat
  BY <1>0, <1>1, Products
<1>6. e * n2 >= f * n2 /\ (a > b \/ c > d => e * n2 > f * n2)
  BY <1>2, <1>3, <1>4, <1>5
<1> QED BY <1>1, <1>6, Scaled

\* What the leaderboard sorts by.
Tally == [n : Positive, full : Nat, part : Nat]

\* It compares any two models, and its comparisons agree with each other.
LEMMA BetterCompares ==
  ASSUME NEW U, U \subseteq Nat, NEW tally \in [U -> Tally]
  PROVE  Compares(U, {p \in U \X U : Bench!Better(tally[p[1]], tally[p[2]], p[1], p[2])})
<1> DEFINE g(x) == Bench!Gained(tally[x])
           n(x) == tally[x].n
           f(x) == tally[x].full
           Rel == {p \in U \X U : Bench!Better(tally[p[1]], tally[p[2]], p[1], p[2])}
<1>1. \A x \in U : g(x) \in Nat /\ n(x) \in Positive /\ f(x) \in Nat
  <2>1. \A x \in U : tally[x] \in Tally
    OBVIOUS
  <2> QED BY <2>1 DEF Tally, Bench!Gained
<1>2. \A x, y \in U : <<x, y>> \in Rel <=>
        \/ g(x) * n(y) > g(y) * n(x)
        \/ /\ g(x) * n(y) = g(y) * n(x)
           /\ f(x) * n(y) > f(y) * n(x) \/ (f(x) * n(y) = f(y) * n(x) /\ x < y)
  BY DEF Bench!Better
<1>3. \A x, y \in U : g(x) * n(y) \in Nat /\ f(x) * n(y) \in Nat
  <2>1. \A m \in Positive : m \in Nat
    BY DEF Positive
  <2> HIDE DEF g, n, f
  <2> QED BY <1>1, <2>1, Products
<1> HIDE DEF g, n, f, Rel
<1>4. \A x, y \in U : x # y => <<x, y>> \in Rel \/ <<y, x>> \in Rel
  <2> SUFFICES ASSUME NEW x \in U, NEW y \in U, x # y PROVE <<x, y>> \in Rel \/ <<y, x>> \in Rel
    OBVIOUS
  <2> PICK a, b, c, d : a = g(x) * n(y) /\ b = g(y) * n(x) /\ c = f(x) * n(y) /\ d = f(y) * n(x)
    OBVIOUS
  <2>1. a \in Nat /\ b \in Nat /\ c \in Nat /\ d \in Nat /\ x \in Nat /\ y \in Nat
    BY <1>3
  <2>2. a > b \/ b > a \/ a = b
    BY <2>1
  <2>3. c > d \/ d > c \/ c = d
    BY <2>1
  <2>4. x < y \/ y < x
    BY <2>1
  <2> QED BY <1>2, <2>2, <2>3, <2>4
<1>5. ASSUME NEW x \in U, NEW y \in U, NEW z \in U, <<x, y>> \in Rel, <<y, z>> \in Rel
      PROVE  <<x, z>> \in Rel
  <2> PICK gx, gy, gz, nx, ny, nz, fx, fy, fz :
        /\ gx = g(x) /\ gy = g(y) /\ gz = g(z) /\ nx = n(x) /\ ny = n(y) /\ nz = n(z)
        /\ fx = f(x) /\ fy = f(y) /\ fz = f(z)
    OBVIOUS
  <2>1. /\ gx \in Nat /\ gy \in Nat /\ gz \in Nat /\ fx \in Nat /\ fy \in Nat /\ fz \in Nat
        /\ nx \in Positive /\ ny \in Positive /\ nz \in Positive
    BY <1>1
  <2> PICK a1, a2, b1, b2, c1, c2 : /\ a1 = gx * ny /\ a2 = gy * nx /\ b1 = gy * nz /\ b2 = gz * ny
                                   /\ c1 = gx * nz /\ c2 = gz * nx
    OBVIOUS
  <2> PICK d1, d2, e1, e2, h1, h2 : /\ d1 = fx * ny /\ d2 = fy * nx /\ e1 = fy * nz /\ e2 = fz * ny
                                   /\ h1 = fx * nz /\ h2 = fz * nx
    OBVIOUS
  <2>2. /\ a1 \in Nat /\ a2 \in Nat /\ b1 \in Nat /\ b2 \in Nat /\ c1 \in Nat /\ c2 \in Nat
        /\ d1 \in Nat /\ d2 \in Nat /\ e1 \in Nat /\ e2 \in Nat /\ h1 \in Nat /\ h2 \in Nat
        /\ x \in Nat /\ y \in Nat /\ z \in Nat
    BY <1>3
  <2>3. a1 > a2 \/ (a1 = a2 /\ (d1 > d2 \/ (d1 = d2 /\ x < y)))
    BY <1>2, <1>5
  <2>4. b1 > b2 \/ (b1 = b2 /\ (e1 > e2 \/ (e1 = e2 /\ y < z)))
    BY <1>2, <1>5
  <2>5. a1 >= a2 /\ b1 >= b2
    BY <2>2, <2>3, <2>4
  <2>6. c1 >= c2 /\ (a1 > a2 \/ b1 > b2 => c1 > c2)
    BY <2>1, <2>5, Crossed
  <2>7. CASE c1 > c2
    BY <1>2, <2>7
  <2>8. CASE ~(c1 > c2)
    <3>1. a1 = a2 /\ b1 = b2 /\ c1 = c2
      BY <2>2, <2>3, <2>4, <2>6, <2>8
    <3>2. d1 >= d2 /\ e1 >= e2 /\ ~(a1 > a2) /\ ~(b1 > b2)
      BY <2>2, <2>3, <2>4, <3>1
    <3>3. h1 >= h2 /\ (d1 > d2 \/ e1 > e2 => h1 > h2)
      BY <2>1, <3>2, Crossed
    <3>4. CASE h1 > h2
      BY <1>2, <3>1, <3>4
    <3>5. CASE ~(h1 > h2)
      <4>1. h1 = h2 /\ x < z
        BY <2>2, <2>3, <2>4, <3>2, <3>3, <3>5
      <4> QED BY <1>2, <3>1, <4>1
    <3> QED BY <3>4, <3>5
  <2> QED BY <2>7, <2>8
<1> QED BY <1>4, <1>5 DEF Compares, Rel

-----------------------------------------------------------------------------
\* Benchmarks.  What a run directory holds, the calls and the report.
Rolls == UNION {Bench!Results(T, n) : T \in TaskSets, n \in 1..RolloutLimit}
Evals == [by : Bench!Names, rolls : Rolls]
Empty == Bench!Nothing
Unreadable == Bench!Broken

\* A directory to be aggregated holds something, and nothing else touches it.
Listed ==
  /\ dirs \in [Bench!Dirs -> {Empty, Unreadable} \cup Evals]
  /\ evaluated \in [Bench!Names -> {Empty} \cup Evals]
  /\ \A i \in DOMAIN runDirs : dirs[runDirs[i]] # Empty
\* In a run these are the evaluations of the call, one of each model.
Own ==
  settings.n > 0 =>
    /\ \A i \in DOMAIN runDirs : /\ dirs[runDirs[i]] \in Evals
                                 /\ evaluated[dirs[runDirs[i]].by] = dirs[runDirs[i]]
    /\ \A i, j \in DOMAIN runDirs : dirs[runDirs[i]].by = dirs[runDirs[j]].by => i = j
    /\ \A m \in Bench!Names : evaluated[m] # Empty => \E i \in DOMAIN runDirs : dirs[runDirs[i]].by = m
\* The models that are left to evaluate.
Awaited ==
  /\ benchStep = "eval" => settings.tasks \in TaskSets /\ settings.n \in 1..RolloutLimit
  /\ \A k \in DOMAIN queue : evaluated[queue[k]] = Empty
  /\ \A k, l \in DOMAIN queue : queue[k] = queue[l] => k = l
\* Between two calls there is nothing in memory.
Resting ==
  /\ benchStep = "idle" => settings.n = 0 /\ runDirs = <<>>
  /\ benchStep # "idle" => calls # 0
\* A report is about the directories that were listed.
Drawn ==
  benchStep \in {"json", "markdown"} =>
    /\ \A i \in DOMAIN runDirs : dirs[runDirs[i]] \in Evals
    /\ table.same => Bench!SameTasks
    /\ table.rows = [m \in Bench!Present |-> Bench!Row(m)]
    /\ table.cells = Bench!Matrix
    /\ table.order = Bench!Ranked(table.rows)
Written ==
  /\ markdown <= json /\ json <= calls
  /\ benchStep = "markdown" => json = calls
  /\ \A c \in done : c <= markdown

BenchInv ==
  Bench!TypeOK /\ Listed /\ Own /\ Awaited /\ Resting /\ Drawn /\ Written

\* No directory is filled and no call has been made.
LEMMA BenchStart == Bench!BenchAssumption /\ Bench!Init => BenchInv
<1> SUFFICES ASSUME Bench!BenchAssumption, Bench!Init PROVE BenchInv
  OBVIOUS
<1> USE DEF Bench!Init
<1>1. Bench!TypeOK
  BY DEF Bench!TypeOK, Bench!BenchAssumption
<1>2. Listed /\ Own /\ Awaited /\ Resting
  BY DEF Listed, Own, Awaited, Resting, Empty
<1>3. Drawn /\ Written
  BY DEF Drawn, Written
<1> QED BY <1>1, <1>2, <1>3 DEF BenchInv

\* Models and directories are numbers; a full directory is neither empty nor broken.
LEMMA DirsAreNumbers ==
  ASSUME Bench!BenchAssumption
  PROVE  /\ Bench!Names \subseteq Nat /\ Bench!Dirs \subseteq Nat /\ Bench!Names \subseteq Bench!Dirs
         /\ IsFiniteSet(Bench!Names) /\ IsFiniteSet(Bench!Dirs)
         /\ Empty \notin Evals /\ Unreadable \notin Evals /\ Empty # Unreadable
         /\ \A e \in Evals : e.by \in Bench!Names /\ e.rolls \in Rolls
<1>1. ModelCount \in Nat \ {0}
  BY DEF Bench!BenchAssumption
<1>2. IsFiniteSet(1..ModelCount) /\ IsFiniteSet(0..ModelCount)
  BY <1>1, FS_Interval
<1>3. Empty.by = 0 /\ Unreadable.by = -1
  BY DEF Empty, Unreadable, Bench!Nothing, Bench!Broken
<1>4. \A e \in Evals : e.by \in Bench!Names /\ e.rolls \in Rolls
  BY DEF Evals
<1>5. 0 \notin Bench!Names /\ -1 \notin Bench!Names
  BY <1>1 DEF Bench!Names
<1> QED BY <1>1, <1>2, <1>3, <1>4, <1>5 DEF Bench!Names, Bench!Dirs

\* A model has a directory.
LEMMA HasDirectory ==
  ASSUME Bench!BenchAssumption, NEW m \in Bench!Names
  PROVE  Bench!DirOf(m) \in Bench!Dirs
<1>1. CASE m \in Alike
  <2>1. Alike \subseteq Nat /\ Alike # {}
    BY <1>1 DEF Bench!BenchAssumption
  <2>2. PICK d \in Alike : \A e \in Alike : d <= e
    BY <2>1, LeastNat
  <2>3. Bench!FS!Min(Alike) \in Alike
    BY <2>2 DEF Bench!FS!Min
  <2>4. Alike \subseteq Bench!Dirs
    BY DirsAreNumbers DEF Bench!BenchAssumption, Bench!Names
  <2> QED BY <1>1, <2>3, <2>4 DEF Bench!DirOf
<1>2. CASE m \notin Alike
  BY <1>2, DirsAreNumbers DEF Bench!DirOf
<1> QED BY <1>1, <1>2

\* What a call leaves when it ends.
LEMMA LeaveStep ==
  ASSUME Bench!BenchAssumption, BenchInv, NEW d, Bench!Leave(d),
         dirs' \in [Bench!Dirs -> {Empty, Unreadable} \cup Evals],
         d \subseteq 1..CallLimit, json' \in 0..CallLimit, markdown' \in 0..CallLimit,
         markdown' <= json', json' <= calls, \A c \in d : c <= markdown'
  PROVE  BenchInv'
<1> USE DEF Bench!Leave
<1>1. evaluated' \in [Bench!Names -> {Empty} \cup Evals]
  BY DEF Empty
<1>2. Bench!TypeOK'
  <2>1. settings'.n = 0 /\ settings'.tasks = {} /\ settings' \in [tasks : SUBSET Bench!Tasks, n : 0..RolloutLimit]
    <3>1. 0 \in 0..RolloutLimit
      BY DEF Bench!BenchAssumption
    <3> QED BY <3>1
  <2> QED BY <1>1, <2>1 DEF Bench!TypeOK, BenchInv
<1>3. Listed' /\ Own' /\ Awaited' /\ Resting'
  BY <1>1 DEF Listed, Own, Awaited, Resting
<1>4. Drawn' /\ Written'
  BY DEF Drawn, Written
<1> QED BY <1>2, <1>3, <1>4 DEF BenchInv

\* The sum over the directories d, listed as r.
SumOver(d, r, I, t) ==
  LET upto[i \in 0..Len(r)] ==
        IF i = 0 THEN Bench!Zero
        ELSE IF i \in I /\ t \in UNION {DOMAIN d[r[j]].rolls : j \in {i}}
             THEN Bench!Plus(upto[i - 1], d[r[i]].rolls[t]) ELSE upto[i - 1]
  IN upto[Len(r)]

\* A report does not change while nothing it is about does.
LEMMA SameReport ==
  ASSUME UNCHANGED <<runDirs, dirs>>
  PROVE  /\ Bench!SameTasks' = Bench!SameTasks /\ Bench!Present' = Bench!Present
         /\ \A m : Bench!Row(m)' = Bench!Row(m)
         /\ Bench!Matrix' = Bench!Matrix
<1>1. \A m : Bench!Of(m)' = Bench!Of(m)
  BY DEF Bench!Of
<1>2. \A I : Bench!TasksOf(I)' = Bench!TasksOf(I)
  BY DEF Bench!TasksOf
<1>3. \A I, t : Bench!Sum(I, t)' = Bench!Sum(I, t)
  <2> SUFFICES ASSUME NEW I, NEW t PROVE Bench!Sum(I, t)' = Bench!Sum(I, t)
    OBVIOUS
  <2>1. Bench!Sum(I, t) = SumOver(dirs, runDirs, I, t)
    BY DEF Bench!Sum, Bench!TasksOf, SumOver
  <2>2. Bench!Sum(I, t)' = SumOver(dirs', runDirs', I, t)
    BY DEF Bench!Sum, Bench!TasksOf, SumOver
  <2> QED BY <2>1, <2>2
<1>4. \A m : Bench!Row(m)' = Bench!Row(m)
  BY <1>1, <1>2, <1>3, Zenon DEF Bench!Row
<1>5. Bench!Matrix' = Bench!Matrix /\ Bench!Present' = Bench!Present
  BY <1>1, <1>2, <1>3, Zenon DEF Bench!Matrix, Bench!Present
<1>6. Bench!SameTasks' = Bench!SameTasks
  BY <1>2, Zenon DEF Bench!SameTasks
<1> QED BY <1>4, <1>5, <1>6

\* A call begins.
LEMMA CallStep ==
  ASSUME Bench!BenchAssumption, BenchInv, Bench!HandRun \/ Bench!Run \/ Bench!Named
  PROVE  BenchInv'
<1>0. /\ RolloutLimit \in Nat \ {0} /\ 1 \in 1..RolloutLimit /\ CallLimit \in Nat
      /\ Requests \subseteq SUBSET Bench!Names
  BY DEF Bench!BenchAssumption, Bench!Names
<1>1. CASE Bench!HandRun
  <2> USE <1>1 DEF Bench!HandRun, Bench!files
  <2>1. dirs' \in [Bench!Dirs -> {Empty, Unreadable} \cup Evals]
    <3>0. PICK T \in TaskSets : \E r \in Bench!Results(T, 1) : dirs' = [dirs EXCEPT ![0] = [by |-> 1, rolls |-> r]]
      OBVIOUS
    <3>1. PICK r \in Bench!Results(T, 1) : dirs' = [dirs EXCEPT ![0] = [by |-> 1, rolls |-> r]]
      BY <3>0
    <3>2. r \in Rolls
      BY <1>0 DEF Rolls
    <3>3. 1 \in Bench!Names
      BY DEF Bench!Names, Bench!BenchAssumption
    <3>4. [by |-> 1, rolls |-> r] \in Evals
      BY <3>2, <3>3 DEF Evals
    <3> QED BY <3>1, <3>4 DEF BenchInv, Listed
  <2>2. runDirs = <<>> /\ settings.n = 0
    BY DEF BenchInv, Resting
  <2>3. Bench!TypeOK'
    BY <2>1 DEF BenchInv, Bench!TypeOK
  <2>4. Listed' /\ Own' /\ Awaited' /\ Resting'
    BY <2>1, <2>2 DEF BenchInv, Listed, Own, Awaited, Resting
  <2>5. Drawn' /\ Written'
    BY DEF BenchInv, Drawn, Written
  <2> QED BY <2>3, <2>4, <2>5 DEF BenchInv
<1>2. CASE Bench!Run
  <2> USE <1>2 DEF Bench!Run, Bench!files
  <2>1. PICK R \in Requests : queue' = Bench!InOrder(R)
    OBVIOUS
  <2>2. R \subseteq Bench!Names /\ R \subseteq Nat /\ IsFiniteSet(R)
    BY <1>0, DirsAreNumbers, FS_Subset
  <2> PICK n : n = Cardinality(R)
    OBVIOUS
  <2>3. /\ queue' \in [1..n -> R] /\ n \in Nat
        /\ \A i, j \in 1..n : i < j => queue'[i] < queue'[j]
    BY <2>1, <2>2, InOrderIs
  <2>4. queue' \in Seq(Bench!Names)
    <3>1. queue' \in [1..n -> Bench!Names]
      BY <2>2, <2>3
    <3> QED BY <2>3, <3>1
  <2>5. \A k, l \in DOMAIN queue' : queue'[k] = queue'[l] => k = l
    <3>1. DOMAIN queue' = 1..n /\ \A k \in 1..n : queue'[k] \in Nat
      BY <2>2, <2>3
    <3>2. \A x, y \in Nat : x < y => x # y
      OBVIOUS
    <3>3. \A k, l \in 1..n : k = l \/ k < l \/ l < k
      BY <2>3
    <3> QED BY <2>3, <3>1, <3>2, <3>3
  <2>6. evaluated' \in [Bench!Names -> {Empty} \cup Evals] /\ \A m \in Bench!Names : evaluated'[m] = Empty
    BY DEF Empty
  <2>7. \A k \in DOMAIN queue' : evaluated'[queue'[k]] = Empty
    BY <2>2, <2>3, <2>6
  <2>8. settings'.tasks \in TaskSets /\ settings'.n \in 1..RolloutLimit /\ settings' = [tasks |-> settings'.tasks, n |-> settings'.n]
    OBVIOUS
  <2>9. settings' \in [tasks : SUBSET Bench!Tasks, n : 0..RolloutLimit]
    <3> PICK T, k : T = settings'.tasks /\ k = settings'.n
      OBVIOUS
    <3>1. T \in SUBSET Bench!Tasks /\ k \in 0..RolloutLimit
      BY <1>0, <2>8 DEF Bench!Tasks
    <3> QED BY <2>8, <3>1
  <2>10. calls' \in 0..CallLimit /\ calls' # 0 /\ calls' >= calls /\ calls \in Nat
    BY <1>0 DEF BenchInv, Bench!TypeOK
  <2>11. Bench!TypeOK'
    BY <2>4, <2>6, <2>9, <2>10 DEF BenchInv, Bench!TypeOK
  <2>12. Listed' /\ Own' /\ Awaited' /\ Resting'
    BY <2>5, <2>6, <2>7, <2>8, <2>10 DEF BenchInv, Listed, Own, Awaited, Resting
  <2>13. Drawn' /\ Written'
    <3>1. json \in Nat
      BY <1>0 DEF BenchInv, Bench!TypeOK
    <3> QED BY <2>10, <3>1 DEF BenchInv, Drawn, Written
  <2> QED BY <2>11, <2>12, <2>13 DEF BenchInv
<1>3. CASE Bench!Named
  <2> USE <1>3 DEF Bench!Named, Bench!files
  <2>1. PICK D \in SUBSET Bench!Dirs : (\A d \in D : dirs[d] # Empty) /\ runDirs' = Bench!InOrder(D)
    BY DEF Empty
  <2>2. D \subseteq Nat /\ IsFiniteSet(D)
    BY <1>0, DirsAreNumbers, FS_Subset
  <2> PICK n : n = Cardinality(D)
    OBVIOUS
  <2>3. runDirs' \in [1..n -> D] /\ n \in Nat
    BY <2>1, <2>2, InOrderIs
  <2>4. runDirs' \in Seq(Bench!Dirs) /\ \A i \in DOMAIN runDirs' : dirs[runDirs'[i]] # Empty
    BY <2>1, <2>3
  <2>5. settings.n = 0
    BY DEF BenchInv, Resting
  <2>6. evaluated' \in [Bench!Names -> {Empty} \cup Evals] /\ \A m \in Bench!Names : evaluated'[m] = Empty
    BY DEF Empty
  <2>7. calls' \in 0..CallLimit /\ calls' # 0 /\ calls' >= calls /\ calls \in Nat
    BY <1>0 DEF BenchInv, Bench!TypeOK
  <2>8. Bench!TypeOK'
    BY <2>4, <2>6, <2>7 DEF BenchInv, Bench!TypeOK
  <2>9. Listed' /\ Own' /\ Resting'
    BY <2>4, <2>5, <2>6, <2>7 DEF BenchInv, Listed, Own, Resting
  <2>10. Awaited'
    <3>1. \A k \in DOMAIN queue : queue[k] \in Bench!Names
      BY DEF BenchInv, Bench!TypeOK
    <3> QED BY <2>6, <3>1 DEF BenchInv, Awaited
  <2>11. Drawn' /\ Written'
    <3>1. json \in Nat
      BY <1>0 DEF BenchInv, Bench!TypeOK
    <3> QED BY <2>7, <3>1 DEF BenchInv, Drawn, Written
  <2> QED BY <2>8, <2>9, <2>10, <2>11 DEF BenchInv
<1> QED BY <1>1, <1>2, <1>3

\* A model is evaluated into a directory of its own, or the call ends.
LEMMA EvaluateStep ==
  ASSUME Bench!BenchAssumption, BenchInv, Bench!Evaluate \/ Bench!Killed
  PROVE  BenchInv'
<1>0. /\ done \subseteq 1..CallLimit /\ json \in 0..CallLimit /\ markdown \in 0..CallLimit
      /\ markdown <= json /\ json <= calls /\ \A c \in done : c <= markdown
      /\ dirs \in [Bench!Dirs -> {Empty, Unreadable} \cup Evals]
  BY DEF BenchInv, Bench!TypeOK, Written, Listed
<1>1. ASSUME Bench!Leave(done), UNCHANGED Bench!files,
             dirs' \in [Bench!Dirs -> {Empty, Unreadable} \cup Evals]
      PROVE  BenchInv'
  <2>1. json' = json /\ markdown' = markdown
    BY <1>1 DEF Bench!files
  <2> QED BY <1>0, <1>1, <2>1, LeaveStep
<1>2. CASE Bench!Killed
  <2>1. dirs' \in [Bench!Dirs -> {Empty, Unreadable} \cup Evals]
    <3> DEFINE d == Bench!DirOf(Head(queue))
    <3>1. dirs' = dirs \/ dirs' = [dirs EXCEPT ![d] = Unreadable]
      BY <1>2 DEF Bench!Killed, Unreadable
    <3> HIDE DEF d
    <3> QED BY <1>0, <3>1
  <2> QED BY <1>1, <1>2, <2>1 DEF Bench!Killed
<1>3. CASE Bench!Evaluate
  <2> PICK m, d : m = Head(queue) /\ d = Bench!DirOf(m)
    OBVIOUS
  <2>1. /\ benchStep = "eval" /\ queue # <<>> /\ UNCHANGED Bench!files
        /\ \/ dirs[d] # Empty /\ Bench!Leave(done) /\ UNCHANGED dirs
           \/ /\ dirs[d] = Empty
              /\ \E c \in Bench!Evaluated(m) :
                   /\ dirs' = [dirs EXCEPT ![d] = c] /\ evaluated' = [evaluated EXCEPT ![m] = c]
                   /\ queue' = Tail(queue) /\ runDirs' = Append(runDirs, d)
                   /\ UNCHANGED <<benchStep, settings, calls, done, table>>
           \/ /\ dirs[d] = Empty
              /\ dirs' \in {dirs, [dirs EXCEPT ![d] = Unreadable]} /\ Bench!Leave(done)
    BY <1>3 DEF Bench!Evaluate, Empty, Unreadable
  <2>2. CASE dirs[d] # Empty /\ Bench!Leave(done) /\ UNCHANGED dirs
    BY <1>0, <1>1, <2>1, <2>2
  <2>3. CASE dirs' \in {dirs, [dirs EXCEPT ![d] = Unreadable]} /\ Bench!Leave(done)
    <3>1. dirs' \in [Bench!Dirs -> {Empty, Unreadable} \cup Evals]
      BY <1>0, <2>3
    <3> QED BY <1>1, <2>1, <2>3, <3>1
  <2>4. ASSUME dirs[d] = Empty, NEW c \in Bench!Evaluated(m),
               dirs' = [dirs EXCEPT ![d] = c], evaluated' = [evaluated EXCEPT ![m] = c],
               queue' = Tail(queue), runDirs' = Append(runDirs, d),
               UNCHANGED <<benchStep, settings, calls, done, table>>
        PROVE  BenchInv'
    <3>1. queue \in Seq(Bench!Names) /\ Len(queue) \in Nat /\ Len(queue) # 0 /\ 1 \in DOMAIN queue
          /\ m \in Bench!Names /\ m = queue[1]
      BY <2>1 DEF BenchInv, Bench!TypeOK
    <3>2. d \in Bench!Dirs
      BY <3>1, HasDirectory
    <3>3. c \in Evals /\ c.by = m
      <4>1. PICK r \in Bench!Results(settings.tasks, settings.n) : c = [by |-> m, rolls |-> r]
        BY <2>4 DEF Bench!Evaluated
      <4>2. settings.tasks \in TaskSets /\ settings.n \in 1..RolloutLimit
        BY <2>1 DEF BenchInv, Awaited
      <4>3. r \in Rolls
        <5> PICK T, n : T = settings.tasks /\ n = settings.n
          OBVIOUS
        <5> QED BY <4>1, <4>2 DEF Rolls
      <4> QED BY <3>1, <4>1, <4>3 DEF Evals
    <3>4. evaluated[m] = Empty
      BY <3>1 DEF BenchInv, Awaited
    <3>5. /\ evaluated \in [Bench!Names -> {Empty} \cup Evals]
          /\ evaluated' \in [Bench!Names -> {Empty} \cup Evals]
          /\ dirs' \in [Bench!Dirs -> {Empty, Unreadable} \cup Evals]
          /\ evaluated'[m] = c /\ dirs'[d] = c
          /\ \A k \in Bench!Names \ {m} : evaluated'[k] = evaluated[k]
          /\ \A e \in Bench!Dirs \ {d} : dirs'[e] = dirs[e]
      BY <1>0, <2>4, <3>1, <3>2, <3>3 DEF BenchInv, Listed
    <3> PICK l \in Nat : l = Len(runDirs)
      BY DEF BenchInv, Bench!TypeOK
    <3>6. /\ runDirs \in Seq(Bench!Dirs) /\ runDirs' \in Seq(Bench!Dirs)
          /\ DOMAIN runDirs = 1..l /\ DOMAIN runDirs' = 1..(l + 1)
          /\ runDirs'[l + 1] = d /\ \A i \in 1..l : runDirs'[i] = runDirs[i] /\ runDirs[i] \in Bench!Dirs
      BY <2>4, <3>2 DEF BenchInv, Bench!TypeOK
    <3>7. \A i \in 1..(l + 1) : i \in 1..l \/ i = l + 1
      OBVIOUS
    <3>8. \A i \in 1..l : dirs[runDirs[i]] # Empty /\ dirs'[runDirs'[i]] = dirs[runDirs[i]]
      BY <2>4, <3>5, <3>6 DEF BenchInv, Listed
    <3>9. c # Empty /\ \A e \in Evals : e.by \in Bench!Names
      BY <3>3, DirsAreNumbers
    <3>10. settings.n > 0 /\ settings' = settings
      BY <2>1, <2>4 DEF BenchInv, Awaited
    <3>11. \A i \in 1..l : /\ dirs[runDirs[i]] \in Evals
                           /\ evaluated[dirs[runDirs[i]].by] = dirs[runDirs[i]]
      BY <3>6, <3>10 DEF BenchInv, Own
    <3>12. \A i \in 1..l : dirs[runDirs[i]].by \in Bench!Names /\ dirs[runDirs[i]].by # m
      BY <3>4, <3>8, <3>9, <3>11
    <3>13. Listed'
      BY <3>5, <3>6, <3>7, <3>8, <3>9 DEF Listed
    <3>14. Own'
      <4>1. \A i \in DOMAIN runDirs' : /\ dirs'[runDirs'[i]] \in Evals
                                       /\ evaluated'[dirs'[runDirs'[i]].by] = dirs'[runDirs'[i]]
        BY <3>3, <3>5, <3>6, <3>7, <3>8, <3>11, <3>12
      <4>2. \A i, j \in DOMAIN runDirs' : dirs'[runDirs'[i]].by = dirs'[runDirs'[j]].by => i = j
        <5>1. \A i, j \in 1..l : dirs[runDirs[i]].by = dirs[runDirs[j]].by => i = j
          BY <3>6, <3>10 DEF BenchInv, Own
        <5>2. \A i \in 1..(l + 1) : \/ i \in 1..l /\ dirs'[runDirs'[i]].by = dirs[runDirs[i]].by
                                    \/ i = l + 1 /\ dirs'[runDirs'[i]].by = m
          BY <3>3, <3>5, <3>6, <3>7, <3>8
        <5> QED BY <3>6, <3>12, <5>1, <5>2
      <4>3. \A k \in Bench!Names : evaluated'[k] # Empty => \E i \in DOMAIN runDirs' : dirs'[runDirs'[i]].by = k
        <5> SUFFICES ASSUME NEW k \in Bench!Names, evaluated'[k] # Empty
                     PROVE  \E i \in 1..(l + 1) : dirs'[runDirs'[i]].by = k
          BY <3>6
        <5>1. CASE k = m
          <6>1. l + 1 \in 1..(l + 1)
            OBVIOUS
          <6> QED BY <3>3, <3>5, <3>6, <5>1, <6>1
        <5>2. CASE k # m
          <6>1. evaluated[k] # Empty
            BY <3>5, <5>2
          <6>2. PICK i \in 1..l : dirs[runDirs[i]].by = k
            BY <3>6, <3>10, <6>1 DEF BenchInv, Own
          <6>3. i \in 1..(l + 1)
            OBVIOUS
          <6> QED BY <3>8, <6>2, <6>3
        <5> QED BY <5>1, <5>2
      <4> QED BY <4>1, <4>2, <4>3 DEF Own
    <3>15. Awaited'
      <4> PICK q \in Nat : q = Len(queue)
        BY <3>1
      <4>1. /\ DOMAIN queue = 1..q /\ DOMAIN queue' = 1..(q - 1)
            /\ \A k \in 1..(q - 1) : queue'[k] = queue[k + 1]
        BY <2>1, <2>4, <3>1
      <4>2. \A k \in 1..(q - 1) : k + 1 \in 1..q /\ k + 1 # 1 /\ k \in Int
        OBVIOUS
      <4>3. \A k, h \in 1..q : queue[k] = queue[h] => k = h
        BY <4>1 DEF BenchInv, Awaited
      <4>4. \A k \in 1..q : evaluated[queue[k]] = Empty /\ queue[k] \in Bench!Names
        BY <3>1, <4>1 DEF BenchInv, Awaited
      <4>5. \A k \in 1..(q - 1) : queue'[k] # m /\ evaluated'[queue'[k]] = Empty
        BY <3>1, <3>5, <4>1, <4>2, <4>3, <4>4
      <4>6. \A k, h \in 1..(q - 1) : queue'[k] = queue'[h] => k = h
        <5>1. \A k, h \in 1..(q - 1) : k + 1 = h + 1 => k = h
          OBVIOUS
        <5> QED BY <4>1, <4>2, <4>3, <5>1
      <4> QED BY <2>4, <4>1, <4>5, <4>6 DEF BenchInv, Awaited
    <3>16. Resting' /\ Drawn' /\ Written'
      BY <2>1, <2>4 DEF BenchInv, Resting, Drawn, Written, Bench!files
    <3>17. Bench!TypeOK'
      <4>1. queue' \in Seq(Bench!Names)
        BY <2>1, <2>4, <3>1
      <4>2. /\ DOMAIN dirs' = Bench!Dirs /\ DOMAIN evaluated' = Bench!Names
            /\ UNCHANGED <<benchStep, settings, calls, done, table, json, markdown>>
        BY <2>1, <2>4, <3>5 DEF Bench!files
      <4> QED BY <3>6, <4>1, <4>2 DEF BenchInv, Bench!TypeOK
    <3> QED BY <3>13, <3>14, <3>15, <3>16, <3>17 DEF BenchInv
  <2> QED BY <2>1, <2>2, <2>3, <2>4
<1> QED BY <1>2, <1>3

\* The rest of the steps keep the directories.
LEMMA ReportStep ==
  ASSUME Bench!BenchAssumption, BenchInv, Bench!AllEvaluated \/ Bench!Aggregate \/ Bench!WriteReport
  PROVE  BenchInv'
<1>0. /\ done \subseteq 1..CallLimit /\ json \in 0..CallLimit /\ markdown \in 0..CallLimit
      /\ calls \in 0..CallLimit /\ CallLimit \in Nat
      /\ markdown <= json /\ json <= calls /\ \A c \in done : c <= markdown
      /\ dirs \in [Bench!Dirs -> {Empty, Unreadable} \cup Evals]
  BY DEF BenchInv, Bench!TypeOK, Written, Listed, Bench!BenchAssumption
<1>1. CASE Bench!AllEvaluated
  <2> USE <1>1 DEF Bench!AllEvaluated, Bench!files
  <2>1. Bench!TypeOK'
    BY DEF BenchInv, Bench!TypeOK
  <2>2. Listed' /\ Own' /\ Awaited' /\ Resting'
    BY DEF BenchInv, Listed, Own, Awaited, Resting
  <2>3. Drawn' /\ Written'
    BY DEF BenchInv, Drawn, Written
  <2> QED BY <2>1, <2>2, <2>3 DEF BenchInv
<1>2. CASE Bench!Aggregate
  <2>1. CASE \E i \in DOMAIN runDirs : dirs[runDirs[i]] = Unreadable
    <3>1. Bench!Leave(done) /\ UNCHANGED <<dirs, Bench!files>>
      BY <1>2, <2>1, Zenon DEF Bench!Aggregate, Unreadable
    <3>2. json' = json /\ markdown' = markdown /\ dirs' = dirs
      BY <3>1 DEF Bench!files
    <3> QED BY <1>0, <3>1, <3>2, LeaveStep
  <2>2. CASE ~\E i \in DOMAIN runDirs : dirs[runDirs[i]] = Unreadable
    <3> DEFINE rs == [m \in Bench!Present |-> Bench!Row(m)]
    <3>1. /\ benchStep = "aggregate" /\ benchStep' = "json"
          /\ table' = [same |-> Bench!SameTasks, rows |-> rs, cells |-> Bench!Matrix,
                       order |-> Bench!Ranked(rs), shown |-> calls]
          /\ UNCHANGED <<settings, queue, runDirs, evaluated, calls, done>>
          /\ UNCHANGED <<dirs, Bench!files>>
      BY <1>2, <2>2, Zenon DEF Bench!Aggregate, Unreadable
    <3>2. /\ DOMAIN table' = {"same", "rows", "cells", "order", "shown"}
          /\ table'.same = Bench!SameTasks
          /\ table'.rows = rs /\ table'.cells = Bench!Matrix /\ table'.order = Bench!Ranked(rs)
      BY <3>1, Zenon
    <3>3. UNCHANGED <<settings, queue, runDirs, evaluated, calls, done, dirs, json, markdown>>
      BY <3>1 DEF Bench!files
    <3>4. DOMAIN Bench!NoTable = {"same", "rows", "cells", "order", "shown"}
      BY Zenon DEF Bench!NoTable
    <3>5. Bench!TypeOK'
      BY <3>1, <3>2, <3>3, <3>4 DEF BenchInv, Bench!TypeOK
    <3>6. Listed' /\ Own' /\ Awaited' /\ Resting' /\ Written'
      BY <3>1, <3>3 DEF BenchInv, Listed, Own, Awaited, Resting, Written
    <3>7. Drawn'
      <4>1. \A i \in DOMAIN runDirs : dirs[runDirs[i]] \in Evals
        <5>1. runDirs \in Seq(Bench!Dirs)
          BY DEF BenchInv, Bench!TypeOK
        <5>2. \A i \in DOMAIN runDirs : runDirs[i] \in Bench!Dirs /\ dirs[runDirs[i]] # Empty
          BY <5>1 DEF BenchInv, Listed
        <5> QED BY <1>0, <2>2, <5>2
      <4>2. /\ Bench!SameTasks' = Bench!SameTasks /\ Bench!Present' = Bench!Present
            /\ \A m : Bench!Row(m)' = Bench!Row(m)
            /\ Bench!Matrix' = Bench!Matrix
        BY <3>3, SameReport
      <4>3. rs = [m \in Bench!Present' |-> Bench!Row(m)']
        BY <4>2, Zenon
      <4>4. table'.same => Bench!SameTasks'
        BY <3>2, <4>2, Zenon
      <4>5. table'.rows = [m \in Bench!Present' |-> Bench!Row(m)'] /\ table'.cells = Bench!Matrix'
        BY <3>2, <4>2, <4>3, Zenon
      <4>6. table'.order = Bench!Ranked(table'.rows)
        BY <3>2, Zenon
      <4>7. Bench!Ranked(table'.rows) = Bench!Ranked(table.rows)'
        BY DEF Bench!Ranked
      <4>8. \A i \in DOMAIN runDirs' : dirs'[runDirs'[i]] \in Evals
        BY <3>3, <4>1
      <4> QED BY <4>4, <4>5, <4>6, <4>7, <4>8, Zenon DEF Drawn
    <3> QED BY <3>5, <3>6, <3>7 DEF BenchInv
  <2> QED BY <2>1, <2>2
<1>3. CASE Bench!WriteReport
  <2>1. CASE benchStep = "json"
    <3>1. /\ json' = calls /\ benchStep' = "markdown"
          /\ UNCHANGED <<settings, queue, runDirs, evaluated, table, calls, done, markdown, dirs>>
      BY <1>3, <2>1 DEF Bench!WriteReport
    <3>2. Bench!TypeOK'
      BY <1>0, <3>1 DEF BenchInv, Bench!TypeOK
    <3>3. Listed' /\ Own' /\ Awaited' /\ Resting' /\ Written'
      BY <1>0, <2>1, <3>1 DEF BenchInv, Listed, Own, Awaited, Resting, Written
    <3>4. Drawn'
      <4>1. /\ \A i \in DOMAIN runDirs : dirs[runDirs[i]] \in Evals
            /\ table.same => Bench!SameTasks
            /\ table.rows = [m \in Bench!Present |-> Bench!Row(m)]
            /\ table.cells = Bench!Matrix
            /\ table.order = Bench!Ranked(table.rows)
        BY <2>1 DEF BenchInv, Drawn
      <4>2. /\ Bench!SameTasks' = Bench!SameTasks /\ Bench!Present' = Bench!Present
            /\ \A m : Bench!Row(m)' = Bench!Row(m)
            /\ Bench!Matrix' = Bench!Matrix
        BY <3>1, SameReport
      <4>3. table' = table /\ dirs' = dirs /\ runDirs' = runDirs
        BY <3>1
      <4>4. table'.same => Bench!SameTasks'
        BY <4>1, <4>2, <4>3, Zenon
      <4>5. table'.rows = [m \in Bench!Present' |-> Bench!Row(m)'] /\ table'.cells = Bench!Matrix'
        BY <4>1, <4>2, <4>3, Zenon
      <4>6. table'.order = Bench!Ranked(table.rows)'
        BY <4>1, <4>3, Zenon DEF Bench!Ranked
      <4>7. \A i \in DOMAIN runDirs' : dirs'[runDirs'[i]] \in Evals
        BY <4>1, <4>3
      <4> QED BY <4>4, <4>5, <4>6, <4>7, Zenon DEF Drawn
    <3> QED BY <3>2, <3>3, <3>4 DEF BenchInv
  <2>2. CASE benchStep # "json"
    <3>1. /\ benchStep = "markdown" /\ markdown' = calls /\ Bench!Leave(done \cup {calls})
          /\ json' = json /\ dirs' = dirs
      BY <1>3, <2>2 DEF Bench!WriteReport
    <3>2. json = calls /\ calls # 0
      BY <3>1 DEF BenchInv, Written, Resting
    <3>3. done \cup {calls} \subseteq 1..CallLimit /\ markdown' \in 0..CallLimit /\ json' \in 0..CallLimit
          /\ markdown' <= json' /\ json' <= calls
      BY <1>0, <3>1, <3>2
    <3>4. \A c \in done \cup {calls} : c <= markdown'
      <4>1. \A c \in done : c \in Nat /\ c <= markdown /\ markdown \in Nat /\ markdown <= calls /\ calls \in Nat
        BY <1>0
      <4>2. \A c \in done : c <= calls
        BY <4>1
      <4> QED BY <1>0, <3>1, <4>2
    <3> QED BY <1>0, <3>1, <3>3, <3>4, LeaveStep
  <2> QED BY <2>1, <2>2
<1> QED BY <1>1, <1>2, <1>3

\* Every step keeps the invariant of the benchmarks.
LEMMA BenchStep ==
  ASSUME Bench!BenchAssumption, BenchInv, Bench!Next
  PROVE  BenchInv'
BY CallStep, EvaluateStep, ReportStep DEF Bench!Next

-----------------------------------------------------------------------------
\* The tallies of rollouts that a row adds up.
Sums == {c \in [n : Nat, full : Nat, part : Nat] : c.full <= c.n}
Readable == \A i \in DOMAIN runDirs : dirs[runDirs[i]] \in Evals
Held(i) == dirs[runDirs[i]].rolls

\* Adding tallies gives one, and nothing is added by no rollouts.
LEMMA PlusIsSum ==
  /\ Bench!Zero \in Sums
  /\ \A a, b \in Sums : /\ Bench!Plus(a, b) \in Sums /\ Bench!Plus(a, b).n = a.n + b.n
                        /\ Bench!Plus(Bench!Zero, b) = b
<1>1. Bench!Zero \in Sums
  BY DEF Bench!Zero, Sums
<1>2. ASSUME NEW a \in Sums, NEW b \in Sums
      PROVE  /\ Bench!Plus(a, b) \in Sums /\ Bench!Plus(a, b).n = a.n + b.n
             /\ Bench!Plus(Bench!Zero, b) = b
  <2> PICK an, af, ap, bn, bf, bp \in Nat :
        /\ a = [n |-> an, full |-> af, part |-> ap] /\ b = [n |-> bn, full |-> bf, part |-> bp]
        /\ af <= an /\ bf <= bn
    BY DEF Sums
  <2>1. Bench!Plus(a, b) = [n |-> an + bn, full |-> af + bf, part |-> ap + bp]
    BY DEF Bench!Plus
  <2>2. an + bn \in Nat /\ af + bf \in Nat /\ ap + bp \in Nat /\ af + bf <= an + bn
    OBVIOUS
  <2>3. Bench!Plus(a, b) \in Sums /\ Bench!Plus(a, b).n = a.n + b.n
    <3> PICK x, y, z \in Nat : x = an + bn /\ y = af + bf /\ z = ap + bp
      BY <2>2
    <3> QED BY <2>1, <2>2 DEF Sums
  <2>4. Bench!Plus(Bench!Zero, b) = [n |-> 0 + bn, full |-> 0 + bf, part |-> 0 + bp]
    BY DEF Bench!Plus, Bench!Zero
  <2>5. 0 + bn = bn /\ 0 + bf = bf /\ 0 + bp = bp
    OBVIOUS
  <2> QED BY <2>3, <2>4, <2>5
<1> QED BY <1>1, <1>2

\* A run has at least one rollout of each of its tasks, of which there are some.
LEMMA RollsAreTallies ==
  ASSUME Bench!BenchAssumption, NEW r \in Rolls
  PROVE  /\ DOMAIN r \in TaskSets /\ r \in [DOMAIN r -> Sums] /\ DOMAIN r # {} /\ DOMAIN r \subseteq Bench!Tasks
         /\ \A t \in DOMAIN r : r[t].n \in Positive
<1>1. PICK T \in TaskSets : \E n \in 1..RolloutLimit : r \in Bench!Results(T, n)
  BY DEF Rolls
<1>2. PICK n \in 1..RolloutLimit : r \in [T -> Bench!Counts(n)]
  BY <1>1 DEF Bench!Results
<1>3. \A c \in Bench!Counts(n) : c \in Sums /\ c.n \in Positive
  <2> TAKE c \in Bench!Counts(n)
  <2>1. c \in [n : {n}, full : 0..n, part : 0..1]
    BY DEF Bench!Counts
  <2>2. n \in Nat /\ n # 0 /\ (\A f \in 0..n : f \in Nat /\ f <= n) /\ \A f \in 0..1 : f \in Nat
    OBVIOUS
  <2> QED BY <2>1, <2>2 DEF Sums, Positive
<1>4. T # {}
  BY DEF Bench!BenchAssumption
<1>5. DOMAIN r = T
  BY <1>2
<1> QED BY <1>2, <1>3, <1>4, <1>5 DEF Bench!Tasks

\* The running sums of a task over the directories of I.
Tallied(g, I, t) ==
  /\ g \in [0..Len(runDirs) -> Sums] /\ g[0] = Bench!Zero
  /\ \A k \in 1..Len(runDirs) :
       g[k] = IF k \in I /\ t \in DOMAIN Held(k) THEN Bench!Plus(g[k - 1], Held(k)[t]) ELSE g[k - 1]

\* Sum is the last of them.
LEMMA SumIsTallied ==
  ASSUME Bench!BenchAssumption, Bench!TypeOK, Readable, NEW I, NEW t
  PROVE  \E g : Tallied(g, I, t) /\ Bench!Sum(I, t) = g[Len(runDirs)]
<1> PICK n \in Nat : n = Len(runDirs) /\ DOMAIN runDirs = 1..n
  BY DEF Bench!TypeOK
<1> DEFINE next(u, k) == IF k \in I /\ t \in DOMAIN Held(k) THEN Bench!Plus(u, Held(k)[t]) ELSE u
           e(f, k) == IF k = 0 THEN Bench!Zero ELSE next(f[k - 1], k)
           advance == [k \in 1..n |-> [u \in Sums |-> next(u, k)]]
<1>1. \A k \in 1..n, u \in Sums : next(u, k) \in Sums
  <2> TAKE k \in 1..n, u \in Sums
  <2>1. Held(k) \in Rolls
    BY DirsAreNumbers DEF Readable, Held
  <2>2. \A x \in DOMAIN Held(k) : Held(k)[x] \in Sums
    BY <2>1, RollsAreTallies
  <2> QED BY <2>2, PlusIsSum
<1> HIDE DEF next
<1>2. advance \in [1..n -> [Sums -> Sums]] /\ \A k \in 1..n, u \in Sums : advance[k][u] = next(u, k)
  BY <1>1
<1> HIDE DEF advance
<1>3. PICK g : Orbit(g, n, Sums, Bench!Zero, advance)
  BY <1>2, PlusIsSum, Iterated
<1>4. ASSUME NEW k \in 1..n PROVE k - 1 \in 0..n /\ g[k] = next(g[k - 1], k)
  <2>1. k - 1 \in 0..n
    OBVIOUS
  <2>2. g[k - 1] \in Sums /\ g[k] = advance[k][g[k - 1]]
    BY <1>3, <2>1 DEF Orbit
  <2> QED BY <1>2, <2>1, <2>2
<1>5. \A k \in 0..n : g[k] = e(g, k)
  BY <1>3, <1>4 DEF Orbit
<1> HIDE DEF e
<1>6. g = [k \in 0..n |-> e(g, k)]
  BY <1>3, <1>5 DEF Orbit
<1> DEFINE Is(h) == h = [k \in 0..n |-> e(h, k)]
           sum == CHOOSE h : Is(h)
<1>7. Is(sum)
  BY <1>6
<1>8. Bench!Sum(I, t) = sum[n]
  <2>1. \A k : UNION {DOMAIN dirs[runDirs[j]].rolls : j \in {k}} = DOMAIN Held(k)
    BY DEF Held
  <2> QED BY <2>1 DEF Bench!Sum, Bench!TasksOf, e, next, Held
<1> HIDE DEF sum
<1>9. \A k \in 0..n : sum[k] = e(sum, k)
  BY <1>7
<1>10. \A k \in 0..n : sum[k] = g[k]
  <2> DEFINE Bad == {k \in 0..n : sum[k] # g[k]}
  <2> SUFFICES ASSUME Bad # {} PROVE FALSE
    OBVIOUS
  <2>0. Bad \subseteq Nat
    OBVIOUS
  <2>1. PICK m \in Bad : \A k \in Bad : m <= k
    <3> HIDE DEF Bad
    <3> QED BY <2>0, LeastNat
  <2>2. m # 0
    BY <1>5, <1>9, <2>1 DEF e
  <2>3. m \in 1..n /\ m - 1 \in 0..n /\ m - 1 \notin Bad
    BY <2>1, <2>2
  <2> QED BY <1>5, <1>9, <2>1, <2>2, <2>3 DEF e
<1>11. Tallied(g, I, t)
  BY <1>3, <1>4 DEF Tallied, Orbit, next
<1> QED BY <1>8, <1>10, <1>11

\* The rollouts of a task that the runs of a model hold, counted in turn.
RolledUp(h, m, t) ==
  /\ h \in [0..Len(runDirs) -> Nat] /\ h[0] = 0
  /\ \A k \in 1..Len(runDirs) :
       h[k] = IF dirs[runDirs[k]].by = m /\ t \in DOMAIN Held(k) THEN h[k - 1] + Held(k)[t].n ELSE h[k - 1]

\* Rolled is the last of these counts.
LEMMA RolledIsCounted ==
  ASSUME Bench!BenchAssumption, Bench!TypeOK, Readable, NEW m, NEW t
  PROVE  \E h : RolledUp(h, m, t) /\ Bench!Rolled(m, t) = h[Len(runDirs)]
<1> PICK n \in Nat : n = Len(runDirs) /\ DOMAIN runDirs = 1..n
  BY DEF Bench!TypeOK
<1> DEFINE next(u, k) == IF dirs[runDirs[k]].by = m /\ t \in DOMAIN Held(k) THEN u + Held(k)[t].n ELSE u
           e(f, k) == IF k = 0 THEN 0 ELSE next(f[k - 1], k)
           advance == [k \in 1..n |-> [u \in Nat |-> next(u, k)]]
<1>1. \A k \in 1..n, u \in Nat : next(u, k) \in Nat
  <2> TAKE k \in 1..n, u \in Nat
  <2>1. Held(k) \in Rolls
    BY DirsAreNumbers DEF Readable, Held
  <2>2. \A x \in DOMAIN Held(k) : Held(k)[x].n \in Nat
    BY <2>1, RollsAreTallies DEF Positive
  <2> QED BY <2>2
<1> HIDE DEF next
<1>2. advance \in [1..n -> [Nat -> Nat]] /\ \A k \in 1..n, u \in Nat : advance[k][u] = next(u, k)
  BY <1>1
<1> HIDE DEF advance
<1>3. PICK g : Orbit(g, n, Nat, 0, advance)
  <2>1. 0 \in Nat
    OBVIOUS
  <2> QED BY <1>2, <2>1, Iterated
<1>4. ASSUME NEW k \in 1..n PROVE k - 1 \in 0..n /\ g[k] = next(g[k - 1], k)
  <2>1. k - 1 \in 0..n
    OBVIOUS
  <2>2. g[k - 1] \in Nat /\ g[k] = advance[k][g[k - 1]]
    BY <1>3, <2>1 DEF Orbit
  <2> QED BY <1>2, <2>1, <2>2
<1>5. \A k \in 0..n : g[k] = e(g, k)
  BY <1>3, <1>4 DEF Orbit
<1> HIDE DEF e
<1>6. g = [k \in 0..n |-> e(g, k)]
  BY <1>3, <1>5 DEF Orbit
<1> DEFINE Is(h) == h = [k \in 0..n |-> e(h, k)]
           sum == CHOOSE h : Is(h)
<1>7. Is(sum)
  BY <1>6
<1>8. Bench!Rolled(m, t) = sum[n]
  BY DEF Bench!Rolled, e, next, Held
<1> HIDE DEF sum
<1>9. \A k \in 0..n : sum[k] = e(sum, k)
  BY <1>7
<1>10. \A k \in 0..n : sum[k] = g[k]
  <2> DEFINE Bad == {k \in 0..n : sum[k] # g[k]}
  <2> SUFFICES ASSUME Bad # {} PROVE FALSE
    OBVIOUS
  <2>0. Bad \subseteq Nat
    OBVIOUS
  <2>1. PICK l \in Bad : \A k \in Bad : l <= k
    <3> HIDE DEF Bad
    <3> QED BY <2>0, LeastNat
  <2>2. l # 0
    BY <1>5, <1>9, <2>1 DEF e
  <2>3. l \in 1..n /\ l - 1 \in 0..n /\ l - 1 \notin Bad
    BY <2>1, <2>2
  <2> QED BY <1>5, <1>9, <2>1, <2>2, <2>3 DEF e
<1>11. RolledUp(g, m, t)
  BY <1>3, <1>4 DEF RolledUp, Orbit, next
<1> QED BY <1>8, <1>10, <1>11

\* The sum over the runs of a model counts the rollouts they hold.
LEMMA SumIsRolled ==
  ASSUME Bench!BenchAssumption, Bench!TypeOK, Readable, NEW m, NEW t
  PROVE  /\ Bench!Sum(Bench!Of(m), t).n = Bench!Rolled(m, t)
         /\ Bench!Rolled(m, t) \in Nat
         /\ Bench!Rolled(m, t) > 0 => t \in Bench!TasksOf(Bench!Of(m))
<1> PICK n \in Nat : n = Len(runDirs) /\ DOMAIN runDirs = 1..n
  BY DEF Bench!TypeOK
<1> PICK I : I = Bench!Of(m)
  OBVIOUS
<1>1. PICK g : Tallied(g, I, t) /\ Bench!Sum(I, t) = g[n]
  BY SumIsTallied
<1>2. PICK h : RolledUp(h, m, t) /\ Bench!Rolled(m, t) = h[n]
  BY RolledIsCounted
<1>3. \A k \in 1..n : k \in I <=> dirs[runDirs[k]].by = m
  BY DEF Bench!Of
<1>4. ASSUME NEW k \in 1..n, t \in DOMAIN Held(k) PROVE Held(k)[t] \in Sums
  <2>1. Held(k) \in Rolls
    BY DirsAreNumbers DEF Readable, Held
  <2> QED BY <1>4, <2>1, RollsAreTallies
<1> DEFINE Law(k) == g[k].n = h[k] /\ (h[k] > 0 => t \in Bench!TasksOf(I))
           Bad == {k \in 0..n : ~Law(k)}
<1>5. Law(0)
  <2>1. Bench!Zero.n = 0
    BY DEF Bench!Zero
  <2> QED BY <1>1, <1>2, <2>1 DEF Tallied, RolledUp
<1>6. ASSUME NEW k \in 1..n, Law(k - 1) PROVE Law(k)
  <2>1. k - 1 \in 0..n /\ g[k - 1] \in Sums /\ h[k - 1] \in Nat
    <3>1. k - 1 \in 0..n
      OBVIOUS
    <3> QED BY <1>1, <1>2, <3>1 DEF Tallied, RolledUp
  <2>2. CASE k \in I /\ t \in DOMAIN Held(k)
    <3>1. g[k] = Bench!Plus(g[k - 1], Held(k)[t]) /\ h[k] = h[k - 1] + Held(k)[t].n
      BY <1>1, <1>2, <1>3, <2>2 DEF Tallied, RolledUp
    <3>2. g[k].n = g[k - 1].n + Held(k)[t].n
      BY <1>4, <2>1, <2>2, <3>1, PlusIsSum
    <3>3. t \in Bench!TasksOf(I)
      BY <2>2 DEF Bench!TasksOf, Held
    <3> QED BY <1>6, <3>1, <3>2, <3>3
  <2>3. CASE ~(k \in I /\ t \in DOMAIN Held(k))
    <3>1. g[k] = g[k - 1] /\ h[k] = h[k - 1]
      BY <1>1, <1>2, <1>3, <2>3 DEF Tallied, RolledUp
    <3> QED BY <1>6, <3>1
  <2> QED BY <2>2, <2>3
<1> HIDE DEF Law
<1>7. Bad = {}
  <2> SUFFICES ASSUME Bad # {} PROVE FALSE
    OBVIOUS
  <2>1. Bad \subseteq Nat
    OBVIOUS
  <2>2. PICK l \in Bad : \A k \in Bad : l <= k
    <3> HIDE DEF Bad
    <3> QED BY <2>1, LeastNat
  <2>3. l \in 1..n /\ l - 1 \in 0..n /\ l - 1 \notin Bad
    BY <1>5, <2>2
  <2> QED BY <1>6, <2>2, <2>3
<1>8. Law(n) /\ h[n] \in Nat
  <2>1. n \in 0..n
    OBVIOUS
  <2> QED BY <1>2, <1>7, <2>1 DEF RolledUp
<1> QED BY <1>1, <1>2, <1>8 DEF Law

\* A sum over directories that hold a task is a tally of at least one rollout.
LEMMA SumIsPositive ==
  ASSUME Bench!BenchAssumption, Bench!TypeOK, Readable, NEW I, I \subseteq DOMAIN runDirs, NEW t \in Bench!TasksOf(I)
  PROVE  Bench!Sum(I, t) \in Sums /\ Bench!Sum(I, t).n \in Positive
<1> PICK n \in Nat : n = Len(runDirs) /\ DOMAIN runDirs = 1..n
  BY DEF Bench!TypeOK
<1>1. PICK g : Tallied(g, I, t) /\ Bench!Sum(I, t) = g[n]
  BY SumIsTallied
<1>2. PICK i \in I : t \in DOMAIN Held(i)
  BY DEF Bench!TasksOf, Held
<1>3. i \in 1..n
  OBVIOUS
<1>4. ASSUME NEW k \in 1..n, t \in DOMAIN Held(k) PROVE Held(k)[t] \in Sums /\ Held(k)[t].n \in Positive
  <2>1. Held(k) \in Rolls
    BY DirsAreNumbers DEF Readable, Held
  <2> QED BY <1>4, <2>1, RollsAreTallies
<1> DEFINE Law(k) == k >= i => g[k].n > 0
           Bad == {k \in 0..n : ~Law(k)}
<1>5. ASSUME NEW k \in 1..n, Law(k - 1) PROVE Law(k)
  <2>1. k - 1 \in 0..n /\ g[k - 1] \in Sums
    <3>1. k - 1 \in 0..n
      OBVIOUS
    <3> QED BY <1>1, <3>1 DEF Tallied
  <2>2. g[k - 1].n \in Nat
    BY <2>1 DEF Sums
  <2>3. CASE k \in I /\ t \in DOMAIN Held(k)
    <3>1. g[k].n = g[k - 1].n + Held(k)[t].n
      <4>1. g[k] = Bench!Plus(g[k - 1], Held(k)[t])
        BY <1>1, <2>3 DEF Tallied
      <4> QED BY <1>4, <2>1, <2>3, <4>1, PlusIsSum
    <3>2. Held(k)[t].n \in Nat /\ Held(k)[t].n # 0
      BY <1>4, <2>3 DEF Positive
    <3> QED BY <2>2, <3>1, <3>2
  <2>4. CASE ~(k \in I /\ t \in DOMAIN Held(k))
    <3>1. g[k] = g[k - 1] /\ k # i
      BY <1>1, <1>2, <2>4 DEF Tallied
    <3>2. k >= i => k - 1 >= i
      BY <1>3, <3>1
    <3> QED BY <1>5, <3>1, <3>2
  <2> QED BY <2>3, <2>4
<1>6. Law(0)
  BY <1>3
<1> HIDE DEF Law
<1>7. Bad = {}
  <2> SUFFICES ASSUME Bad # {} PROVE FALSE
    OBVIOUS
  <2>1. Bad \subseteq Nat
    OBVIOUS
  <2>2. PICK l \in Bad : \A k \in Bad : l <= k
    <3> HIDE DEF Bad
    <3> QED BY <2>1, LeastNat
  <2>3. l \in 1..n /\ l - 1 \in 0..n /\ l - 1 \notin Bad
    BY <1>6, <2>2
  <2> QED BY <1>5, <2>2, <2>3
<1>8. Law(n) /\ g[n] \in Sums
  <2>1. n \in 0..n
    OBVIOUS
  <2> QED BY <1>1, <1>7, <2>1 DEF Tallied
<1>9. g[n].n > 0
  BY <1>3, <1>8 DEF Law
<1>10. g[n].n \in Nat
  BY <1>8 DEF Sums
<1> QED BY <1>1, <1>8, <1>9, <1>10 DEF Positive

\* The sum over one directory is what it holds.
LEMMA SumOfOne ==
  ASSUME Bench!BenchAssumption, Bench!TypeOK, Readable, NEW i \in DOMAIN runDirs, NEW t \in DOMAIN Held(i)
  PROVE  Bench!Sum({i}, t) = Held(i)[t]
<1> PICK n \in Nat : n = Len(runDirs) /\ DOMAIN runDirs = 1..n
  BY DEF Bench!TypeOK
<1>1. PICK g : Tallied(g, {i}, t) /\ Bench!Sum({i}, t) = g[n]
  BY SumIsTallied
<1>2. Held(i)[t] \in Sums
  <2>1. Held(i) \in Rolls
    BY DirsAreNumbers DEF Readable, Held
  <2> QED BY <2>1, RollsAreTallies
<1> DEFINE Law(k) == g[k] = IF k < i THEN Bench!Zero ELSE Held(i)[t]
           Bad == {k \in 0..n : ~Law(k)}
<1>3. Law(0)
  BY <1>1 DEF Tallied
<1>4. ASSUME NEW k \in 1..n, Law(k - 1) PROVE Law(k)
  <2>1. CASE k = i
    <3>1. g[k] = Bench!Plus(g[k - 1], Held(i)[t]) /\ k - 1 < i
      BY <1>1, <2>1 DEF Tallied
    <3>2. g[k - 1] = Bench!Zero
      BY <1>4, <3>1
    <3> QED BY <1>2, <2>1, <3>1, <3>2, PlusIsSum
  <2>2. CASE k # i
    <3>1. g[k] = g[k - 1] /\ (k < i <=> k - 1 < i)
      BY <1>1, <2>2 DEF Tallied
    <3> QED BY <1>4, <3>1
  <2> QED BY <2>1, <2>2
<1> HIDE DEF Law
<1>5. Bad = {}
  <2> SUFFICES ASSUME Bad # {} PROVE FALSE
    OBVIOUS
  <2>1. Bad \subseteq Nat
    OBVIOUS
  <2>2. PICK l \in Bad : \A k \in Bad : l <= k
    <3> HIDE DEF Bad
    <3> QED BY <2>1, LeastNat
  <2>3. l \in 1..n /\ l - 1 \in 0..n /\ l - 1 \notin Bad
    BY <1>3, <2>2
  <2> QED BY <1>4, <2>2, <2>3
<1>6. Law(n) /\ ~(n < i)
  BY <1>5
<1> QED BY <1>1, <1>6 DEF Law

\* pass@k, a product of fractions in the code, is the share of the k-subsets of
\* the rollouts that have a full pass in them, for every number of rollouts, of
\* full passes and every k (pass_at_k in bench.py).
THEOREM PassIsShare ==
  ASSUME NEW n \in Nat, NEW f \in 0..n, NEW k \in 0..n
  PROVE  LET draws == Bench!FS!kSubset(k, 1..n)
             hits == {s \in draws : \E i \in s : i <= f}
         IN  Bench!Fraction(Bench!PassAtK(n, f, k), <<Cardinality(hits), Cardinality(draws)>>)
<1> DEFINE draws == Bench!FS!kSubset(k, 1..n)
           hits == {s \in draws : \E i \in s : i <= f}
           after == (f + 1)..n
<1>1. draws = OfSize(k, 1..n)
  BY DEF Bench!FS!kSubset, Bench!FS!Cardinality, OfSize, Cardinality
<1>2. IsFiniteSet(1..n) /\ Cardinality(1..n) = n
  <2>1. 1 \in Int /\ n \in Int /\ (1 > n => n = 0) /\ n - 1 + 1 = n
    OBVIOUS
  <2> QED BY <2>1, FS_Interval
<1>3. IsFiniteSet(after) /\ Cardinality(after) = n - f
  <2> PICK a : a = f + 1
    OBVIOUS
  <2>1. a \in Int /\ n \in Int /\ (a > n => n - f = 0) /\ n - a + 1 = n - f
    OBVIOUS
  <2> QED BY <2>1, FS_Interval
<1> PICK r \in Nat : r = n - f
  OBVIOUS
<1> SUFFICES Bench!Fraction(Bench!PassAtK(n, f, k), <<Cardinality(hits), Cardinality(draws)>>)
  OBVIOUS
<1>4. /\ Cardinality(draws) = Bench!Comb!choose(n, k) /\ IsFiniteSet(draws) /\ Cardinality(draws) \in Nat
  BY <1>1, <1>2, ChooseCounts
<1>5. draws \ hits = OfSize(k, after)
  <2>1. \A i \in 1..n : i \in after <=> ~(i <= f)
    OBVIOUS
  <2>2. after \subseteq 1..n
    OBVIOUS
  <2> HIDE DEF after
  <2>3. \A s \in SUBSET (1..n) : s \in SUBSET after <=> ~\E i \in s : i <= f
    BY <2>1
  <2> QED BY <1>1, <2>2, <2>3 DEF OfSize
<1>6. CASE r < k
  <2>1. OfSize(k, after) = {}
    <3> SUFFICES ASSUME NEW s \in SUBSET after, Cardinality(s) = k PROVE FALSE
      BY DEF OfSize
    <3> HIDE DEF after
    <3>1. Cardinality(s) <= Cardinality(after)
      BY <1>3, FS_Subset
    <3> QED BY <1>3, <1>6, <3>1
  <2>2. hits = draws
    BY <1>5, <2>1
  <2>3. Bench!PassAtK(n, f, k) = <<1, 1>>
    BY <1>6 DEF Bench!PassAtK
  <2>4. \A d \in Nat : Bench!Fraction(<<1, 1>>, <<d, d>>)
    BY DEF Bench!Fraction
  <2> HIDE DEF hits, draws
  <2> QED BY <1>4, <2>2, <2>3, <2>4
<1>7. CASE ~(r < k)
  <2>1. Cardinality(OfSize(k, after)) = Bench!Comb!choose(r, k) /\ Cardinality(OfSize(k, after)) \in Nat
    <3>1. k \in 0..r
      BY <1>7
    <3> HIDE DEF after
    <3> QED BY <1>3, <3>1, ChooseCounts
  <2>2. Cardinality(hits) = Cardinality(draws) - Cardinality(OfSize(k, after))
    <3>1. hits = draws \ (draws \ hits) /\ (draws \ hits) \subseteq draws
      OBVIOUS
    <3> PICK D, M : D = draws /\ M = draws \ hits
      OBVIOUS
    <3>2. Cardinality(D \ M) = Cardinality(D) - Cardinality(D \cap M) /\ D \cap M = M
      BY <1>4, <3>1, FS_Difference
    <3> HIDE DEF draws, hits
    <3> QED BY <1>5, <3>1, <3>2
  <2>3. Bench!PassAtK(n, f, k) = <<Bench!Comb!choose(n, k) - Bench!Comb!choose(r, k), Bench!Comb!choose(n, k)>>
    BY <1>7 DEF Bench!PassAtK
  <2>4. Bench!PassAtK(n, f, k) = <<Cardinality(hits), Cardinality(draws)>>
    BY <1>4, <2>1, <2>2, <2>3
  <2>5. \A a, b : Bench!Fraction(<<a, b>>, <<a, b>>)
    BY DEF Bench!Fraction
  <2> HIDE DEF hits, draws
  <2> QED BY <2>4, <2>5
<1> QED BY <1>6, <1>7

\* The sequence of the members of a finite set that the total is taken along.
LEMMA MembersInTurn ==
  ASSUME NEW S, IsFiniteSet(S)
  PROVE  Bench!SE!SetToSeq(S) \in [1..Cardinality(S) -> S] /\ Cardinality(S) \in Nat
<1>1. PICK n \in Nat : ExistsBijection(1..n, S)
  BY FS_NatBijection
<1>2. Cardinality(S) = n
  BY <1>1, FS_CountingElements
<1>3. PICK s : s \in Bijection(1..n, S)
  BY <1>1 DEF ExistsBijection
<1>4. s \in [1..n -> S] /\ \A a, b \in DOMAIN s : s[a] = s[b] => a = b
  BY <1>3 DEF Bijection, Injection, IsInjective
<1>5. Bench!SE!SetToSeq(S) = CHOOSE f \in [1..n -> S] : \A a, b \in DOMAIN f : f[a] = f[b] => a = b
  <2>1. Bench!SE!Cardinality(S) = n
    BY <1>2 DEF Bench!SE!Cardinality, Cardinality
  <2> QED BY <2>1 DEF Bench!SE!SetToSeq, Bench!SE!IsInjective
<1> QED BY <1>2, <1>4, <1>5

\* What a total adds up, one task after the other.
TotalOver(tasks, by) ==
  LET upto[k \in 0..Len(tasks)] ==
        IF k = 0 THEN Bench!Zero ELSE Bench!Plus(upto[k - 1], by[tasks[k]])
  IN upto[Len(tasks)]

\* The total of some tallies of rollouts is one.
LEMMA TotalIsTally ==
  ASSUME NEW row, NEW T, T # {}, IsFiniteSet(T), DOMAIN row.by = T,
         \A t \in T : row.by[t] \in Sums /\ row.by[t].n \in Positive
  PROVE  Bench!Total(row) \in Tally
<1> PICK tasks, by, n : tasks = Bench!SE!SetToSeq(T) /\ by = row.by /\ n = Cardinality(T)
  OBVIOUS
<1>1. n \in Nat /\ tasks \in [1..n -> T] /\ Len(tasks) = n
  BY MembersInTurn
<1>2. n # 0
  BY FS_EmptySet
<1>3. Bench!Total(row) = TotalOver(tasks, by)
  BY DEF Bench!Total, TotalOver
<1> DEFINE next(u, k) == Bench!Plus(u, by[tasks[k]])
           e(f, k) == IF k = 0 THEN Bench!Zero ELSE next(f[k - 1], k)
           advance == [k \in 1..n |-> [u \in Sums |-> next(u, k)]]
<1>4. \A k \in 1..n : by[tasks[k]] \in Sums /\ by[tasks[k]].n \in Positive
  BY <1>1
<1>5. \A k \in 1..n, u \in Sums : next(u, k) \in Sums /\ next(u, k).n \in Positive
  <2> TAKE k \in 1..n, u \in Sums
  <2>1. next(u, k) \in Sums /\ next(u, k).n = u.n + by[tasks[k]].n
    BY <1>4, PlusIsSum
  <2>2. u.n \in Nat
    BY DEF Sums
  <2>3. \A x \in Nat, y \in Positive : x + y \in Positive
    BY DEF Positive
  <2> QED BY <1>4, <2>1, <2>2, <2>3
<1> HIDE DEF next
<1>6. advance \in [1..n -> [Sums -> Sums]] /\ \A k \in 1..n, u \in Sums : advance[k][u] = next(u, k)
  BY <1>5
<1> HIDE DEF advance
<1>7. PICK g : Orbit(g, n, Sums, Bench!Zero, advance)
  BY <1>1, <1>6, PlusIsSum, Iterated
<1>8. ASSUME NEW k \in 1..n PROVE k - 1 \in 0..n /\ g[k] = next(g[k - 1], k)
  <2>1. k - 1 \in 0..n
    BY <1>1
  <2>2. g[k - 1] \in Sums /\ g[k] = advance[k][g[k - 1]]
    BY <1>7, <2>1 DEF Orbit
  <2> QED BY <1>6, <2>1, <2>2
<1>9. \A k \in 0..n : g[k] = e(g, k)
  BY <1>1, <1>7, <1>8 DEF Orbit
<1> HIDE DEF e
<1>10. g = [k \in 0..n |-> e(g, k)]
  BY <1>7, <1>9 DEF Orbit
<1> DEFINE Is(h) == h = [k \in 0..n |-> e(h, k)]
           sum == CHOOSE h : Is(h)
<1>11. Is(sum)
  BY <1>10
<1>12. TotalOver(tasks, by) = sum[n]
  BY <1>1 DEF TotalOver, e, next
<1> HIDE DEF sum
<1>13. \A k \in 0..n : sum[k] = e(sum, k)
  BY <1>11
<1>14. \A k \in 0..n : sum[k] \in Sums
  <2> DEFINE Bad == {k \in 0..n : sum[k] \notin Sums}
  <2> SUFFICES ASSUME Bad # {} PROVE FALSE
    OBVIOUS
  <2>0. Bad \subseteq Nat
    OBVIOUS
  <2>1. PICK m \in Bad : \A k \in Bad : m <= k
    <3> HIDE DEF Bad
    <3> QED BY <2>0, LeastNat
  <2>2. m # 0
    BY <1>13, <2>1, PlusIsSum DEF e
  <2>3. m \in 1..n /\ m - 1 \in 0..n /\ m - 1 \notin Bad
    BY <1>1, <2>1, <2>2
  <2> QED BY <1>5, <1>13, <2>1, <2>2, <2>3 DEF e
<1>15. sum[n] \in Sums /\ sum[n].n \in Positive
  <2>1. n \in 0..n /\ n \in 1..n /\ n - 1 \in 0..n
    BY <1>1, <1>2
  <2>2. sum[n] = next(sum[n - 1], n) /\ sum[n - 1] \in Sums
    BY <1>2, <1>13, <1>14, <2>1 DEF e
  <2> QED BY <1>5, <2>1, <2>2
<1> QED BY <1>3, <1>12, <1>15 DEF Sums, Tally

\* The row of a model: its tallies, the draws that every task allows, and the shares.
LEMMA RowOfModel ==
  ASSUME Bench!BenchAssumption, Bench!TypeOK, Readable, NEW m \in Bench!Present
  PROVE  LET row == Bench!Row(m) IN
         /\ DOMAIN row.by = Bench!TasksOf(Bench!Of(m)) /\ DOMAIN row.by # {} /\ IsFiniteSet(DOMAIN row.by)
         /\ \A t \in DOMAIN row.by : /\ row.by[t] = Bench!Sum(Bench!Of(m), t)
                                     /\ row.by[t] \in Sums /\ row.by[t].n \in Positive
                                     /\ row.k <= row.by[t].n
         /\ row.k \in Nat
         /\ \A t \in DOMAIN row.passAtK :
              t \in DOMAIN row.by /\ row.passAtK[t] = Bench!PassAtK(row.by[t].n, row.by[t].full, row.k)
<1> DEFINE T == Bench!TasksOf(Bench!Of(m))
           by == [t \in T |-> Bench!Sum(Bench!Of(m), t)]
           N == {by[t].n : t \in DOMAIN by}
           k == Bench!FS!Min(N)
           shares == IF k > 1 THEN [t \in DOMAIN by |-> Bench!PassAtK(by[t].n, by[t].full, k)] ELSE <<>>
<1>1. Bench!Row(m) = [by |-> by, k |-> k, passAtK |-> shares]
  BY DEF Bench!Row
<1>2. Bench!Of(m) \subseteq DOMAIN runDirs
  BY DEF Bench!Of
<1>3. T # {} /\ IsFiniteSet(T)
  <2>1. PICK i \in DOMAIN runDirs : dirs[runDirs[i]].by = m
    BY DEF Bench!Present
  <2>2. \A j \in DOMAIN runDirs : Held(j) \in Rolls
    BY DirsAreNumbers DEF Readable, Held
  <2>3. i \in Bench!Of(m)
    BY <2>1 DEF Bench!Of
  <2>4. DOMAIN Held(i) # {} /\ \A j \in DOMAIN runDirs : DOMAIN Held(j) \subseteq Bench!Tasks
    BY <2>1, <2>2, RollsAreTallies
  <2>5. DOMAIN Held(i) \subseteq T
    BY <2>3 DEF Bench!TasksOf, Held
  <2>6. T \subseteq Bench!Tasks
    BY <1>2, <2>4 DEF Bench!TasksOf, Held
  <2>7. IsFiniteSet(Bench!Tasks)
    BY DEF Bench!BenchAssumption, Bench!Tasks, Bench!IsFiniteSet, IsFiniteSet
  <2> HIDE DEF T
  <2> QED BY <2>4, <2>5, <2>6, <2>7, FS_Subset
<1>4. \A t \in T : by[t] = Bench!Sum(Bench!Of(m), t) /\ by[t] \in Sums /\ by[t].n \in Positive
  BY <1>2, SumIsPositive
<1>5. DOMAIN by = T
  OBVIOUS
<1> HIDE DEF by, T
<1>6. k \in N /\ \A x \in N : k <= x
  <2>1. N \subseteq Nat /\ N # {}
    BY <1>3, <1>4, <1>5 DEF Positive
  <2> HIDE DEF N
  <2>2. \E x \in N : \A y \in N : x <= y
    BY <2>1, LeastNat
  <2> QED BY <2>2 DEF Bench!FS!Min
<1>7. k \in Nat /\ \A t \in T : k <= by[t].n
  BY <1>4, <1>5, <1>6 DEF Positive
<1> HIDE DEF k
<1>8. \A t \in DOMAIN shares : t \in T /\ shares[t] = Bench!PassAtK(by[t].n, by[t].full, k)
  <2>1. CASE k > 1
    BY <1>5, <2>1
  <2>2. CASE ~(k > 1)
    <3>1. DOMAIN shares = {}
      BY <2>2
    <3> QED BY <3>1
  <2> QED BY <2>1, <2>2
<1> HIDE DEF shares
<1> PICK row : row = Bench!Row(m)
  OBVIOUS
<1>9. row.by = by /\ row.k = k /\ row.passAtK = shares
  BY <1>1
<1> QED BY <1>3, <1>4, <1>5, <1>7, <1>8, <1>9 DEF T

\* What a report is about: full directories, and rows drawn from them.
Reporting ==
  /\ Bench!TypeOK /\ Readable
  /\ table.rows = [m \in Bench!Present |-> Bench!Row(m)]

\* The rows are in the order of the leaderboard.
LEMMA OrderIsRanked ==
  ASSUME Bench!BenchAssumption, Reporting, table.order = Bench!Ranked(table.rows)
  PROVE  \A i, j \in DOMAIN table.order :
           LET a == Bench!Total(table.rows[table.order[i]])
               b == Bench!Total(table.rows[table.order[j]])
           IN i < j => Bench!Gained(a) * b.n >= Bench!Gained(b) * a.n
<1> DEFINE U == Bench!Present
<1> PICK drawn, order, n : drawn = table.rows /\ order = table.order /\ n = Cardinality(U)
  OBVIOUS
<1> DEFINE tally == [m \in U |-> Bench!Total(drawn[m])]
           Rel == {p \in U \X U : Bench!Better(tally[p[1]], tally[p[2]], p[1], p[2])}
<1>1. U \subseteq Bench!Names /\ IsFiniteSet(U) /\ n \in Nat /\ U \subseteq Nat
  <2>1. U \subseteq Bench!Names
    BY DirsAreNumbers DEF Reporting, Readable, Bench!Present
  <2> HIDE DEF U
  <2> QED BY <2>1, DirsAreNumbers, FS_Subset, FS_CardinalityType
<1>2. DOMAIN drawn = U /\ \A m \in U : drawn[m] = Bench!Row(m)
  BY DEF Reporting
<1>3. \A m \in U : tally[m] \in Tally
  <2> SUFFICES ASSUME NEW m \in U PROVE Bench!Total(drawn[m]) \in Tally
    OBVIOUS
  <2> PICK row, T : row = drawn[m] /\ T = DOMAIN row.by
    OBVIOUS
  <2>1. /\ T # {} /\ IsFiniteSet(T)
        /\ \A t \in T : row.by[t] \in Sums /\ row.by[t].n \in Positive
    <3>1. row = Bench!Row(m)
      BY <1>2
    <3> QED BY <3>1, RowOfModel DEF Reporting
  <2>2. DOMAIN row.by = T
    OBVIOUS
  <2>3. Bench!Total(row) \in Tally
    BY <2>1, <2>2, TotalIsTally
  <2> QED BY <2>3
<1>4. tally \in [U -> Tally]
  BY <1>3
<1>5. \A x, y \in U : <<x, y>> \in Rel <=> Bench!Better(Bench!Total(drawn[x]), Bench!Total(drawn[y]), x, y)
  OBVIOUS
<1>6. Compares(U, Rel)
  <2> HIDE DEF U, tally
  <2> QED BY <1>1, <1>4, BetterCompares
<1> HIDE DEF Rel, tally
<1>7. PICK s \in [1..n -> U] : \A i, j \in 1..n : i < j => <<s[i], s[j]>> \in Rel
  <2> HIDE DEF U
  <2>1. U \in SUBSET U
    OBVIOUS
  <2> QED BY <1>1, <1>6, <2>1, SortedList
<1> DEFINE Fine(z) == \A i, j \in DOMAIN z : i < j =>
             Bench!Better(Bench!Total(drawn[z[i]]), Bench!Total(drawn[z[j]]), z[i], z[j])
<1>8. Fine(s)
  BY <1>5, <1>7
<1>9. order = CHOOSE z \in [1..n -> U] : Fine(z)
  <2>1. Bench!Cardinality(DOMAIN drawn) = n
    BY <1>2 DEF Bench!Cardinality, Cardinality
  <2> QED BY <1>2, <2>1 DEF Bench!Ranked
<1>10. order \in [1..n -> U] /\ Fine(order)
  <2> HIDE DEF Fine, U
  <2> QED BY <1>7, <1>8, <1>9
<1> SUFFICES ASSUME NEW i \in DOMAIN order, NEW j \in DOMAIN order, i < j
             PROVE  LET a == Bench!Total(drawn[order[i]])
                        b == Bench!Total(drawn[order[j]])
                    IN Bench!Gained(a) * b.n >= Bench!Gained(b) * a.n
  OBVIOUS
<1> PICK a, b : a = Bench!Total(drawn[order[i]]) /\ b = Bench!Total(drawn[order[j]])
  OBVIOUS
<1>11. Bench!Better(a, b, order[i], order[j])
  BY <1>10
<1>12. a \in Tally /\ b \in Tally
  BY <1>3, <1>10 DEF tally
<1> PICK g, h, k, l : g = Bench!Gained(a) /\ h = Bench!Gained(b) /\ k = a.n /\ l = b.n
  OBVIOUS
<1>13. g \in Nat /\ h \in Nat /\ k \in Nat /\ l \in Nat
  BY <1>12 DEF Tally, Positive, Bench!Gained
<1>14. g * l > h * k \/ g * l = h * k
  BY <1>11 DEF Bench!Better
<1>15. g * l >= h * k
  BY <1>13, <1>14, Products
<1> QED BY <1>15

\* Without a warning every model has a cell for every task.
LEMMA CellsAreComplete ==
  ASSUME Bench!BenchAssumption, Reporting, Bench!SameTasks, table.cells = Bench!Matrix
  PROVE  \A t \in DOMAIN table.cells : DOMAIN table.cells[t] = DOMAIN table.rows
<1>1. DOMAIN table.rows = Bench!Present
  BY DEF Reporting
<1> SUFFICES ASSUME NEW t \in Bench!TasksOf(DOMAIN runDirs)
             PROVE  \A m \in Bench!Present : t \in Bench!TasksOf(Bench!Of(m))
  BY <1>1 DEF Bench!Matrix
<1>2. PICK i \in DOMAIN runDirs : t \in Bench!TasksOf({i})
  BY DEF Bench!TasksOf
<1>3. ASSUME NEW m \in Bench!Present PROVE t \in Bench!TasksOf(Bench!Of(m))
  <2>1. PICK j \in DOMAIN runDirs : dirs[runDirs[j]].by = m
    BY DEF Bench!Present
  <2>2. t \in Bench!TasksOf({j})
    BY <1>2 DEF Bench!SameTasks
  <2> QED BY <2>1, <2>2 DEF Bench!TasksOf, Bench!Of
<1> QED BY <1>3

\* The rows of a run are those of its own evaluations.
LEMMA RowsOfRun ==
  ASSUME Bench!BenchAssumption, Reporting, Own, settings.n > 0
  PROVE  /\ DOMAIN table.rows = {m \in Bench!Names : evaluated[m] # Bench!Nothing}
         /\ \A m \in DOMAIN table.rows : table.rows[m].by = evaluated[m].rolls
<1>1. DOMAIN table.rows = Bench!Present /\ \A m \in Bench!Present : table.rows[m] = Bench!Row(m)
  BY DEF Reporting
<1>2. \A i \in DOMAIN runDirs : /\ dirs[runDirs[i]].by \in Bench!Names
                                /\ evaluated[dirs[runDirs[i]].by] = dirs[runDirs[i]]
                                /\ evaluated[dirs[runDirs[i]].by] # Bench!Nothing
                                /\ Held(i) \in Rolls
  BY DirsAreNumbers DEF Reporting, Readable, Own, Empty, Held
<1>3. Bench!Present = {m \in Bench!Names : evaluated[m] # Bench!Nothing}
  BY <1>2 DEF Own, Empty, Bench!Present
<1>4. ASSUME NEW m \in Bench!Present PROVE Bench!Row(m).by = evaluated[m].rolls
  <2>1. PICK i \in DOMAIN runDirs : dirs[runDirs[i]].by = m
    BY DEF Bench!Present
  <2>2. Bench!Of(m) = {i}
    BY <2>1 DEF Bench!Of, Own
  <2>3. Bench!TasksOf({i}) = DOMAIN Held(i)
    BY DEF Bench!TasksOf, Held
  <2>4. Bench!Row(m).by = [t \in DOMAIN Held(i) |-> Bench!Sum({i}, t)]
    BY <2>2, <2>3 DEF Bench!Row
  <2>5. \A t \in DOMAIN Held(i) : Bench!Sum({i}, t) = Held(i)[t]
    BY SumOfOne DEF Reporting
  <2>6. Held(i) = [t \in DOMAIN Held(i) |-> Held(i)[t]]
    BY <1>2, RollsAreTallies
  <2>7. Bench!Row(m).by = Held(i)
    BY <2>4, <2>5, <2>6
  <2> QED BY <1>2, <2>1, <2>7 DEF Held
<1> QED BY <1>1, <1>3, <1>4

\* Every rollout is in the row of its model, and the shares are shares.
LEMMA RowsOfReport ==
  ASSUME Bench!BenchAssumption, Reporting
  PROVE  /\ \A m \in DOMAIN table.rows : \A t \in Bench!Tasks :
              Bench!Rolled(m, t) > 0 => table.rows[m].by[t].n = Bench!Rolled(m, t)
         /\ \A m \in DOMAIN table.rows : \A t \in DOMAIN table.rows[m].passAtK :
              LET c == table.rows[m].by[t]
                  draws == Bench!FS!kSubset(table.rows[m].k, 1..c.n)
                  hits == {s \in draws : \E i \in s : i <= c.full}
              IN Bench!Fraction(table.rows[m].passAtK[t], <<Cardinality(hits), Cardinality(draws)>>)
<1>1. DOMAIN table.rows = Bench!Present /\ \A m \in Bench!Present : table.rows[m] = Bench!Row(m)
  BY DEF Reporting
<1>2. ASSUME NEW m \in Bench!Present, NEW t \in Bench!Tasks, Bench!Rolled(m, t) > 0
      PROVE  Bench!Row(m).by[t].n = Bench!Rolled(m, t)
  <2>1. t \in Bench!TasksOf(Bench!Of(m)) /\ Bench!Sum(Bench!Of(m), t).n = Bench!Rolled(m, t)
    BY <1>2, SumIsRolled DEF Reporting
  <2>2. Bench!Row(m).by[t] = Bench!Sum(Bench!Of(m), t)
    BY <2>1, RowOfModel DEF Reporting
  <2> QED BY <2>1, <2>2
<1>3. ASSUME NEW m \in Bench!Present, NEW t \in DOMAIN Bench!Row(m).passAtK
      PROVE  LET c == Bench!Row(m).by[t]
                 draws == Bench!FS!kSubset(Bench!Row(m).k, 1..c.n)
                 hits == {s \in draws : \E i \in s : i <= c.full}
             IN Bench!Fraction(Bench!Row(m).passAtK[t], <<Cardinality(hits), Cardinality(draws)>>)
  <2> PICK c, k, n, f : c = Bench!Row(m).by[t] /\ k = Bench!Row(m).k /\ n = c.n /\ f = c.full
    OBVIOUS
  <2>1. c \in Sums /\ k \in Nat /\ k <= n /\ Bench!Row(m).passAtK[t] = Bench!PassAtK(n, f, k)
    BY RowOfModel DEF Reporting
  <2>2. n \in Nat /\ f \in 0..n /\ k \in 0..n
    BY <2>1 DEF Sums
  <2> QED BY <2>1, <2>2, PassIsShare
<1> QED BY <1>1, <1>2, <1>3

\* The promises of the benchmarks follow from the invariant.
LEMMA BenchPromises ==
  ASSUME Bench!BenchAssumption, BenchInv
  PROVE  Bench!RowsAreOwn /\ Bench!RowsAreWhole /\ Bench!ComparedOverSameTasks /\ Bench!JsonComesFirst
<1>1. Bench!JsonComesFirst
  BY DEF BenchInv, Written, Bench!JsonComesFirst
<1>2. CASE ~Bench!Reported
  BY <1>1, <1>2 DEF Bench!RowsAreOwn, Bench!RowsAreWhole, Bench!ComparedOverSameTasks
<1>3. CASE Bench!Reported
  <2>1. /\ Reporting /\ Own /\ (table.same => Bench!SameTasks)
        /\ table.cells = Bench!Matrix /\ table.order = Bench!Ranked(table.rows)
    BY <1>3, Zenon DEF BenchInv, Drawn, Reporting, Readable, Bench!Reported
  <2>2. Bench!RowsAreOwn
    BY <2>1, RowsOfRun DEF Bench!RowsAreOwn
  <2>3. Bench!RowsAreWhole
    BY <2>1, RowsOfReport DEF Bench!RowsAreWhole, Bench!Cardinality, Cardinality
  <2>4. Bench!ComparedOverSameTasks
    <3>1. table.same => \A t \in DOMAIN table.cells : DOMAIN table.cells[t] = DOMAIN table.rows
      BY <2>1, CellsAreComplete
    <3> QED BY <2>1, <3>1, OrderIsRanked, Zenon DEF Bench!ComparedOverSameTasks
  <2> QED BY <1>1, <2>2, <2>3, <2>4
<1> QED BY <1>2, <1>3

-----------------------------------------------------------------------------
\* The files that a patch or the editable files can be.
Patches == UNION {[P -> Rollout!FileContents] : P \in SUBSET Rollout!Paths}

\* What was recorded is a set of files, and so is what is graded.
LEMMA FilesOfRollout ==
  ASSUME Rollout!TypeOK
  PROVE  /\ Rollout!Changes \subseteq Patches
         /\ [p \in Rollout!Editable |-> tree[p]] \in Patches
         /\ \A g \in {Rollout!Restored, Rollout!Overlay, Rollout!StartTree} :
              g \in [Rollout!Paths -> Rollout!FileContents \cup {"sealed"}]
<1> USE DEF Rollout!TypeOK
<1>1. ASSUME NEW patch \in Rollout!Changes
      PROVE  patch \in Patches
  <2> DEFINE changed == {q \in Rollout!Paths \ odd : Rollout!Index[q] # Rollout!Committed[q]}
  <2>1. PICK found \in UNION {[P -> Rollout!FileContents] : P \in SUBSET odd} :
          patch = [q \in changed \cup DOMAIN found |->
                     IF q \in DOMAIN found THEN found[q] ELSE Rollout!Index[q]]
    BY DEF Rollout!Changes
  <2>2. \A p \in Rollout!Paths : Rollout!Index[p] \in Rollout!FileContents
    BY DEF Rollout!Index, Rollout!FileContents
  <2>3. \A q \in changed \cup DOMAIN found :
          (IF q \in DOMAIN found THEN found[q] ELSE Rollout!Index[q]) \in Rollout!FileContents
    BY <2>2
  <2>4. changed \cup DOMAIN found \in SUBSET Rollout!Paths
    OBVIOUS
  <2> HIDE DEF changed
  <2>5. patch \in [changed \cup DOMAIN found -> Rollout!FileContents]
    BY <2>1, <2>3
  <2> QED BY <2>4, <2>5 DEF Patches
<1>2. [p \in Rollout!Editable |-> tree[p]] \in Patches
  <2>1. Rollout!Editable \in SUBSET Rollout!Paths
    BY DEF Rollout!Editable, Rollout!Paths
  <2>2. [p \in Rollout!Editable |-> tree[p]] \in [Rollout!Editable -> Rollout!FileContents]
    BY <2>1
  <2> QED BY <2>1, <2>2 DEF Patches
<1>3. \A p \in DOMAIN artifacts : artifacts[p] \in Rollout!FileContents
  OBVIOUS
<1> QED BY <1>1, <1>2, <1>3 DEF Rollout!Restored, Rollout!Overlay, Rollout!StartTree, Rollout!FileContents

\* A rollout that has done nothing is of its type.
LEMMA RolloutTypeStart == Rollout!Init => Rollout!TypeOK
<1> SUFFICES ASSUME Rollout!Init PROVE Rollout!TypeOK
  OBVIOUS
<1> DEFINE unrecorded == Rollout!NoFiles
<1>1. unrecorded \in Patches
  <2>1. unrecorded \in [{} -> Rollout!FileContents]
    BY DEF Rollout!NoFiles
  <2> QED BY <2>1 DEF Patches
<1> QED BY <1>1 DEF Rollout!Init, Rollout!TypeOK, Rollout!StartTree, Rollout!Paths,
           Rollout!FileContents, Patches

\* Every step of a rollout keeps its types.
LEMMA RolloutTypeStep ==
  ASSUME Rollout!TypeOK, Rollout!Next
  PROVE  Rollout!TypeOK'
<1> USE DEF Rollout!agentVars, Rollout!gradingVars, Rollout!Raise
<1>1. CASE \E p \in Rollout!Paths : Rollout!Work(p) \/ Rollout!Remove(p)
  BY <1>1 DEF Rollout!TypeOK, Rollout!Work, Rollout!Remove, Rollout!FileContents
<1>2. CASE Rollout!UseGit \/ \E p \in Rollout!Paths : Rollout!Tamper(p)
  BY <1>2 DEF Rollout!TypeOK, Rollout!UseGit, Rollout!Tamper
<1>3. CASE Rollout!Setup \/ Rollout!Install \/ Rollout!Launch \/ Rollout!AgentEnds \/ Rollout!Cleanup
  BY <1>3 DEF Rollout!TypeOK, Rollout!Setup, Rollout!Install, Rollout!Launch, Rollout!AgentEnds,
     Rollout!Cleanup
<1>4. CASE Rollout!Finalize
  <2>1. \/ artifacts' = artifacts
        \/ artifacts' \in Rollout!Changes
        \/ artifacts' = [p \in Rollout!Editable |-> tree[p]]
    BY <1>4 DEF Rollout!Finalize
  <2>2. artifacts' \in Patches
    BY <2>1, FilesOfRollout DEF Rollout!TypeOK, Patches
  <2>3. /\ UNCHANGED <<native, tree, hidden, odd, usage, fresh, reward>>
        /\ phase' = "cleanup" /\ ok' \in BOOLEAN /\ collected' \in BOOLEAN
    BY <1>4 DEF Rollout!Finalize, Rollout!TypeOK
  <2> QED BY <2>2, <2>3 DEF Rollout!TypeOK, Patches
<1>5. CASE Rollout!Score
  <2>1. /\ UNCHANGED <<native, tree, hidden, odd, usage, collected, artifacts, fresh>>
        /\ phase' \in {"scored", "raised", "grade"} /\ reward' \in {"zero", reward}
        /\ ok' \in BOOLEAN
    BY <1>5 DEF Rollout!Score
  <2> QED BY <2>1 DEF Rollout!TypeOK
<1>6. CASE Rollout!GradeRaises
  BY <1>6 DEF Rollout!TypeOK, Rollout!GradeRaises
<1>7. CASE Rollout!StageGrading
  <2>1. fresh' \in {Rollout!Restored, Rollout!Overlay, Rollout!StartTree}
    BY <1>7 DEF Rollout!StageGrading
  <2>2. fresh' \in [Rollout!Paths -> Rollout!FileContents \cup {"sealed"}]
    BY <2>1, FilesOfRollout
  <2>3. /\ UNCHANGED <<native, tree, hidden, odd, ok, usage, collected, artifacts, reward>>
        /\ phase' \in {"run", "refused"}
    BY <1>7 DEF Rollout!StageGrading
  <2> QED BY <2>2, <2>3 DEF Rollout!TypeOK
<1>8. CASE Rollout!RunCommand \/ Rollout!RunCases
  BY <1>8 DEF Rollout!TypeOK, Rollout!RunCommand, Rollout!RunCases
<1> QED BY <1>1, <1>2, <1>3, <1>4, <1>5, <1>6, <1>7, <1>8 DEF Rollout!Next

-----------------------------------------------------------------------------
\* The invariants of the installations, of the rollouts and of the sealed command.
RolloutsHold ==
  /\ part = "install" => InstallInv
  /\ part = "rollout" => RolloutInv /\ Rollout!TypeOK
  /\ part = "command" => CommandInv

\* They hold in the behaviours that are about them.
LEMMA RolloutsKept == Spec => []RolloutsHold
<1> USE DEF RolloutsHold
<1>0. Harness!InstallAssumption /\ Command!CommandAssumption
  BY ProgramsAssumption
<1>1. Init => RolloutsHold
  BY <1>0, InitOfPart, InstallStart, RolloutStart, RolloutTypeStart, CommandStart
<1>2. RolloutsHold /\ [Next]_vars => RolloutsHold'
  <2> SUFFICES ASSUME RolloutsHold, [Next]_vars
               PROVE  RolloutsHold'
    OBVIOUS
  <2>1. CASE part = "install"
    <3>1. InstallInv /\ (Harness!Next \/ UNCHANGED installVars)
      BY <2>1, StepOfPart
    <3>2. CASE Harness!Next
      BY <1>0, <2>1, <3>1, <3>2, InstallStep, StepOfPart
    <3>3. CASE UNCHANGED installVars
      <4>1. InstallInv'
        BY <3>1, <3>3 DEF installVars, InstallInv, Harness!TypeOK, Holder, Cached, Loading,
           Harness!InstalledIsPinned
      <4> QED BY <2>1, <4>1, StepOfPart
    <3> QED BY <3>1, <3>2, <3>3
  <2>2. CASE part = "rollout"
    <3>1. RolloutInv /\ Rollout!TypeOK /\ (Rollout!Next \/ UNCHANGED rolloutVars)
      BY <2>2, StepOfPart
    <3>2. CASE Rollout!Next
      BY <2>2, <3>1, <3>2, RolloutStep, RolloutTypeStep, StepOfPart
    <3>3. CASE UNCHANGED rolloutVars
      <4>0. /\ Rollout!Changes' = Rollout!Changes
            /\ Rollout!Restored' = Rollout!Restored /\ Rollout!Overlay' = Rollout!Overlay
        BY <3>3 DEF rolloutVars, Rollout!Changes, Rollout!Index, Rollout!Restored, Rollout!Overlay
      <4>1. RolloutInv'
        BY <3>1, <3>3, <4>0 DEF rolloutVars, RolloutInv, Workspace, Recorded, Graded, Paid
      <4>2. Rollout!TypeOK'
        BY <3>1, <3>3 DEF rolloutVars, Rollout!TypeOK
      <4> QED BY <2>2, <4>1, <4>2, StepOfPart
    <3> QED BY <3>1, <3>2, <3>3
  <2>3. CASE part = "command"
    <3>1. CommandInv /\ (Command!Next \/ UNCHANGED commandVars)
      BY <2>3, StepOfPart
    <3>2. CASE Command!Next
      BY <1>0, <2>3, <3>1, <3>2, CommandStep, StepOfPart
    <3>3. CASE UNCHANGED commandVars
      <4>1. CommandInv'
        BY <3>1, <3>3 DEF commandVars, CommandInv, Command!TypeOK, Command!FullRewardIsFullRun
      <4> QED BY <2>3, <4>1, StepOfPart
    <3> QED BY <3>1, <3>2, <3>3
  <2>4. CASE part \notin {"install", "rollout", "command"}
    BY <2>4, StepOfPart
  <2> QED BY <2>1, <2>2, <2>3, <2>4
<1> QED BY <1>1, <1>2, PTL DEF Spec

\* A rollout runs the pinned release, stored once per process, and is paid for
\* what git saw of the files it left, in full only for a full run of the sealed
\* command: for any number of rollouts, architectures, runners, expected cases
\* and paths tampered with (environment.py, testcommand.py).
THEOREM RolloutsAreSound == Spec => []RolloutIsSound
<1>1. RolloutsHold => RolloutIsSound
  <2>1. InstallInv => Harness!InstalledIsPinned /\ Harness!StoredOnce
    BY DEF InstallInv, Cached, Harness!StoredOnce
  <2>2. /\ RolloutInv => Rollout!EarnedByFinalState
        /\ CommandInv => Command!FullRewardIsFullRun
    BY RolloutPromises DEF CommandInv
  <2> QED BY <2>1, <2>2 DEF RolloutsHold, RolloutIsSound
<1> QED BY <1>1, RolloutsKept, PTL

-----------------------------------------------------------------------------
\* A report that nothing touches stays one of the same directories.
LEMMA BenchRests == BenchInv /\ UNCHANGED benchVars => BenchInv'
<1> SUFFICES ASSUME BenchInv, UNCHANGED benchVars PROVE BenchInv'
  OBVIOUS
<1>1. /\ benchStep' = benchStep /\ settings' = settings /\ queue' = queue /\ runDirs' = runDirs
      /\ dirs' = dirs /\ evaluated' = evaluated /\ table' = table /\ calls' = calls
      /\ json' = json /\ markdown' = markdown /\ done' = done
  BY DEF benchVars
<1>2. Bench!TypeOK' /\ Listed' /\ Own' /\ Awaited' /\ Resting' /\ Written'
  BY <1>1 DEF BenchInv, Bench!TypeOK, Listed, Own, Awaited, Resting, Written
<1>3. Drawn'
  <2>1. /\ Bench!SameTasks' = Bench!SameTasks /\ Bench!Present' = Bench!Present
        /\ \A m : Bench!Row(m)' = Bench!Row(m)
        /\ Bench!Matrix' = Bench!Matrix
    BY <1>1, SameReport
  <2>2. Bench!Ranked(table.rows)' = Bench!Ranked(table.rows)
    BY <1>1 DEF Bench!Ranked
  <2>3. [m \in Bench!Present |-> Bench!Row(m)]' = [m \in Bench!Present |-> Bench!Row(m)]
    BY <2>1, Zenon
  <2>4. Drawn
    BY DEF BenchInv
  <2> QED BY <1>1, <2>1, <2>2, <2>3, <2>4, Zenon DEF Drawn
<1> QED BY <1>2, <1>3 DEF BenchInv

\* The invariants of the programs that compare models.
ModelsHold ==
  /\ part = "models" => ModelsInv
  /\ part = "bench" => BenchInv
  /\ part = "metrics" => MetricsInv

\* They hold in the behaviours that are about them.
LEMMA ModelsKept == Spec => []ModelsHold
<1> USE DEF ModelsHold
<1>0. LocalModels!LocalModelsAssumption /\ Bench!BenchAssumption
  BY ProgramsAssumption
<1>1. Init => ModelsHold
  BY <1>0, InitOfPart, ModelsStart, BenchStart, MetricsStart
<1>2. ModelsHold /\ [Next]_vars => ModelsHold'
  <2> SUFFICES ASSUME ModelsHold, [Next]_vars
               PROVE  ModelsHold'
    OBVIOUS
  <2>1. CASE part = "models"
    <3>1. ModelsInv /\ (LocalModels!Next \/ UNCHANGED modelsVars)
      BY <2>1, StepOfPart
    <3>2. CASE LocalModels!Next
      BY <1>0, <2>1, <3>1, <3>2, ModelsStep, StepOfPart
    <3>3. CASE UNCHANGED modelsVars
      <4>1. ModelsInv'
        BY <3>1, <3>3 DEF modelsVars, ModelsInv, LocalModels!TypeOK, Unjudged, Exactly, OneServer,
           Results, Chosen, LocalModels!SelectedIsProven, LocalModels!Good
      <4> QED BY <2>1, <4>1, StepOfPart
    <3> QED BY <3>1, <3>2, <3>3
  <2>2. CASE part = "bench"
    <3>1. BenchInv /\ (Bench!Next \/ UNCHANGED benchVars)
      BY <2>2, StepOfPart
    <3>2. BenchInv'
      BY <1>0, <3>1, BenchStep, BenchRests
    <3> QED BY <2>2, <3>2, StepOfPart
  <2>3. CASE part = "metrics"
    <3>1. MetricsInv /\ [Metrics!Next]_metricsVars
      BY <2>3, StepOfPart
    <3>2. MetricsInv'
      BY <3>1, MetricsStep
    <3> QED BY <2>3, <3>2, StepOfPart
  <2>4. CASE part \notin {"models", "bench", "metrics"}
    BY <2>4, StepOfPart
  <2> QED BY <2>1, <2>2, <2>3, <2>4
<1> QED BY <1>1, <1>2, PTL DEF Spec

\* Models are compared by rows that are their own, whole and over the same
\* tasks, by rates that are shares, and a model is selected only when it passed
\* the gate, with no server left: for any number of models, probes, tasks,
\* rollouts, calls and turns (bench.py, protocol.py, metrics.py).
THEOREM ModelsAreComparedSoundly == Spec => []ModelsAreSound
<1>1. ModelsHold => ModelsAreSound
  <2> SUFFICES ASSUME ModelsHold PROVE ModelsAreSound
    OBVIOUS
  <2>1. CASE part = "models"
    <3>1. ModelsInv
      BY <2>1 DEF ModelsHold
    <3>2. LocalModels!SelectedIsProven /\ LocalModels!GateIsExact /\ LocalModels!NoServerLeft
      BY <3>1 DEF ModelsInv, Exactly, OneServer, LocalModels!GateIsExact, LocalModels!NoServerLeft
    <3> QED BY <2>1, <3>2 DEF ModelsAreSound
  <2>2. CASE part = "bench"
    <3>1. BenchInv /\ Bench!BenchAssumption
      BY <2>2, ProgramsAssumption DEF ModelsHold
    <3> QED BY <2>2, <3>1, BenchPromises DEF ModelsAreSound
  <2>3. CASE part = "metrics"
    BY <2>3, MetricsPromises DEF ModelsHold, ModelsAreSound
  <2> QED BY <2>1, <2>2, <2>3 DEF ModelsAreSound
<1> QED BY <1>1, ModelsKept, PTL

\* The variables of each program are of their types in every behaviour that is
\* about it, for every value of the constants.
THEOREM TypeCorrect == Spec => []TypeOK
<1> DEFINE Hold == PublicationsHold /\ LaunchesHold /\ DatasetsHold /\ MiningHolds /\ RolloutsHold /\ ModelsHold
<1>1. Hold => TypeOK
  <2> SUFFICES ASSUME Hold PROVE TypeOK
    OBVIOUS
  <2>1. /\ part = "install" => Harness!TypeOK
        /\ part = "rollout" => Rollout!TypeOK
        /\ part = "command" => Command!TypeOK
    BY DEF RolloutsHold, InstallInv, CommandInv
  <2>2. part = "mining" => Mining!TypeOK
    BY MiningTypes DEF MiningHolds
  <2>3. /\ part = "launch" => Launch!TypeOK
        /\ part = "publication" => Publication!TypeOK
    BY DEF LaunchesHold, PublicationsHold, LaunchInv, PublicationInv
  <2>4. /\ part = "dataset" => Dataset!TypeOK
        /\ part = "traces" => Traces!TypeOK
    BY DatasetPromises, ProgramsAssumption DEF DatasetsHold, TracesInv
  <2>5. /\ part = "models" => LocalModels!TypeOK
        /\ part = "bench" => Bench!TypeOK
    BY DEF ModelsHold, ModelsInv, BenchInv
  <2>6. part = "metrics" => Metrics!TypeOK
    BY DEF ModelsHold, MetricsInv, Metrics!TypeOK, Proper
  <2> QED BY <2>1, <2>2, <2>3, <2>4, <2>5, <2>6 DEF TypeOK
<1>2. Spec => []Hold
  BY PublicationsKept, LaunchesKept, DatasetsKept, MiningKept, RolloutsKept, ModelsKept, PTL
<1> QED BY <1>1, <1>2, PTL
=============================================================================
