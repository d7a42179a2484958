---------------------------- MODULE EpisodeMining ----------------------------
(***************************************************************************)
(* From a recorded session to a start state and a reference patch          *)
(* (sessions.py, mint.py).  An agent, its subagent and the user work on    *)
(* one file of a repository; OMP records them in a tree of entries and a   *)
(* file for the subagent.  The reader takes the main branch, splits it at  *)
(* the user's turns, and the minter looks for a commit from which the      *)
(* recorded changes can be replayed.                                       *)
(*                                                                         *)
(* log holds what really happened, in order; an index of log is an item.   *)
(* Line ends are left out.                                                 *)
(***************************************************************************)
EXTENDS Integers, Sequences

FS == INSTANCE FiniteSetsExt

CONSTANTS
  Contents,    \* the contents of the file
  MaxItems     \* bound: the items of a session, at least its request and edit

MiningAssumption == MaxItems \in Nat \ {0, 1} /\ "absent" \notin Contents

VARIABLES
  disk,      \* the file
  log,       \* what happened and was recorded
  branch,    \* the items of the main branch of the session
  clock,     \* the time of the last item; two items may have one time
  commits    \* the commits of the repository, with their times

vars == <<disk, log, branch, clock, commits>>

Mutating == {"write", "edit", "delete"}
Kinds == Mutating \cup {"user", "pruned", "pass", "fail", "exit"}
Texts == Contents \cup {"absent"}

TypeOK ==
  /\ disk \in Texts
  /\ \A i \in DOMAIN log :
       /\ log[i].kind \in Kinds /\ log[i].sub \in BOOLEAN /\ log[i].stamp \in 0..clock
       /\ log[i].old \in Texts /\ log[i].new \in Texts
  /\ Len(log) <= MaxItems /\ branch \subseteq DOMAIN log
  /\ clock \in 1..MaxItems
  /\ \A c \in DOMAIN commits : commits[c].stamp \in 0..clock /\ commits[c].text \in Texts

Item(kind, sub, stamp, new) ==
  [kind |-> kind, sub |-> sub, stamp |-> stamp, old |-> disk, new |-> new]

\* The session begins with a request and a first edit; the file was committed
\* before or not.
Init ==
  \E old, new \in Contents :
    /\ old = (CHOOSE t \in Contents : TRUE) /\ new # old
    /\ disk = new /\ clock = 2 /\ branch = {1, 2}
    /\ log = <<[kind |-> "user", sub |-> FALSE, stamp |-> 1, old |-> old, new |-> old],
                [kind |-> "edit", sub |-> FALSE, stamp |-> 2, old |-> old, new |-> new]>>
    /\ \E t \in {old, "absent"} : commits = <<[text |-> t, stamp |-> 0]>>
-----------------------------------------------------------------------------
\* Bound: one time for two items only where the numbering has to choose, with
\* a mutation before a command or a request.
Tie(kind) == kind \in {"user", "pass", "fail"} /\ log[Len(log)].kind \in Mutating

\* Something happens, at the time of the item before it or later.
Record(kind, sub, new) ==
  /\ Len(log) < MaxItems
  /\ clock' = clock + 1 \/ (Tie(kind) /\ clock' = clock)
  /\ log' = Append(log, Item(kind, sub, clock', new))
  /\ branch' = IF sub THEN branch ELSE branch \cup {Len(log) + 1}
  /\ disk' = new

\* Between two requests somebody may change the file, or commit it.
Ask(text, commit) ==
  /\ commit => text = disk
  /\ Record("user", FALSE, text)
  /\ commits' = IF commit THEN Append(commits, [text |-> disk, stamp |-> clock]) ELSE commits

\* Bounds: one exit, one abandoned branch, no test run twice in a row.
Exit ==
  /\ \A i \in DOMAIN log : log[i].kind # "exit"
  /\ Record("exit", FALSE, disk) /\ UNCHANGED commits
Test(result) ==
  /\ log[Len(log)].kind # result
  /\ Record(result, FALSE, disk) /\ UNCHANGED commits
Write(text) == text # disk /\ Record("write", FALSE, text) /\ UNCHANGED commits
Edit(sub, text) ==
  disk # "absent" /\ text # disk /\ Record("edit", sub, text) /\ UNCHANGED commits
\* OMP no longer holds the texts of an edit (snapshotsPruned).
EditPruned(text) ==
  disk # "absent" /\ text # disk /\ Record("pruned", FALSE, text) /\ UNCHANGED commits
Delete == disk # "absent" /\ Record("delete", FALSE, "absent") /\ UNCHANGED commits

\* The user goes back to an earlier turn: the next entry has it as its parent
\* and the items in between leave the main branch.
GoBack ==
  /\ \A i \in DOMAIN log : i \in branch \/ log[i].sub
  /\ Len(log) < MaxItems
  /\ \E i \in branch :
       /\ log[i].kind = "user" /\ \E j \in branch : j > i
       /\ branch' = {j \in branch : j <= i}
  /\ UNCHANGED <<disk, log, clock, commits>>

Next ==
  \/ \E t \in Contents : \E commit \in BOOLEAN : Ask(t, commit)
  \/ Exit \/ Delete \/ GoBack
  \/ \E r \in {"pass", "fail"} : Test(r)
  \/ \E t \in Contents : Write(t) \/ EditPruned(t)
  \/ \E t \in Contents : \E sub \in BOOLEAN : Edit(sub, t)

Spec == Init /\ [][Next]_vars
-----------------------------------------------------------------------------
(* The reader: read_session, session_episodes.                             *)

\* _main_branch and the files of the subagents.
Read == branch \cup {i \in DOMAIN log : log[i].sub}
Of(kinds) == {i \in Read : log[i].kind \in kinds}

Earlier(a, b) ==
  \E k \in DOMAIN a : a[k] < b[k] /\ \A l \in 1..(k - 1) : a[l] = b[l]

\* Mutant: the items are numbered as the files hold them.
BeforeUnsorted(i, j) ==
  LET rank(n) == <<IF log[n].sub THEN 1 ELSE 0, IF log[n].kind \in Mutating THEN 0 ELSE 1, n>>
  IN Earlier(rank(i), rank(j))

\* _merge_timelines numbers by time, then file, then place in the file, where
\* the mutations come before the commands.
Before(i, j) ==
  LET rank(n) == <<log[n].stamp, IF log[n].sub THEN 1 ELSE 0,
                   IF log[n].kind \in Mutating THEN 0 ELSE 1, n>>
  IN Earlier(rank(i), rank(j))

FirstBy(S) == CHOOSE i \in S : \A j \in S \ {i} : Before(i, j)
LastBy(S) == CHOOSE i \in S : \A j \in S \ {i} : Before(j, i)

Starts == Of({"user"})
NextStarts(u) == {v \in Starts : v > u}

\* _episode_end: an exit, the next request, or the last item, which belongs to it.
EndOf(u) ==
  LET next == {log[v].stamp : v \in NextStarts(u)}
      exits == {log[e].stamp : e \in {e \in Of({"exit"}) :
                  /\ log[u].stamp < log[e].stamp
                  /\ \A t \in next : log[e].stamp < t}}
  IN IF exits # {} THEN [at |-> FS!Min(exits), inclusive |-> FALSE]
     ELSE IF next # {} THEN [at |-> FS!Min(next), inclusive |-> FALSE]
     ELSE [at |-> FS!Max({log[i].stamp : i \in Read}), inclusive |-> TRUE]

\* _in_window
Window(u) ==
  LET end == EndOf(u)
  IN {i \in Read : /\ log[u].stamp <= log[i].stamp
                   /\ log[i].stamp < end.at \/ (end.inclusive /\ log[i].stamp = end.at)}

Mutations(u) == {i \in Window(u) : log[i].kind \in Mutating}
TestRuns(u, result) == {i \in Window(u) : log[i].kind = result}
-----------------------------------------------------------------------------
(* The minter: select_candidate, anchor_repository, reference_patch.       *)

Passing(u) == {i \in TestRuns(u, "pass") : Before(FirstBy(Mutations(u)), i)}
PassingRun(u) == LastBy(Passing(u))
Failing(u) == {i \in TestRuns(u, "fail") : Before(i, PassingRun(u))}

IsCandidate(u) ==
  /\ Mutations(u) # {} /\ TestRuns(u, "pruned") = {}
  /\ Passing(u) # {} /\ Failing(u) # {}

\* Mutant: earlier episodes are left out.
NoOverlay(u) == {}

\* _overlay: the mutations of the earlier episodes; the last one counts.
Overlay(u) == UNION {Mutations(v) : v \in {v \in Starts : v < u}}

\* Episode by episode, and in each by number.
Left(u) == LET v == FS!Max({v \in Starts : v < u /\ Mutations(v) # {}})
           IN log[LastBy(Mutations(v))].new

PreState(u, c) == IF Overlay(u) = {} THEN commits[c].text ELSE Left(u)

\* _commit_matches
Matches(u, c) ==
  LET first == log[FirstBy(Mutations(u))]
  IN IF first.kind = "write" THEN PreState(u, c) # first.new
     ELSE PreState(u, c) # "absent" /\ PreState(u, c) = first.old

\* The commits from before the episode; the newest one that matches.
Bases(u) == {c \in DOMAIN commits : commits[c].stamp <= log[u].stamp /\ Matches(u, c)}

\* materialize_workspace, apply_mutations
StartState(u) == PreState(u, FS!Max(Bases(u)))
EndState(u) == log[LastBy(Mutations(u))].new

\* mint_sessions up to the reference patch, which must not be empty.
Minted == {u \in Starts : IsCandidate(u) /\ Bases(u) # {} /\ StartState(u) # EndState(u)}
-----------------------------------------------------------------------------
\* No two items of an episode have one time.
Distinct(u) ==
  \A i, j \in Window(u) : i # j => log[i].stamp # log[j].stamp

\* The recorded run that failed came before the one that passed, and that one
\* came after a change of the episode, whatever subagents, exits and abandoned
\* branches put between them (select_candidate).
ProofIsReal ==
  \A u \in Minted : Distinct(u) =>
    /\ \E f \in Failing(u) : f < PassingRun(u)
    /\ \E m \in Mutations(u) : u < m /\ m < PassingRun(u)

\* Nothing was changed but by recorded items of the main branch, each at a
\* time of its own.
Undisturbed ==
  /\ commits[1].text = log[1].old
  /\ \A i \in DOMAIN log :
       /\ i \in Read /\ log[i].kind \notin {"pruned", "exit"}
       /\ log[i].new # log[i].old => log[i].kind \in Mutating
       /\ i > 1 => log[i].stamp > log[i - 1].stamp

\* A session that worked alone on a committed file is anchored in every one of
\* its episodes, also where the commit is older than earlier episodes.
UndisturbedIsAnchored ==
  \A u \in Starts : Mutations(u) # {} /\ Undisturbed => Bases(u) # {}

\* The start state is what the first change of the episode found on disk,
\* unless that change was a write, and the replay ends as the last one did
\* (anchor_repository, materialize_workspace, apply_mutations).
ReplayIsFaithful ==
  \A u \in Minted : Distinct(u) =>
    LET first == FS!Min(Mutations(u))
        last == FS!Max(Mutations(u))
    IN /\ log[first].kind = "write" \/ StartState(u) = log[first].old
       /\ EndState(u) = log[last].new
=============================================================================
