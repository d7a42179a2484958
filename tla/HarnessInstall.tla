--------------------------- MODULE HarnessInstall ----------------------------
(***************************************************************************)
(* Rollouts that install the pinned OMP binary in their containers at the  *)
(* same time (environment.py).  The bytes come from a cache of the process *)
(* that one lock guards; a rollout may be cancelled at every await.        *)
(***************************************************************************)
EXTENDS Naturals

CONSTANTS
  Rollouts,   \* the rollouts of the process
  Arches      \* the architectures that have a release, the keys of the cache

InstallAssumption == "none" \notin Rollouts

VARIABLES
  setup,       \* where harness.setup is in each rollout
  arch,        \* the architecture of its container
  bytes,       \* the bytes it has in hand
  temporary,   \* OMP_BINARY.download in its container
  installed,   \* OMP_BINARY in its container
  memory,      \* _OMP_BINARY_BYTES
  lock,        \* who holds _OMP_BINARY_LOCK
  stores       \* how often an entry of the cache was set, at most 2 (history)

vars == <<setup, arch, bytes, temporary, installed, memory, lock, stores>>
cacheVars == <<memory, lock, stores>>
containerVars == <<temporary, installed>>

Bytes == {"none", "pinned", "other"}
Stages == {"start", "lookup", "wait", "inside", "load", "write", "script", "ready", "failed"}

TypeOK ==
  /\ setup \in [Rollouts -> Stages] /\ arch \in [Rollouts -> Arches]
  /\ bytes \in [Rollouts -> Bytes] /\ temporary \in [Rollouts -> Bytes]
  /\ installed \in [Rollouts -> Bytes]
  /\ memory \in [Arches -> Bytes] /\ lock \in Rollouts \cup {"none"}
  /\ stores \in [Arches -> 0..2]

Init ==
  /\ setup = [r \in Rollouts |-> "start"] /\ arch \in [Rollouts -> Arches]
  /\ bytes = [r \in Rollouts |-> "none"]
  /\ temporary = [r \in Rollouts |-> "none"] /\ installed = [r \in Rollouts |-> "none"]
  /\ memory = [a \in Arches |-> "none"] /\ lock = "none"
  /\ stores = [a \in Arches |-> 0]

Goto(r, s) == setup' = [setup EXCEPT ![r] = s]
InHand(r, b) == bytes' = [bytes EXCEPT ![r] = b]
-----------------------------------------------------------------------------
\* uname -m; an architecture without a release ends the setup.
Probe(r) ==
  /\ setup[r] = "start"
  /\ Goto(r, "lookup") \/ Goto(r, "failed")
  /\ UNCHANGED <<arch, bytes, containerVars, cacheVars>>

\* The first look at the cache, without the lock.
LookUp(r) ==
  /\ setup[r] = "lookup"
  /\ InHand(r, memory[arch[r]])
  /\ Goto(r, IF memory[arch[r]] = "none" THEN "wait" ELSE "write")
  /\ UNCHANGED <<arch, containerVars, cacheVars>>

Enter(r) ==
  /\ setup[r] = "wait" /\ lock = "none"
  /\ lock' = r
  /\ Goto(r, "inside")
  /\ UNCHANGED <<arch, bytes, containerVars, memory, stores>>

\* Mutant: the cache is not looked at again under the lock.
LookAgainNever(r) ==
  /\ setup[r] = "inside"
  /\ Goto(r, "load") /\ UNCHANGED <<arch, bytes, containerVars, cacheVars>>

\* The second look: another rollout may have loaded the bytes meanwhile.
LookAgain(r) ==
  /\ setup[r] = "inside"
  /\ IF memory[arch[r]] = "none"
     THEN Goto(r, "load") /\ UNCHANGED <<bytes, lock>>
     ELSE Goto(r, "write") /\ InHand(r, memory[arch[r]]) /\ lock' = "none"
  /\ UNCHANGED <<arch, containerVars, memory, stores>>

\* Mutant: what was read is taken without its checksum.
Unchecked(b) == b # "none"

\* _checked_omp_binary; "none" is an unreadable file, a failed download or too
\* many bytes.
Checked(b) == b = "pinned"

\* _load_omp_binary reads the file of the host or downloads; a failure is not
\* kept, so the next rollout tries again.
Load(r) ==
  /\ setup[r] = "load"
  /\ lock' = "none"
  /\ \E b \in Bytes :
       IF Checked(b)
       THEN /\ memory' = [memory EXCEPT ![arch[r]] = b]
            /\ stores' = [stores EXCEPT ![arch[r]] = IF @ < 2 THEN @ + 1 ELSE @]
            /\ InHand(r, b) /\ Goto(r, "write")
       ELSE Goto(r, "failed") /\ UNCHANGED <<memory, stores, bytes>>
  /\ UNCHANGED <<arch, containerVars>>

\* What arrives in the container may not be what was sent.
Write(r) ==
  /\ setup[r] = "write"
  /\ \E b \in {bytes[r], "other"} : temporary' = [temporary EXCEPT ![r] = b]
  /\ Goto(r, "script")
  /\ UNCHANGED <<arch, bytes, installed, cacheVars>>

\* Mutant: the script moves the file without sha256sum.
ScriptUnchecked(r) ==
  /\ setup[r] = "script"
  /\ installed' = [installed EXCEPT ![r] = temporary[r]]
  /\ temporary' = [temporary EXCEPT ![r] = "none"]
  /\ Goto(r, "ready")
  /\ UNCHANGED <<arch, bytes, cacheVars>>

\* The install script: the checksum, the move, the version; its trap removes
\* the download.  A missing tool or a full disk ends it anywhere.
Script(r) ==
  /\ setup[r] = "script"
  /\ \/ /\ temporary[r] = "pinned"
        /\ installed' = [installed EXCEPT ![r] = temporary[r]]
        /\ Goto(r, "ready") \/ Goto(r, "failed")
     \/ Goto(r, "failed") /\ UNCHANGED installed
  /\ temporary' = [temporary EXCEPT ![r] = "none"]
  /\ UNCHANGED <<arch, bytes, cacheVars>>

\* A cancellation leaves the lock; a load in its thread goes on for nobody.
Cancel(r) ==
  /\ setup[r] \notin {"ready", "failed"}
  /\ Goto(r, "failed")
  /\ lock' = IF lock = r THEN "none" ELSE lock
  /\ UNCHANGED <<arch, bytes, containerVars, memory, stores>>

Next ==
  \E r \in Rollouts :
    \/ Probe(r) \/ LookUp(r) \/ Enter(r) \/ LookAgain(r) \/ Load(r)
    \/ Write(r) \/ Script(r) \/ Cancel(r)

Spec == Init /\ [][Next]_vars
-----------------------------------------------------------------------------
\* Every OMP that starts is the pinned release, whatever the host cache, the
\* download or the transfer delivered.
InstalledIsPinned == \A r \in Rollouts : setup[r] = "ready" => installed[r] = "pinned"

\* However rollouts race, fail and are cancelled, an architecture is loaded
\* with success once (_omp_binary_bytes looks twice).
StoredOnce == \A a \in Arches : stores[a] <= 1 /\ memory[a] \in {"none", "pinned"}
=============================================================================
