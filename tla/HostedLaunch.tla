---------------------------- MODULE HostedLaunch ----------------------------
(***************************************************************************)
(* From the shell to a hosted run (prime.py, mint.py): omp-coding-eval     *)
(* loads .env, resolves the Prime credentials, exports them, installs the  *)
(* tunnel client on Windows and calls the evaluation;                      *)
(* omp-coding-mint publish resolves the credentials only.  A value is      *)
(* named after the place it was set in.  The program may be killed at any  *)
(* step and started again; only the tunnel files outlive it.               *)
(***************************************************************************)
EXTENDS Sequences, Naturals

CONSTANT Emptied   \* the variables that the shell may set to nothing

VARIABLES
  launching,     \* where the program is; "idle" when none runs
  windows,       \* whether the machine runs Windows
  program,       \* omp-coding-eval or the publish command of omp-coding-mint
  shell,         \* the variables the program inherited (history)
  environ,       \* os.environ
  envFile,       \* the keys of .env; a missing file has none
  config,        \* ~/.prime/config.json; an unreadable one has nothing
  credentials,   \* what prime_credentials returned
  client,        \* the --client arguments eval_arguments adds
  binary,        \* <bin_dir>/frpc
  marker         \* <bin_dir>/.frpc_version

vars == <<launching, windows, program, shell, environ, envFile, config, credentials, client,
          binary, marker>>
inputVars == <<windows, program, shell, envFile, config>>
tunnelVars == <<binary, marker>>

Names == {"key", "team", "url"}   \* PRIME_API_KEY, PRIME_TEAM_ID, PRIME_INFERENCE_URL
Unset == "unset"
Empty == ""
NoCredentials == [n \in Names |-> Unset]
Programs == {"eval", "publish"}
Stages == {"idle", "load", "resolve", "export", "prepare", "write_binary", "write_marker",
           "eval", "publish", "login", "failed"}

LaunchAssumption == Emptied \subseteq Names

Truthy(v) == v \notin {Unset, Empty}

\* The first value of a sequence that is set.
FirstOf(s, default) ==
  LET given == {i \in DOMAIN s : Truthy(s[i])}
  IN IF given = {} THEN default ELSE s[CHOOSE i \in given : \A j \in given : i <= j]

TypeOK ==
  /\ launching \in Stages /\ windows \in BOOLEAN /\ program \in Programs
  /\ shell \in [Names -> {Unset, Empty, "shell"}]
  /\ environ \in [Names -> {Unset, Empty, "shell", "file", "config"}]
  /\ envFile \in [Names -> {Unset, "file"}] /\ config \in [Names -> {Unset, "config"}]
  /\ credentials \in [Names -> {Unset, "shell", "file", "config", "default"}]
  /\ "default" \notin {credentials["key"], credentials["team"]}
  /\ client \in {Unset, "shell", "file", "config", "default"}
  /\ binary \in {"none", "torn", "whole"} /\ marker \in {"none", "torn", "whole"}

Init ==
  /\ launching = "idle" /\ windows \in BOOLEAN /\ program = "eval"
  /\ shell = NoCredentials /\ environ = NoCredentials
  /\ envFile = NoCredentials /\ config = NoCredentials
  /\ credentials = NoCredentials /\ client = Unset
  /\ binary = "none" /\ marker = "none"

Quiet == UNCHANGED <<environ, credentials, client>>
-----------------------------------------------------------------------------
Launch ==
  /\ launching = "idle"
  /\ program' \in Programs
  /\ shell' \in [Names -> {Unset, Empty, "shell"}]
  /\ \A n \in Names \ Emptied : shell'[n] # Empty
  /\ envFile' \in [Names -> {Unset, "file"}] /\ config' \in [Names -> {Unset, "config"}]
  /\ environ' = shell'
  /\ credentials' = NoCredentials /\ client' = Unset
  /\ launching' = IF program' = "eval" THEN "load" ELSE "resolve"
  /\ UNCHANGED <<windows, tunnelVars>>

\* load_env_file: a key is exported unless its value, or nothing, is there.
LoadEnvFile ==
  /\ launching = "load"
  /\ environ' = [n \in Names |-> IF Truthy(environ[n]) \/ ~Truthy(envFile[n])
                                 THEN environ[n] ELSE envFile[n]]
  /\ launching' = "resolve"
  /\ UNCHANGED <<inputVars, tunnelVars, credentials, client>>

\* Mutant: the team of the login goes with a key of the environment.
ResolvedMixed ==
  IF ~Truthy(environ["key"]) /\ ~Truthy(config["key"]) THEN NoCredentials
  ELSE [n \in Names |-> FirstOf(<<environ[n], config[n]>>, IF n = "url" THEN "default" ELSE Unset)]

\* Mutant: a key of the environment has a team of its own by default.
ResolvedTeam ==
  [n \in Names |-> FirstOf(<<environ[n]>>, IF Truthy(environ["key"]) THEN "default" ELSE Unset)]

\* prime_credentials
Resolved ==
  IF Truthy(environ["key"])
  THEN [key |-> environ["key"], team |-> FirstOf(<<environ["team"]>>, Unset),
        url |-> FirstOf(<<environ["url"]>>, "default")]
  ELSE IF ~Truthy(config["key"]) THEN NoCredentials
  ELSE [key |-> config["key"], team |-> FirstOf(<<environ["team"], config["team"]>>, Unset),
        url |-> FirstOf(<<environ["url"], config["url"]>>, "default")]

\* Without credentials only an evaluation that is not hosted goes on.
Resolve ==
  /\ launching = "resolve"
  /\ credentials' = Resolved
  /\ \E hosted \in BOOLEAN :
       launching' = IF Resolved # NoCredentials
                    THEN IF program = "eval" THEN "export" ELSE "publish"
                    ELSE IF program = "eval" /\ ~hosted THEN "prepare" ELSE "login"
  /\ UNCHANGED <<inputVars, tunnelVars, environ, client>>

\* Mutant: only the team is exported.
ExportTeamOnly ==
  /\ launching = "export"
  /\ environ' = [environ EXCEPT !["team"] = IF @ = Unset THEN credentials["team"] ELSE @]
  /\ client' \in {Unset, credentials["url"]}
  /\ launching' = "prepare"
  /\ UNCHANGED <<inputVars, tunnelVars, credentials>>

\* PrimeCredentials.export, with setdefault; eval_arguments adds the endpoint of
\* the credentials unless the caller names one, and PRIME_API_KEY for its key.
Export ==
  /\ launching = "export"
  /\ environ' = [n \in Names |-> IF n # "url" /\ environ[n] = Unset
                                 THEN credentials[n] ELSE environ[n]]
  /\ client' \in {Unset, credentials["url"]}
  /\ launching' = "prepare"
  /\ UNCHANGED <<inputVars, tunnelVars, credentials>>

\* Mutant: a binary that is there is taken for installed.
InstalledBinary == binary # "none"
Installed == binary # "none" /\ marker = "whole"

\* prepare_windows, install_windows_frpc
Prepare ==
  /\ launching = "prepare"
  /\ launching' = IF ~windows \/ Installed THEN "eval" ELSE "write_binary"
  /\ Quiet /\ UNCHANGED <<inputVars, tunnelVars>>

\* The download fails, is too large or has another checksum; a file cannot
\* be written.
InstallFails ==
  /\ launching \in {"write_binary", "write_marker"}
  /\ launching' = "failed"
  /\ Quiet /\ UNCHANGED <<inputVars, tunnelVars>>

WriteBinary ==
  /\ launching = "write_binary"
  /\ binary' = "whole" /\ launching' = "write_marker"
  /\ Quiet /\ UNCHANGED <<inputVars, marker>>

WriteMarker ==
  /\ launching = "write_marker"
  /\ marker' = "whole" /\ launching' = "eval"
  /\ Quiet /\ UNCHANGED <<inputVars, binary>>

\* Killed, or the last call returned; a write that had begun may be torn.
Ends ==
  /\ launching # "idle"
  /\ launching' = "idle" /\ program' = "eval" /\ UNCHANGED windows
  /\ shell' = NoCredentials /\ environ' = NoCredentials
  /\ envFile' = NoCredentials /\ config' = NoCredentials
  /\ credentials' = NoCredentials /\ client' = Unset
  /\ binary' \in {binary} \cup (IF launching = "write_binary" THEN {"torn"} ELSE {})
  /\ marker' \in {marker} \cup (IF launching = "write_marker" THEN {"torn"} ELSE {})

Next ==
  \/ Launch \/ LoadEnvFile \/ Resolve \/ Export \/ Prepare
  \/ InstallFails \/ WriteBinary \/ WriteMarker \/ Ends

Spec == Init /\ [][Next]_vars
-----------------------------------------------------------------------------
\* What the launcher resolved is what the evaluation finds in PRIME_API_KEY,
\* the variable that --client.api-key-var names (PrimeCredentials.export), unless
\* the shell set that variable to nothing: setdefault keeps it so.
KeyIsVisible ==
  launching = "eval" /\ credentials # NoCredentials /\ shell["key"] # Empty
    => environ["key"] = credentials["key"]

\* The key is the shell's before .env's before the login's, and the team and
\* the endpoint of a login never go with a key of another place.
CredentialsPrecede ==
  launching = "eval" /\ credentials # NoCredentials =>
    \A n \in Names :
      credentials[n] =
        FirstOf(<<shell[n], envFile[n]>>
                  \o (IF credentials["key"] = "config" THEN <<config[n]>> ELSE <<>>),
                IF n = "url" THEN "default" ELSE Unset)

\* An evaluation on Windows never starts with a tunnel client that a killed
\* installation left half written (install_windows_frpc).
TunnelIsWhole == launching = "eval" /\ windows => binary = "whole"
=============================================================================
