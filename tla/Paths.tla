-------------------------------- MODULE Paths --------------------------------
(***************************************************************************)
(* Where a process finds the store, the socket and the lock: the daemon    *)
(* (rust/src/paths.rs) and the client (src/paths.ts), from its environment *)
(* variables.  A variable is unset, empty, or set to a path of its own; a  *)
(* path is the sequence of its parts, and the empty path leads nowhere but *)
(* to the working directory.                                               *)
(*                                                                         *)
(* Processes of one user may have different environments: a service        *)
(* manager, a login shell and a cron job do not set the same variables.    *)
(***************************************************************************)
EXTENDS Sequences, TLAPS

CONSTANTS
  Procs,     \* bound: the daemon processes
  Settings   \* what a variable may be: a subset of {"unset", "empty", "set"}

VARIABLES
  env,     \* the environment of each process
  running  \* the processes that hold their lock

vars == <<env, running>>

Names == {"PI_CRON_STATE_DIR", "XDG_STATE_HOME", "PI_CRON_RUNTIME_DIR", "XDG_RUNTIME_DIR",
          "PI_CRON_DB", "PI_CRON_SOCKET", "HOME"}

Environments == [Names -> {"unset", "empty", "set"}]

-----------------------------------------------------------------------------
(* paths.rs: var_os, for which an empty variable is set. *)

VarOs(e, name, default) ==
  IF e[name] = "unset" THEN default ELSE IF e[name] = "empty" THEN <<>> ELSE <<name>>

Home(e) == VarOs(e, "HOME", <<"/tmp">>)

StateDir(e) ==
  VarOs(e, "PI_CRON_STATE_DIR",
    Append(VarOs(e, "XDG_STATE_HOME", Home(e) \o <<".local", "state">>), "pi-cron"))

RuntimeDir(e) ==
  VarOs(e, "PI_CRON_RUNTIME_DIR",
    IF e["XDG_RUNTIME_DIR"] = "unset"
      THEN Append(StateDir(e), "run")
      ELSE Append(VarOs(e, "XDG_RUNTIME_DIR", <<>>), "pi-cron"))

Database(e) == VarOs(e, "PI_CRON_DB", Append(StateDir(e), "jobs.sqlite"))
SocketOf(e) == VarOs(e, "PI_CRON_SOCKET", Append(RuntimeDir(e), "daemon.sock"))
LockOf(e)   == Append(RuntimeDir(e), "daemon.lock")

-----------------------------------------------------------------------------
(* paths.ts: `||`, for which an empty variable is unset. *)

OrElse(e, name, default) == IF e[name] = "set" THEN <<name>> ELSE default

\* external: homedir() of node:os takes HOME, or asks the user database.
Homedir(e) == VarOs(e, "HOME", <<"passwd">>)

CronStateDir(e) ==
  OrElse(e, "PI_CRON_STATE_DIR",
    Append(OrElse(e, "XDG_STATE_HOME", Homedir(e) \o <<".local", "state">>), "pi-cron"))

CronRuntimeDir(e) ==
  OrElse(e, "PI_CRON_RUNTIME_DIR",
    IF e["XDG_RUNTIME_DIR"] = "set"
      THEN Append(<<"XDG_RUNTIME_DIR">>, "pi-cron") ELSE Append(CronStateDir(e), "run"))

SocketPath(e) == OrElse(e, "PI_CRON_SOCKET", Append(CronRuntimeDir(e), "daemon.sock"))

-----------------------------------------------------------------------------
(* Daemons that come and go, each behind the lock its environment names. *)

Init ==
  /\ env \in [Procs -> [Names -> Settings]]
  /\ running = {}

Starts(p) ==
  /\ p \notin running
  /\ \A q \in running : LockOf(env[q]) # LockOf(env[p])
  /\ running' = running \cup {p}
  /\ UNCHANGED env

Stops(p) ==
  /\ p \in running
  /\ running' = running \ {p}
  /\ UNCHANGED env

Next == \E p \in Procs : Starts(p) \/ Stops(p)

Spec == Init /\ [][Next]_vars

-----------------------------------------------------------------------------
(* What the documents say, and the code does not keep. *)

(***************************************************************************)
(* OneDaemonPerStore: two daemons are never at work on the same database.  *)
(* (README.md:8 and 94: a single daemon, behind a single-instance lock.)   *)
(***************************************************************************)
OneDaemonPerStore ==
  \A p, q \in running : p # q => Database(env[p]) # Database(env[q])

-----------------------------------------------------------------------------

(***************************************************************************)
(* ClientFindsDaemon: the client and the daemon it spawns, which inherits  *)
(* its environment, agree on the socket as long as HOME is set and no      *)
(* variable is empty.  (paths.ts and paths.rs; with an empty variable they *)
(* do not agree, because `||` and var_os differ on it.)                    *)
(***************************************************************************)
THEOREM ClientFindsDaemon ==
  ASSUME NEW e \in Environments,
         \A name \in Names : e[name] # "empty",
         e["HOME"] = "set"
  PROVE  SocketPath(e) = SocketOf(e)
<1>1. \A name \in Names : e[name] \in {"unset", "set"}
  BY DEF Environments
<1>2. ASSUME NEW name \in Names, NEW default
      PROVE  OrElse(e, name, default) = VarOs(e, name, default)
  <2>1. e[name] = "unset" \/ e[name] = "set"
    BY <1>1
  <2> QED
    BY <2>1 DEF OrElse, VarOs
<1>3. Homedir(e) = Home(e)
  BY DEF Homedir, Home, VarOs, Names
<1>4. CronStateDir(e) = StateDir(e)
  BY <1>2, <1>3 DEF CronStateDir, StateDir, Names
<1>5. CronRuntimeDir(e) = RuntimeDir(e)
  <2>1. CASE e["XDG_RUNTIME_DIR"] = "unset"
    BY <2>1, <1>2, <1>4 DEF CronRuntimeDir, RuntimeDir, Names
  <2>2. CASE e["XDG_RUNTIME_DIR"] = "set"
    <3>1. VarOs(e, "XDG_RUNTIME_DIR", <<>>) = <<"XDG_RUNTIME_DIR">>
      BY <2>2 DEF VarOs
    <3> QED
      BY <2>2, <3>1, <1>2 DEF CronRuntimeDir, RuntimeDir, Names
  <2> QED
    BY <2>1, <2>2, <1>1 DEF Names
<1> QED
  BY <1>2, <1>5 DEF SocketPath, SocketOf, Names
=============================================================================
