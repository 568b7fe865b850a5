------------------------------- MODULE Socket -------------------------------
(***************************************************************************)
(* The daemon processes of one user as their clients meet them: the        *)
(* singleton lock (rust/src/daemon.rs), the socket file, the listener and  *)
(* the connection handlers (rust/src/socket.rs).                           *)
(*                                                                         *)
(* Several daemon processes may be started at the same time; the lock file *)
(* lets one of them go on.  A call has one connection at a time: its first *)
(* handler has ended before it connects again.  Whether a request is within *)
(* the limit, and what it does, is one step here.                          *)
(***************************************************************************)
EXTENDS Integers, FiniteSets

CONSTANTS
  Clients,     \* bound: the calls of clients, one each
  Services,    \* the daemons that service managers start
  NULL,        \* no daemon
  MaxTroubles  \* bound: how often a daemon is told to stop, fails or is killed

ASSUME SocketAssumption ==
  /\ MaxTroubles \in Nat
  /\ Clients \cap Services = {}
  /\ NULL \notin Clients \cup Services

VARIABLES
  daemon,    \* of each daemon process: how far daemon::run is
  lock,      \* the process that holds the lock file
  file,      \* the process that bound the socket file at the path
  conn,      \* of each call: its connection
  commits,   \* of each call: how often its request was executed
  troubles   \* how often a daemon was told to stop, failed or was killed

socketVars == <<daemon, lock, file, conn, commits, troubles>>

\* The daemon a client spawns is named after its call: it spawns at most one.
Daemons == Clients \cup Services

(***************************************************************************)
(* A daemon: off, boot, locked, clear (the stale socket file is removed),  *)
(* listening, told (the token is cancelled), closed (the listener is       *)
(* dropped), joining (the file is removed), stopping (Scheduler::stop),    *)
(* gone.                                                                   *)
(***************************************************************************)
Stages == {"off", "boot", "locked", "clear", "listening", "told", "closed", "joining",
           "stopping", "gone"}

Running(d)   == daemon[d] \notin {"off", "boot", "gone"}
Accepting(d) == daemon[d] \in {"listening", "told"}
Stopping(d)  == daemon[d] \in {"told", "closed", "joining", "stopping"}

\* Whether the socket file leads to a listener.
Reachable == file # NULL /\ Accepting(file)

(***************************************************************************)
(* A connection: none, backlog, reading, serving, answering (the answer is *)
(* being written), answered (it is on its way and the handler has ended),  *)
(* reset.  "large" is an answer of success that no socket buffer holds;    *)
(* open is the client's end.                                               *)
(***************************************************************************)
Answers == {"none", "ok", "large", "error", "enoent"}

Conn == [pc     : {"none", "backlog", "reading", "serving", "answering", "answered", "reset"},
         daemon : Daemons \cup {NULL},
         answer : Answers,
         open   : BOOLEAN]

ConnAt(pc, d) == [pc |-> pc, daemon |-> d, answer |-> "none", open |-> TRUE]

NoConn == [ConnAt("none", NULL) EXCEPT !.open = FALSE]

Handled == {"reading", "serving", "answering"}

\* A connection whose handler has ended is remembered by its client alone.
Ended(r, pc) == IF r.open THEN [r EXCEPT !.pc = pc, !.daemon = NULL] ELSE NoConn

\* The client's end is closed.
Closed(r) == IF r.pc \in {"answered", "reset"} THEN NoConn ELSE [r EXCEPT !.open = FALSE]

DaemonGoes(d, stage) == daemon' = [daemon EXCEPT ![d] = stage]

\* The connections of d at one of the places are cut off.
Cut(d, places) ==
  conn' = [c \in Clients |->
     IF conn[c].daemon = d /\ conn[c].pc \in places
       THEN Ended([conn[c] EXCEPT !.answer = "none"], "reset") ELSE conn[c]]

\* One more signal, failure or crash.
Trouble == troubles < MaxTroubles /\ troubles' = troubles + 1

SocketInit ==
  /\ daemon = [d \in Daemons |-> "off"]
  /\ lock = NULL
  /\ file = NULL
  /\ conn = [c \in Clients |-> NoConn]
  /\ commits = [c \in Clients |-> 0]
  /\ troubles = 0

-----------------------------------------------------------------------------
(* daemon::run and socket::serve. *)

Boot(d) ==
  /\ DaemonGoes(d, "boot")
  /\ UNCHANGED <<lock, file, conn, commits, troubles>>

\* Mutated form: the result of flock is not looked at.
TakeLockAnyway(d) ==
  /\ daemon[d] = "boot"
  /\ lock' = d
  /\ DaemonGoes(d, "locked")
  /\ UNCHANGED <<file, conn, commits, troubles>>

\* flock(LOCK_EX | LOCK_NB): the process that loses exits at once.
TakeLock(d) ==
  /\ daemon[d] = "boot"
  /\ IF lock = NULL
       THEN lock' = d /\ DaemonGoes(d, "locked")
       ELSE lock' = lock /\ DaemonGoes(d, "gone")
  /\ UNCHANGED <<file, conn, commits, troubles>>

\* The store is opened and the scheduler started; the file a dead daemon left goes.
RemoveStale(d) ==
  /\ daemon[d] = "locked"
  /\ file' = NULL
  /\ DaemonGoes(d, "clear")
  /\ UNCHANGED <<lock, conn, commits, troubles>>

\* bind refuses a path that exists.
Bind(d) ==
  /\ daemon[d] = "clear"
  /\ file = NULL
  /\ file' = d
  /\ DaemonGoes(d, "listening")
  /\ UNCHANGED <<lock, conn, commits, troubles>>

\* SIGTERM or SIGINT: the signal task cancels the token.
Signal(d) ==
  /\ daemon[d] = "listening"
  /\ Trouble
  /\ DaemonGoes(d, "told")
  /\ UNCHANGED <<lock, file, conn, commits>>

\* Mutated form: the lock is released before the file is removed.
CloseListenerUnlocks(d) ==
  /\ daemon[d] = "told"
  /\ lock' = NULL
  /\ Cut(d, {"backlog"})
  /\ DaemonGoes(d, "closed")
  /\ UNCHANGED <<file, commits, troubles>>

\* serve leaves its loop and drops the listener: what was not accepted is cut off.
CloseListener(d) ==
  /\ daemon[d] = "told"
  /\ Cut(d, {"backlog"})
  /\ DaemonGoes(d, "closed")
  /\ UNCHANGED <<lock, file, commits, troubles>>

\* remove_file takes whatever is at the path.
RemoveFile(d) ==
  /\ daemon[d] = "closed"
  /\ file' = NULL
  /\ DaemonGoes(d, "joining")
  /\ UNCHANGED <<lock, conn, commits, troubles>>

\* Every handler is joined.
Joined(d) ==
  /\ daemon[d] = "joining"
  /\ \A c \in Clients : conn[c].daemon = d => conn[c].pc \notin Handled
  /\ DaemonGoes(d, "stopping")
  /\ UNCHANGED <<lock, file, conn, commits, troubles>>

\* Scheduler::stop has returned; the lock goes with the process.
Exit(d) ==
  /\ daemon[d] = "stopping"
  /\ lock' = NULL
  /\ DaemonGoes(d, "gone")
  /\ UNCHANGED <<file, conn, commits, troubles>>

\* start, bind or accept fails: `?` drops the listener and aborts the handlers.
Fail(d) ==
  /\ daemon[d] \in {"locked", "clear", "listening"}
  /\ Trouble
  /\ Cut(d, {"backlog"} \cup Handled)
  /\ DaemonGoes(d, "stopping")
  /\ UNCHANGED <<lock, file, commits>>

\* Killed: the kernel unlocks the lock file, nobody removes the socket file.
Crash(d) ==
  /\ Running(d)
  /\ Trouble
  /\ lock' = NULL
  /\ Cut(d, {"backlog"} \cup Handled)
  /\ DaemonGoes(d, "gone")
  /\ UNCHANGED <<file, commits>>

-----------------------------------------------------------------------------
(* handle and respond. *)

\* One step of the handler of a connection.
HandlerStep(c, next) ==
  /\ conn' = [conn EXCEPT ![c] = next]
  /\ UNCHANGED <<daemon, lock, file, troubles>>

\* Nobody waits for the answer to a client that is gone.
Answering(r, answer) ==
  IF r.open THEN [r EXCEPT !.pc = "answering", !.answer = answer] ELSE NoConn

Accept(c) ==
  /\ conn[c].pc = "backlog"
  /\ Accepting(conn[c].daemon)
  /\ HandlerStep(c, [conn[c] EXCEPT !.pc = "reading"])
  /\ UNCHANGED commits

\* The newline is there.
Read(c) ==
  /\ conn[c].pc = "reading"
  /\ HandlerStep(c, [conn[c] EXCEPT !.pc = "serving"])
  /\ UNCHANGED commits

\* More than REQUEST_LIMIT is there, which is looked at before the newline.
ReadTooLarge(c) ==
  /\ conn[c].pc = "reading"
  /\ HandlerStep(c, Answering(conn[c], "error"))
  /\ UNCHANGED commits

\* Mutated form: the token is not selected on, only the end of the input is.
ReadCancelledUnseen(c) ==
  /\ conn[c].pc = "reading"
  /\ ~ conn[c].open
  /\ HandlerStep(c, Answering(conn[c], "error"))
  /\ UNCHANGED commits

\* The token is cancelled while the request is being read.
ReadCancelled(c) ==
  /\ conn[c].pc = "reading"
  /\ Stopping(conn[c].daemon)
  /\ HandlerStep(c, Answering(conn[c], "error"))
  /\ UNCHANGED commits

\* The client is gone before its newline came.
ReadEnds(c) ==
  /\ conn[c].pc = "reading"
  /\ ~ conn[c].open
  /\ HandlerStep(c, NoConn)
  /\ UNCHANGED commits

\* The request is executed; a later statement of the store may fail and be reported.
Commit(c) ==
  /\ conn[c].pc = "serving"
  /\ \E answer \in {"ok", "large", "error"} : HandlerStep(c, Answering(conn[c], answer))
  /\ commits' = [commits EXCEPT ![c] = @ + 1]

\* Refused with no effect, perhaps with a text of the runner that names ENOENT.
Reject(c) ==
  /\ conn[c].pc = "serving"
  /\ \E answer \in {"error", "enoent"} : HandlerStep(c, Answering(conn[c], answer))
  /\ UNCHANGED commits

\* A large answer waits in write_all for its client to read.
AnswerSent(c) ==
  /\ conn[c].pc = "answering"
  /\ conn[c].answer # "large"
  /\ HandlerStep(c, Ended(conn[c], "answered"))
  /\ UNCHANGED commits

AnswerRead(c) ==
  /\ conn[c].pc = "answering"
  /\ conn[c].answer = "large"
  /\ conn[c].open
  /\ HandlerStep(c, Ended(conn[c], "answered"))
  /\ UNCHANGED commits

\* The client closed its end: write_all fails and the handler ends.
AnswerLost(c) ==
  /\ conn[c].pc = "answering"
  /\ ~ conn[c].open
  /\ HandlerStep(c, NoConn)
  /\ UNCHANGED commits
=============================================================================
