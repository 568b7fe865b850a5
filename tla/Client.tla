------------------------------- MODULE Client -------------------------------
(***************************************************************************)
(* The clients of the daemon (src/client.ts): each call sends its request, *)
(* starts a daemon when there is none, and sends it once more.  Together   *)
(* with Socket this is the whole path of a call, with several clients and  *)
(* several daemon processes at the same time.                              *)
(*                                                                         *)
(* A ping is one step.  A client may stall while it waits: its process is  *)
(* stopped or busy, and it keeps its connection and does nothing more.     *)
(***************************************************************************)
EXTENDS Socket

VARIABLE call   \* of each call: its place, its attempt and how it ended

vars == <<socketVars, call>>

Ends == {"none", "ok", "failed", "reset", "unavailable", "noExecutable", "notStarted"}

Call == [pc      : {"connect", "wait", "stalled", "spawn", "ping", "done"},
         attempt : {1, 2},
         end     : Ends]

Init ==
  /\ SocketInit
  /\ call = [c \in Clients |-> [pc |-> "connect", attempt |-> 1, end |-> "none"]]

At(c, pc)       == call[c].pc = pc
CallGoes(c, pc) == call' = [call EXCEPT ![c].pc = pc]
EndsAs(c, end)  == call' = [call EXCEPT ![c].pc = "done", ![c].end = end]

-----------------------------------------------------------------------------
(* request and send *)

Connect(c) ==
  /\ At(c, "connect")
  /\ Reachable
  /\ conn' = [conn EXCEPT ![c] = ConnAt("backlog", file)]
  /\ CallGoes(c, "wait")
  /\ UNCHANGED <<daemon, lock, file, commits, troubles>>

\* Mutated form: every attempt may start a daemon.
RetriesAlways(c, end) == CallGoes(c, "spawn")

\* catch: the first attempt may start a daemon, the second one may not.
Retries(c, end) ==
  IF call[c].attempt = 1 THEN CallGoes(c, "spawn") ELSE EndsAs(c, end)

\* ENOENT or ECONNREFUSED
ConnectFails(c) ==
  /\ At(c, "connect")
  /\ ~ Reachable
  /\ Retries(c, "unavailable")
  /\ UNCHANGED socketVars

\* The client's end is destroyed.
Closes(c) ==
  /\ conn' = [conn EXCEPT ![c] = Closed(@)]
  /\ UNCHANGED <<daemon, lock, file, commits, troubles>>

\* Mutated form: every error counts as unavailable.
IsUnavailableAny(answer) == TRUE

\* isUnavailable looks for ENOENT in the text of any error, the daemon's included.
IsUnavailable(answer) == answer = "enoent"

Receive(c) ==
  /\ At(c, "wait")
  /\ conn[c].pc = "answered"
  /\ LET answer == conn[c].answer IN
       \/ answer \in {"ok", "large"} /\ EndsAs(c, "ok")
       \/ answer \notin {"ok", "large"} /\ IsUnavailable(answer) /\ Retries(c, "failed")
       \/ answer \notin {"ok", "large"} /\ ~ IsUnavailable(answer) /\ EndsAs(c, "failed")
  /\ Closes(c)

\* ECONNRESET, or the end of the stream with no answer.
IsReset(c) ==
  /\ At(c, "wait")
  /\ conn[c].pc = "reset"
  /\ EndsAs(c, "reset")
  /\ Closes(c)

\* The timeout of the method, or an answer beyond MAX_RESPONSE_BYTES.
GivesUp(c) ==
  /\ At(c, "wait")
  /\ EndsAs(c, "failed")
  /\ Closes(c)

Stall(c) ==
  /\ At(c, "wait")
  /\ CallGoes(c, "stalled")
  /\ UNCHANGED socketVars

-----------------------------------------------------------------------------
(* startDaemon *)

NoExecutable(c) ==
  /\ At(c, "spawn")
  /\ EndsAs(c, "noExecutable")
  /\ UNCHANGED socketVars

Spawn(c) ==
  /\ At(c, "spawn")
  /\ Boot(c)
  /\ CallGoes(c, "ping")

PingAnswered(c) ==
  /\ At(c, "ping")
  /\ Reachable
  /\ call' = [call EXCEPT ![c].pc = "connect", ![c].attempt = @ + 1]
  /\ UNCHANGED socketVars

\* Mutated form: the exit of the client's own child ends the wait.
PingFailsWithChild(c) ==
  /\ At(c, "ping")
  /\ daemon[c] = "gone"
  /\ EndsAs(c, "notStarted")
  /\ UNCHANGED socketVars

\* The 7.5 seconds are over; a daemon that finds the lock free is up before.
Coming(d) ==
  \/ daemon[d] \in {"locked", "clear", "listening"}
  \/ daemon[d] = "boot" /\ lock = NULL

PingDeadline(c) ==
  /\ At(c, "ping")
  /\ \A d \in Daemons : ~ Coming(d)
  /\ EndsAs(c, "notStarted")
  /\ UNCHANGED socketVars

-----------------------------------------------------------------------------

\* A service manager starts its daemon, and starts it again when it failed.
ManagerStarts(s) ==
  /\ daemon[s] \in {"off", "gone"}
  /\ Boot(s)
  /\ UNCHANGED call

DaemonWork(d) ==
  /\ \/ TakeLock(d)
     \/ RemoveStale(d)
     \/ Bind(d)
     \/ CloseListener(d)
     \/ RemoveFile(d)
     \/ Joined(d)
     \/ Exit(d)
  /\ UNCHANGED call

DaemonTrouble(d) ==
  /\ Signal(d) \/ Fail(d) \/ Crash(d)
  /\ UNCHANGED call

HandlerWork(c) ==
  /\ \/ Accept(c)
     \/ ReadCancelled(c)
     \/ ReadEnds(c)
     \/ Commit(c)
     \/ Reject(c)
     \/ AnswerSent(c)
     \/ AnswerLost(c)
  /\ UNCHANGED call

\* What a client wrote before it stalled need not reach the newline.
ClientSends(c) ==
  /\ ~ At(c, "stalled")
  /\ Read(c) \/ ReadTooLarge(c)
  /\ UNCHANGED call

ClientReads(c) ==
  /\ At(c, "wait")
  /\ AnswerRead(c)
  /\ UNCHANGED call

ClientWork(c) ==
  \/ Connect(c)
  \/ ConnectFails(c)
  \/ Receive(c)
  \/ IsReset(c)
  \/ GivesUp(c)
  \/ NoExecutable(c)
  \/ Spawn(c)
  \/ PingAnswered(c)
  \/ PingDeadline(c)

Next ==
  \/ \E s \in Services : ManagerStarts(s)
  \/ \E d \in Daemons : DaemonWork(d) \/ DaemonTrouble(d)
  \/ \E c \in Clients :
       ClientWork(c) \/ Stall(c) \/ HandlerWork(c) \/ ClientSends(c) \/ ClientReads(c)

Spec == Init /\ [][Next]_vars

(***************************************************************************)
(* A process that is not stopped goes on: a daemon's main task and its     *)
(* handlers, and a client that has not stalled.  Signals, failures,        *)
(* crashes, service managers and stalls are not assumed to happen.         *)
(***************************************************************************)
Fairness ==
  /\ \A d \in Daemons : WF_vars(DaemonWork(d))
  /\ \A c \in Clients :
       /\ WF_vars(ClientWork(c))
       /\ WF_vars(HandlerWork(c))
       /\ WF_vars(ClientSends(c))
       /\ WF_vars(ClientReads(c))

FairSpec == Spec /\ Fairness

-----------------------------------------------------------------------------
(* Properties. *)

\* TypeOK: the type invariant of clients and daemons.
TypeOK ==
  /\ daemon \in [Daemons -> Stages]
  /\ lock \in Daemons \cup {NULL}
  /\ file \in Daemons \cup {NULL}
  /\ conn \in [Clients -> Conn]
  /\ commits \in [Clients -> Nat]
  /\ troubles \in Nat
  /\ call \in [Clients -> Call]

(***************************************************************************)
(* FileLeadsToListener: a daemon that listens is the one the socket file   *)
(* leads to, so no other process has removed or replaced the file; one     *)
(* that is about to bind finds the path free; and there is only one of     *)
(* them.  (daemon.rs SingletonLock, socket.rs serve.)                      *)
(***************************************************************************)
FileLeadsToListener ==
  \A d \in Daemons :
    /\ Accepting(d) => file = d
    /\ daemon[d] = "clear" => file = NULL
    /\ Running(d) => lock = d

(***************************************************************************)
(* CommittedOnce: although a call sends its request again, its request is  *)
(* executed at most once; a call that ends well was executed, and one that *)
(* reports that there is no daemon was not.  (client.ts request.)          *)
(***************************************************************************)
CommittedOnce ==
  \A c \in Clients :
    /\ commits[c] <= 1
    /\ call[c].end = "ok" => commits[c] = 1
    /\ call[c].end \in {"unavailable", "noExecutable", "notStarted"} => commits[c] = 0

(***************************************************************************)
(* AutostartWorks: as long as no daemon is told to stop, fails or is       *)
(* killed, no call ends for want of a daemon, also when several clients    *)
(* start daemons at the same time and all but one of these give up.        *)
(* (client.ts startDaemon, daemon.rs SingletonLock.)                       *)
(***************************************************************************)
AutostartWorks ==
  troubles = 0 =>
    \A c \in Clients : call[c].end \notin {"unavailable", "notStarted", "reset"}

(***************************************************************************)
(* DrainsUnlessUnread: a daemon that is told to stop exits, unless a       *)
(* stalled client keeps open the connection of an answer it does not read. *)
(* (By FileLeadsToListener no two daemons are told at the same time;       *)
(* socket.rs serve and handle.)                                            *)
(***************************************************************************)
Unread(d) ==
  \E c \in Clients :
    /\ call[c].pc = "stalled"
    /\ conn[c].daemon = d
    /\ conn[c].pc = "answering"
    /\ conn[c].answer = "large"

DrainsUnlessUnread ==
  (\E d \in Daemons : Stopping(d)) ~> \A d \in Daemons : Stopping(d) => Unread(d)
=============================================================================
