---------------------------- MODULE ClientProofs ----------------------------
(***************************************************************************)
(* What clients and daemon processes keep, for every set of clients and of *)
(* services and any number of signals, failures and crashes.               *)
(***************************************************************************)
EXTENDS Client, TLAPS

\* What a connection and its call say about the execution of the request.
Requested ==
  \A c \in Clients :
    /\ conn[c].pc \in {"backlog", "reading", "serving"} => commits[c] = 0
    /\ conn[c].pc \in {"answering", "answered"} =>
         /\ conn[c].answer \in {"ok", "large"} => commits[c] = 1
         /\ conn[c].answer = "enoent" => commits[c] = 0
    /\ call[c].pc \in {"connect", "spawn", "ping"} => commits[c] = 0 /\ conn[c].pc = "none"
    /\ call[c].end \in {"unavailable", "noExecutable", "notStarted"} => conn[c].pc = "none"
    /\ call[c].pc # "done" => call[c].end = "none"

\* A call starts a daemon between its two attempts, and never before or twice.
StartsOne ==
  \A c \in Clients :
    /\ call[c].pc \in {"spawn", "ping"} => call[c].attempt = 1
    /\ call[c].attempt = 1 /\ call[c].pc \in {"connect", "wait", "stalled", "spawn"} =>
         daemon[c] = "off"
    /\ call[c].pc = "ping" => daemon[c] # "off"

\* Until the first trouble, a daemon that has given up leaves one that goes on.
Untroubled ==
  troubles = 0 =>
    /\ \A d \in Daemons : ~ Stopping(d)
    /\ lock # NULL => Running(lock)
    /\ \A d \in Daemons : daemon[d] = "gone" => lock # NULL
    /\ \A c \in Clients : conn[c].pc # "reset"
    /\ \A c \in Clients : call[c].attempt = 2 => Reachable
    /\ AutostartWorks

IInv ==
  /\ TypeOK
  /\ FileLeadsToListener
  /\ Requested
  /\ CommittedOnce
  /\ StartsOne
  /\ Untroubled

-----------------------------------------------------------------------------

\* The operators on connections stay within their type.
LEMMA ConnTypes ==
  /\ NoConn \in Conn
  /\ \A d \in Daemons : ConnAt("backlog", d) \in Conn
  /\ \A r \in Conn : Closed(r) \in Conn
  /\ \A r \in Conn, pc \in {"answered", "reset"} : Ended(r, pc) \in Conn
  /\ \A r \in Conn, answer \in Answers : Answering(r, answer) \in Conn
  /\ \A r \in Conn, pc \in {"reading", "serving"} : [r EXCEPT !.pc = pc] \in Conn
<1>1. NoConn \in Conn /\ \A d \in Daemons : ConnAt("backlog", d) \in Conn
  BY DEF NoConn, ConnAt, Conn, Answers
<1>2. \A r \in Conn : Closed(r) \in Conn
  BY <1>1 DEF Closed, Conn
<1>3. \A r \in Conn, pc \in {"answered", "reset"} : Ended(r, pc) \in Conn
  BY <1>1 DEF Ended, Conn
<1>4. \A r \in Conn, answer \in Answers : Answering(r, answer) \in Conn
  BY <1>1 DEF Answering, Conn
<1>5. \A r \in Conn, pc \in {"reading", "serving"} : [r EXCEPT !.pc = pc] \in Conn
  BY DEF Conn
<1> QED
  BY <1>1, <1>2, <1>3, <1>4, <1>5

\* A handler's step is as well typed as the connection it leaves.
LEMMA HandlerTypes ==
  ASSUME TypeOK, NEW c \in Clients, NEW next \in Conn, HandlerStep(c, next),
         commits' \in [Clients -> Nat], UNCHANGED call
  PROVE  TypeOK'
  BY DEF TypeOK, HandlerStep

\* Cutting connections off takes some of them away and leaves the others alone.
LEMMA CutEffect ==
  ASSUME TypeOK, NEW d \in Daemons, NEW places, Cut(d, places)
  PROVE  /\ conn' \in [Clients -> Conn]
         /\ \A c \in Clients :
              \/ conn'[c] = conn[c]
              \/ conn[c].pc \in places /\ conn'[c].pc \in {"none", "reset"}
<1> DEFINE After(c) == IF conn[c].daemon = d /\ conn[c].pc \in places
                         THEN Ended([conn[c] EXCEPT !.answer = "none"], "reset") ELSE conn[c]
<1>1. conn' = [c \in Clients |-> After(c)]
  BY DEF Cut
<1>2. ASSUME NEW c \in Clients
      PROVE  /\ After(c) \in Conn
             /\ \/ After(c) = conn[c]
                \/ conn[c].pc \in places /\ After(c).pc \in {"none", "reset"}
  <2>1. [conn[c] EXCEPT !.answer = "none"] \in Conn
    BY DEF TypeOK, Conn, Answers
  <2>2. /\ Ended([conn[c] EXCEPT !.answer = "none"], "reset") \in Conn
        /\ Ended([conn[c] EXCEPT !.answer = "none"], "reset").pc \in {"none", "reset"}
    BY <2>1, ConnTypes DEF Ended, NoConn, ConnAt, Conn
  <2> QED
    BY <2>2 DEF TypeOK
<1> HIDE DEF After
<1> QED
  BY <1>1, <1>2

\* EndsAs is about one call, and keeps its attempt.
LEMMA EndsAsEffect ==
  ASSUME TypeOK, NEW c \in Clients, NEW end \in Ends, EndsAs(c, end)
  PROVE  /\ call' \in [Clients -> Call]
         /\ call'[c].pc = "done" /\ call'[c].end = end /\ call'[c].attempt = call[c].attempt
         /\ \A e \in Clients \ {c} : call'[e] = call[e]
<1>1. call[c] \in Call
  BY DEF TypeOK
<1>2. call' = [call EXCEPT ![c] = [call[c] EXCEPT !.pc = "done", !.end = end]]
  BY DEF EndsAs, TypeOK
<1>3. [call[c] EXCEPT !.pc = "done", !.end = end] \in Call
  BY <1>1 DEF Call
<1> QED
  BY <1>1, <1>2, <1>3 DEF TypeOK, Call

\* A call that may be sent again goes on to start a daemon, once; or it ends.
LEMMA RetriesEffect ==
  ASSUME TypeOK, NEW c \in Clients, NEW end \in Ends, Retries(c, end)
  PROVE  /\ call' \in [Clients -> Call]
         /\ call'[c].attempt = call[c].attempt
         /\ \A e \in Clients \ {c} : call'[e] = call[e]
         /\ \/ call[c].attempt = 1 /\ call'[c].pc = "spawn" /\ call'[c].end = call[c].end
            \/ call[c].attempt = 2 /\ call'[c].pc = "done" /\ call'[c].end = end
<1>1. CASE call[c].attempt = 1
  <2>1. call' = [call EXCEPT ![c] = [call[c] EXCEPT !.pc = "spawn"]]
    BY <1>1 DEF Retries, CallGoes, TypeOK
  <2>2. call[c] \in Call
    BY DEF TypeOK
  <2>3. /\ [call[c] EXCEPT !.pc = "spawn"] \in Call
        /\ [call[c] EXCEPT !.pc = "spawn"].pc = "spawn"
        /\ [call[c] EXCEPT !.pc = "spawn"].end = call[c].end
        /\ [call[c] EXCEPT !.pc = "spawn"].attempt = call[c].attempt
    BY <2>2 DEF Call
  <2>4. call \in [Clients -> Call]
    BY DEF TypeOK
  <2> QED
    BY <1>1, <2>1, <2>3, <2>4
<1>2. CASE call[c].attempt # 1
  <2>1. EndsAs(c, end) /\ call[c].attempt = 2
    BY <1>2 DEF Retries, TypeOK, Call
  <2> QED
    BY <2>1, EndsAsEffect
<1> QED
  BY <1>1, <1>2

LEMMA InitInv == Init => IInv
<1> SUFFICES ASSUME Init
             PROVE  IInv
  OBVIOUS
<1> USE SocketAssumption DEF Init, SocketInit
<1>1. TypeOK
  BY DEF TypeOK, Conn, ConnAt, NoConn, Call, Stages, Answers, Ends, Daemons
<1>2. FileLeadsToListener
  BY DEF FileLeadsToListener, Accepting, Running, Daemons
<1>3. Requested /\ CommittedOnce
  BY DEF Requested, CommittedOnce, ConnAt, NoConn
<1>4. StartsOne /\ Untroubled
  BY DEF StartsOne, Untroubled, AutostartWorks, Stopping, ConnAt, NoConn, Daemons
<1> QED
  BY <1>1, <1>2, <1>3, <1>4 DEF IInv

LEMMA TakeLockKeeps ==
  ASSUME IInv, NEW d \in Daemons, TakeLock(d), UNCHANGED call
  PROVE  IInv'
<1>1. TypeOK'
  BY SocketAssumption DEF IInv, TakeLock, DaemonGoes, TypeOK, Conn, Call, Stages,
     Answers, Ends, Daemons
<1>2. FileLeadsToListener'
  BY SocketAssumption DEF IInv, TakeLock, DaemonGoes, TypeOK, FileLeadsToListener,
     Accepting, Running, Daemons
<1>3. (Requested /\ CommittedOnce)'
  BY SocketAssumption DEF IInv, TakeLock, DaemonGoes, TypeOK, Requested, CommittedOnce,
     Conn, Call
<1>4. StartsOne'
  BY SocketAssumption DEF IInv, TakeLock, DaemonGoes, TypeOK, StartsOne, Daemons, Call
<1>5. Untroubled'
  BY SocketAssumption DEF IInv, TakeLock, DaemonGoes, TypeOK, FileLeadsToListener,
     StartsOne, Untroubled, AutostartWorks, Requested, Stopping, Accepting, Running,
     Reachable, Daemons, Conn, Call
<1> QED
  BY <1>1, <1>2, <1>3, <1>4, <1>5 DEF IInv

LEMMA RemoveStaleKeeps ==
  ASSUME IInv, NEW d \in Daemons, RemoveStale(d), UNCHANGED call
  PROVE  IInv'
<1>1. TypeOK'
  BY SocketAssumption DEF IInv, RemoveStale, DaemonGoes, TypeOK, Conn, Call, Stages,
     Answers, Ends, Daemons
<1>2. FileLeadsToListener'
  BY SocketAssumption DEF IInv, RemoveStale, DaemonGoes, TypeOK, FileLeadsToListener,
     Accepting, Running, Daemons
<1>3. (Requested /\ CommittedOnce)'
  BY SocketAssumption DEF IInv, RemoveStale, DaemonGoes, TypeOK, Requested,
     CommittedOnce, Conn, Call
<1>4. StartsOne'
  BY SocketAssumption DEF IInv, RemoveStale, DaemonGoes, TypeOK, StartsOne, Daemons,
     Call
<1>5. Untroubled'
  BY SocketAssumption DEF IInv, RemoveStale, DaemonGoes, TypeOK, FileLeadsToListener,
     StartsOne, Untroubled, AutostartWorks, Requested, Stopping, Accepting, Running,
     Reachable, Daemons, Conn, Call
<1> QED
  BY <1>1, <1>2, <1>3, <1>4, <1>5 DEF IInv

LEMMA BindKeeps ==
  ASSUME IInv, NEW d \in Daemons, Bind(d), UNCHANGED call
  PROVE  IInv'
<1>1. TypeOK'
  BY SocketAssumption DEF IInv, Bind, DaemonGoes, TypeOK, Conn, Call, Stages, Answers,
     Ends, Daemons
<1>2. FileLeadsToListener'
  BY SocketAssumption DEF IInv, Bind, DaemonGoes, TypeOK, FileLeadsToListener,
     Accepting, Running, Daemons
<1>3. (Requested /\ CommittedOnce)'
  BY SocketAssumption DEF IInv, Bind, DaemonGoes, TypeOK, Requested, CommittedOnce,
     Conn, Call
<1>4. StartsOne'
  BY SocketAssumption DEF IInv, Bind, DaemonGoes, TypeOK, StartsOne, Daemons, Call
<1>5. Untroubled'
  BY SocketAssumption DEF IInv, Bind, DaemonGoes, TypeOK, FileLeadsToListener,
     StartsOne, Untroubled, AutostartWorks, Requested, Stopping, Accepting, Running,
     Reachable, Daemons, Conn, Call
<1> QED
  BY <1>1, <1>2, <1>3, <1>4, <1>5 DEF IInv

LEMMA RemoveFileKeeps ==
  ASSUME IInv, NEW d \in Daemons, RemoveFile(d), UNCHANGED call
  PROVE  IInv'
<1>1. TypeOK'
  BY SocketAssumption DEF IInv, RemoveFile, DaemonGoes, TypeOK, Conn, Call, Stages,
     Answers, Ends, Daemons
<1>2. FileLeadsToListener'
  BY SocketAssumption DEF IInv, RemoveFile, DaemonGoes, TypeOK, FileLeadsToListener,
     Accepting, Running, Daemons
<1>3. (Requested /\ CommittedOnce)'
  BY SocketAssumption DEF IInv, RemoveFile, DaemonGoes, TypeOK, Requested,
     CommittedOnce, Conn, Call
<1>4. StartsOne'
  BY SocketAssumption DEF IInv, RemoveFile, DaemonGoes, TypeOK, StartsOne, Daemons, Call
<1>5. Untroubled'
  BY SocketAssumption DEF IInv, RemoveFile, DaemonGoes, TypeOK, FileLeadsToListener,
     StartsOne, Untroubled, AutostartWorks, Requested, Stopping, Accepting, Running,
     Reachable, Daemons, Conn, Call
<1> QED
  BY <1>1, <1>2, <1>3, <1>4, <1>5 DEF IInv

LEMMA JoinedKeeps ==
  ASSUME IInv, NEW d \in Daemons, Joined(d), UNCHANGED call
  PROVE  IInv'
<1>1. TypeOK'
  BY SocketAssumption DEF IInv, Joined, DaemonGoes, TypeOK, Conn, Call, Stages, Answers,
     Ends, Daemons
<1>2. FileLeadsToListener'
  BY SocketAssumption DEF IInv, Joined, DaemonGoes, TypeOK, FileLeadsToListener,
     Accepting, Running, Daemons
<1>3. (Requested /\ CommittedOnce)'
  BY SocketAssumption DEF IInv, Joined, DaemonGoes, TypeOK, Requested, CommittedOnce,
     Conn, Call
<1>4. StartsOne'
  BY SocketAssumption DEF IInv, Joined, DaemonGoes, TypeOK, StartsOne, Daemons, Call
<1>5. Untroubled'
  BY SocketAssumption DEF IInv, Joined, DaemonGoes, TypeOK, FileLeadsToListener,
     StartsOne, Untroubled, AutostartWorks, Requested, Stopping, Accepting, Running,
     Reachable, Daemons, Conn, Call
<1> QED
  BY <1>1, <1>2, <1>3, <1>4, <1>5 DEF IInv

LEMMA ExitKeeps ==
  ASSUME IInv, NEW d \in Daemons, Exit(d), UNCHANGED call
  PROVE  IInv'
<1>1. TypeOK'
  BY SocketAssumption DEF IInv, Exit, DaemonGoes, TypeOK, Conn, Call, Stages, Answers,
     Ends, Daemons
<1>2. FileLeadsToListener'
  BY SocketAssumption DEF IInv, Exit, DaemonGoes, TypeOK, FileLeadsToListener,
     Accepting, Running, Daemons
<1>3. (Requested /\ CommittedOnce)'
  BY SocketAssumption DEF IInv, Exit, DaemonGoes, TypeOK, Requested, CommittedOnce,
     Conn, Call
<1>4. StartsOne'
  BY SocketAssumption DEF IInv, Exit, DaemonGoes, TypeOK, StartsOne, Daemons, Call
<1>5. Untroubled'
  BY SocketAssumption DEF IInv, Exit, DaemonGoes, TypeOK, FileLeadsToListener,
     StartsOne, Untroubled, AutostartWorks, Requested, Stopping, Accepting, Running,
     Reachable, Daemons, Conn, Call
<1> QED
  BY <1>1, <1>2, <1>3, <1>4, <1>5 DEF IInv

LEMMA SignalKeeps ==
  ASSUME IInv, NEW d \in Daemons, Signal(d), UNCHANGED call
  PROVE  IInv'
<1>1. TypeOK'
  BY SocketAssumption DEF IInv, Signal, DaemonGoes, Trouble, TypeOK, Conn, Call, Stages,
     Answers, Ends, Daemons
<1>2. FileLeadsToListener'
  BY SocketAssumption DEF IInv, Signal, DaemonGoes, Trouble, TypeOK,
     FileLeadsToListener, Accepting, Running, Daemons
<1>3. (Requested /\ CommittedOnce)'
  BY SocketAssumption DEF IInv, Signal, DaemonGoes, Trouble, TypeOK, Requested,
     CommittedOnce, Conn, Call
<1>4. StartsOne'
  BY SocketAssumption DEF IInv, Signal, DaemonGoes, Trouble, TypeOK, StartsOne, Daemons,
     Call
<1>5. Untroubled'
  BY SocketAssumption DEF IInv, Signal, DaemonGoes, Trouble, TypeOK,
     FileLeadsToListener, StartsOne, Untroubled, AutostartWorks, Requested, Stopping,
     Accepting, Running, Reachable, Daemons, Conn, Call
<1> QED
  BY <1>1, <1>2, <1>3, <1>4, <1>5 DEF IInv

LEMMA CloseListenerKeeps ==
  ASSUME IInv, NEW d \in Daemons, CloseListener(d), UNCHANGED call
  PROVE  IInv'
<1>0. /\ conn' \in [Clients -> Conn]
      /\ \A c \in Clients :
           \/ conn'[c] = conn[c]
           \/ conn[c].pc \in {"backlog"} /\ conn'[c].pc \in {"none", "reset"}
  <2>1. TypeOK /\ Cut(d, {"backlog"})
    BY DEF IInv, CloseListener
  <2> QED
    BY <2>1, CutEffect
<1>1. TypeOK'
  BY <1>0 DEF IInv, CloseListener, DaemonGoes, TypeOK, Stages, Daemons
<1>2. FileLeadsToListener'
  BY SocketAssumption DEF IInv, CloseListener, DaemonGoes, TypeOK, FileLeadsToListener,
     Accepting, Running, Daemons
<1>3. (Requested /\ CommittedOnce)'
  <2>1. Requested'
    BY <1>0 DEF IInv, CloseListener, Requested
  <2>2. CommittedOnce'
    BY <1>0 DEF IInv, CloseListener, Requested, CommittedOnce
  <2> QED
    BY <2>1, <2>2
<1>4. StartsOne'
  BY <1>0, SocketAssumption DEF IInv, CloseListener, DaemonGoes, TypeOK, StartsOne,
     Daemons, Call, Running, Accepting
<1>5. Untroubled'
  BY <1>0 DEF IInv, CloseListener, Untroubled, Stopping
<1> QED
  BY <1>1, <1>2, <1>3, <1>4, <1>5 DEF IInv

LEMMA FailKeeps ==
  ASSUME IInv, NEW d \in Daemons, Fail(d), UNCHANGED call
  PROVE  IInv'
<1>0. /\ conn' \in [Clients -> Conn]
      /\ \A c \in Clients :
           \/ conn'[c] = conn[c]
           \/ conn[c].pc \in {"backlog"} \cup Handled /\ conn'[c].pc \in {"none", "reset"}
  <2>1. TypeOK /\ Cut(d, {"backlog"} \cup Handled)
    BY DEF IInv, Fail
  <2> QED
    BY <2>1, CutEffect
<1>1. TypeOK'
  BY <1>0 DEF IInv, Fail, DaemonGoes, Trouble, TypeOK, Stages, Daemons
<1>2. FileLeadsToListener'
  BY SocketAssumption DEF IInv, Fail, DaemonGoes, Trouble, TypeOK, FileLeadsToListener,
     Accepting, Running, Daemons
<1>3. (Requested /\ CommittedOnce)'
  <2>1. Requested'
    BY <1>0 DEF IInv, Fail, Requested, Handled
  <2>2. CommittedOnce'
    BY <1>0 DEF IInv, Fail, Requested, CommittedOnce, Handled
  <2> QED
    BY <2>1, <2>2
<1>4. StartsOne'
  BY <1>0, SocketAssumption DEF IInv, Fail, DaemonGoes, Trouble, TypeOK, StartsOne,
     Daemons, Call, Running, Accepting
<1>5. Untroubled'
  <2>1. troubles' # 0
    BY DEF IInv, Fail, Trouble, TypeOK
  <2> QED
    BY <2>1 DEF Untroubled
<1> QED
  BY <1>1, <1>2, <1>3, <1>4, <1>5 DEF IInv

LEMMA CrashKeeps ==
  ASSUME IInv, NEW d \in Daemons, Crash(d), UNCHANGED call
  PROVE  IInv'
<1>0. /\ conn' \in [Clients -> Conn]
      /\ \A c \in Clients :
           \/ conn'[c] = conn[c]
           \/ conn[c].pc \in {"backlog"} \cup Handled /\ conn'[c].pc \in {"none", "reset"}
  <2>1. TypeOK /\ Cut(d, {"backlog"} \cup Handled)
    BY DEF IInv, Crash
  <2> QED
    BY <2>1, CutEffect
<1>1. TypeOK'
  BY <1>0 DEF IInv, Crash, DaemonGoes, Trouble, TypeOK, Stages, Daemons
<1>2. FileLeadsToListener'
  BY SocketAssumption DEF IInv, Crash, DaemonGoes, Trouble, TypeOK, FileLeadsToListener,
     Accepting, Running, Daemons
<1>3. (Requested /\ CommittedOnce)'
  <2>1. Requested'
    BY <1>0 DEF IInv, Crash, Requested, Handled
  <2>2. CommittedOnce'
    BY <1>0 DEF IInv, Crash, Requested, CommittedOnce, Handled
  <2> QED
    BY <2>1, <2>2
<1>4. StartsOne'
  <2>1. daemon[d] # "off" /\ daemon' = [daemon EXCEPT ![d] = "gone"]
    BY DEF Crash, Running, DaemonGoes
  <2> QED
    BY <2>1 DEF IInv, Crash, TypeOK, StartsOne, Daemons
<1>5. Untroubled'
  <2>1. troubles' # 0
    BY DEF IInv, Crash, Trouble, TypeOK
  <2> QED
    BY <2>1 DEF Untroubled
<1> QED
  BY <1>1, <1>2, <1>3, <1>4, <1>5 DEF IInv

LEMMA AcceptKeeps ==
  ASSUME IInv, NEW c \in Clients, Accept(c), UNCHANGED call
  PROVE  IInv'
<1>1. TypeOK'
  <2>1. [conn[c] EXCEPT !.pc = "reading"] \in Conn
    BY ConnTypes DEF IInv, TypeOK
  <2>2. HandlerStep(c, [conn[c] EXCEPT !.pc = "reading"]) /\ commits' \in [Clients -> Nat]
    BY DEF IInv, TypeOK, Accept
  <2> QED
    BY <2>1, <2>2, HandlerTypes DEF IInv
<1>2. FileLeadsToListener'
  BY SocketAssumption DEF IInv, Accept, HandlerStep, TypeOK, FileLeadsToListener,
     Accepting, Running, Daemons
<1>3. (Requested /\ CommittedOnce)'
  BY SocketAssumption DEF IInv, Accept, HandlerStep, TypeOK, Requested, CommittedOnce,
     Conn, Call
<1>4. StartsOne'
  BY SocketAssumption DEF IInv, Accept, HandlerStep, TypeOK, StartsOne, Daemons, Call
<1>5. Untroubled'
  BY SocketAssumption DEF IInv, Accept, HandlerStep, TypeOK, FileLeadsToListener,
     StartsOne, Untroubled, AutostartWorks, Requested, Stopping, Accepting, Running,
     Reachable, Daemons, Conn, Call
<1> QED
  BY <1>1, <1>2, <1>3, <1>4, <1>5 DEF IInv

LEMMA ReadKeeps ==
  ASSUME IInv, NEW c \in Clients, Read(c), UNCHANGED call
  PROVE  IInv'
<1>1. TypeOK'
  <2>1. [conn[c] EXCEPT !.pc = "serving"] \in Conn
    BY ConnTypes DEF IInv, TypeOK
  <2>2. HandlerStep(c, [conn[c] EXCEPT !.pc = "serving"]) /\ commits' \in [Clients -> Nat]
    BY DEF IInv, TypeOK, Read
  <2> QED
    BY <2>1, <2>2, HandlerTypes DEF IInv
<1>2. FileLeadsToListener'
  BY SocketAssumption DEF IInv, Read, HandlerStep, TypeOK, FileLeadsToListener,
     Accepting, Running, Daemons
<1>3. (Requested /\ CommittedOnce)'
  BY SocketAssumption DEF IInv, Read, HandlerStep, TypeOK, Requested, CommittedOnce,
     Conn, Call
<1>4. StartsOne'
  BY SocketAssumption DEF IInv, Read, HandlerStep, TypeOK, StartsOne, Daemons, Call
<1>5. Untroubled'
  BY SocketAssumption DEF IInv, Read, HandlerStep, TypeOK, FileLeadsToListener,
     StartsOne, Untroubled, AutostartWorks, Requested, Stopping, Accepting, Running,
     Reachable, Daemons, Conn, Call
<1> QED
  BY <1>1, <1>2, <1>3, <1>4, <1>5 DEF IInv

LEMMA ReadTooLargeKeeps ==
  ASSUME IInv, NEW c \in Clients, ReadTooLarge(c), UNCHANGED call
  PROVE  IInv'
<1>1. TypeOK'
  <2>1. Answering(conn[c], "error") \in Conn
    BY ConnTypes DEF IInv, TypeOK, Answers
  <2>2. HandlerStep(c, Answering(conn[c], "error")) /\ commits' \in [Clients -> Nat]
    BY DEF IInv, TypeOK, ReadTooLarge
  <2> QED
    BY <2>1, <2>2, HandlerTypes DEF IInv
<1>2. FileLeadsToListener'
  BY SocketAssumption DEF IInv, ReadTooLarge, HandlerStep, Answering, NoConn, ConnAt,
     TypeOK, FileLeadsToListener, Accepting, Running, Daemons
<1>3. (Requested /\ CommittedOnce)'
  BY SocketAssumption DEF IInv, ReadTooLarge, HandlerStep, Answering, NoConn, ConnAt,
     TypeOK, Requested, CommittedOnce, Conn, Call
<1>4. StartsOne'
  BY SocketAssumption DEF IInv, ReadTooLarge, HandlerStep, Answering, NoConn, ConnAt,
     TypeOK, StartsOne, Daemons, Call
<1>5. Untroubled'
  BY SocketAssumption DEF IInv, ReadTooLarge, HandlerStep, Answering, NoConn, ConnAt,
     TypeOK, FileLeadsToListener, StartsOne, Untroubled, AutostartWorks, Requested,
     Stopping, Accepting, Running, Reachable, Daemons, Conn, Call
<1> QED
  BY <1>1, <1>2, <1>3, <1>4, <1>5 DEF IInv

LEMMA ReadCancelledKeeps ==
  ASSUME IInv, NEW c \in Clients, ReadCancelled(c), UNCHANGED call
  PROVE  IInv'
<1>1. TypeOK'
  <2>1. Answering(conn[c], "error") \in Conn
    BY ConnTypes DEF IInv, TypeOK, Answers
  <2>2. HandlerStep(c, Answering(conn[c], "error")) /\ commits' \in [Clients -> Nat]
    BY DEF IInv, TypeOK, ReadCancelled
  <2> QED
    BY <2>1, <2>2, HandlerTypes DEF IInv
<1>2. FileLeadsToListener'
  BY SocketAssumption DEF IInv, ReadCancelled, HandlerStep, Answering, NoConn, ConnAt,
     TypeOK, FileLeadsToListener, Accepting, Running, Daemons
<1>3. (Requested /\ CommittedOnce)'
  BY SocketAssumption DEF IInv, ReadCancelled, HandlerStep, Answering, NoConn, ConnAt,
     TypeOK, Requested, CommittedOnce, Conn, Call
<1>4. StartsOne'
  BY SocketAssumption DEF IInv, ReadCancelled, HandlerStep, Answering, NoConn, ConnAt,
     TypeOK, StartsOne, Daemons, Call
<1>5. Untroubled'
  BY SocketAssumption DEF IInv, ReadCancelled, HandlerStep, Answering, NoConn, ConnAt,
     TypeOK, FileLeadsToListener, StartsOne, Untroubled, AutostartWorks, Requested,
     Stopping, Accepting, Running, Reachable, Daemons, Conn, Call
<1> QED
  BY <1>1, <1>2, <1>3, <1>4, <1>5 DEF IInv

LEMMA ReadEndsKeeps ==
  ASSUME IInv, NEW c \in Clients, ReadEnds(c), UNCHANGED call
  PROVE  IInv'
<1>1. TypeOK'
  <2>1. NoConn \in Conn
    BY ConnTypes DEF IInv, TypeOK
  <2>2. HandlerStep(c, NoConn) /\ commits' \in [Clients -> Nat]
    BY DEF IInv, TypeOK, ReadEnds
  <2> QED
    BY <2>1, <2>2, HandlerTypes DEF IInv
<1>2. FileLeadsToListener'
  BY SocketAssumption DEF IInv, ReadEnds, HandlerStep, NoConn, ConnAt, TypeOK,
     FileLeadsToListener, Accepting, Running, Daemons
<1>3. (Requested /\ CommittedOnce)'
  BY SocketAssumption DEF IInv, ReadEnds, HandlerStep, NoConn, ConnAt, TypeOK,
     Requested, CommittedOnce, Conn, Call
<1>4. StartsOne'
  BY SocketAssumption DEF IInv, ReadEnds, HandlerStep, NoConn, ConnAt, TypeOK,
     StartsOne, Daemons, Call
<1>5. Untroubled'
  BY SocketAssumption DEF IInv, ReadEnds, HandlerStep, NoConn, ConnAt, TypeOK,
     FileLeadsToListener, StartsOne, Untroubled, AutostartWorks, Requested, Stopping,
     Accepting, Running, Reachable, Daemons, Conn, Call
<1> QED
  BY <1>1, <1>2, <1>3, <1>4, <1>5 DEF IInv

LEMMA AnswerSentKeeps ==
  ASSUME IInv, NEW c \in Clients, AnswerSent(c), UNCHANGED call
  PROVE  IInv'
<1>1. TypeOK'
  <2>1. Ended(conn[c], "answered") \in Conn
    BY ConnTypes DEF IInv, TypeOK
  <2>2. HandlerStep(c, Ended(conn[c], "answered")) /\ commits' \in [Clients -> Nat]
    BY DEF IInv, TypeOK, AnswerSent
  <2> QED
    BY <2>1, <2>2, HandlerTypes DEF IInv
<1>2. FileLeadsToListener'
  BY SocketAssumption DEF IInv, AnswerSent, HandlerStep, Ended, NoConn, ConnAt, TypeOK,
     FileLeadsToListener, Accepting, Running, Daemons
<1>3. (Requested /\ CommittedOnce)'
  BY SocketAssumption DEF IInv, AnswerSent, HandlerStep, Ended, NoConn, ConnAt, TypeOK,
     Requested, CommittedOnce, Conn, Call
<1>4. StartsOne'
  BY SocketAssumption DEF IInv, AnswerSent, HandlerStep, Ended, NoConn, ConnAt, TypeOK,
     StartsOne, Daemons, Call
<1>5. Untroubled'
  BY SocketAssumption DEF IInv, AnswerSent, HandlerStep, Ended, NoConn, ConnAt, TypeOK,
     FileLeadsToListener, StartsOne, Untroubled, AutostartWorks, Requested, Stopping,
     Accepting, Running, Reachable, Daemons, Conn, Call
<1> QED
  BY <1>1, <1>2, <1>3, <1>4, <1>5 DEF IInv

LEMMA AnswerReadKeeps ==
  ASSUME IInv, NEW c \in Clients, AnswerRead(c), UNCHANGED call
  PROVE  IInv'
<1>1. TypeOK'
  <2>1. Ended(conn[c], "answered") \in Conn
    BY ConnTypes DEF IInv, TypeOK
  <2>2. HandlerStep(c, Ended(conn[c], "answered")) /\ commits' \in [Clients -> Nat]
    BY DEF IInv, TypeOK, AnswerRead
  <2> QED
    BY <2>1, <2>2, HandlerTypes DEF IInv
<1>2. FileLeadsToListener'
  BY SocketAssumption DEF IInv, AnswerRead, HandlerStep, Ended, NoConn, ConnAt, TypeOK,
     FileLeadsToListener, Accepting, Running, Daemons
<1>3. (Requested /\ CommittedOnce)'
  BY SocketAssumption DEF IInv, AnswerRead, HandlerStep, Ended, NoConn, ConnAt, TypeOK,
     Requested, CommittedOnce, Conn, Call
<1>4. StartsOne'
  BY SocketAssumption DEF IInv, AnswerRead, HandlerStep, Ended, NoConn, ConnAt, TypeOK,
     StartsOne, Daemons, Call
<1>5. Untroubled'
  BY SocketAssumption DEF IInv, AnswerRead, HandlerStep, Ended, NoConn, ConnAt, TypeOK,
     FileLeadsToListener, StartsOne, Untroubled, AutostartWorks, Requested, Stopping,
     Accepting, Running, Reachable, Daemons, Conn, Call
<1> QED
  BY <1>1, <1>2, <1>3, <1>4, <1>5 DEF IInv

LEMMA AnswerLostKeeps ==
  ASSUME IInv, NEW c \in Clients, AnswerLost(c), UNCHANGED call
  PROVE  IInv'
<1>1. TypeOK'
  <2>1. NoConn \in Conn
    BY ConnTypes DEF IInv, TypeOK
  <2>2. HandlerStep(c, NoConn) /\ commits' \in [Clients -> Nat]
    BY DEF IInv, TypeOK, AnswerLost
  <2> QED
    BY <2>1, <2>2, HandlerTypes DEF IInv
<1>2. FileLeadsToListener'
  BY SocketAssumption DEF IInv, AnswerLost, HandlerStep, NoConn, ConnAt, TypeOK,
     FileLeadsToListener, Accepting, Running, Daemons
<1>3. (Requested /\ CommittedOnce)'
  BY SocketAssumption DEF IInv, AnswerLost, HandlerStep, NoConn, ConnAt, TypeOK,
     Requested, CommittedOnce, Conn, Call
<1>4. StartsOne'
  BY SocketAssumption DEF IInv, AnswerLost, HandlerStep, NoConn, ConnAt, TypeOK,
     StartsOne, Daemons, Call
<1>5. Untroubled'
  BY SocketAssumption DEF IInv, AnswerLost, HandlerStep, NoConn, ConnAt, TypeOK,
     FileLeadsToListener, StartsOne, Untroubled, AutostartWorks, Requested, Stopping,
     Accepting, Running, Reachable, Daemons, Conn, Call
<1> QED
  BY <1>1, <1>2, <1>3, <1>4, <1>5 DEF IInv

LEMMA CommitKeeps ==
  ASSUME IInv, NEW c \in Clients, Commit(c), UNCHANGED call
  PROVE  IInv'
<1>0. PICK answer \in {"ok", "large", "error"} : HandlerStep(c, Answering(conn[c], answer))
  BY DEF Commit
<1>1. TypeOK'
  <2>1. Answering(conn[c], answer) \in Conn
    BY ConnTypes DEF IInv, TypeOK, Answers
  <2>2. commits' \in [Clients -> Nat]
    BY DEF IInv, TypeOK, Commit
  <2> QED
    BY <1>0, <2>1, <2>2, HandlerTypes DEF IInv
<1>2. FileLeadsToListener'
  BY SocketAssumption DEF IInv, Commit, HandlerStep, TypeOK, FileLeadsToListener,
     Accepting, Running, Daemons
<1>3. (Requested /\ CommittedOnce)'
  <2>1. conn' = [conn EXCEPT ![c] = Answering(conn[c], answer)]
    BY <1>0 DEF HandlerStep
  <2>2. /\ Answering(conn[c], answer).pc \in {"answering", "none"}
        /\ Answering(conn[c], answer).pc = "answering" =>
             Answering(conn[c], answer).answer = answer
    BY DEF IInv, TypeOK, Conn, Answering, NoConn, ConnAt
  <2>3. conn[c].pc = "serving" /\ commits[c] = 0 /\ commits' = [commits EXCEPT ![c] = @ + 1]
    BY DEF IInv, Requested, Commit
  <2>4. /\ call[c].pc \notin {"connect", "spawn", "ping"}
        /\ call[c].end \notin {"ok", "unavailable", "noExecutable", "notStarted"}
    BY <2>3 DEF IInv, Requested, CommittedOnce
  <2>5. Requested'
    BY <2>1, <2>2, <2>3, <2>4 DEF IInv, TypeOK, Requested
  <2>6. CommittedOnce'
    BY <2>3, <2>4 DEF IInv, TypeOK, CommittedOnce
  <2> QED
    BY <2>5, <2>6
<1>4. StartsOne'
  BY SocketAssumption DEF IInv, Commit, HandlerStep, TypeOK, StartsOne, Daemons, Call
<1>5. Untroubled'
  BY <1>0 DEF IInv, HandlerStep, Answering, NoConn, ConnAt, TypeOK, FileLeadsToListener,
     StartsOne, Untroubled, AutostartWorks, Requested, Stopping, Accepting, Running,
     Reachable, Daemons, Conn, Call
<1> QED
  BY <1>1, <1>2, <1>3, <1>4, <1>5 DEF IInv

LEMMA RejectKeeps ==
  ASSUME IInv, NEW c \in Clients, Reject(c), UNCHANGED call
  PROVE  IInv'
<1>0. PICK answer \in {"error", "enoent"} : HandlerStep(c, Answering(conn[c], answer))
  BY DEF Reject
<1>1. TypeOK'
  <2>1. Answering(conn[c], answer) \in Conn
    BY ConnTypes DEF IInv, TypeOK, Answers
  <2>2. commits' \in [Clients -> Nat]
    BY DEF IInv, TypeOK, Reject
  <2> QED
    BY <1>0, <2>1, <2>2, HandlerTypes DEF IInv
<1>2. FileLeadsToListener'
  BY SocketAssumption DEF IInv, Reject, HandlerStep, TypeOK, FileLeadsToListener,
     Accepting, Running, Daemons
<1>3. (Requested /\ CommittedOnce)'
  <2>1. conn' = [conn EXCEPT ![c] = Answering(conn[c], answer)]
    BY <1>0 DEF HandlerStep
  <2>2. /\ Answering(conn[c], answer).pc \in {"answering", "none"}
        /\ Answering(conn[c], answer).pc = "answering" =>
             Answering(conn[c], answer).answer = answer
    BY DEF IInv, TypeOK, Conn, Answering, NoConn, ConnAt
  <2>3. conn[c].pc = "serving" /\ commits[c] = 0 /\ UNCHANGED commits
    BY DEF IInv, Requested, Reject
  <2>4. /\ call[c].pc \notin {"connect", "spawn", "ping"}
        /\ call[c].end \notin {"ok", "unavailable", "noExecutable", "notStarted"}
    BY <2>3 DEF IInv, Requested, CommittedOnce
  <2>5. Requested'
    BY <2>1, <2>2, <2>3, <2>4 DEF IInv, TypeOK, Requested
  <2>6. CommittedOnce'
    BY <2>3, <2>4 DEF IInv, TypeOK, CommittedOnce
  <2> QED
    BY <2>5, <2>6
<1>4. StartsOne'
  BY SocketAssumption DEF IInv, Reject, HandlerStep, TypeOK, StartsOne, Daemons, Call
<1>5. Untroubled'
  BY <1>0 DEF IInv, HandlerStep, Answering, NoConn, ConnAt, TypeOK, FileLeadsToListener,
     StartsOne, Untroubled, AutostartWorks, Requested, Stopping, Accepting, Running,
     Reachable, Daemons, Conn, Call
<1> QED
  BY <1>1, <1>2, <1>3, <1>4, <1>5 DEF IInv

LEMMA ConnectKeeps ==
  ASSUME IInv, NEW c \in Clients, Connect(c)
  PROVE  IInv'
<1>1. TypeOK'
  BY SocketAssumption DEF IInv, Connect, At, CallGoes, ConnAt, TypeOK, Conn, Call,
     Stages, Answers, Ends, Daemons
<1>2. FileLeadsToListener'
  BY SocketAssumption DEF IInv, Connect, At, CallGoes, ConnAt, TypeOK,
     FileLeadsToListener, Accepting, Running, Daemons
<1>3. (Requested /\ CommittedOnce)'
  BY SocketAssumption DEF IInv, Connect, At, CallGoes, ConnAt, TypeOK, Requested,
     CommittedOnce, Conn, Call
<1>4. StartsOne'
  BY SocketAssumption DEF IInv, Connect, At, CallGoes, ConnAt, TypeOK, StartsOne,
     Daemons, Call
<1>5. Untroubled'
  BY SocketAssumption DEF IInv, Connect, At, CallGoes, ConnAt, TypeOK,
     FileLeadsToListener, StartsOne, Untroubled, AutostartWorks, Requested, Stopping,
     Accepting, Running, Reachable, Daemons, Conn, Call
<1> QED
  BY <1>1, <1>2, <1>3, <1>4, <1>5 DEF IInv

LEMMA SpawnKeeps ==
  ASSUME IInv, NEW c \in Clients, Spawn(c)
  PROVE  IInv'
<1>1. TypeOK'
  BY SocketAssumption DEF IInv, Spawn, At, CallGoes, Boot, DaemonGoes, TypeOK, Conn,
     Call, Stages, Answers, Ends, Daemons
<1>2. FileLeadsToListener'
  BY SocketAssumption DEF IInv, Spawn, At, CallGoes, Boot, DaemonGoes, TypeOK,
     FileLeadsToListener, Accepting, Running, Daemons
<1>3. (Requested /\ CommittedOnce)'
  BY SocketAssumption DEF IInv, Spawn, At, CallGoes, Boot, DaemonGoes, TypeOK,
     Requested, CommittedOnce, Conn, Call
<1>4. StartsOne'
  BY SocketAssumption DEF IInv, Spawn, At, CallGoes, Boot, DaemonGoes, TypeOK,
     StartsOne, Daemons, Call
<1>5. Untroubled'
  BY SocketAssumption DEF IInv, Spawn, At, CallGoes, Boot, DaemonGoes, TypeOK,
     FileLeadsToListener, StartsOne, Untroubled, AutostartWorks, Requested, Stopping,
     Accepting, Running, Reachable, Daemons, Conn, Call
<1> QED
  BY <1>1, <1>2, <1>3, <1>4, <1>5 DEF IInv

LEMMA PingAnsweredKeeps ==
  ASSUME IInv, NEW c \in Clients, PingAnswered(c)
  PROVE  IInv'
<1>1. TypeOK'
  BY SocketAssumption DEF IInv, PingAnswered, At, socketVars, TypeOK, Conn, Call,
     Stages, Answers, Ends, Daemons
<1>2. FileLeadsToListener'
  BY SocketAssumption DEF IInv, PingAnswered, At, socketVars, TypeOK,
     FileLeadsToListener, Accepting, Running, Daemons
<1>3. (Requested /\ CommittedOnce)'
  BY SocketAssumption DEF IInv, PingAnswered, At, socketVars, TypeOK, Requested,
     CommittedOnce, Conn, Call
<1>4. StartsOne'
  BY SocketAssumption DEF IInv, PingAnswered, At, socketVars, TypeOK, StartsOne,
     Daemons, Call
<1>5. Untroubled'
  BY SocketAssumption DEF IInv, PingAnswered, At, socketVars, TypeOK,
     FileLeadsToListener, StartsOne, Untroubled, AutostartWorks, Requested, Stopping,
     Accepting, Running, Reachable, Daemons, Conn, Call
<1> QED
  BY <1>1, <1>2, <1>3, <1>4, <1>5 DEF IInv

LEMMA StallKeeps ==
  ASSUME IInv, NEW c \in Clients, Stall(c)
  PROVE  IInv'
<1>1. TypeOK'
  BY SocketAssumption DEF IInv, Stall, At, CallGoes, socketVars, TypeOK, Conn, Call,
     Stages, Answers, Ends, Daemons
<1>2. FileLeadsToListener'
  BY SocketAssumption DEF IInv, Stall, At, CallGoes, socketVars, TypeOK,
     FileLeadsToListener, Accepting, Running, Daemons
<1>3. (Requested /\ CommittedOnce)'
  BY SocketAssumption DEF IInv, Stall, At, CallGoes, socketVars, TypeOK, Requested,
     CommittedOnce, Conn, Call
<1>4. StartsOne'
  BY SocketAssumption DEF IInv, Stall, At, CallGoes, socketVars, TypeOK, StartsOne,
     Daemons, Call
<1>5. Untroubled'
  BY SocketAssumption DEF IInv, Stall, At, CallGoes, socketVars, TypeOK,
     FileLeadsToListener, StartsOne, Untroubled, AutostartWorks, Requested, Stopping,
     Accepting, Running, Reachable, Daemons, Conn, Call
<1> QED
  BY <1>1, <1>2, <1>3, <1>4, <1>5 DEF IInv

LEMMA IsResetKeeps ==
  ASSUME IInv, NEW c \in Clients, IsReset(c)
  PROVE  IInv'
<1>0. /\ call' \in [Clients -> Call]
      /\ call'[c].pc = "done" /\ call'[c].end = "reset" /\ call'[c].attempt = call[c].attempt
      /\ \A e \in Clients \ {c} : call'[e] = call[e]
  <2>1. TypeOK /\ EndsAs(c, "reset") /\ "reset" \in Ends
    BY DEF IInv, IsReset, Ends
  <2> QED
    BY <2>1, EndsAsEffect
<1>1. TypeOK'
  BY <1>0, ConnTypes DEF IInv, IsReset, Closes, TypeOK
<1>2. FileLeadsToListener'
  BY SocketAssumption DEF IInv, IsReset, At, Closes, Closed, NoConn, ConnAt, TypeOK,
     FileLeadsToListener, Accepting, Running, Daemons
<1>3. (Requested /\ CommittedOnce)'
  <2>1. Requested'
    BY <1>0 DEF IInv, IsReset, At, Closes, Closed, NoConn, ConnAt, TypeOK, Requested,
       Conn, Call
  <2>2. CommittedOnce'
    BY <1>0 DEF IInv, IsReset, At, Closes, Closed, NoConn, ConnAt, TypeOK, Requested,
       CommittedOnce, Conn, Call
  <2> QED
    BY <2>1, <2>2
<1>4. StartsOne'
  BY <1>0 DEF IInv, IsReset, Closes, Closed, NoConn, ConnAt, TypeOK, StartsOne, Daemons,
     Call
<1>5. Untroubled'
  BY <1>0 DEF IInv, IsReset, At, Closes, Closed, NoConn, ConnAt, TypeOK, Untroubled,
     AutostartWorks, Stopping, Running, Reachable, Accepting
<1> QED
  BY <1>1, <1>2, <1>3, <1>4, <1>5 DEF IInv

LEMMA GivesUpKeeps ==
  ASSUME IInv, NEW c \in Clients, GivesUp(c)
  PROVE  IInv'
<1>0. /\ call' \in [Clients -> Call]
      /\ call'[c].pc = "done" /\ call'[c].end = "failed" /\ call'[c].attempt = call[c].attempt
      /\ \A e \in Clients \ {c} : call'[e] = call[e]
  <2>1. TypeOK /\ EndsAs(c, "failed") /\ "failed" \in Ends
    BY DEF IInv, GivesUp, Ends
  <2> QED
    BY <2>1, EndsAsEffect
<1>1. TypeOK'
  BY <1>0, ConnTypes DEF IInv, GivesUp, Closes, TypeOK
<1>2. FileLeadsToListener'
  BY SocketAssumption DEF IInv, GivesUp, At, Closes, Closed, NoConn, ConnAt, TypeOK,
     FileLeadsToListener, Accepting, Running, Daemons
<1>3. (Requested /\ CommittedOnce)'
  <2>1. Requested'
    BY <1>0 DEF IInv, GivesUp, At, Closes, Closed, NoConn, ConnAt, TypeOK, Requested,
       Conn, Call
  <2>2. CommittedOnce'
    BY <1>0, SMTT(30) DEF IInv, GivesUp, At, Closes, Closed, NoConn, ConnAt, TypeOK, Requested,
       CommittedOnce, Conn, Call
  <2> QED
    BY <2>1, <2>2
<1>4. StartsOne'
  BY <1>0 DEF IInv, GivesUp, Closes, Closed, NoConn, ConnAt, TypeOK, StartsOne, Daemons,
     Call
<1>5. Untroubled'
  BY <1>0 DEF IInv, GivesUp, At, Closes, Closed, NoConn, ConnAt, TypeOK, Untroubled,
     AutostartWorks, Stopping, Running, Reachable, Accepting
<1> QED
  BY <1>1, <1>2, <1>3, <1>4, <1>5 DEF IInv

LEMMA NoExecutableKeeps ==
  ASSUME IInv, NEW c \in Clients, NoExecutable(c)
  PROVE  IInv'
<1>0. /\ call' \in [Clients -> Call]
      /\ call'[c].pc = "done" /\ call'[c].end = "noExecutable" /\ call'[c].attempt = call[c].attempt
      /\ \A e \in Clients \ {c} : call'[e] = call[e]
  <2>1. TypeOK /\ EndsAs(c, "noExecutable") /\ "noExecutable" \in Ends
    BY DEF IInv, NoExecutable, Ends
  <2> QED
    BY <2>1, EndsAsEffect
<1>1. TypeOK'
  BY <1>0 DEF IInv, NoExecutable, socketVars, TypeOK
<1>2. FileLeadsToListener'
  BY SocketAssumption DEF IInv, NoExecutable, At, socketVars, TypeOK,
     FileLeadsToListener, Accepting, Running, Daemons
<1>3. (Requested /\ CommittedOnce)'
  <2>1. Requested'
    BY <1>0 DEF IInv, NoExecutable, At, socketVars, TypeOK, Requested, Conn, Call
  <2>2. CommittedOnce'
    BY <1>0 DEF IInv, NoExecutable, At, socketVars, TypeOK, Requested, CommittedOnce,
       Conn, Call
  <2> QED
    BY <2>1, <2>2
<1>4. StartsOne'
  BY <1>0 DEF IInv, NoExecutable, socketVars, TypeOK, StartsOne, Daemons, Call
<1>5. Untroubled'
  BY <1>0 DEF IInv, NoExecutable, At, socketVars, TypeOK, Untroubled, AutostartWorks,
     Stopping, Running, Reachable, Accepting
<1> QED
  BY <1>1, <1>2, <1>3, <1>4, <1>5 DEF IInv

LEMMA PingDeadlineKeeps ==
  ASSUME IInv, NEW c \in Clients, PingDeadline(c)
  PROVE  IInv'
<1>0. /\ call' \in [Clients -> Call]
      /\ call'[c].pc = "done" /\ call'[c].end = "notStarted" /\ call'[c].attempt = call[c].attempt
      /\ \A e \in Clients \ {c} : call'[e] = call[e]
  <2>1. TypeOK /\ EndsAs(c, "notStarted") /\ "notStarted" \in Ends
    BY DEF IInv, PingDeadline, Ends
  <2> QED
    BY <2>1, EndsAsEffect
<1>1. TypeOK'
  BY <1>0 DEF IInv, PingDeadline, socketVars, Coming, TypeOK
<1>2. FileLeadsToListener'
  BY SocketAssumption DEF IInv, PingDeadline, At, socketVars, Coming, TypeOK,
     FileLeadsToListener, Accepting, Running, Daemons
<1>3. (Requested /\ CommittedOnce)'
  <2>1. Requested'
    BY <1>0 DEF IInv, PingDeadline, At, socketVars, Coming, TypeOK, Requested, Conn,
       Call
  <2>2. CommittedOnce'
    BY <1>0 DEF IInv, PingDeadline, At, socketVars, Coming, TypeOK, Requested,
       CommittedOnce, Conn, Call
  <2> QED
    BY <2>1, <2>2
<1>4. StartsOne'
  BY <1>0 DEF IInv, PingDeadline, socketVars, Coming, TypeOK, StartsOne, Daemons, Call
<1>5. Untroubled'
  <2>1. call[c].pc = "ping" /\ troubles' = troubles /\ \A d \in Daemons : ~ Coming(d)
    BY DEF PingDeadline, At, socketVars
  <2>2. ASSUME troubles = 0
        PROVE  FALSE
    <3>1. daemon[c] \in Stages /\ daemon[c] # "off" /\ c \in Daemons
      BY <2>1 DEF IInv, TypeOK, StartsOne, Daemons
    <3>2. ~ Stopping(c) /\ ~ Coming(c)
      BY <2>1, <2>2, <3>1 DEF IInv, Untroubled
    <3>3. daemon[c] = "boot" \/ daemon[c] = "gone"
      BY <3>1, <3>2 DEF Stages, Stopping, Coming
    <3>4. lock # NULL
      BY <2>2, <3>1, <3>2, <3>3 DEF IInv, Untroubled, Coming
    <3>5. lock \in Daemons /\ Running(lock) /\ ~ Stopping(lock)
      BY <2>2, <3>4 DEF IInv, TypeOK, Untroubled
    <3>6. Coming(lock)
      BY <3>5 DEF IInv, TypeOK, Stages, Running, Stopping, Coming
    <3> QED
      BY <2>1, <3>5, <3>6
  <2> QED
    BY <2>1, <2>2 DEF Untroubled
<1> QED
  BY <1>1, <1>2, <1>3, <1>4, <1>5 DEF IInv

LEMMA ConnectFailsKeeps ==
  ASSUME IInv, NEW c \in Clients, ConnectFails(c)
  PROVE  IInv'
<1>0. /\ call' \in [Clients -> Call]
      /\ call'[c].attempt = call[c].attempt
      /\ \A e \in Clients \ {c} : call'[e] = call[e]
      /\ \/ call[c].attempt = 1 /\ call'[c].pc = "spawn" /\ call'[c].end = call[c].end
         \/ call[c].attempt = 2 /\ call'[c].pc = "done" /\ call'[c].end = "unavailable"
  <2>1. TypeOK /\ Retries(c, "unavailable") /\ "unavailable" \in Ends
    BY DEF IInv, ConnectFails, Ends
  <2> QED
    BY <2>1, RetriesEffect
<1>1. TypeOK'
  BY <1>0 DEF IInv, ConnectFails, socketVars, TypeOK
<1>2. FileLeadsToListener'
  BY SocketAssumption DEF IInv, ConnectFails, At, socketVars, TypeOK,
     FileLeadsToListener, Accepting, Running, Daemons
<1>3. (Requested /\ CommittedOnce)'
  <2>1. Requested'
    BY <1>0 DEF IInv, ConnectFails, At, socketVars, TypeOK, Requested, Conn, Call
  <2>2. CommittedOnce'
    BY <1>0 DEF IInv, ConnectFails, At, socketVars, TypeOK, Requested, CommittedOnce,
       Conn, Call
  <2> QED
    BY <2>1, <2>2
<1>4. StartsOne'
  BY <1>0 DEF IInv, ConnectFails, At, socketVars, TypeOK, StartsOne, Daemons, Call
<1>5. Untroubled'
  BY <1>0 DEF IInv, ConnectFails, At, socketVars, Untroubled, AutostartWorks, Stopping,
     Running, Reachable, Accepting
<1> QED
  BY <1>1, <1>2, <1>3, <1>4, <1>5 DEF IInv

LEMMA ReceiveKeeps ==
  ASSUME IInv, NEW c \in Clients, Receive(c)
  PROVE  IInv'
<1>0. /\ call' \in [Clients -> Call]
      /\ call'[c].attempt = call[c].attempt
      /\ \A e \in Clients \ {c} : call'[e] = call[e]
      /\ \/ call[c].attempt = 1 /\ call'[c].pc = "spawn" /\ call'[c].end = call[c].end
            /\ conn[c].answer = "enoent"
         \/ call'[c].pc = "done" /\ call'[c].end = "failed"
         \/ call'[c].pc = "done" /\ call'[c].end = "ok" /\ conn[c].answer \in {"ok", "large"}
  <2>1. TypeOK /\ "ok" \in Ends /\ "failed" \in Ends
    BY DEF IInv, Ends
  <2>2. CASE EndsAs(c, "ok") /\ conn[c].answer \in {"ok", "large"}
    BY <2>1, <2>2, EndsAsEffect
  <2>3. CASE Retries(c, "failed") /\ conn[c].answer = "enoent"
    BY <2>1, <2>3, RetriesEffect
  <2>4. CASE EndsAs(c, "failed")
    BY <2>1, <2>4, EndsAsEffect
  <2> QED
    BY <2>2, <2>3, <2>4 DEF Receive, IsUnavailable
<1>c. /\ conn' = [conn EXCEPT ![c] = NoConn]
      /\ conn[c].pc = "answered" /\ call[c].pc = "wait"
      /\ UNCHANGED <<daemon, lock, file, commits, troubles>>
  BY DEF Receive, At, Closes, Closed, IInv, TypeOK
<1>1. TypeOK'
  BY <1>0, <1>c, ConnTypes DEF IInv, TypeOK
<1>2. FileLeadsToListener'
  BY <1>c DEF IInv, FileLeadsToListener, Accepting, Running
<1>3. (Requested /\ CommittedOnce)'
  BY <1>0, <1>c DEF IInv, TypeOK, NoConn, ConnAt, Requested, CommittedOnce
<1>4. StartsOne'
  BY <1>0, <1>c DEF IInv, StartsOne
<1>5. Untroubled'
  BY <1>0, <1>c DEF IInv, TypeOK, NoConn, ConnAt, Untroubled, AutostartWorks, Stopping,
     Running, Reachable, Accepting
<1> QED
  BY <1>1, <1>2, <1>3, <1>4, <1>5 DEF IInv

LEMMA ManagerStartsKeeps ==
  ASSUME IInv, NEW s \in Services, ManagerStarts(s)
  PROVE  IInv'
<1>1. TypeOK'
  BY SocketAssumption DEF IInv, ManagerStarts, Boot, DaemonGoes, TypeOK, Conn, Call,
     Stages, Answers, Ends, Daemons
<1>2. FileLeadsToListener'
  BY SocketAssumption DEF IInv, ManagerStarts, Boot, DaemonGoes, TypeOK,
     FileLeadsToListener, Accepting, Running, Daemons
<1>3. (Requested /\ CommittedOnce)'
  BY SocketAssumption DEF IInv, ManagerStarts, Boot, DaemonGoes, TypeOK, Requested,
     CommittedOnce, Conn, Call
<1>4. StartsOne'
  BY SocketAssumption DEF IInv, ManagerStarts, Boot, DaemonGoes, TypeOK, StartsOne,
     Daemons, Call
<1>5. Untroubled'
  BY SocketAssumption DEF IInv, ManagerStarts, Boot, DaemonGoes, TypeOK,
     FileLeadsToListener, StartsOne, Untroubled, AutostartWorks, Requested, Stopping,
     Accepting, Running, Reachable, Daemons, Conn, Call
<1> QED
  BY <1>1, <1>2, <1>3, <1>4, <1>5 DEF IInv

LEMMA StutterKeeps ==
  ASSUME IInv, UNCHANGED vars
  PROVE  IInv'
<1>1. (TypeOK /\ FileLeadsToListener)'
  BY DEF IInv, vars, socketVars, TypeOK, FileLeadsToListener, Accepting, Running
<1>2. (Requested /\ CommittedOnce /\ StartsOne)'
  BY DEF IInv, vars, socketVars, Requested, CommittedOnce, StartsOne
<1>3. Untroubled'
  BY DEF IInv, vars, socketVars, Untroubled, AutostartWorks, Stopping, Running, Accepting,
     Reachable
<1> QED
  BY <1>1, <1>2, <1>3 DEF IInv

LEMMA StepKeeps ==
  ASSUME IInv, [Next]_vars
  PROVE  IInv'
<1>1. ASSUME NEW s \in Services, ManagerStarts(s)
      PROVE  IInv'
  BY <1>1, ManagerStartsKeeps
<1>2. ASSUME NEW d \in Daemons, DaemonWork(d)
      PROVE  IInv'
  BY <1>2, TakeLockKeeps, RemoveStaleKeeps, BindKeeps, CloseListenerKeeps, RemoveFileKeeps,
     JoinedKeeps, ExitKeeps
  DEF DaemonWork
<1>3. ASSUME NEW d \in Daemons, DaemonTrouble(d)
      PROVE  IInv'
  BY <1>3, SignalKeeps, FailKeeps, CrashKeeps DEF DaemonTrouble
<1>4. ASSUME NEW c \in Clients, ClientWork(c) \/ Stall(c)
      PROVE  IInv'
  BY <1>4, ConnectKeeps, ConnectFailsKeeps, ReceiveKeeps, IsResetKeeps, GivesUpKeeps,
     NoExecutableKeeps, SpawnKeeps, PingAnsweredKeeps, PingDeadlineKeeps, StallKeeps
  DEF ClientWork
<1>5. ASSUME NEW c \in Clients, HandlerWork(c) \/ ClientSends(c) \/ ClientReads(c)
      PROVE  IInv'
  BY <1>5, AcceptKeeps, ReadKeeps, ReadTooLargeKeeps, ReadCancelledKeeps, ReadEndsKeeps,
     CommitKeeps, RejectKeeps, AnswerSentKeeps, AnswerReadKeeps, AnswerLostKeeps
  DEF HandlerWork, ClientSends, ClientReads
<1>6. CASE UNCHANGED vars
  BY <1>6, StutterKeeps
<1> QED
  BY <1>1, <1>2, <1>3, <1>4, <1>5, <1>6 DEF Next

\* The inductive invariant of clients and daemon processes.
THEOREM CallsInductive == Spec => []IInv
<1>1. Init => IInv
  BY InitInv
<1>2. IInv /\ [Next]_vars => IInv'
  BY StepKeeps
<1> QED
  BY <1>1, <1>2, PTL DEF Spec

\* CallTypes: TypeOK of client.ts and socket.rs, for any number of clients and daemons.
THEOREM CallTypes == Spec => []TypeOK
<1>1. IInv => TypeOK
  BY DEF IInv
<1> QED
  BY <1>1, CallsInductive, PTL

(***************************************************************************)
(* OneListener: whatever the order in which daemons start, stop, fail and  *)
(* are killed, the one that listens is the one the socket file leads to.   *)
(* It rests on the lock being held from before the stale file is removed   *)
(* until after the daemon has removed its own.                             *)
(***************************************************************************)
THEOREM OneListener == Spec => []FileLeadsToListener
<1>1. IInv => FileLeadsToListener
  BY DEF IInv
<1> QED
  BY <1>1, CallsInductive, PTL

(***************************************************************************)
(* ExecutedOnce: a call that sends its request twice is executed at most   *)
(* once, because it sends again only what is known to have had no effect.  *)
(***************************************************************************)
THEOREM ExecutedOnce == Spec => []CommittedOnce
<1>1. IInv => CommittedOnce
  BY DEF IInv
<1> QED
  BY <1>1, CallsInductive, PTL

(***************************************************************************)
(* AutostartSound: as long as no daemon is told to stop, fails or is       *)
(* killed, every call that starts a daemon reaches one, however many are   *)
(* started at the same time.                                               *)
(***************************************************************************)
THEOREM AutostartSound == Spec => []AutostartWorks
<1>1. troubles = 0 /\ Untroubled => AutostartWorks
  BY DEF Untroubled
<1>2. IInv => AutostartWorks
  BY <1>1 DEF IInv, AutostartWorks
<1> QED
  BY <1>2, CallsInductive, PTL
=============================================================================
