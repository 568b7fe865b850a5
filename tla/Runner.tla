------------------------------- MODULE Runner -------------------------------
(***************************************************************************)
(* One invocation of the action runner (rust/src/runner.rs): the daemon    *)
(* spawns a process as the leader of a new session, writes the request to  *)
(* its stdin, waits for it under a time limit, kills its group, and reads  *)
(* its stdout and stderr to the end.                                       *)
(*                                                                         *)
(* The runner and what it starts are external and may do anything a        *)
(* process can: read its stdin or not, write, fork, close a pipe, leave    *)
(* the group, exit or hang.  The size of a text is counted in units; a     *)
(* timer fires at any time after it was set.                               *)
(***************************************************************************)
EXTENDS Integers, FiniteSets

CONSTANTS
  Leader,         \* the process the daemon spawns
  Descendants,    \* bound: the processes that may be forked from it
  RequestSizes,   \* the sizes of request in play
  RequestLimit,   \* the 1_048_576 bytes of a request
  ResponseLimit,  \* the 131_072 bytes of stdout that are kept
  PipeSize,       \* the capacity of a pipe
  MaxOutput       \* bound: how much is ever written to stdout

ASSUME SizesAssumption ==
  /\ RequestSizes \subseteq Nat
  /\ RequestLimit \in Nat
  /\ ResponseLimit \in Nat
  /\ PipeSize \in Nat \ {0}
  /\ MaxOutput \in Nat

ASSUME LeaderAssumption == Leader \notin Descendants

VARIABLES
  host,       \* invoke: its place, and why it returned
  unsent,     \* how much of the request is not written yet
  pipe,       \* how much each pipe holds
  proc,       \* of each process: whether it is there
  group,      \* the processes of the runner's group
  ends,       \* of each pipe: the live processes that have the runner's end open
  drain,      \* the tasks that read stdout and stderr
  heard,      \* how much of stdout was read
  said,       \* what stdout amounts to
  exit,       \* the exit status of the leader
  cancelled   \* the cancellation token

vars == <<host, unsent, pipe, proc, group, ends, drain, heard, said, exit, cancelled>>

Procs == {Leader} \cup Descendants
Pipes == {"in", "out", "err"}

Places  == {"spawn", "write", "select", "reap", "joinOut", "joinErr", "returned", "dropped"}
Reasons == {"none", "refused", "tooLarge", "brokenPipe", "timedOut", "cancelled",
            "oversize", "failed", "result"}

HostGoes(pc)    == host' = [host EXCEPT !.pc = pc]
Returns(why)    == host' = [pc |-> "returned", why |-> why]
Alive(p)        == proc[p] = "alive"

Init ==
  /\ host = [pc |-> "spawn", why |-> "none"]
  /\ unsent = 0
  /\ pipe = [name \in Pipes |-> 0]
  /\ proc = [p \in Procs |-> "unborn"]
  /\ group = {}
  /\ ends = [name \in Pipes |-> {}]
  /\ drain = [name \in {"out", "err"} |-> "off"]
  /\ heard = 0
  /\ said = "nothing"
  /\ exit = "none"
  /\ cancelled = FALSE

-----------------------------------------------------------------------------
(* What SIGKILL does to the processes of a set. *)

Dead(p) == IF p = Leader THEN "zombie" ELSE "dead"

Slain(S) == [p \in Procs |-> IF p \in S /\ Alive(p) THEN Dead(p) ELSE proc[p]]

\* A process that dies closes its pipes.
Shut(S) == [name \in Pipes |-> ends[name] \ S]

Kill(S) ==
  /\ proc' = Slain(S)
  /\ ends' = Shut(S)
  /\ exit' = IF Leader \in S /\ Alive(Leader) THEN "failure" ELSE exit

\* Mutated form: only the leader is killed.
KillLeader == Kill({Leader})

\* kill(-pid, SIGKILL)
KillGroup == Kill(group)

-----------------------------------------------------------------------------
(* invoke *)

\* No such directory (runner_cwd), or no such executable.
HostRefused ==
  /\ host.pc = "spawn"
  /\ Returns("refused")
  /\ UNCHANGED <<unsent, pipe, proc, group, ends, drain, heard, said, exit, cancelled>>

\* setsid before exec makes the child the leader of a group of its own.
HostSpawn ==
  /\ host.pc = "spawn"
  /\ HostGoes("write")
  /\ proc' = [proc EXCEPT ![Leader] = "alive"]
  /\ group' = {Leader}
  /\ ends' = [name \in Pipes |-> {Leader}]
  /\ unsent' \in RequestSizes
  /\ UNCHANGED <<pipe, drain, heard, said, exit, cancelled>>

\* The size of the request is looked at when the child is running already.
HostTooLarge ==
  /\ host.pc = "write"
  /\ unsent > RequestLimit
  /\ KillGroup
  /\ Returns("tooLarge")
  /\ UNCHANGED <<unsent, pipe, group, drain, heard, said, cancelled>>

\* write_all, one unit at a time, while somebody can still read it.
HostWrite ==
  /\ host.pc = "write"
  /\ unsent \in 1 .. RequestLimit
  /\ ends["in"] # {}
  /\ pipe["in"] < PipeSize
  /\ unsent' = unsent - 1
  /\ pipe' = [pipe EXCEPT !["in"] = @ + 1]
  /\ UNCHANGED <<host, proc, group, ends, drain, heard, said, exit, cancelled>>

\* EPIPE
HostBrokenPipe ==
  /\ host.pc = "write"
  /\ unsent \in 1 .. RequestLimit
  /\ ends["in"] = {}
  /\ KillGroup
  /\ Returns("brokenPipe")
  /\ UNCHANGED <<unsent, pipe, group, drain, heard, said, cancelled>>

\* stdin is dropped, the two drains are spawned, select! starts its timer.
HostWritten ==
  /\ host.pc = "write"
  /\ unsent = 0
  /\ HostGoes("select")
  /\ drain' = [name \in {"out", "err"} |-> "on"]
  /\ UNCHANGED <<unsent, pipe, proc, group, ends, heard, said, exit, cancelled>>

\* Mutated form: the group is not killed when the leader has exited by itself.
HostReapsOnly ==
  /\ host.pc = "select"
  /\ proc[Leader] = "zombie"
  /\ proc' = [proc EXCEPT ![Leader] = "dead"]
  /\ HostGoes("joinOut")
  /\ UNCHANGED <<unsent, pipe, group, ends, drain, heard, said, exit, cancelled>>

\* child.wait() in select!, then kill_group for what the leader left behind.
HostReaps ==
  /\ host.pc = "select"
  /\ proc[Leader] = "zombie"
  /\ proc' = [Slain(group) EXCEPT ![Leader] = "dead"]
  /\ ends' = Shut(group)
  /\ HostGoes("joinOut")
  /\ UNCHANGED <<unsent, pipe, group, drain, heard, said, exit, cancelled>>

\* The other branches of select!, and the wait after the kill.
HostTimesOut ==
  /\ host.pc = "select"
  /\ KillGroup
  /\ host' = [pc |-> "reap", why |-> "timedOut"]
  /\ UNCHANGED <<unsent, pipe, group, drain, heard, said, cancelled>>

HostCancelled ==
  /\ host.pc = "select"
  /\ cancelled
  /\ KillGroup
  /\ host' = [pc |-> "reap", why |-> "cancelled"]
  /\ UNCHANGED <<unsent, pipe, group, drain, heard, said, cancelled>>

HostWaits ==
  /\ host.pc = "reap"
  /\ proc[Leader] = "zombie"
  /\ proc' = [proc EXCEPT ![Leader] = "dead"]
  /\ HostGoes("returned")
  /\ UNCHANGED <<unsent, pipe, group, ends, drain, heard, said, exit, cancelled>>

\* Mutated form: what was read so far is taken for the whole.
HostJoinsOutEarly ==
  /\ host.pc = "joinOut"
  /\ HostGoes("joinErr")
  /\ UNCHANGED <<unsent, pipe, proc, group, ends, drain, heard, said, exit, cancelled>>

\* out_task.await, then err_task.await
HostJoinsOut ==
  /\ host.pc = "joinOut"
  /\ drain["out"] = "eof"
  /\ HostGoes("joinErr")
  /\ UNCHANGED <<unsent, pipe, proc, group, ends, drain, heard, said, exit, cancelled>>

\* Mutated form: >= for > in drain_bounded.
VerdictOffByOne ==
  IF heard >= ResponseLimit THEN "oversize"
  ELSE IF said = "ok" /\ exit = "success" THEN "result" ELSE "failed"

\* The checks on the answer: size, JSON and version, ok, exit status, result.
Verdict ==
  IF heard > ResponseLimit THEN "oversize"
  ELSE IF said = "ok" /\ exit = "success" THEN "result" ELSE "failed"

HostJoinsErr ==
  /\ host.pc = "joinErr"
  /\ drain["err"] = "eof"
  /\ Returns(Verdict)
  /\ UNCHANGED <<unsent, pipe, proc, group, ends, drain, heard, said, exit, cancelled>>

\* The future is dropped with its handler or task: kill_on_drop reaches the leader only.
HostDropped ==
  /\ host.pc \notin {"spawn", "returned", "dropped"}
  /\ Kill({Leader})
  /\ HostGoes("dropped")
  /\ UNCHANGED <<unsent, pipe, group, drain, heard, said, cancelled>>

\* Mutated form: the length of the buffer is taken for the length of the read.
DrainReadsBuffer(name) ==
  /\ drain[name] = "on"
  /\ pipe[name] > 0
  /\ pipe' = [pipe EXCEPT ![name] = @ - PipeSize]
  /\ heard' = IF name = "out" THEN heard + PipeSize ELSE heard
  /\ UNCHANGED <<host, unsent, proc, group, ends, drain, said, exit, cancelled>>

\* drain_bounded: everything is read, ResponseLimit of it is kept.
DrainReads(name) ==
  /\ drain[name] = "on"
  /\ pipe[name] > 0
  /\ \E n \in 1 .. pipe[name] :
       /\ pipe' = [pipe EXCEPT ![name] = @ - n]
       /\ heard' = IF name = "out" THEN heard + n ELSE heard
  /\ UNCHANGED <<host, unsent, proc, group, ends, drain, said, exit, cancelled>>

DrainEof(name) ==
  /\ drain[name] = "on"
  /\ pipe[name] = 0
  /\ ends[name] = {}
  /\ drain' = [drain EXCEPT ![name] = "eof"]
  /\ UNCHANGED <<host, unsent, pipe, proc, group, ends, heard, said, exit, cancelled>>

\* The daemon is shutting down.
Cancel ==
  /\ ~ cancelled
  /\ cancelled' = TRUE
  /\ UNCHANGED <<host, unsent, pipe, proc, group, ends, drain, heard, said, exit>>

-----------------------------------------------------------------------------
(* The runner's processes. *)

Fork(p, q) ==
  /\ Alive(p)
  /\ proc[q] = "unborn"
  /\ proc' = [proc EXCEPT ![q] = "alive"]
  /\ group' = IF p \in group THEN group \cup {q} ELSE group
  /\ ends' = [name \in Pipes |-> IF p \in ends[name] THEN ends[name] \cup {q} ELSE ends[name]]
  /\ UNCHANGED <<host, unsent, pipe, drain, heard, said, exit, cancelled>>

\* setsid or setpgid, which the leader of a session cannot do.
LeavesGroup(p) ==
  /\ Alive(p)
  /\ p \in group \ {Leader}
  /\ group' = group \ {p}
  /\ UNCHANGED <<host, unsent, pipe, proc, ends, drain, heard, said, exit, cancelled>>

Closes(p, name) ==
  /\ p \in ends[name]
  /\ ends' = [ends EXCEPT ![name] = @ \ {p}]
  /\ UNCHANGED <<host, unsent, pipe, proc, group, drain, heard, said, exit, cancelled>>

ReadsStdin(p) ==
  /\ p \in ends["in"]
  /\ pipe["in"] > 0
  /\ pipe' = [pipe EXCEPT !["in"] = @ - 1]
  /\ UNCHANGED <<host, unsent, proc, group, ends, drain, heard, said, exit, cancelled>>

\* A unit of stdout ends the one answer, is part of it, or spoils it.
Says(what) ==
  \/ said \in {"nothing", "partial"} /\ what \in {"partial", "ok", "error", "noise"}
  \/ said \notin {"nothing", "partial"} /\ what = "noise"

WritesOut(p) ==
  /\ p \in ends["out"]
  /\ pipe["out"] < PipeSize
  /\ heard + pipe["out"] < MaxOutput
  /\ pipe' = [pipe EXCEPT !["out"] = @ + 1]
  /\ said' \in {"partial", "ok", "error", "noise"}
  /\ Says(said')
  /\ UNCHANGED <<host, unsent, proc, group, ends, drain, heard, exit, cancelled>>

WritesErr(p) ==
  /\ p \in ends["err"]
  /\ pipe["err"] < PipeSize
  /\ pipe' = [pipe EXCEPT !["err"] = @ + 1]
  /\ UNCHANGED <<host, unsent, proc, group, ends, drain, heard, said, exit, cancelled>>

\* Returns, crashes, or is killed by somebody else; the leader stays as a zombie.
Exits(p) ==
  /\ Alive(p)
  /\ proc' = [proc EXCEPT ![p] = Dead(p)]
  /\ exit' \in IF p = Leader THEN {"success", "failure"} ELSE {exit}
  /\ ends' = Shut({p})
  /\ UNCHANGED <<host, unsent, pipe, group, drain, heard, said, cancelled>>

-----------------------------------------------------------------------------

HostWork ==
  \/ HostRefused
  \/ HostSpawn
  \/ HostTooLarge
  \/ HostWrite
  \/ HostBrokenPipe
  \/ HostWritten
  \/ HostReaps
  \/ HostTimesOut
  \/ HostCancelled
  \/ HostWaits
  \/ HostJoinsOut
  \/ HostJoinsErr

DrainWork(name) == DrainReads(name) \/ DrainEof(name)

ProcWork(p) ==
  \/ \E q \in Descendants : Fork(p, q)
  \/ LeavesGroup(p)
  \/ \E name \in Pipes : Closes(p, name)
  \/ ReadsStdin(p)
  \/ WritesOut(p)
  \/ WritesErr(p)
  \/ Exits(p)

Next ==
  \/ HostWork
  \/ HostDropped
  \/ Cancel
  \/ \E name \in {"out", "err"} : DrainWork(name)
  \/ \E p \in Procs : ProcWork(p)

Spec == Init /\ [][Next]_vars

(***************************************************************************)
(* The runtime polls the invocation and its two drains, and the timer of   *)
(* select! fires.  Nothing is assumed of the runner.                       *)
(***************************************************************************)
Fairness ==
  /\ WF_vars(HostWork)
  /\ \A name \in {"out", "err"} : WF_vars(DrainWork(name))

FairSpec == Spec /\ Fairness

-----------------------------------------------------------------------------
(* Properties. *)

\* TypeOK: the type invariant of an invocation.
TypeOK ==
  /\ host \in [pc : Places, why : Reasons]
  /\ unsent \in Nat
  /\ pipe \in [Pipes -> 0 .. PipeSize]
  /\ proc \in [Procs -> {"unborn", "alive", "zombie", "dead"}]
  /\ group \subseteq Procs
  /\ ends \in [Pipes -> SUBSET Procs]
  /\ drain \in [{"out", "err"} -> {"off", "on", "eof"}]
  /\ heard \in Nat
  /\ said \in {"nothing", "partial", "ok", "error", "noise"}
  /\ exit \in {"none", "success", "failure"}
  /\ cancelled \in BOOLEAN

(***************************************************************************)
(* GroupGone: once invoke has returned, whatever the reason, no process of *)
(* the runner's group is alive, also none forked while it was being killed *)
(* or left behind by a leader that exited; a dropped invocation leaves at  *)
(* least no leader.  (runner.rs invoke and kill_group; docs/ipc-v1.md:41.) *)
(***************************************************************************)
GroupGone ==
  /\ host.pc = "returned" => \A p \in group : ~ Alive(p)
  /\ host.pc = "dropped" => ~ Alive(Leader)

(***************************************************************************)
(* AnswerIsWhole: an answer is taken only when it is all that any process  *)
(* ever wrote to stdout, it is within the limit, and the leader exited     *)
(* with success by itself; and an answer that is all of this is not        *)
(* refused.  (runner.rs invoke and drain_bounded.)                         *)
(***************************************************************************)
AnswerIsWhole ==
  host.pc = "returned" /\ host.why \in {"result", "failed", "oversize"} =>
    /\ pipe["out"] = 0
    /\ ends["out"] = {}
    /\ (host.why = "result") <=> (said = "ok" /\ exit = "success" /\ heard <= ResponseLimit)

(***************************************************************************)
(* EndsUnlessHeld: an invocation ends, whatever the runner does, except in *)
(* two cases: the request fills the pipe and nobody reads it, or a process *)
(* outside the group keeps a pipe open.  (runner.rs invoke: the time limit *)
(* covers neither write_all nor the drains.)                               *)
(***************************************************************************)
Over         == host.pc \in {"returned", "dropped"}
StdinUnread  == host.pc = "write" /\ pipe["in"] = PipeSize /\ ends["in"] # {}
HeldByAlien  == /\ host.pc \in {"joinOut", "joinErr"}
                /\ (ends["out"] \cup ends["err"]) \ group # {}

EndsUnlessHeld == <>Over \/ <>[]StdinUnread \/ <>[]HeldByAlien

-----------------------------------------------------------------------------
(* What the documents say, and the code does not keep. *)

(***************************************************************************)
(* InvocationEnds: an invocation ends, by its time limit at the latest.    *)
(***************************************************************************)
InvocationEnds == <>Over
=============================================================================
