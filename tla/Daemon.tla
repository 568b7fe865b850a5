------------------------------- MODULE Daemon -------------------------------
(***************************************************************************)
(* The daemon process around the scheduler and the handlers                *)
(* (rust/src/daemon.rs, serve of rust/src/socket.rs): start and recovery,  *)
(* serving, the drain on SIGTERM, the error exit of serve, crashes and     *)
(* restarts, the passing of time, clock steps and store faults.            *)
(*                                                                         *)
(* At most one daemon process exists (SingletonLock), so one copy of the   *)
(* volatile state is enough; a process that is gone leaves the store and   *)
(* the runners that a crash cannot reach.                                  *)
(***************************************************************************)
EXTENDS Service

CONSTANTS
  MaxSignals,   \* bound: how often a daemon is told to stop
  MaxCrashes,   \* bound: how often the process is killed
  MaxFaults,    \* bound: how often the store or accept fails
  MaxClockSets  \* bound: how often the wall clock is set

ASSUME CountsAssumption ==
  MaxSignals \in Nat /\ MaxCrashes \in Nat /\ MaxFaults \in Nat /\ MaxClockSets \in Nat

VARIABLES
  main,   \* daemon::run: its place, or how the last process ended
  count,  \* the signals, crashes, faults and clock steps so far
  tainted \* whether a statement of the store failed under this process

vars == <<schedVars, handler, main, count, tainted>>

Mishaps == {"signal", "crash", "fault", "clock"}

Down == {"off", "exited", "failed", "crashed"}
Up   == main \notin Down

\* One more mishap of a kind.
Happens(kind, max) ==
  /\ count[kind] < max
  /\ count' = [count EXCEPT ![kind] = @ + 1]
  /\ tainted' = (tainted \/ kind = "fault")

Init ==
  /\ SchedulerInit
  /\ ServiceInit
  /\ main = "off"
  /\ count = [m \in Mishaps |-> 0]
  /\ tainted = FALSE

-----------------------------------------------------------------------------
(* The process. *)

\* Its volatile state is gone; a run that still owned a row is lost.
ProcessEnds ==
  /\ permit' = FALSE
  /\ cancelled' = FALSE
  /\ loop' = LoopAt("off")
  /\ task' = [i \in OccIds |->
       IF TaskIs(i, Owning) THEN [task[i] EXCEPT !.pc = "lost"]
       ELSE IF TaskIs(i, {"sent", "last"}) THEN [task[i] EXCEPT !.pc = "done"]
       ELSE task[i]]
  /\ gate' = 0
  /\ pending' = 0
  /\ stop' = "idle"
  /\ drained' = FALSE
  /\ handler' = [h \in Handlers |-> HandlerAt("free")]

\* The store as scheduler.start leaves it.
Recovered == Recalculate(SkipInterrupted(db), JobIds, now)

\* run: lock, open, scheduler.start, which recovers the store and spawns the loop.
Start ==
  /\ ~ Up
  /\ main' = "serving"
  /\ db' = Recovered
  /\ loop' = LoopAt("plan")
  /\ tainted' = FALSE
  /\ UNCHANGED <<now, permit, cancelled, task, gate, pending, stop, drained, procs, handler,
                 count>>

\* A statement of start fails, or a schedule has no next occurrence: run returns.
StartFault ==
  /\ ~ Up
  /\ Happens("fault", MaxFaults)
  /\ main' = "failed"
  /\ \/ db' = db
     \/ \E S \in SUBSET JobIds : db' = Recalculate(SkipInterrupted(db), S, now)
  /\ UNCHANGED <<now, permit, cancelled, loop, task, gate, pending, stop, drained, procs,
                 handler>>

\* SIGTERM or SIGINT: the signal task cancels the token.
Terminate ==
  /\ main = "serving"
  /\ ~ cancelled
  /\ Happens("signal", MaxSignals)
  /\ cancelled' = TRUE
  /\ UNCHANGED <<db, now, permit, loop, task, gate, pending, stop, drained, procs,
                 handler, main>>

\* serve leaves its accept loop and joins its handlers.
ServeBreak ==
  /\ main = "serving"
  /\ cancelled
  /\ main' = "joining"
  /\ UNCHANGED <<schedVars, handler, count, tainted>>

\* Mutated form: serve returns without joining its handlers.
ServeJoinedUnjoined ==
  /\ main = "joining"
  /\ main' = "stopping"
  /\ StopCall
  /\ UNCHANGED <<handler, count, tainted>>

\* Every handler is joined: serve returns and run stops the scheduler.
ServeJoined ==
  /\ main = "joining"
  /\ \A h \in Handlers : handler[h].pc = "free"
  /\ main' = "stopping"
  /\ StopCall
  /\ UNCHANGED <<handler, count, tainted>>

\* accept (or bind) fails: `?` drops the JoinSet, which aborts the handlers.
ServeError ==
  /\ main = "serving"
  /\ Happens("fault", MaxFaults)
  /\ main' = "aborting"
  /\ StopCall
  /\ UNCHANGED handler

HandlerAborted(h) ==
  /\ main = "aborting"
  /\ HandlerDropped(h)
  /\ UNCHANGED <<main, count, tainted>>

Stopping ==
  /\ main \in {"stopping", "aborting"}
  /\ StopJoined \/ StopCheck \/ StopAwaited
  /\ UNCHANGED <<handler, main, count, tainted>>

\* run returns; the runtime drops what still runs, and kill_on_drop its runner.
Exit ==
  /\ stop = "done"
  /\ main' = IF main = "stopping" THEN "exited" ELSE "failed"
  /\ ProcessEnds
  /\ procs' = {i \in procs : TaskIs(i, {"lost"})}
  /\ UNCHANGED <<db, now, count, tainted>>

\* What a method of several statements has committed when the process is killed in it.
HalfDone ==
  (UNION {FinishPrefixes(db, i, task[i].pc) : i \in {k \in OccIds : TaskIs(k, Outcomes)}})
  \cup (IF loop.pc = "skip" THEN FinishPrefixes(db, loop.occ, "skipped") ELSE {})
  \cup (IF loop.pc = "wake" /\ Room(1)
          THEN {Claim(db, j, db.jobs[j].nextAt) :
                  j \in {k \in Nearest(db) : DueAt(k) /\ SlotFree(db, k, db.jobs[k].nextAt)}}
          ELSE {})

\* Killed, or the machine goes down; runners are sessions of their own and may live on.
Crash ==
  /\ Up
  /\ Happens("crash", MaxCrashes)
  /\ main' = "crashed"
  /\ db' \in {db} \cup HalfDone
  /\ ProcessEnds
  /\ procs' \in {procs, {}}
  /\ UNCHANGED now

-----------------------------------------------------------------------------
(* Time.  A timer runs on the monotonic clock. *)

Tick ==
  /\ now < MaxTime
  /\ now' = now + 1
  /\ loop' = [loop EXCEPT !.timer = IF @ > 0 THEN @ - 1 ELSE 0]
  /\ UNCHANGED <<db, permit, cancelled, task, gate, pending, stop, drained, procs,
                 handler, main, count, tainted>>

ClockSet ==
  /\ Happens("clock", MaxClockSets)
  /\ now' \in Times \ {now}
  /\ UNCHANGED <<db, permit, cancelled, loop, task, gate, pending, stop, drained, procs,
                 handler, main>>

-----------------------------------------------------------------------------

LoopWork ==
  /\ \/ LoopPlan
     \/ LoopNotified
     \/ LoopCancelled
     \/ WakeNothingDue
     \/ \E j \in JobIds : WakeConflict(j) \/ WakeClaim(j)
     \/ LoopSkip
  /\ UNCHANGED <<handler, main, count, tainted>>

LoopFires == LoopTimeout /\ UNCHANGED <<handler, main, count, tainted>>

TaskWork(i) ==
  /\ \/ ExecStart(i)
     \/ ExecRefused(i)
     \/ ExecEnd(i)
     \/ ExecFinish(i)
     \/ ExecDone(i)
     \/ ExecNotify(i)
  /\ UNCHANGED <<handler, main, count, tainted>>

RunnerExit(i) == OrphanExit(i) /\ UNCHANGED <<handler, main, count, tainted>>

\* accept; the listener is dropped when serve leaves its loop.
Accepts(h) == main = "serving" /\ HandlerAccept(h) /\ UNCHANGED <<main, count, tainted>>

Requests(h) == HandlerRequest(h) /\ UNCHANGED <<main, count, tainted>>

HandlerProceeds(h) == HandlerWork(h) /\ UNCHANGED <<main, count, tainted>>

\* A handler still reading answers "shutting down" once the token is cancelled.
HandlerRefuses(h) == cancelled /\ HandlerReply(h) /\ UNCHANGED <<main, count, tainted>>

\* A statement of the store fails under an operation.
StoreFault ==
  /\ Happens("fault", MaxFaults)
  /\ \/ /\ \/ LoopPlanFault
           \/ WakeFaultUnclaimed
           \/ LoopSkipFault
           \/ \E j \in JobIds : WakeFault(j)
           \/ \E i \in OccIds : ExecFinishFault(i)
        /\ UNCHANGED handler
     \/ \E h \in Handlers, j \in JobIds :
          \/ HandlerRunNowFault(h, j)
          \/ \E s \in Schedules, enabled \in BOOLEAN : CommitFault(h, j, s, enabled)
  /\ UNCHANGED main

MainWork == ServeBreak \/ ServeJoined \/ Stopping \/ Exit

Next ==
  \/ Start
  \/ StartFault
  \/ Terminate
  \/ MainWork
  \/ ServeError
  \/ Crash
  \/ LoopWork
  \/ LoopFires
  \/ StoreFault
  \/ \E i \in OccIds : TaskWork(i) \/ RunnerExit(i)
  \/ \E h \in Handlers :
       Accepts(h) \/ Requests(h) \/ HandlerProceeds(h) \/ HandlerAborted(h)
  \/ Tick
  \/ ClockSet

Spec == Init /\ [][Next]_vars

(***************************************************************************)
(* The runtime polls every ready task, a runner ends by its time limit at  *)
(* the latest, and select! polls its ready branches in random order, so a  *)
(* timer that has run out is taken however often a notify races it.        *)
(* Nothing is assumed of clients, signals, time or restarts.               *)
(***************************************************************************)
Fairness ==
  /\ WF_vars(LoopWork)
  /\ SF_vars(LoopFires)
  /\ WF_vars(MainWork)
  /\ \A i \in OccIds : WF_vars(TaskWork(i))
  /\ \A h \in Handlers :
       WF_vars(HandlerProceeds(h)) /\ WF_vars(HandlerRefuses(h)) /\ WF_vars(HandlerAborted(h))

FairSpec == Spec /\ Fairness

-----------------------------------------------------------------------------
(* Properties. *)

\* TypeOK: the type invariant of the daemon's whole state.
TypeOK ==
  /\ db \in Store
  /\ now \in Times
  /\ permit \in BOOLEAN
  /\ cancelled \in BOOLEAN
  /\ loop \in Loop
  /\ task \in [OccIds -> Task \cup {NULL}]
  /\ gate \in OccIds \cup {0}
  /\ pending \in Int
  /\ stop \in {"idle", "join", "check", "await", "done"}
  /\ drained \in BOOLEAN
  /\ procs \subseteq OccIds
  /\ handler \in [Handlers -> Handler]
  /\ main \in Down \cup {"serving", "joining", "stopping", "aborting"}
  /\ count \in [Mishaps -> Nat]
  /\ tainted \in BOOLEAN

(***************************************************************************)
(* NoAbandonedClaim: while the daemon is up, a row is "claimed" only when  *)
(* a task, a handler or the loop of this process is still going to finish  *)
(* it, unless a store statement failed under it.  (README "Execution guarantees":   *)
(* claims are always terminalized; scheduler.rs start, wake, run_now.)     *)
(***************************************************************************)
NoAbandonedClaim ==
  Up /\ ~ tainted =>
    \A i \in OccIds : IsClaimed(db, i) => TaskIs(i, Owning)

(***************************************************************************)
(* RunKeepsItsRow: a run that is still owned finds its own row, unchanged  *)
(* and claimed.  The row is gone only if its job was deleted since, or was *)
(* pruned behind HistoryLimit newer claims.  (repository.rs claim, finish, *)
(* delete, skip_interrupted.)                                              *)
(***************************************************************************)
RunKeepsItsRow ==
  \A i \in OccIds : TaskIs(i, Owning) =>
    LET t == task[i] IN
      \/ db.occ[i] = [job |-> t.job, slot |-> t.slot, status |-> "claimed"]
      \/ /\ db.occ[i] = NULL
         /\ \/ ~ HasJob(db, t.job)
            \/ db.jobs[t.job].born # t.born
            \/ db.seq - i >= HistoryLimit

(***************************************************************************)
(* NoDuplicateRun: no scheduled slot of a job is run or skipped twice,     *)
(* across edits, crashes and restarts.  Only a clock set back can bring a  *)
(* slot up again, and then only for a job deleted and added anew or behind *)
(* a pruned row.  (The unique index and the strictly future next_at.)      *)
(***************************************************************************)
NoDuplicateRun ==
  \A a, b \in OccIds :
    ( /\ a < b
      /\ task[a] # NULL
      /\ task[b] # NULL
      /\ task[a].job = task[b].job
      /\ task[a].slot = task[b].slot
      /\ task[a].slot # Manual )
    => /\ count["clock"] > 0
       /\ task[a].born # task[b].born \/ b - a > HistoryLimit

(***************************************************************************)
(* NoCatchUp: when the loop takes a due job, a run is queued only for a    *)
(* slot less than a minute old, and the job's next_at moves past the time  *)
(* of the wake, so a late wake claims one slot and no backlog.             *)
(* (scheduler.rs wake.)                                                    *)
(***************************************************************************)
NoCatchUp ==
  [][ \A j \in JobIds : WakeClaim(j) \/ WakeConflict(j) =>
        /\ db'.jobs[j].nextAt > loop.at
        /\ pending' > pending => loop.at - db.jobs[j].nextAt < MissedAfter ]_vars

(***************************************************************************)
(* ArmedTimer: a loop asleep with no wake-up on its way wakes no later     *)
(* than every scheduled job is due, and within the cap even when the clock *)
(* was set, unless a store statement failed.  (scheduler.rs run_loop and   *)
(* the notify after every mutation in service.rs.)                         *)
(***************************************************************************)
WakeUpComing == permit \/ cancelled \/ \E h \in Handlers : handler[h].pc = "notify"

ArmedTimer ==
  loop.pc = "sleep" /\ ~ WakeUpComing /\ ~ tainted =>
    \A j \in Scheduled(db) :
      /\ loop.timer <= TimerCap
      /\ count["clock"] = 0 => loop.timer = 0 \/ now + loop.timer <= db.jobs[j].nextAt

(***************************************************************************)
(* SerialGate: at most one run of a daemon process is between taking the   *)
(* execution mutex and having its row finished, and no runner of this      *)
(* process is alive outside it.  (scheduler.rs execute.)                   *)
(***************************************************************************)
SerialGate ==
  \A i \in OccIds :
    /\ TaskIs(i, {"running"} \cup Outcomes) <=> gate = i
    /\ i \in procs => gate = i \/ TaskIs(i, {"lost"})

(***************************************************************************)
(* StoppedClean: after the drain on a signal no row is left claimed, no    *)
(* run is lost and no runner is left, unless a store statement failed.     *)
(* (socket.rs serve joins its handlers, scheduler.rs stop.)                *)
(***************************************************************************)
StoppedClean ==
  [][ Exit /\ main = "stopping" =>
        /\ \A i \in OccIds : ~ TaskIs(i, Owning)
        /\ procs' = procs
        /\ ~ tainted => \A i \in OccIds : ~ IsClaimed(db, i) ]_vars

(***************************************************************************)
(* PendingCount: the atomic counter equals the number of enqueued tasks    *)
(* that have not counted down.  (scheduler.rs enqueue.)                    *)
(***************************************************************************)
PendingCount == pending = Cardinality({i \in OccIds : TaskIs(i, Counted)})

(***************************************************************************)
(* DrainIsNotified: a stop that waits and has not been notified yet still  *)
(* has a run to wait for, or the task about to notify it: no wake-up was   *)
(* lost between the read of pending and the wait.  (scheduler.rs stop      *)
(* creates its Notified future before it reads pending.)                   *)
(***************************************************************************)
DrainIsNotified ==
  stop = "await" /\ ~ drained => pending > 0 \/ \E i \in OccIds : TaskIs(i, {"last"})

(***************************************************************************)
(* HistoryBounded: without a crash or a fault, no job has more finished    *)
(* rows than the limit, and a job that is gone has none.                   *)
(* (repository.rs finish and delete.)                                      *)
(***************************************************************************)
HistoryBounded ==
  count["crash"] = 0 /\ count["fault"] = 0 =>
    \A j \in JobIds :
      LET finished == {i \in RowsOf(db, j) : IsTerminal(db, i)} IN
        /\ Cardinality(finished) <= HistoryLimit
        /\ ~ HasJob(db, j) => finished = {}

(***************************************************************************)
(* ClaimsTerminate: a claimed row is finished, or the process dies first.  *)
(* (scheduler.rs.)                                                         *)
(***************************************************************************)
ClaimsTerminate ==
  \A i \in OccIds :
    Up /\ IsClaimed(db, i) ~> ~ IsClaimed(db, i) \/ ~ Up

(***************************************************************************)
(* DueIsTaken: a job that is due is taken by the loop (claimed or skipped, *)
(* and its next_at moved), unless it is changed first or the daemon goes   *)
(* down.  The last disjunct is the bound on claims.                        *)
(***************************************************************************)
DueIsTaken ==
  \A j \in JobIds, t \in 1 .. MaxTime :
    Up /\ j \in Scheduled(db) /\ db.jobs[j].nextAt = t /\ now >= t
      ~> \/ j \notin Scheduled(db)
         \/ db.jobs[j].nextAt # t
         \/ cancelled
         \/ ~ Up
         \/ ~ Room(1)

(***************************************************************************)
(* DrainEnds: a cancelled daemon comes down.  (scheduler.rs stop creates   *)
(* its Notified future before it reads pending.)                           *)
(***************************************************************************)
DrainEnds == cancelled ~> ~ Up

(***************************************************************************)
(* RunNowAnswered: a client that waits for its run_now gets the answer, or *)
(* the daemon dies.                                                        *)
(***************************************************************************)
RunNowAnswered ==
  \A h \in Handlers : handler[h].pc \in {"claimed", "wait"} ~> handler[h].pc = "free"

-----------------------------------------------------------------------------
(* What the documents say, and the code does not keep. *)

(***************************************************************************)
(* ClaimBacksEffect: a runner at work has its claim in the store.          *)
(***************************************************************************)
ClaimBacksEffect == \A i \in OccIds : TaskIs(i, {"running"}) => IsClaimed(db, i)

(***************************************************************************)
(* EffectsSerialized: two runners are never at work at the same time.      *)
(***************************************************************************)
EffectsSerialized == Cardinality(procs) <= 1
=============================================================================
