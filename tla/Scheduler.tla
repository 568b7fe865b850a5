------------------------------ MODULE Scheduler ------------------------------
(***************************************************************************)
(* The scheduler of the daemon (rust/src/scheduler.rs): the timer loop,    *)
(* the spawned execution tasks behind the execution mutex, run_now's claim *)
(* and Scheduler::stop.                                                    *)
(*                                                                         *)
(* The store's mutex is held for a stretch of code without an await, so    *)
(* each such stretch is one action.  Everything between two stretches can  *)
(* interleave with the other tasks of the runtime.                         *)
(*                                                                         *)
(* The runner is seen from outside: it is a process that ends at a time of *)
(* its own (its time limit included) with an outcome.                      *)
(***************************************************************************)
EXTENDS Repository

CONSTANTS
  TimerCap,     \* the 60_000 ms the loop sleeps at most when a job is scheduled
  IdleTimer     \* the 24 hours it sleeps when none is

ASSUME TimerAssumption == TimerCap \in Nat \ {0} /\ IdleTimer \in Nat

VARIABLES
  db,         \* the store
  now,        \* the wall clock
  permit,     \* the permit stored in the Notify `notify`
  cancelled,  \* the cancellation token
  loop,       \* run_loop: its place, its timer, the time wake captured, the row it skips
  task,       \* for every claimed occurrence, the snapshot taken and how far its run is
  gate,       \* the execution mutex: 0, or the occurrence whose task holds it
  pending,    \* the atomic counter `pending`
  stop,       \* Scheduler::stop: its place
  drained,    \* whether stop's Notified future has seen a notify_waiters
  procs       \* the occurrences whose runner process group is alive

schedVars == <<db, now, permit, cancelled, loop, task, gate, pending, stop, drained, procs>>

Loop == [pc : {"off", "plan", "sleep", "wake", "skip", "exited"},
         timer : Nat, at : Times, occ : OccIds \cup {0}]

LoopAt(pc) == [pc |-> pc, timer |-> 0, at |-> 0, occ |-> 0]

(***************************************************************************)
(* pc of a task: claimed (run_now, before enqueue), missed (the loop will  *)
(* finish it as skipped), queued, running, completed or skipped (the       *)
(* runner's outcome, waiting for the store), sent (finished, gate free),   *)
(* last (its fetch_sub saw 1), done, and lost with its daemon.             *)
(***************************************************************************)
Outcomes == {"completed", "skipped"}
Owning   == {"claimed", "missed", "queued", "running"} \cup Outcomes
Counted  == {"queued", "running", "sent"} \cup Outcomes

Task == [pc   : Owning \cup {"sent", "last", "done", "lost"},
         job  : JobIds,
         slot : Nat \cup {Manual},
         born : Nat]

ASSUME TaskAssumption == NULL \notin Task

TaskIs(i, S) == task[i] # NULL /\ task[i].pc \in S

Snapshot(j, slot, pc) == [pc |-> pc, job |-> j, slot |-> slot, born |-> db.jobs[j].born]

SetTask(i, pc) == task' = [task EXCEPT ![i].pc = pc]

\* Bound: n more occurrences may be claimed.
Room(n) == db.seq + n <= MaxOccurrences

SchedulerInit ==
  /\ db = EmptyStore
  /\ now = 0
  /\ permit = FALSE
  /\ cancelled = FALSE
  /\ loop = LoopAt("off")
  /\ task = [i \in OccIds |-> NULL]
  /\ gate = 0
  /\ pending = 0
  /\ stop = "idle"
  /\ drained = FALSE
  /\ procs = {}

-----------------------------------------------------------------------------
(* run_loop and wake. *)

\* Mutated form: a negative delay is not clamped.
DelayUnclamped(at) == IF at - now < TimerCap THEN at - now ELSE TimerCap

\* Mutated form: the loop sleeps until next_at however far it is.
DelayUncapped(at) == IF at <= now THEN 0 ELSE at - now

\* The distance to next_at, at least zero and at most the cap.
Delay(at) == IF at <= now THEN 0 ELSE IF at - now < TimerCap THEN at - now ELSE TimerCap

\* The head of run_loop: leave when cancelled, else choose the delay.
PlanDelays ==
  IF Scheduled(db) = {} THEN {IdleTimer}
  ELSE {Delay(db.jobs[j].nextAt) : j \in Nearest(db)}

LoopPlan ==
  /\ loop.pc = "plan"
  /\ IF cancelled
       THEN loop' = LoopAt("exited")
       ELSE \E t \in PlanDelays : loop' = [LoopAt("sleep") EXCEPT !.timer = t]
  /\ UNCHANGED <<db, now, permit, cancelled, task, gate, pending, stop, drained, procs>>

\* The store fails under nearest: the loop sleeps for a second, less than a tick.
LoopPlanFault ==
  /\ loop.pc = "plan"
  /\ ~ cancelled
  /\ loop' = LoopAt("sleep")
  /\ UNCHANGED <<db, now, permit, cancelled, task, gate, pending, stop, drained, procs>>

\* Mutated form: a notify that does not make the loop plan again.
LoopNotifiedSleepsOn ==
  /\ loop.pc = "sleep"
  /\ permit
  /\ permit' = FALSE
  /\ UNCHANGED <<db, now, cancelled, loop, task, gate, pending, stop, drained, procs>>

\* The three branches of select!; ready branches are polled in random order.
LoopNotified ==
  /\ loop.pc = "sleep"
  /\ permit
  /\ permit' = FALSE
  /\ loop' = LoopAt("plan")
  /\ UNCHANGED <<db, now, cancelled, task, gate, pending, stop, drained, procs>>

LoopCancelled ==
  /\ loop.pc = "sleep"
  /\ cancelled
  /\ loop' = LoopAt("exited")
  /\ UNCHANGED <<db, now, permit, cancelled, task, gate, pending, stop, drained, procs>>

\* wake reads the clock before it waits for the store.
LoopTimeout ==
  /\ loop.pc = "sleep"
  /\ loop.timer = 0
  /\ Room(1)
  /\ loop' = [LoopAt("wake") EXCEPT !.at = now]
  /\ UNCHANGED <<db, now, permit, cancelled, task, gate, pending, stop, drained, procs>>

DueAt(j) == db.jobs[j].nextAt <= loop.at

WakeNothingDue ==
  /\ loop.pc = "wake"
  /\ \/ Scheduled(db) = {}
     \/ \E j \in Nearest(db) : ~ DueAt(j)
  /\ loop' = LoopAt("plan")
  /\ UNCHANGED <<db, now, permit, cancelled, task, gate, pending, stop, drained, procs>>

IsMissed(slot) == loop.at - slot >= MissedAfter

\* Mutated form: a missed slot is caught up from.
AdvanceFromSlot(slot) == slot

\* advance continues from the captured time when the occurrence is missed.
AdvanceFrom(slot) == IF IsMissed(slot) THEN loop.at ELSE slot

\* Mutated form: a refused claim is left for the next wake.
WakeConflictStays(j) ==
  /\ loop.pc = "wake"
  /\ j \in Nearest(db)
  /\ DueAt(j)
  /\ ~ SlotFree(db, j, db.jobs[j].nextAt)
  /\ permit' = TRUE
  /\ loop' = LoopAt("plan")
  /\ UNCHANGED <<db, now, cancelled, task, gate, pending, stop, drained, procs>>

\* The unique index refuses a slot claimed before: wake only advances.
WakeConflict(j) ==
  /\ loop.pc = "wake"
  /\ j \in Nearest(db)
  /\ DueAt(j)
  /\ LET slot == db.jobs[j].nextAt IN
       /\ ~ SlotFree(db, j, slot)
       /\ db' = Advance(db, j, AdvanceFrom(slot))
  /\ permit' = TRUE
  /\ loop' = LoopAt("plan")
  /\ UNCHANGED <<now, cancelled, task, gate, pending, stop, drained, procs>>

\* Claim, advance, notify; then enqueue, unless the occurrence is missed.
WakeClaim(j) ==
  /\ loop.pc = "wake"
  /\ Room(1)
  /\ j \in Nearest(db)
  /\ DueAt(j)
  /\ LET slot == db.jobs[j].nextAt
         id   == NewId(db)
     IN  /\ SlotFree(db, j, slot)
         /\ db' = Advance(Claim(db, j, slot), j, AdvanceFrom(slot))
         /\ IF IsMissed(slot)
              THEN /\ task' = [task EXCEPT ![id] = Snapshot(j, slot, "missed")]
                   /\ loop' = [LoopAt("skip") EXCEPT !.occ = id]
                   /\ pending' = pending
              ELSE /\ task' = [task EXCEPT ![id] = Snapshot(j, slot, "queued")]
                   /\ loop' = LoopAt("plan")
                   /\ pending' = pending + 1
  /\ permit' = TRUE
  /\ UNCHANGED <<now, cancelled, gate, stop, drained, procs>>

\* A statement of wake fails before one commits: wake returns its error.
WakeFaultUnclaimed ==
  /\ loop.pc = "wake"
  /\ loop' = LoopAt("plan")
  /\ UNCHANGED <<db, now, permit, cancelled, task, gate, pending, stop, drained, procs>>

\* The INSERT commits and a later statement fails.
WakeFault(j) ==
  /\ loop.pc = "wake"
  /\ Room(1)
  /\ j \in Nearest(db)
  /\ DueAt(j)
  /\ SlotFree(db, j, db.jobs[j].nextAt)
  /\ db' = Claim(db, j, db.jobs[j].nextAt)
  /\ loop' = LoopAt("plan")
  /\ UNCHANGED <<now, permit, cancelled, task, gate, pending, stop, drained, procs>>

\* The missed occurrence is finished under a second lock of the store.
LoopSkip ==
  /\ loop.pc = "skip"
  /\ db' = Finish(db, loop.occ, "skipped")
  /\ SetTask(loop.occ, "done")
  /\ loop' = LoopAt("plan")
  /\ UNCHANGED <<now, permit, cancelled, gate, pending, stop, drained, procs>>

LoopSkipFault ==
  /\ loop.pc = "skip"
  /\ db' \in {db} \cup FinishPrefixes(db, loop.occ, "skipped")
  /\ SetTask(loop.occ, "done")
  /\ loop' = LoopAt("plan")
  /\ UNCHANGED <<now, permit, cancelled, gate, pending, stop, drained, procs>>

-----------------------------------------------------------------------------
(* run_now, up to the wait for its answer: claim under the lock, then enqueue. *)

RunNowClaim(j) ==
  /\ HasJob(db, j)
  /\ Room(IF loop.pc = "wake" THEN 2 ELSE 1)
  /\ db' = Claim(db, j, Manual)
  /\ task' = [task EXCEPT ![NewId(db)] = Snapshot(j, Manual, "claimed")]
  /\ UNCHANGED <<now, permit, cancelled, loop, gate, pending, stop, drained, procs>>

\* The INSERT commits and reading the row back fails.
RunNowFault(j) ==
  /\ HasJob(db, j)
  /\ Room(IF loop.pc = "wake" THEN 2 ELSE 1)
  /\ db' = Claim(db, j, Manual)
  /\ UNCHANGED <<now, permit, cancelled, loop, task, gate, pending, stop, drained, procs>>

\* Mutated form: no fetch_add.
EnqueueUncounted(i) ==
  /\ TaskIs(i, {"claimed"})
  /\ SetTask(i, "queued")
  /\ UNCHANGED <<db, now, permit, cancelled, loop, gate, pending, stop, drained, procs>>

\* enqueue: count, then spawn.
Enqueue(i) ==
  /\ TaskIs(i, {"claimed"})
  /\ SetTask(i, "queued")
  /\ pending' = pending + 1
  /\ UNCHANGED <<db, now, permit, cancelled, loop, gate, stop, drained, procs>>

-----------------------------------------------------------------------------
(* The spawned task: execute behind the gate, answer, count down. *)

\* Mutated form: the execution mutex is not taken.
ExecStartUngated(i) ==
  /\ TaskIs(i, {"queued"})
  /\ SetTask(i, "running")
  /\ gate' = i
  /\ procs' = procs \cup {i}
  /\ UNCHANGED <<db, now, permit, cancelled, loop, pending, stop, drained>>

\* The mutex is acquired and the runner spawned.
ExecStart(i) ==
  /\ TaskIs(i, {"queued"})
  /\ gate = 0
  /\ gate' = i
  /\ SetTask(i, "running")
  /\ procs' = procs \cup {i}
  /\ UNCHANGED <<db, now, permit, cancelled, loop, pending, stop, drained>>

\* runner.execute fails before there is a process: no directory, no executable.
ExecRefused(i) ==
  /\ TaskIs(i, {"queued"})
  /\ gate = 0
  /\ gate' = i
  /\ SetTask(i, "completed")
  /\ UNCHANGED <<db, now, permit, cancelled, loop, pending, stop, drained, procs>>

\* The runner ended or was killed with its group; an error counts as completed.
ExecEnd(i) ==
  /\ TaskIs(i, {"running"})
  /\ \E o \in Outcomes : SetTask(i, o)
  /\ procs' = procs \ {i}
  /\ UNCHANGED <<db, now, permit, cancelled, loop, gate, pending, stop, drained>>

\* Mutated form: the gate is never released.
ExecFinishKeepsGate(i) ==
  /\ TaskIs(i, Outcomes)
  /\ db' = Finish(db, i, task[i].pc)
  /\ SetTask(i, "sent")
  /\ UNCHANGED <<now, permit, cancelled, loop, gate, pending, stop, drained, procs>>

\* finish under the store's lock; returning releases the gate and answers.
ExecFinish(i) ==
  /\ TaskIs(i, Outcomes)
  /\ db' = Finish(db, i, task[i].pc)
  /\ SetTask(i, "sent")
  /\ gate' = 0
  /\ UNCHANGED <<now, permit, cancelled, loop, pending, stop, drained, procs>>

ExecFinishFault(i) ==
  /\ TaskIs(i, Outcomes)
  /\ db' \in {db} \cup FinishPrefixes(db, i, task[i].pc)
  /\ SetTask(i, "sent")
  /\ gate' = 0
  /\ UNCHANGED <<now, permit, cancelled, loop, pending, stop, drained, procs>>

\* Mutated form: fetch_sub taken to return the new count.
ExecDoneNewCount(i) ==
  /\ TaskIs(i, {"sent"})
  /\ pending' = pending - 1
  /\ SetTask(i, IF pending' = 1 THEN "last" ELSE "done")
  /\ UNCHANGED <<db, now, permit, cancelled, loop, gate, stop, drained, procs>>

\* fetch_sub returns the count before it.
ExecDone(i) ==
  /\ TaskIs(i, {"sent"})
  /\ pending' = pending - 1
  /\ SetTask(i, IF pending = 1 THEN "last" ELSE "done")
  /\ UNCHANGED <<db, now, permit, cancelled, loop, gate, stop, drained, procs>>

\* notify_waiters: it reaches only a Notified future that exists by now.
ExecNotify(i) ==
  /\ TaskIs(i, {"last"})
  /\ SetTask(i, "done")
  /\ drained' = (drained \/ stop \in {"check", "await"})
  /\ UNCHANGED <<db, now, permit, cancelled, loop, gate, pending, stop, procs>>

\* A runner that outlived its daemon ends.
OrphanExit(i) ==
  /\ i \in procs
  /\ TaskIs(i, {"lost"})
  /\ procs' = procs \ {i}
  /\ UNCHANGED <<db, now, permit, cancelled, loop, task, gate, pending, stop, drained>>

-----------------------------------------------------------------------------
(* Scheduler::stop *)

\* The call: cancel, notify, and wait for the loop.
StopCall ==
  /\ stop = "idle"
  /\ stop' = "join"
  /\ cancelled' = TRUE
  /\ permit' = TRUE
  /\ UNCHANGED <<db, now, loop, task, gate, pending, drained, procs>>

\* The Notified future is created before pending is read.
StopJoined ==
  /\ stop = "join"
  /\ loop.pc = "exited"
  /\ stop' = "check"
  /\ drained' = FALSE
  /\ UNCHANGED <<db, now, permit, cancelled, loop, task, gate, pending, procs>>

\* pending is read.
StopCheck ==
  /\ stop = "check"
  /\ stop' = IF pending = 0 THEN "done" ELSE "await"
  /\ UNCHANGED <<db, now, permit, cancelled, loop, task, gate, pending, drained, procs>>

\* drained.await returns and the loop goes around.
StopAwaited ==
  /\ stop = "await"
  /\ drained
  /\ stop' = "check"
  /\ drained' = FALSE
  /\ UNCHANGED <<db, now, permit, cancelled, loop, task, gate, pending, procs>>
=============================================================================
