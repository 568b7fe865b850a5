---------------------------- MODULE LedgerProofs ----------------------------
(***************************************************************************)
(* The execution mutex, the pending counter and the refinement of the      *)
(* abstract ledger.                                                        *)
(*                                                                         *)
(* A step of the daemon is one of sixteen kinds, told by what it does to   *)
(* the table of occurrences, to the tasks, the gate, the counter and the   *)
(* runners (StepKinds); the invariants and the refinement follow from the  *)
(* kinds, not from the actions.                                            *)
(*                                                                         *)
(* The refinement needs two facts that hold of no single action: a ledger  *)
(* begins an effect only when no other is begun, which the daemon knows    *)
(* through the mutex (GateHeld), and recovers only when none is live,      *)
(* which it knows because a process that is gone has no task (Idle).       *)
(***************************************************************************)
EXTENDS Ledger, DaemonProofs

-----------------------------------------------------------------------------
(* The kinds of step. *)

(***************************************************************************)
(* Task i enters together with its row, for a slot of a job: run_now's, or *)
(* the due slot of a nearest job, which no row had and which the job's     *)
(* next_at leaves behind.                                                  *)
(***************************************************************************)
Enrolls(i) ==
  \E j \in JobIds, slot \in Nat \cup {Manual} :
    /\ RowsNew(db, db', i, j, slot)
    /\ HasJob(db, j)
    /\ task'[i].job = j /\ task'[i].slot = slot /\ task'[i].born = db.jobs[j].born
    /\ \/ slot = Manual
       \/ /\ j \in Nearest(db) /\ slot = db.jobs[j].nextAt /\ slot <= loop.at
          /\ SlotFree(db, j, slot)
          /\ HasJob(db', j) /\ db'.jobs[j].nextAt > slot

\* A task enters, or goes from one place to another.
Enters(i, S) ==
  /\ task[i] = NULL
  /\ TaskIs(i, S)'
  /\ Enrolls(i)
  /\ \A k \in OccIds \ {i} : task'[k] = task[k]

Moves(i, S, T) ==
  /\ TaskIs(i, S)
  /\ TaskIs(i, T)'
  /\ SameRun(i)
  /\ \A k \in OccIds \ {i} : task'[k] = task[k]

\* There was a crash or a fault.
Mishap == count'["crash"] > 0 \/ count'["fault"] > 0

TasksKeep == UNCHANGED <<task, gate, pending, procs>>

Quiet       == TasksKeep /\ RowsKeep(db, db')
Forgets     == TasksKeep /\ RowsForget(db, db')
Recovers    == TasksKeep /\ ~ Up /\ RowsRecover(db, db')
Strays      == TasksKeep /\ Mishap /\ \E i \in OccIds : RowClaimed(db, db', i)
Claims(i)   == Enters(i, {"missed", "claimed"}) /\ UNCHANGED <<gate, pending, procs>>
Queues(i)   == Enters(i, {"queued"}) /\ pending' = pending + 1 /\ UNCHANGED <<gate, procs>>
Enqueues(i) == RowsKeep(db, db') /\ Moves(i, {"claimed"}, {"queued"})
                 /\ pending' = pending + 1 /\ UNCHANGED <<gate, procs>>
Begins(i)   == RowsKeep(db, db') /\ Moves(i, {"queued"}, {"running"})
                 /\ gate = 0 /\ gate' = i /\ procs' = procs \cup {i} /\ UNCHANGED pending
Refuses(i)  == RowsKeep(db, db') /\ Moves(i, {"queued"}, {"completed"})
                 /\ gate = 0 /\ gate' = i /\ UNCHANGED <<procs, pending>>
Stops(i)    == RowsKeep(db, db') /\ Moves(i, {"running"}, Outcomes)
                 /\ procs' = procs \ {i} /\ UNCHANGED <<gate, pending>>
Settles(i)  == RowsSettle(db, db', i, task[i].pc) /\ Moves(i, Outcomes, {"sent"})
                 /\ (Mishap \/ db' = Finish(db, i, task[i].pc))
                 /\ gate' = 0 /\ UNCHANGED <<pending, procs>>
Skips(i)    == RowsSettle(db, db', i, "skipped") /\ Moves(i, {"missed"}, {"done"})
                 /\ (Mishap \/ db' = Finish(db, i, "skipped"))
                 /\ UNCHANGED <<gate, pending, procs>>
CountsDown(i) == RowsKeep(db, db') /\ Moves(i, {"sent"}, {"last", "done"})
                   /\ (pending = 1 => TaskIs(i, {"last"})')
                   /\ pending' = pending - 1 /\ UNCHANGED <<gate, procs>>
Notifies(i) == RowsKeep(db, db') /\ Moves(i, {"last"}, {"done"})
                 /\ drained' = (drained \/ stop \in {"check", "await"})
                 /\ UNCHANGED <<gate, pending, procs>>
Vanishes(i) == RowsKeep(db, db') /\ TaskIs(i, {"lost"})
                 /\ procs' = procs \ {i} /\ UNCHANGED <<task, gate, pending>>
Dies ==
  /\ ProcessEnds
  /\ procs' \subseteq procs
  /\ ~ Up'
  /\ Mishap \/ db' = db
  /\ \/ RowsKeep(db, db')
     \/ \E i \in OccIds : RowClaimed(db, db', i)
     \/ \E i \in OccIds : TaskIs(i, Outcomes) /\ RowsSettle(db, db', i, task[i].pc)
     \/ \E i \in OccIds : TaskIs(i, {"missed"}) /\ RowsSettle(db, db', i, "skipped")

Kinds ==
  \/ Quiet \/ Forgets \/ Recovers \/ Strays \/ Dies
  \/ \E i \in OccIds :
       \/ Claims(i) \/ Queues(i) \/ Enqueues(i) \/ Begins(i) \/ Refuses(i) \/ Stops(i)
       \/ Settles(i) \/ Skips(i) \/ CountsDown(i) \/ Notifies(i) \/ Vanishes(i)

-----------------------------------------------------------------------------
(* Every action is of a kind. *)

\* Job j moves on to the next match after its due slot, or after the wake.
Advanced(d, e, j) ==
  /\ e.adds = d.adds
  /\ \A m \in JobIds \ {j} : e.jobs[m] = d.jobs[m]
  /\ HasJob(e, j)
  /\ e.jobs[j].schedule = d.jobs[j].schedule
  /\ e.jobs[j].born = d.jobs[j].born
  /\ e.jobs[j].nextAt = NextOccurrence(d.jobs[j].schedule, AdvanceFrom(d.jobs[j].nextAt))

(***************************************************************************)
(* WakeAdvances: wake moves next_at of the job it takes past the slot.     *)
(***************************************************************************)
LEMMA WakeAdvances ==
  ASSUME TypeOK, NEW j \in JobIds, WakeConflict(j) \/ WakeClaim(j)
  PROVE  /\ j \in Nearest(db) /\ DueAt(j)
         /\ Advanced(db, db', j)
         /\ db'.jobs[j].nextAt > db.jobs[j].nextAt
<1>1. /\ j \in Nearest(db) /\ DueAt(j) /\ db \in Store
      /\ loop.at \in Times /\ Times \subseteq Nat
  BY BoundsAssumption DEF WakeConflict, WakeClaim, TypeOK, Loop, Times
<1>2. /\ HasJob(db, j) /\ db.jobs[j] \in Job /\ db.jobs[j].enabled
      /\ db.jobs[j].nextAt \in Nat
  BY <1>1, NearestType DEF Nearest, Scheduled
<1> DEFINE slot == db.jobs[j].nextAt
           a == AdvanceFrom(slot)
<1>3. a \in Times /\ a >= slot
  <2>1. a \in Times
    BY <1>1, AdvanceFromType
  <2>2. a >= slot
    BY <1>1, <1>2 DEF AdvanceFrom, DueAt
  <2> QED
    BY <2>1, <2>2
<1>4. PICK d \in Store : d.jobs = db.jobs /\ d.adds = db.adds /\ db' = Advance(d, j, a)
  <2>1. CASE WakeConflict(j)
    BY <1>1, <2>1 DEF WakeConflict
  <2>2. CASE WakeClaim(j)
    <3>1. slot \in Nat \cup {Manual} /\ db.seq + 1 <= MaxOccurrences
      BY <1>2, <2>2 DEF WakeClaim, Room
    <3>2. /\ Claim(db, j, slot) \in Store
          /\ Claim(db, j, slot).jobs = db.jobs /\ Claim(db, j, slot).adds = db.adds
      BY <1>1, <3>1, ClaimType
    <3> QED
      BY <2>2, <3>2 DEF WakeClaim
  <2> QED
    BY <2>1, <2>2
<1>5. NextOccurrence(db.jobs[j].schedule, a) > a /\ NextOccurrence(db.jobs[j].schedule, a) \in Nat
  BY <1>2, <1>3, CronAssumption DEF Job
<1> HIDE DEF a
<1>6. /\ db'.adds = db.adds
      /\ \A m \in JobIds \ {j} : db'.jobs[m] = db.jobs[m]
      /\ HasJob(db', j)
      /\ db'.jobs[j].schedule = db.jobs[j].schedule
      /\ db'.jobs[j].born = db.jobs[j].born
      /\ db'.jobs[j].nextAt = NextOccurrence(db.jobs[j].schedule, a)
  BY <1>2, <1>3, <1>4, AdvanceJobs DEF HasJob
<1>7. db'.jobs[j].nextAt > slot
  BY <1>1, <1>2, <1>3, <1>5, <1>6
<1> QED
  BY <1>1, <1>6, <1>7 DEF Advanced, a

\* A task that SetTask moves.
LEMMA SetTaskMoves ==
  ASSUME TypeOK, NEW i \in OccIds, NEW S, TaskIs(i, S), NEW pc,
         pc \in Owning \cup {"sent", "last", "done", "lost"}, SetTask(i, pc)
  PROVE  Moves(i, S, {pc})
<1>1. task[i] # NULL
  BY DEF TaskIs
<1> QED
  BY <1>1, SetTaskType DEF Moves, TaskIs

LEMMA LoopKinds ==
  ASSUME IInv, LoopWork \/ LoopFires
  PROVE  Kinds
<1>1. TypeOK /\ db \in Store
  BY DEF IInv, TypeOK
<1>2. CASE LoopPlan \/ LoopNotified \/ LoopCancelled \/ WakeNothingDue \/ LoopTimeout
  BY <1>2 DEF LoopPlan, LoopNotified, LoopCancelled, WakeNothingDue, LoopTimeout, Kinds, Quiet,
     TasksKeep, RowsKeep
<1>3. ASSUME NEW j \in JobIds, WakeConflict(j) PROVE Kinds
  <2>1. /\ j \in Nearest(db) /\ DueAt(j) /\ TasksKeep
        /\ db' = Advance(db, j, AdvanceFrom(db.jobs[j].nextAt))
    BY <1>3 DEF WakeConflict, TasksKeep
  <2>2. AdvanceFrom(db.jobs[j].nextAt) \in Times
    BY <1>1, <2>1, AdvanceFromType
  <2>3. RowsKeep(db, db')
    BY <1>1, <2>1, <2>2, AdvanceType DEF RowsKeep
  <2> QED
    BY <2>1, <2>3 DEF Kinds, Quiet
<1>4. ASSUME NEW j \in JobIds, WakeClaim(j) PROVE Kinds
  <2>1. /\ j \in Nearest(db) /\ DueAt(j) /\ HasJob(db, j)
        /\ db.seq + 1 <= MaxOccurrences
        /\ UNCHANGED <<gate, procs>>
    BY <1>1, <1>4, NearestType DEF WakeClaim, Room
  <2>2. PICK slot \in Nat \cup {Manual} : slot = db.jobs[j].nextAt
    BY <1>1, <2>1, NearestType
  <2>3. PICK a \in Times : a = AdvanceFrom(slot)
    BY <1>1, <2>1, <2>2, AdvanceFromType
  <2>4. PICK id \in OccIds : id = NewId(db) /\ RowsNew(db, Claim(db, j, slot), id, j, slot)
    BY <1>1, <2>1, ClaimRows
  <2>5. db' = Advance(Claim(db, j, slot), j, a) /\ Claim(db, j, slot) \in Store
    BY <1>1, <1>4, <2>1, <2>2, <2>3, ClaimType DEF WakeClaim
  <2>6. db'.occ = Claim(db, j, slot).occ /\ db'.seq = Claim(db, j, slot).seq
    BY <2>5, AdvanceType
  <2>7. RowsNew(db, db', id, j, slot)
    BY <2>4, <2>6 DEF RowsNew
  <2>8. task[id] = NULL
    BY <1>1, <2>4 DEF IInv, IdsInOrder, RowsNew, Store, OccIds
  <2>9. /\ SlotFree(db, j, slot) /\ slot <= loop.at
        /\ HasJob(db', j) /\ db'.jobs[j].nextAt > slot
    BY <1>1, <1>4, <2>1, <2>2, WakeAdvances DEF WakeClaim, DueAt, Advanced
  <2>10. ASSUME NEW pc \in {"missed", "queued"},
                task' = [task EXCEPT ![id] = Snapshot(j, slot, pc)]
         PROVE  Enters(id, {pc})
    <3>1. pc \in Owning
      BY DEF Owning
    <3>2. NewTask(id, j, slot, pc)
      BY <1>1, <2>1, <2>10, <3>1, NewTaskType
    <3>3. Enrolls(id)
      BY <2>1, <2>2, <2>7, <2>9, <3>2 DEF Enrolls, NewTask
    <3> QED
      BY <2>8, <3>2, <3>3 DEF Enters, TaskIs, NewTask
  <2>11. CASE IsMissed(slot)
    <3>1. task' = [task EXCEPT ![id] = Snapshot(j, slot, "missed")] /\ pending' = pending
      BY <1>4, <2>2, <2>4, <2>11 DEF WakeClaim
    <3>2. Enters(id, {"missed", "claimed"})
      BY <2>10, <3>1 DEF Enters, TaskIs
    <3>3. Claims(id)
      BY <2>1, <3>1, <3>2 DEF Claims
    <3> QED
      BY <3>3 DEF Kinds
  <2>12. CASE ~ IsMissed(slot)
    <3>1. task' = [task EXCEPT ![id] = Snapshot(j, slot, "queued")] /\ pending' = pending + 1
      BY <1>4, <2>2, <2>4, <2>12 DEF WakeClaim
    <3>2. Enters(id, {"queued"})
      BY <2>10, <3>1
    <3>3. Queues(id)
      BY <2>1, <3>1, <3>2 DEF Queues
    <3> QED
      BY <3>3 DEF Kinds
  <2> QED
    BY <2>11, <2>12
<1>5. CASE LoopSkip
  <2>1. PICK i \in OccIds : i = loop.occ /\ TaskIs(i, {"missed"})
    BY <1>5 DEF LoopSkip, IInv, SkipOwned
  <2>2. /\ db' = Finish(db, i, "skipped") /\ SetTask(i, "done")
        /\ UNCHANGED <<gate, pending, procs>>
    BY <1>5, <2>1 DEF LoopSkip
  <2>3. Skips(i)
    BY <1>1, <2>1, <2>2, FinishRows, SetTaskMoves DEF Skips
  <2> QED
    BY <2>3 DEF Kinds
<1> QED
  BY <1>2, <1>3, <1>4, <1>5 DEF LoopWork, LoopFires

LEMMA TaskKinds ==
  ASSUME IInv, NEW i \in OccIds, TaskWork(i) \/ RunnerExit(i)
  PROVE  Kinds
<1>1. TypeOK /\ db \in Store
  BY DEF IInv, TypeOK
<1>2. CASE ExecStart(i)
  <2>1. TaskIs(i, {"queued"}) /\ SetTask(i, "running")
    BY <1>2 DEF ExecStart
  <2>2. Moves(i, {"queued"}, {"running"})
    BY <1>1, <2>1, SetTaskMoves DEF Owning
  <2>3. Begins(i)
    BY <1>2, <2>2 DEF ExecStart, Begins, RowsKeep
  <2> QED
    BY <2>3 DEF Kinds
<1>3. CASE ExecRefused(i)
  <2>1. TaskIs(i, {"queued"}) /\ SetTask(i, "completed")
    BY <1>3 DEF ExecRefused
  <2>2. Moves(i, {"queued"}, {"completed"})
    BY <1>1, <2>1, SetTaskMoves DEF Owning, Outcomes
  <2>3. Refuses(i)
    BY <1>3, <2>2 DEF ExecRefused, Refuses, RowsKeep
  <2> QED
    BY <2>3 DEF Kinds
<1>4. CASE ExecEnd(i)
  <2>1. PICK o \in Outcomes : TaskIs(i, {"running"}) /\ SetTask(i, o)
    BY <1>4 DEF ExecEnd
  <2>2. Moves(i, {"running"}, {o})
    BY <1>1, <2>1, SetTaskMoves DEF Owning
  <2>3. Moves(i, {"running"}, Outcomes)
    BY <2>2 DEF Moves, TaskIs
  <2>4. Stops(i)
    BY <1>4, <2>3 DEF ExecEnd, Stops, RowsKeep
  <2> QED
    BY <2>4 DEF Kinds
<1>5. CASE ExecFinish(i)
  <2>1. PICK o \in Outcomes : o = task[i].pc /\ TaskIs(i, Outcomes)
    BY <1>5 DEF ExecFinish, TaskIs
  <2>2. db' = Finish(db, i, o) /\ SetTask(i, "sent") /\ gate' = 0 /\ UNCHANGED <<pending, procs>>
    BY <1>5, <2>1 DEF ExecFinish
  <2>3. Moves(i, Outcomes, {"sent"})
    BY <1>1, <2>1, <2>2, SetTaskMoves
  <2>4. Settles(i)
    BY <1>1, <2>1, <2>2, <2>3, FinishRows DEF Settles, Outcomes
  <2> QED
    BY <2>4 DEF Kinds
<1>6. CASE ExecDone(i)
  <2>1. PICK q \in {"last", "done"} :
          TaskIs(i, {"sent"}) /\ SetTask(i, q) /\ (pending = 1 => q = "last")
    BY <1>6 DEF ExecDone
  <2>2. Moves(i, {"sent"}, {q})
    BY <1>1, <2>1, SetTaskMoves
  <2>3. Moves(i, {"sent"}, {"last", "done"}) /\ (pending = 1 => TaskIs(i, {"last"})')
    BY <2>1, <2>2 DEF Moves, TaskIs
  <2>4. CountsDown(i)
    BY <1>6, <2>3 DEF ExecDone, CountsDown, RowsKeep
  <2> QED
    BY <2>4 DEF Kinds
<1>7. CASE ExecNotify(i)
  <2>1. TaskIs(i, {"last"}) /\ SetTask(i, "done")
    BY <1>7 DEF ExecNotify
  <2>2. Moves(i, {"last"}, {"done"})
    BY <1>1, <2>1, SetTaskMoves
  <2>3. Notifies(i)
    BY <1>7, <2>2 DEF ExecNotify, Notifies, RowsKeep
  <2> QED
    BY <2>3 DEF Kinds
<1>8. CASE RunnerExit(i)
  <2>1. Vanishes(i)
    BY <1>8 DEF RunnerExit, OrphanExit, Vanishes, RowsKeep
  <2> QED
    BY <2>1 DEF Kinds
<1> QED
  BY <1>2, <1>3, <1>4, <1>5, <1>6, <1>7, <1>8 DEF TaskWork

LEMMA HandlerKinds ==
  ASSUME IInv, NEW h \in Handlers,
         Accepts(h) \/ Requests(h) \/ HandlerProceeds(h) \/ HandlerAborted(h)
  PROVE  Kinds
<1>1. TypeOK /\ db \in Store /\ now \in Times
  BY DEF IInv, TypeOK
<1>2. CASE HandlerAccept(h) \/ HandlerReply(h) \/ HandlerNotify(h) \/ HandlerAnswered(h)
             \/ HandlerDropped(h)
  BY <1>2 DEF HandlerAccept, HandlerReply, HandlerNotify, HandlerAnswered, HandlerDropped,
     schedVars, Kinds, Quiet, TasksKeep, RowsKeep
<1>3. CASE HandlerEnqueue(h)
  <2>1. PICK i \in OccIds : i = handler[h].occ
    BY <1>3 DEF HandlerEnqueue, IInv, HandlerOwns
  <2>2. /\ TaskIs(i, {"claimed"}) /\ SetTask(i, "queued") /\ pending' = pending + 1
        /\ UNCHANGED <<db, gate, procs>>
    BY <1>3, <2>1 DEF HandlerEnqueue, Enqueue
  <2>3. Moves(i, {"claimed"}, {"queued"})
    BY <1>1, <2>2, SetTaskMoves DEF Owning
  <2>4. Enqueues(i)
    BY <2>2, <2>3 DEF Enqueues, RowsKeep
  <2> QED
    BY <2>4 DEF Kinds
<1>4. ASSUME NEW d \in Store, Commit(h, d), RowsKeep(db, d) \/ RowsForget(db, d)
      PROVE  Kinds
  BY <1>4 DEF Commit, Kinds, Quiet, Forgets, TasksKeep
<1>5. ASSUME NEW j \in JobIds, NEW s \in Schedules, NEW e \in BOOLEAN,
             CommitAdd(h, j, s, e) \/ CommitEdit(h, j, s, e)
      PROVE  Kinds
  <2>1. CASE CommitAdd(h, j, s, e)
    <3>1. Commit(h, Add(db, j, s, e, now))
      BY <2>1 DEF CommitAdd
    <3>2. Add(db, j, s, e, now) \in Store /\ RowsKeep(db, Add(db, j, s, e, now))
      BY <1>1, AddType DEF RowsKeep
    <3> QED
      BY <1>4, <3>1, <3>2
  <2>2. CASE CommitEdit(h, j, s, e)
    <3>1. HasJob(db, j) /\ Commit(h, Replace(db, j, s, e, now))
      BY <2>2 DEF CommitEdit
    <3>2. Replace(db, j, s, e, now) \in Store /\ RowsKeep(db, Replace(db, j, s, e, now))
      BY <1>1, <3>1, ReplaceType DEF RowsKeep
    <3> QED
      BY <1>4, <3>1, <3>2
  <2> QED
    BY <1>5, <2>1, <2>2
<1>6. ASSUME NEW j \in JobIds, CommitDelete(h, j) PROVE Kinds
  <2>1. Commit(h, Delete(db, j))
    BY <1>6 DEF CommitDelete
  <2> QED
    BY <1>1, <1>4, <2>1, DeleteType, DeleteRows
<1>7. ASSUME NEW j \in JobIds, NEW e \in BOOLEAN, CommitSetEnabled(h, j, e) PROVE Kinds
  <2>1. HasJob(db, j) /\ Commit(h, SetEnabled(db, j, e, now))
    BY <1>7 DEF CommitSetEnabled
  <2>2. SetEnabled(db, j, e, now) \in Store /\ RowsKeep(db, SetEnabled(db, j, e, now))
    BY <1>1, <2>1, SetEnabledType DEF RowsKeep
  <2> QED
    BY <1>4, <2>1, <2>2
<1>8. ASSUME NEW j \in JobIds, HandlerRunNow(h, j) PROVE Kinds
  <2>1. HasJob(db, j) /\ db.seq + 1 <= MaxOccurrences
    BY <1>1, <1>8, BoundsAssumption DEF HandlerRunNow, RunNowClaim, Room, Store
  <2>2. Manual \in Nat \cup {Manual}
    OBVIOUS
  <2>3. PICK id \in OccIds : id = NewId(db) /\ RowsNew(db, Claim(db, j, Manual), id, j, Manual)
    BY <1>1, <2>1, <2>2, ClaimRows
  <2>4. /\ db' = Claim(db, j, Manual)
        /\ task' = [task EXCEPT ![id] = Snapshot(j, Manual, "claimed")]
        /\ UNCHANGED <<gate, pending, procs>>
    BY <1>8, <2>3 DEF HandlerRunNow, RunNowClaim
  <2>5. task[id] = NULL
    BY <1>1, <2>3 DEF IInv, IdsInOrder, RowsNew, Store, OccIds
  <2>6. Enters(id, {"missed", "claimed"})
    <3>1. "claimed" \in Owning
      BY DEF Owning
    <3>2. NewTask(id, j, Manual, "claimed")
      BY <1>1, <2>1, <2>2, <2>4, <3>1, NewTaskType
    <3>3. Enrolls(id)
      BY <2>1, <2>2, <2>3, <2>4, <3>2 DEF Enrolls, NewTask
    <3> QED
      BY <2>5, <3>2, <3>3 DEF Enters, TaskIs, NewTask
  <2>7. Claims(id)
    BY <2>4, <2>6 DEF Claims
  <2> QED
    BY <2>7 DEF Kinds
<1>9. CASE Requests(h)
  BY <1>2, <1>5, <1>6, <1>7, <1>8, <1>9 DEF Requests, HandlerRequest
<1>10. CASE Accepts(h) \/ HandlerProceeds(h) \/ HandlerAborted(h)
  BY <1>2, <1>3, <1>10 DEF Accepts, HandlerProceeds, HandlerWork, HandlerAborted
<1> QED
  BY <1>9, <1>10

LEMMA FaultKinds ==
  ASSUME IInv, StoreFault
  PROVE  Kinds
<1>1. TypeOK /\ db \in Store /\ now \in Times
  BY DEF IInv, TypeOK
<1>9. Mishap
  BY <1>1, HappensType DEF StoreFault, Mishap
<1>2. CASE LoopPlanFault \/ WakeFaultUnclaimed
  BY <1>2 DEF LoopPlanFault, WakeFaultUnclaimed, Kinds, Quiet, TasksKeep, RowsKeep
<1>3. CASE LoopSkipFault
  <2>1. PICK i \in OccIds : i = loop.occ /\ TaskIs(i, {"missed"})
    BY <1>3 DEF LoopSkipFault, IInv, SkipOwned
  <2>2. /\ db' \in {db} \cup FinishPrefixes(db, i, "skipped") /\ SetTask(i, "done")
        /\ UNCHANGED <<gate, pending, procs>>
    BY <1>3, <2>1 DEF LoopSkipFault
  <2>3. RowsSettle(db, db', i, "skipped")
    BY <1>1, <2>2, FinishRows DEF RowsSettle
  <2>4. Skips(i)
    BY <1>1, <1>9, <2>1, <2>2, <2>3, SetTaskMoves DEF Skips
  <2> QED
    BY <2>4 DEF Kinds
<1>4. ASSUME NEW j \in JobIds, NEW slot \in Nat \cup {Manual}, db.seq + 1 <= MaxOccurrences,
             db' = Claim(db, j, slot), TasksKeep
      PROVE  Kinds
  <2>1. NewId(db) \in OccIds /\ RowsNew(db, db', NewId(db), j, slot)
    BY <1>1, <1>4, ClaimRows
  <2> QED
    BY <1>4, <1>9, <2>1 DEF Kinds, Strays, RowClaimed
<1>5. ASSUME NEW j \in JobIds, WakeFault(j) PROVE Kinds
  <2>1. j \in Nearest(db) /\ db.seq + 1 <= MaxOccurrences /\ TasksKeep
    BY <1>5 DEF WakeFault, Room, TasksKeep
  <2>2. PICK slot \in Nat \cup {Manual} : slot = db.jobs[j].nextAt
    BY <1>1, <2>1, NearestType
  <2>3. db' = Claim(db, j, slot)
    BY <1>5, <2>2 DEF WakeFault
  <2> QED
    BY <1>4, <2>1, <2>3
<1>6. ASSUME NEW i \in OccIds, ExecFinishFault(i) PROVE Kinds
  <2>1. PICK o \in Outcomes : o = task[i].pc /\ TaskIs(i, Outcomes)
    BY <1>6 DEF ExecFinishFault, TaskIs
  <2>2. /\ db' \in {db} \cup FinishPrefixes(db, i, o) /\ SetTask(i, "sent") /\ gate' = 0
        /\ UNCHANGED <<pending, procs>>
    BY <1>6, <2>1 DEF ExecFinishFault
  <2>3. Moves(i, Outcomes, {"sent"})
    BY <1>1, <2>1, <2>2, SetTaskMoves
  <2>4. RowsSettle(db, db', i, o)
    BY <1>1, <2>2, FinishRows DEF RowsSettle, Outcomes
  <2>5. Settles(i)
    BY <1>9, <2>1, <2>2, <2>3, <2>4 DEF Settles
  <2> QED
    BY <2>5 DEF Kinds
<1>7. ASSUME NEW h \in Handlers, NEW j \in JobIds, HandlerRunNowFault(h, j) PROVE Kinds
  <2>1. db.seq + 1 <= MaxOccurrences /\ db' = Claim(db, j, Manual) /\ TasksKeep
    BY <1>1, <1>7, BoundsAssumption DEF HandlerRunNowFault, RunNowFault, Room, Store, TasksKeep
  <2>2. Manual \in Nat \cup {Manual}
    OBVIOUS
  <2> QED
    BY <1>4, <2>1, <2>2
<1>8. ASSUME NEW h \in Handlers, NEW j \in JobIds, NEW s \in Schedules, NEW e \in BOOLEAN,
             CommitFault(h, j, s, e)
      PROVE  Kinds
  <2>1. db'.occ = db.occ /\ db'.seq = db.seq
    <3>1. CASE db' = Add(db, j, s, e, now)
      BY <1>1, <3>1, AddType
    <3>2. CASE HasJob(db, j) /\ db' = Replace(db, j, s, e, now)
      BY <1>1, <3>2, ReplaceType
    <3> QED
      BY <1>8, <3>1, <3>2 DEF CommitFault
  <2> QED
    BY <1>8, <2>1 DEF CommitFault, Kinds, Quiet, TasksKeep, RowsKeep
<1> QED
  BY <1>2, <1>3, <1>5, <1>6, <1>7, <1>8 DEF StoreFault

\* What a killed process leaves of a method it was in.
LEMMA HalfDoneRows ==
  ASSUME IInv, NEW d \in {db} \cup HalfDone
  PROVE  \/ RowsKeep(db, d)
         \/ \E i \in OccIds : RowClaimed(db, d, i)
         \/ \E i \in OccIds : TaskIs(i, Outcomes) /\ RowsSettle(db, d, i, task[i].pc)
         \/ \E i \in OccIds : TaskIs(i, {"missed"}) /\ RowsSettle(db, d, i, "skipped")
<1> DEFINE A == UNION {FinishPrefixes(db, i, task[i].pc) :
                         i \in {k \in OccIds : TaskIs(k, Outcomes)}}
           B == FinishPrefixes(db, loop.occ, "skipped")
           C == {Claim(db, j, db.jobs[j].nextAt) :
                   j \in {k \in Nearest(db) : DueAt(k) /\ SlotFree(db, k, db.jobs[k].nextAt)}}
<1>1. TypeOK /\ db \in Store
  BY DEF IInv, TypeOK
<1>2. CASE d = db
  BY <1>2 DEF RowsKeep
<1>3. ASSUME d \in A
      PROVE  \E i \in OccIds : TaskIs(i, Outcomes) /\ RowsSettle(db, d, i, task[i].pc)
  <2>1. PICK i \in OccIds : TaskIs(i, Outcomes) /\ d \in FinishPrefixes(db, i, task[i].pc)
    BY <1>3
  <2>2. task[i].pc \in {"completed", "skipped"}
    BY <2>1 DEF TaskIs, Outcomes
  <2> QED
    BY <1>1, <2>1, <2>2, FinishRows
<1>4. ASSUME loop.pc = "skip", d \in B
      PROVE  \E i \in OccIds : TaskIs(i, {"missed"}) /\ RowsSettle(db, d, i, "skipped")
  <2>1. PICK i \in OccIds : i = loop.occ /\ TaskIs(i, {"missed"})
    BY <1>4 DEF IInv, SkipOwned
  <2> QED
    BY <1>1, <1>4, <2>1, FinishRows
<1>5. ASSUME Room(1), d \in C
      PROVE  \E i \in OccIds : RowClaimed(db, d, i)
  <2>1. PICK j \in Nearest(db) : d = Claim(db, j, db.jobs[j].nextAt)
    BY <1>5
  <2>2. j \in JobIds /\ db.seq + 1 <= MaxOccurrences
    BY <1>1, <1>5, <2>1, NearestType DEF Room
  <2>3. PICK slot \in Nat \cup {Manual} : slot = db.jobs[j].nextAt
    BY <1>1, <2>1, NearestType
  <2>4. NewId(db) \in OccIds /\ RowsNew(db, d, NewId(db), j, slot)
    BY <1>1, <2>1, <2>2, <2>3, ClaimRows
  <2> QED
    BY <2>2, <2>4 DEF RowClaimed
<1>6. CASE d \in HalfDone
  <2>1. HalfDone = A \cup (IF loop.pc = "skip" THEN B ELSE {})
                     \cup (IF loop.pc = "wake" /\ Room(1) THEN C ELSE {})
    BY DEF HalfDone
  <2> HIDE DEF A, B, C
  <2>2. \/ d \in A
        \/ loop.pc = "skip" /\ d \in B
        \/ loop.pc = "wake" /\ Room(1) /\ d \in C
    BY <1>6, <2>1, Zenon
  <2> QED
    BY <1>3, <1>4, <1>5, <2>2
<1> QED
  BY <1>2, <1>6

LEMMA MainKinds ==
  ASSUME IInv, Start \/ StartFault \/ Terminate \/ MainWork \/ ServeError \/ Crash
  PROVE  Kinds
<1>1. TypeOK /\ db \in Store /\ now \in Times
  BY DEF IInv, TypeOK
<1>2. ASSUME NEW S \in SUBSET JobIds, db' = Recalculate(SkipInterrupted(db), S, now),
             TasksKeep, ~ Up
      PROVE  Kinds
  BY <1>1, <1>2, RecoverRows DEF Kinds, Recovers
<1>3. CASE Start
  <2>1. db' = Recalculate(SkipInterrupted(db), JobIds, now) /\ TasksKeep /\ ~ Up
    BY <1>3 DEF Start, Recovered, TasksKeep
  <2> QED
    BY <1>2, <2>1
<1>4. CASE StartFault
  <2>1. TasksKeep /\ ~ Up
    BY <1>4 DEF StartFault, TasksKeep
  <2>2. CASE db' = db
    BY <2>1, <2>2 DEF Kinds, Quiet, RowsKeep
  <2> QED
    BY <1>2, <1>4, <2>1, <2>2 DEF StartFault
<1>5. CASE Terminate \/ ServeBreak \/ ServeJoined \/ ServeError \/ Stopping
  BY <1>5 DEF Terminate, ServeBreak, ServeJoined, ServeError, Stopping, StopCall, StopJoined,
     StopCheck, StopAwaited, schedVars, Kinds, Quiet, TasksKeep, RowsKeep
<1>6. CASE Exit
  <2>1. ProcessEnds /\ procs' \subseteq procs /\ ~ Up' /\ db' = db
    BY <1>6 DEF Exit, Up, Down
  <2> QED
    BY <2>1 DEF Kinds, Dies, RowsKeep
<1>7. CASE Crash
  <2>1. ProcessEnds /\ procs' \subseteq procs /\ ~ Up' /\ db' \in {db} \cup HalfDone
    BY <1>7 DEF Crash, Up, Down
  <2>3. Mishap
    BY <1>1, <1>7, HappensType DEF Crash, Mishap
  <2>2. Dies
    BY <2>1, <2>3, HalfDoneRows DEF Dies
  <2> QED
    BY <2>2 DEF Kinds
<1> QED
  BY <1>3, <1>4, <1>5, <1>6, <1>7 DEF MainWork

(***************************************************************************)
(* StepKinds: every step of the daemon is of one of the kinds.             *)
(***************************************************************************)
LEMMA StepKinds ==
  ASSUME IInv, [Next]_vars
  PROVE  Kinds
<1>1. CASE UNCHANGED vars
  BY <1>1 DEF vars, schedVars, Kinds, Quiet, TasksKeep, RowsKeep
<1>2. CASE Tick \/ ClockSet
  BY <1>2 DEF Tick, ClockSet, Kinds, Quiet, TasksKeep, RowsKeep
<1>3. CASE Start \/ StartFault \/ Terminate \/ MainWork \/ ServeError \/ Crash
  BY <1>3, MainKinds
<1>4. CASE LoopWork \/ LoopFires
  BY <1>4, LoopKinds
<1>5. CASE StoreFault
  BY <1>5, FaultKinds
<1>6. CASE \E i \in OccIds : TaskWork(i) \/ RunnerExit(i)
  BY <1>6, TaskKinds
<1>7. CASE \E h \in Handlers :
             Accepts(h) \/ Requests(h) \/ HandlerProceeds(h) \/ HandlerAborted(h)
  BY <1>7, HandlerKinds
<1> QED
  BY <1>1, <1>2, <1>3, <1>4, <1>5, <1>6, <1>7 DEF Next

-----------------------------------------------------------------------------
(* The mutex and the counter. *)

\* No process, no volatile state.
Idle ==
  ~ Up => /\ loop.pc = "off"
          /\ \A h \in Handlers : handler[h].pc = "free"
          /\ \A i \in OccIds : ~ TaskIs(i, Owning)

GateHeld == \A i \in OccIds : TaskIs(i, {"running"} \cup Outcomes) <=> gate = i

RunnersTied == \A i \in OccIds : i \in procs => TaskIs(i, {"running", "lost"})

LInv == IInv /\ Idle /\ GateHeld /\ RunnersTied /\ PendingCount

-----------------------------------------------------------------------------
(* The invariants. *)

\* What the end of the process does to one task.
LEMMA EndedTask ==
  ASSUME TypeOK, ProcessEnds, NEW i \in OccIds
  PROVE  /\ TaskIs(i, Owning) => task'[i] # NULL /\ task'[i].pc = "lost"
         /\ TaskIs(i, {"sent", "last"}) => task'[i] # NULL /\ task'[i].pc = "done"
         /\ ~ TaskIs(i, Owning \cup {"sent", "last"}) => task'[i] = task[i]
         /\ task[i] # NULL => task'[i] # NULL /\ SameRun(i)
<1> DEFINE t == task[i]
           l == [t EXCEPT !.pc = "lost"]
           n == [t EXCEPT !.pc = "done"]
<1>1. task'[i] = IF TaskIs(i, Owning) THEN l ELSE IF TaskIs(i, {"sent", "last"}) THEN n ELSE t
  BY DEF ProcessEnds
<1>2. t \in Task \cup {NULL}
  BY DEF TypeOK
<1>3. t # NULL => l \in Task /\ n \in Task /\ l.pc = "lost" /\ n.pc = "done"
  BY <1>2 DEF Task, Owning
<1>7. task[i] # NULL => task'[i] # NULL /\ SameRun(i)
  <2>1. t # NULL => /\ l.job = t.job /\ l.slot = t.slot /\ l.born = t.born
                    /\ n.job = t.job /\ n.slot = t.slot /\ n.born = t.born
    BY <1>2 DEF Task
  <2>2. task'[i] \in {l, n, t}
    BY <1>1
  <2> HIDE DEF l, n
  <2> QED
    BY <1>3, <2>1, <2>2, TaskAssumption DEF SameRun
<1>4. CASE TaskIs(i, Owning)
  BY <1>1, <1>3, <1>4, <1>7, TaskAssumption DEF TaskIs, Owning, Outcomes
<1>5. CASE TaskIs(i, {"sent", "last"})
  BY <1>1, <1>3, <1>5, <1>7, TaskAssumption DEF TaskIs, Owning, Outcomes
<1>6. CASE ~ TaskIs(i, Owning) /\ ~ TaskIs(i, {"sent", "last"})
  BY <1>1, <1>6, <1>7 DEF TaskIs
<1> QED
  BY <1>4, <1>5, <1>6 DEF TaskIs

LEMMA IdleStep ==
  ASSUME TypeOK, Idle, [Next]_vars
  PROVE  Idle'
<1>1. CASE UNCHANGED vars
  BY <1>1 DEF vars, schedVars, Idle, Up, TaskIs
<1>2. CASE Start \/ Terminate \/ ServeBreak \/ ServeJoined \/ ServeError \/ Stopping
  BY <1>2 DEF Start, Terminate, ServeBreak, ServeJoined, ServeError, Stopping, Idle, Up, Down
<1>3. CASE StartFault
  BY <1>3 DEF StartFault, Idle, Up, TaskIs
<1>4. CASE Exit \/ Crash
  <2>1. ProcessEnds
    BY <1>4 DEF Exit, Crash
  <2>2. loop'.pc = "off" /\ \A h \in Handlers : handler'[h].pc = "free"
    BY <2>1 DEF ProcessEnds, LoopAt, HandlerAt
  <2>3. \A i \in OccIds : ~ TaskIs(i, Owning)'
    BY <2>1, EndedTask DEF TaskIs, Owning, Outcomes
  <2> QED
    BY <2>2, <2>3 DEF Idle
<1>5. CASE LoopWork \/ LoopFires
  <2>1. main' = main /\ loop.pc # "off"
    BY <1>5 DEF LoopWork, LoopFires, LoopPlan, LoopNotified, LoopCancelled, WakeNothingDue,
       WakeConflict, WakeClaim, LoopSkip, LoopTimeout
  <2> QED
    BY <2>1 DEF Idle, Up
<1>6. CASE StoreFault
  <2>1. main' = main
    BY <1>6 DEF StoreFault
  <2>2. ASSUME ~ Up PROVE FALSE
    BY <1>6, <2>2 DEF StoreFault, LoopPlanFault, WakeFaultUnclaimed, LoopSkipFault, WakeFault,
       ExecFinishFault, HandlerRunNowFault, CommitFault, Reading, Idle, TaskIs, Owning
  <2> QED
    BY <2>1, <2>2 DEF Idle, Up
<1>7. ASSUME NEW i \in OccIds, TaskWork(i) \/ RunnerExit(i) PROVE Idle'
  <2>1. UNCHANGED <<main, handler, loop>>
    BY <1>7 DEF TaskWork, RunnerExit, ExecStart, ExecRefused, ExecEnd, ExecFinish, ExecDone,
       ExecNotify, OrphanExit
  <2>2. CASE Up
    BY <2>1, <2>2 DEF Idle, Up
  <2>3. CASE ~ Up
    <3>1. ~ TaskIs(i, Owning)
      BY <2>3 DEF Idle
    <3>2. ExecDone(i) \/ ExecNotify(i) \/ OrphanExit(i)
      BY <1>7, <3>1 DEF TaskWork, RunnerExit, ExecStart, ExecRefused, ExecEnd, ExecFinish, TaskIs,
         Owning
    <3>3. \/ \E q \in {"last", "done"} : task[i] # NULL /\ SetTask(i, q)
          \/ task' = task
      BY <3>2 DEF ExecDone, ExecNotify, OrphanExit, TaskIs
    <3>4. \A k \in OccIds : ~ TaskIs(k, Owning)'
      BY <2>3, <3>3, SetTaskType DEF Idle, TaskIs, Owning, Outcomes
    <3> QED
      BY <2>1, <2>3, <3>4 DEF Idle, Up
  <2> QED
    BY <2>2, <2>3
<1>8. ASSUME NEW h \in Handlers,
             Accepts(h) \/ Requests(h) \/ HandlerProceeds(h) \/ HandlerAborted(h)
      PROVE  Idle'
  <2>1. main' = main
    BY <1>8 DEF Accepts, Requests, HandlerProceeds, HandlerAborted
  <2>2. ASSUME ~ Up PROVE FALSE
    <3>1. handler[h].pc = "free" /\ main \in Down
      BY <2>2 DEF Idle, Up
    <3> QED
      BY <1>8, <3>1 DEF Accepts, Requests, HandlerRequest, HandlerReply, CommitAdd, CommitEdit,
         CommitDelete, CommitSetEnabled, HandlerRunNow, Reading, HandlerProceeds, HandlerWork,
         HandlerNotify, HandlerEnqueue, HandlerAnswered, HandlerAborted, Down
  <2> QED
    BY <2>1, <2>2 DEF Idle, Up
<1>9. CASE Tick \/ ClockSet
  <2>1. UNCHANGED <<main, handler, task>> /\ loop'.pc = loop.pc
    BY <1>9 DEF Tick, ClockSet, TypeOK, Loop
  <2> QED
    BY <2>1 DEF Idle, Up, TaskIs
<1> QED
  BY <1>1, <1>2, <1>3, <1>4, <1>5, <1>6, <1>7, <1>8, <1>9 DEF Next, MainWork

LEMMA GateStep ==
  ASSUME IInv, GateHeld, RunnersTied, Kinds
  PROVE  GateHeld' /\ RunnersTied'
<1>1. TypeOK
  BY DEF IInv
<1>2. \A i \in OccIds : i # 0
  BY DEF OccIds
<1>3. CASE Quiet \/ Forgets \/ Recovers \/ Strays
  BY <1>3 DEF Quiet, Forgets, Recovers, Strays, TasksKeep, GateHeld, RunnersTied, TaskIs
<1>4. CASE Dies
  <2>1. ProcessEnds /\ gate' = 0 /\ procs' \subseteq procs
    BY <1>4 DEF Dies, ProcessEnds
  <2>2. \A i \in OccIds : ~ TaskIs(i, {"running"} \cup Outcomes)'
    BY <1>1, <2>1, EndedTask DEF TaskIs, Owning, Outcomes
  <2>3. \A i \in OccIds : TaskIs(i, {"running", "lost"}) => TaskIs(i, {"lost"})'
    BY <1>1, <2>1, EndedTask DEF TaskIs, Owning, Outcomes
  <2>4. GateHeld'
    BY <1>2, <2>1, <2>2 DEF GateHeld
  <2>5. RunnersTied'
    BY <2>1, <2>3 DEF RunnersTied, TaskIs
  <2> QED
    BY <2>4, <2>5
<1>5. ASSUME NEW i \in OccIds, Claims(i) \/ Queues(i) PROVE GateHeld' /\ RunnersTied'
  BY <1>5 DEF Claims, Queues, Enters, GateHeld, RunnersTied, TaskIs, Outcomes
<1>6. ASSUME NEW i \in OccIds, Enqueues(i) \/ CountsDown(i) \/ Notifies(i) \/ Skips(i)
      PROVE  GateHeld' /\ RunnersTied'
  BY <1>6 DEF Enqueues, CountsDown, Notifies, Skips, Moves, GateHeld, RunnersTied, TaskIs, Outcomes
<1>7. ASSUME NEW i \in OccIds, Begins(i) \/ Refuses(i) \/ Stops(i)
      PROVE  GateHeld' /\ RunnersTied'
  <2>1. GateHeld'
    BY <1>2, <1>7 DEF Begins, Refuses, Stops, Moves, GateHeld, TaskIs, Outcomes
  <2>2. RunnersTied'
    BY <1>7 DEF Begins, Refuses, Stops, Moves, RunnersTied, TaskIs, Outcomes
  <2> QED
    BY <2>1, <2>2
<1>8. ASSUME NEW i \in OccIds, Settles(i) \/ Vanishes(i)
      PROVE  GateHeld' /\ RunnersTied'
  <2>1. GateHeld'
    BY <1>2, <1>8 DEF Settles, Vanishes, Moves, GateHeld, TaskIs, Outcomes
  <2>2. RunnersTied'
    BY <1>8 DEF Settles, Vanishes, Moves, RunnersTied, TaskIs, Outcomes
  <2> QED
    BY <2>1, <2>2
<1> QED
  BY <1>3, <1>4, <1>5, <1>6, <1>7, <1>8 DEF Kinds

LEMMA PendingStep ==
  ASSUME IInv, PendingCount, Kinds
  PROVE  PendingCount'
<1> DEFINE S == {k \in OccIds : TaskIs(k, Counted)}
<1>1. TypeOK
  BY DEF IInv
<1>2. IsFiniteSet(S) /\ Cardinality(S) \in Nat
  <2>1. IsFiniteSet(OccIds)
    BY FS_Interval, BoundsAssumption DEF OccIds
  <2>2. IsFiniteSet(S)
    BY <2>1, FS_Subset
  <2> QED
    BY <2>2, FS_CardinalityType
<1>3. pending = Cardinality(S)
  BY DEF PendingCount
<1>4. ASSUME S' = S, pending' = pending PROVE PendingCount'
  BY <1>3, <1>4 DEF PendingCount
<1>5. ASSUME NEW i \in OccIds, i \notin S, S' = S \cup {i}, pending' = pending + 1
      PROVE  PendingCount'
  <2>1. Cardinality(S \cup {i}) = Cardinality(S) + 1
    BY <1>2, <1>5, FS_AddElement
  <2> QED
    BY <1>3, <1>5, <2>1 DEF PendingCount
<1>6. ASSUME NEW i \in OccIds, i \in S, S' = S \ {i}, pending' = pending - 1
      PROVE  PendingCount'
  <2>1. Cardinality(S \ {i}) = Cardinality(S) - 1
    BY <1>2, <1>6, FS_RemoveElement
  <2> QED
    BY <1>3, <1>6, <2>1 DEF PendingCount
<1>7. CASE Quiet \/ Forgets \/ Recovers \/ Strays
  <2>1. task' = task /\ pending' = pending
    BY <1>7 DEF Quiet, Forgets, Recovers, Strays, TasksKeep
  <2>2. S' = S
    BY <2>1 DEF TaskIs
  <2> QED
    BY <1>4, <2>1, <2>2
<1>8. CASE Dies
  <2>1. ProcessEnds /\ pending' = 0
    BY <1>8 DEF Dies, ProcessEnds
  <2>2. \A k \in OccIds : ~ TaskIs(k, Counted)'
    BY <1>1, <2>1, EndedTask DEF TaskIs, Owning, Outcomes, Counted
  <2>3. S' = {}
    BY <2>2
  <2>4. Cardinality({}) = 0
    BY FS_EmptySet
  <2> QED
    BY <2>1, <2>3, <2>4 DEF PendingCount
<1>9. ASSUME NEW i \in OccIds, Queues(i) \/ Enqueues(i) PROVE PendingCount'
  <2>1. pending' = pending + 1 /\ \A k \in OccIds \ {i} : task'[k] = task[k]
    BY <1>9 DEF Queues, Enqueues, Enters, Moves
  <2>2. ~ TaskIs(i, Counted) /\ TaskIs(i, Counted)'
    BY <1>9 DEF Queues, Enqueues, Enters, Moves, TaskIs, Counted, Outcomes
  <2>3. i \notin S /\ S' = S \cup {i}
    BY <2>1, <2>2 DEF TaskIs
  <2> QED
    BY <1>5, <2>1, <2>3
<1>10. ASSUME NEW i \in OccIds, CountsDown(i) PROVE PendingCount'
  <2>1. pending' = pending - 1 /\ \A k \in OccIds \ {i} : task'[k] = task[k]
    BY <1>10 DEF CountsDown, Moves
  <2>2. TaskIs(i, Counted) /\ ~ TaskIs(i, Counted)'
    BY <1>10 DEF CountsDown, Moves, TaskIs, Counted, Outcomes
  <2>3. i \in S /\ S' = S \ {i}
    BY <2>1, <2>2 DEF TaskIs
  <2> QED
    BY <1>6, <2>1, <2>3
<1>11. ASSUME NEW i \in OccIds,
              \/ Claims(i) \/ Begins(i) \/ Refuses(i) \/ Stops(i) \/ Settles(i) \/ Skips(i)
              \/ Notifies(i) \/ Vanishes(i)
       PROVE  PendingCount'
  <2>1. pending' = pending /\ \A k \in OccIds \ {i} : task'[k] = task[k]
    BY <1>11 DEF Claims, Begins, Refuses, Stops, Settles, Skips, Notifies, Vanishes, Enters, Moves
  <2>2. TaskIs(i, Counted)' <=> TaskIs(i, Counted)
    BY <1>11 DEF Claims, Begins, Refuses, Stops, Settles, Skips, Notifies, Vanishes, Enters, Moves,
       TaskIs, Counted, Outcomes
  <2>3. S' = S
    BY <2>1, <2>2 DEF TaskIs
  <2> QED
    BY <1>4, <2>1, <2>3
<1> HIDE DEF S
<1> QED
  BY <1>7, <1>8, <1>9, <1>10, <1>11 DEF Kinds

LEMMA InitLInv == Init => LInv
<1> SUFFICES ASSUME Init PROVE LInv
  OBVIOUS
<1>1. IInv
  BY InitIInv
<1>2. /\ \A i \in OccIds : task[i] = NULL /\ i # 0
      /\ gate = 0 /\ procs = {} /\ pending = 0
  BY DEF Init, SchedulerInit, OccIds
<1>3. Idle
  BY <1>2 DEF Init, SchedulerInit, ServiceInit, LoopAt, HandlerAt, Idle, TaskIs
<1>4. GateHeld /\ RunnersTied
  BY <1>2 DEF GateHeld, RunnersTied, TaskIs
<1>5. {i \in OccIds : TaskIs(i, Counted)} = {}
  BY <1>2 DEF TaskIs
<1>6. Cardinality({}) = 0
  BY FS_EmptySet
<1>7. PendingCount
  BY <1>2, <1>5, <1>6 DEF PendingCount
<1> QED
  BY <1>1, <1>3, <1>4, <1>7 DEF LInv

LEMMA NextLInv == LInv /\ [Next]_vars => LInv'
<1> SUFFICES ASSUME LInv, [Next]_vars PROVE LInv'
  OBVIOUS
<1>1. IInv /\ TypeOK /\ Kinds
  BY StepKinds DEF LInv, IInv
<1>2. IInv'
  BY <1>1, NextIInv
<1>3. Idle'
  BY <1>1, IdleStep DEF LInv
<1>4. GateHeld' /\ RunnersTied' /\ PendingCount'
  BY <1>1, GateStep, PendingStep DEF LInv
<1> QED
  BY <1>2, <1>3, <1>4 DEF LInv

(***************************************************************************)
(* LedgerInductive: the strengthened invariant holds in every reachable    *)
(* state.                                                                  *)
(***************************************************************************)
THEOREM LedgerInductive == Spec => []LInv
<1> QED
  BY InitLInv, NextLInv, PTL DEF Spec

(***************************************************************************)
(* OneAtATime: at most one run of a process is behind the execution mutex, *)
(* and no runner of it is alive outside, for any number of occurrences.    *)
(***************************************************************************)
THEOREM OneAtATime == Spec => []SerialGate
<1>1. LInv => SerialGate
  BY DEF LInv, GateHeld, RunnersTied, SerialGate, TaskIs, Outcomes
<1> QED
  BY <1>1, LedgerInductive, PTL

(***************************************************************************)
(* PendingIsExact: the counter that Scheduler::stop waits on is the number *)
(* of tasks that have not counted down, whatever crashes and faults.       *)
(***************************************************************************)
THEOREM PendingIsExact == Spec => []PendingCount
<1>1. LInv => PendingCount
  BY DEF LInv
<1> QED
  BY <1>1, LedgerInductive, PTL

-----------------------------------------------------------------------------
(* The table as the ledger's status. *)

Status == [i \in OccIds |-> RowStatus(i)]
Effect == [i \in OccIds |-> RunEffect(i)]

LEMMA StatusType ==
  ASSUME IInv, NEW i \in OccIds
  PROVE  /\ db.occ[i] = NULL => RowStatus(i) = IF i <= db.seq THEN "gone" ELSE "absent"
         /\ db.occ[i] # NULL => /\ RowStatus(i) = db.occ[i].status
                               /\ RowStatus(i) \in {"claimed", "completed", "skipped"}
                               /\ i <= db.seq
         /\ RowStatus(i) = "absent" <=> i > db.seq
<1>1. db.occ[i] # NULL => db.occ[i].status \in {"claimed", "completed", "skipped"}
  BY DEF IInv, TypeOK, Store, Row, Statuses
<1>2. db.occ[i] # NULL => i <= db.seq
  BY DEF IInv, IdsInOrder
<1>3. i \in Int /\ db.seq \in Int
  BY DEF OccIds, IInv, TypeOK, Store
<1>4. CASE db.occ[i] = NULL
  BY <1>3, <1>4 DEF RowStatus
<1>5. CASE db.occ[i] # NULL
  BY <1>1, <1>2, <1>3, <1>5 DEF RowStatus
<1> QED
  BY <1>4, <1>5

LEMMA KeptStatus ==
  ASSUME NEW i \in OccIds, db'.occ[i] = db.occ[i], db'.seq = db.seq
  PROVE  RowStatus(i)' = RowStatus(i)
BY DEF RowStatus

\* A new row takes the lowest id that was never given.
LEMMA NewRowClaims ==
  ASSUME IInv, IInv', NEW i \in OccIds, RowClaimed(db, db', i)
  PROVE  Book!Claimed(i, Status')
<1>0. /\ i = db.seq + 1 /\ db'.seq = i
      /\ db'.occ[i] # NULL /\ db'.occ[i].status = "claimed"
      /\ \A k \in OccIds \ {i} : db'.occ[k] = db.occ[k]
  BY ClaimedRow DEF IInv, TypeOK
<1>1. db.seq \in Int /\ db'.seq = db.seq + 1 /\ i = db.seq + 1 /\ \A k \in OccIds : k \in Int
  BY <1>0 DEF IInv, TypeOK, Store, OccIds
<1>2. RowStatus(i) = "absent"
  BY <1>1, StatusType
<1>3. \A k \in OccIds : k < i => RowStatus(k) # "absent"
  BY <1>1, StatusType
<1>4. RowStatus(i)' = "claimed"
  BY <1>0 DEF RowStatus
<1>5. ASSUME NEW k \in OccIds \ {i} PROVE RowStatus(k)' = RowStatus(k)
  <2>1. db'.occ[k] = db.occ[k]
    BY <1>0, <1>5
  <2>2. k <= db'.seq <=> k <= db.seq
    BY <1>1, <1>5
  <2> QED
    BY <2>1, <2>2 DEF RowStatus
<1>6. Status' = [Status EXCEPT ![i] = "claimed"]
  BY <1>4, <1>5 DEF Status
<1> QED
  BY <1>2, <1>3, <1>6 DEF Book!Claimed, Status

LEMMA SettledRows ==
  ASSUME IInv, NEW i \in OccIds, NEW out \in {"completed", "skipped"},
         RowsSettle(db, db', i, out),
         RunEffect(i) = "begun" \/ (RunEffect(i) = "waiting" /\ out = "skipped")
  PROVE  Book!Settled(i, out, Status')
<1>1. ASSUME NEW k \in OccIds
      PROVE  \/ RowStatus(k)' = RowStatus(k)
             \/ RowStatus(k)' = "gone" /\ RowStatus(k) # "absent"
             \/ RowStatus(k)' = out /\ k = i /\ RowStatus(k) = "claimed"
  <2>1. db'.seq = db.seq
    BY DEF RowsSettle
  <2>2. CASE db'.occ[k] = db.occ[k]
    BY <2>1, <2>2, KeptStatus
  <2>3. CASE db'.occ[k] = NULL /\ db.occ[k] # NULL
    <3>1. k <= db.seq /\ RowStatus(k) # "absent"
      BY <2>3, StatusType
    <3>2. RowStatus(k)' = "gone"
      BY <2>1, <2>3, <3>1 DEF RowStatus
    <3> QED
      BY <3>1, <3>2
  <2>4. CASE k = i /\ IsClaimed(db, i) /\ db'.occ[i] # NULL /\ db'.occ[i].status = out
    BY <2>4 DEF RowStatus, IsClaimed
  <2> QED
    BY <2>2, <2>3, <2>4, SettledRow DEF IInv, TypeOK, Expendable
<1> QED
  BY <1>1 DEF Book!Settled, Status, Effect

LEMMA ForgottenRows ==
  ASSUME IInv, RowsForget(db, db'), Effect' = Effect
  PROVE  Book!Forget
<1>1. ASSUME NEW k \in OccIds
      PROVE  \/ RowStatus(k)' = RowStatus(k)
             \/ RowStatus(k) \in {"completed", "skipped"} /\ RowStatus(k)' = "gone"
  <2>1. db'.seq = db.seq
    BY DEF RowsForget
  <2>2. CASE db'.occ[k] = db.occ[k]
    BY <2>1, <2>2, KeptStatus
  <2>3. CASE IsTerminal(db, k) /\ db'.occ[k] = NULL
    <3>1. db.occ[k] # NULL /\ db.occ[k].status # "claimed"
      BY <2>3 DEF IsTerminal
    <3>2. k <= db.seq /\ RowStatus(k) \in {"completed", "skipped"}
      BY <3>1, StatusType
    <3>3. RowStatus(k)' = "gone"
      BY <2>1, <2>3, <3>2 DEF RowStatus
    <3> QED
      BY <3>2, <3>3
  <2> QED
    BY <2>2, <2>3 DEF RowsForget
<1> QED
  BY <1>1 DEF Book!Forget, Book!Terminal, Effect

-----------------------------------------------------------------------------
(* The tasks as the ledger's effect. *)

LEMMA EffectIs ==
  ASSUME NEW i \in OccIds
  PROVE  /\ task[i] = NULL => RunEffect(i) = "none"
         /\ TaskIs(i, {"claimed", "missed", "queued"}) => RunEffect(i) = "waiting"
         /\ TaskIs(i, {"running"} \cup Outcomes) => RunEffect(i) = "begun"
         /\ TaskIs(i, {"sent", "last", "done", "lost"}) => RunEffect(i) = "over"
BY DEF RunEffect, TaskIs, Outcomes

LEMMA NextEffectIs ==
  ASSUME NEW i \in OccIds
  PROVE  /\ TaskIs(i, {"claimed", "missed", "queued"})' => RunEffect(i)' = "waiting"
         /\ TaskIs(i, {"running"} \cup Outcomes)' => RunEffect(i)' = "begun"
         /\ TaskIs(i, {"sent", "last", "done", "lost"})' => RunEffect(i)' = "over"
BY DEF RunEffect, TaskIs, Outcomes

LEMMA KeptEffect ==
  ASSUME NEW i \in OccIds, \A k \in OccIds \ {i} : task'[k] = task[k]
  PROVE  Effect' = [Effect EXCEPT ![i] = RunEffect(i)']
<1>1. \A k \in OccIds \ {i} : RunEffect(k)' = RunEffect(k)
  BY DEF RunEffect
<1> QED
  BY <1>1 DEF Effect

LEMMA SameEffect ==
  ASSUME NEW i \in OccIds, \A k \in OccIds \ {i} : task'[k] = task[k],
         RunEffect(i)' = RunEffect(i)
  PROVE  Effect' = Effect
<1>1. \A k \in OccIds : RunEffect(k)' = RunEffect(k)
  BY DEF RunEffect
<1> QED
  BY <1>1 DEF Effect

\* Only a table whose rows all stay stands for the same status.
LEMMA SameStatus ==
  ASSUME RowsKeep(db, db')
  PROVE  Status' = Status
<1>1. \A k \in OccIds : RowStatus(k)' = RowStatus(k)
  BY KeptStatus DEF RowsKeep
<1> QED
  BY <1>1 DEF Status

\* A step that changes neither is none of the ledger's.
LEMMA Stutters ==
  ASSUME Status' = Status, Effect' = Effect
  PROVE  UNCHANGED Book!vars
BY DEF Book!vars, Status, Effect

LEMMA ClaimStep ==
  ASSUME LInv, IInv', NEW i \in OccIds, Claims(i) \/ Queues(i)
  PROVE  Book!Claim(i)
<1>1. RowClaimed(db, db', i) /\ Enters(i, {"claimed", "missed", "queued"})
  BY DEF Claims, Queues, Enters, Enrolls, RowClaimed, TaskIs
<1>2. Book!Claimed(i, Status')
  BY <1>1, NewRowClaims DEF LInv
<1>3. RunEffect(i) = "none" /\ RunEffect(i)' = "waiting"
  BY <1>1, EffectIs, NextEffectIs DEF Enters
<1>4. Effect' = [Effect EXCEPT ![i] = "waiting"]
  BY <1>1, <1>3, KeptEffect DEF Enters
<1> QED
  BY <1>2, <1>3, <1>4 DEF Book!Claim, Status, Effect

LEMMA StrayStep ==
  ASSUME LInv, IInv', NEW i \in OccIds, RowClaimed(db, db', i), TasksKeep
  PROVE  Book!Claim(i)
<1>1. Book!Claimed(i, Status')
  BY NewRowClaims DEF LInv
<1>2. task[i] = NULL
  <2>1. IdsInOrder /\ db \in Store
    BY DEF LInv, IInv, TypeOK
  <2>2. i = db.seq + 1 /\ db.seq \in Int
    BY <2>1, ClaimedRow DEF Store
  <2> QED
    BY <2>1, <2>2 DEF IdsInOrder
<1>3. RunEffect(i) = "none"
  BY <1>2, EffectIs
<1>4. Effect' = Effect
  BY DEF TasksKeep, Effect, RunEffect
<1> QED
  BY <1>1, <1>3, <1>4 DEF Book!Claim, Status, Effect

\* The mutex is free, so no effect is begun.
LEMMA BeginStep ==
  ASSUME LInv, NEW i \in OccIds, Begins(i) \/ Refuses(i)
  PROVE  Book!Begin(i)
<1>1. /\ RowsKeep(db, db') /\ gate = 0
      /\ Moves(i, {"queued"}, {"running"} \cup Outcomes)
  BY DEF Begins, Refuses, Moves, TaskIs, Outcomes
<1>2. TaskIs(i, {"claimed", "missed", "queued"})
  BY <1>1 DEF Moves, TaskIs
<1>3. RunEffect(i) = "waiting" /\ RunEffect(i)' = "begun"
  BY <1>1, <1>2, EffectIs, NextEffectIs DEF Moves
<1>4. Effect' = [Effect EXCEPT ![i] = "begun"]
  BY <1>1, <1>3, KeptEffect DEF Moves
<1>5. ASSUME NEW k \in OccIds PROVE RunEffect(k) # "begun"
  <2>1. k # 0
    BY DEF OccIds
  <2>2. ~ TaskIs(k, {"running"} \cup Outcomes)
    BY <1>1, <2>1 DEF LInv, GateHeld
  <2> QED
    BY <2>2 DEF RunEffect, TaskIs
<1>6. Status' = Status
  BY <1>1, SameStatus
<1> QED
  BY <1>3, <1>4, <1>5, <1>6 DEF Book!Begin, Status, Effect

LEMMA SettleStep ==
  ASSUME LInv, NEW i \in OccIds, Settles(i) \/ Skips(i)
  PROVE  \E out \in {"completed", "skipped"} : Book!Settle(i, out)
<1>1. RunEffect(i)' = "over" /\ \A k \in OccIds \ {i} : task'[k] = task[k]
  <2>1. TaskIs(i, {"sent", "last", "done", "lost"})'
    BY DEF Settles, Skips, Moves, TaskIs
  <2> QED
    BY <2>1, NextEffectIs DEF Settles, Skips, Moves
<1>2. Effect' = [Effect EXCEPT ![i] = "over"]
  BY <1>1, KeptEffect
<1>3. PICK out \in {"completed", "skipped"} :
         /\ RowsSettle(db, db', i, out)
         /\ RunEffect(i) = "begun" \/ (RunEffect(i) = "waiting" /\ out = "skipped")
  <2>1. CASE Settles(i)
    <3>1. TaskIs(i, Outcomes) /\ TaskIs(i, {"running"} \cup Outcomes)
      BY <2>1 DEF Settles, Moves, TaskIs
    <3>2. task[i].pc \in {"completed", "skipped"} /\ RunEffect(i) = "begun"
      BY <3>1, EffectIs DEF TaskIs, Outcomes
    <3> QED
      BY <2>1, <3>2 DEF Settles
  <2>2. CASE Skips(i)
    <3>1. TaskIs(i, {"claimed", "missed", "queued"})
      BY <2>2 DEF Skips, Moves, TaskIs
    <3> QED
      BY <2>2, <3>1, EffectIs DEF Skips
  <2> QED
    BY <2>1, <2>2
<1>4. Book!Settled(i, out, Status')
  BY <1>3, SettledRows DEF LInv
<1> QED
  BY <1>2, <1>4 DEF Book!Settle, Status, Effect

LEMMA RecoverStep ==
  ASSUME LInv, Recovers
  PROVE  Book!Recover
<1>1. ASSUME NEW i \in OccIds PROVE RunEffect(i) \notin {"waiting", "begun"}
  <2>1. ~ TaskIs(i, Owning)
    BY DEF LInv, Idle, Recovers
  <2> QED
    BY <2>1 DEF RunEffect, TaskIs, Owning
<1>2. Effect' = Effect
  BY DEF Recovers, TasksKeep, Effect, RunEffect
<1>3. ASSUME NEW i \in OccIds
      PROVE  RowStatus(i)' = IF RowStatus(i) = "claimed" THEN "skipped" ELSE RowStatus(i)
  <2>1. RowsRecover(db, db') /\ db'.seq = db.seq
    BY DEF Recovers, RowsRecover
  <2>2. CASE IsClaimed(db, i)
    <3>1. RowStatus(i) = "claimed"
      BY <2>2 DEF IsClaimed, RowStatus
    <3>2. RowStatus(i)' = "skipped"
      BY <2>1, <2>2, RecoveredRow DEF LInv, IInv, TypeOK, RowStatus
    <3> QED
      BY <3>1, <3>2
  <2>3. CASE ~ IsClaimed(db, i)
    <3>1. db'.occ[i] = db.occ[i]
      BY <2>1, <2>3 DEF RowsRecover
    <3>2. RowStatus(i)' = RowStatus(i)
      BY <2>1, <3>1, KeptStatus
    <3>3. RowStatus(i) # "claimed"
      BY <2>3 DEF IsClaimed, RowStatus
    <3> QED
      BY <3>2, <3>3
  <2> QED
    BY <2>2, <2>3
<1> QED
  BY <1>1, <1>2, <1>3 DEF Book!Recover, Book!Live, Status, Effect

LEMMA AbandonStep ==
  ASSUME LInv, IInv', Dies
  PROVE  Book!Abandon
<1>1. TypeOK /\ IInv /\ ProcessEnds
  BY DEF LInv, IInv, Dies
<1>2. ASSUME NEW i \in OccIds
      PROVE  RunEffect(i)' = IF RunEffect(i) \in {"waiting", "begun"} THEN "over" ELSE RunEffect(i)
  <2>1. CASE TaskIs(i, Owning)
    <3>1. RunEffect(i)' = "over"
      BY <1>1, <2>1, EndedTask DEF RunEffect, Outcomes
    <3>2. RunEffect(i) \in {"waiting", "begun"}
      BY <2>1 DEF RunEffect, TaskIs, Owning
    <3> QED
      BY <3>1, <3>2
  <2>2. CASE TaskIs(i, {"sent", "last"})
    <3>1. RunEffect(i)' = "over"
      BY <1>1, <2>2, EndedTask DEF RunEffect, Outcomes
    <3>2. RunEffect(i) = "over"
      BY <2>2, EffectIs DEF TaskIs
    <3> QED
      BY <3>1, <3>2
  <2>3. CASE ~ TaskIs(i, Owning \cup {"sent", "last"})
    <3>1. RunEffect(i)' = RunEffect(i)
      BY <1>1, <2>3, EndedTask DEF RunEffect
    <3>2. RunEffect(i) \notin {"waiting", "begun"}
      BY <2>3 DEF RunEffect, TaskIs, Owning
    <3> QED
      BY <3>1, <3>2
  <2> QED
    BY <2>1, <2>2, <2>3 DEF TaskIs
<1>3. Effect' = [i \in OccIds |-> IF RunEffect(i) \in {"waiting", "begun"} THEN "over"
                                  ELSE RunEffect(i)]
  BY <1>2 DEF Effect
<1>4. \/ Status' = Status
      \/ \E i \in OccIds : Book!Claimed(i, Status')
      \/ \E i \in OccIds, out \in {"completed", "skipped"} : Book!Settled(i, out, Status')
  <2>1. CASE RowsKeep(db, db')
    BY <2>1, SameStatus
  <2>2. CASE \E i \in OccIds : RowClaimed(db, db', i)
    BY <1>1, <2>2, NewRowClaims
  <2>3. ASSUME NEW i \in OccIds, TaskIs(i, Outcomes), RowsSettle(db, db', i, task[i].pc)
        PROVE  \E out \in {"completed", "skipped"} : Book!Settled(i, out, Status')
    <3>1. PICK out \in {"completed", "skipped"} : out = task[i].pc
      BY <2>3 DEF TaskIs, Outcomes
    <3>2. TaskIs(i, {"running"} \cup Outcomes)
      BY <2>3 DEF TaskIs
    <3>3. RunEffect(i) = "begun"
      BY <3>2, EffectIs
    <3> QED
      BY <1>1, <2>3, <3>1, <3>3, SettledRows
  <2>4. ASSUME NEW i \in OccIds, TaskIs(i, {"missed"}), RowsSettle(db, db', i, "skipped")
        PROVE  Book!Settled(i, "skipped", Status')
    <3>1. TaskIs(i, {"claimed", "missed", "queued"})
      BY <2>4 DEF TaskIs
    <3>2. RunEffect(i) = "waiting"
      BY <3>1, EffectIs
    <3> QED
      BY <1>1, <2>4, <3>2, SettledRows
  <2> QED
    BY <2>1, <2>2, <2>3, <2>4 DEF Dies
<1> QED
  BY <1>3, <1>4 DEF Book!Abandon, Book!Live, Status, Effect

LEMMA LedgerStep ==
  ASSUME LInv, IInv', Kinds
  PROVE  [Book!Next]_(Book!vars)
<1>1. CASE Quiet
  <2>1. Status' = Status
    BY <1>1, SameStatus DEF Quiet
  <2>2. Effect' = Effect
    BY <1>1 DEF Quiet, TasksKeep, Effect, RunEffect
  <2> QED
    BY <2>1, <2>2, Stutters
<1>2. CASE Forgets
  <2>1. Effect' = Effect
    BY <1>2 DEF Forgets, TasksKeep, Effect, RunEffect
  <2>2. Book!Forget
    BY <1>2, <2>1, ForgottenRows DEF Forgets, LInv
  <2> QED
    BY <2>2 DEF Book!Next
<1>3. CASE Recovers
  BY <1>3, RecoverStep DEF Book!Next
<1>4. CASE Strays
  BY <1>4, StrayStep DEF Strays, Book!Next
<1>5. CASE Dies
  BY <1>5, AbandonStep DEF Book!Next
<1>6. ASSUME NEW i \in OccIds, Claims(i) \/ Queues(i) PROVE Book!Next
  BY <1>6, ClaimStep DEF Book!Next
<1>7. ASSUME NEW i \in OccIds, Begins(i) \/ Refuses(i) PROVE Book!Next
  BY <1>7, BeginStep DEF Book!Next
<1>8. ASSUME NEW i \in OccIds, Settles(i) \/ Skips(i) PROVE Book!Next
  BY <1>8, SettleStep DEF Book!Next
<1>9. ASSUME NEW i \in OccIds,
             Enqueues(i) \/ Stops(i) \/ CountsDown(i) \/ Notifies(i) \/ Vanishes(i)
      PROVE  UNCHANGED Book!vars
  <2>1. RowsKeep(db, db') /\ \A k \in OccIds \ {i} : task'[k] = task[k]
    BY <1>9 DEF Enqueues, Stops, CountsDown, Notifies, Vanishes, Moves
  <2>2. RunEffect(i)' = RunEffect(i)
    BY <1>9 DEF Enqueues, Stops, CountsDown, Notifies, Vanishes, Moves, RunEffect, TaskIs, Outcomes
  <2> QED
    BY <2>1, <2>2, SameStatus, SameEffect, Stutters
<1> QED
  BY <1>1, <1>2, <1>3, <1>4, <1>5, <1>6, <1>7, <1>8, <1>9 DEF Kinds

LEMMA InitLedger == Init => Book!Init
<1> SUFFICES ASSUME Init PROVE Book!Init
  OBVIOUS
<1>1. ASSUME NEW i \in OccIds PROVE RowStatus(i) = "absent" /\ RunEffect(i) = "none"
  <2>1. db.occ[i] = NULL /\ db.seq = 0 /\ task[i] = NULL /\ i \in Int /\ i > 0
    BY DEF Init, SchedulerInit, EmptyStore, OccIds
  <2> QED
    BY <2>1 DEF RowStatus, RunEffect
<1> QED
  BY <1>1 DEF Book!Init

(***************************************************************************)
(* LedgerImplemented: the daemon implements the ledger of occurrences, for *)
(* any number of jobs, handlers, occurrences, crashes, faults and clock    *)
(* steps.                                                                  *)
(***************************************************************************)
THEOREM LedgerImplemented == Spec => ImplementsLedger
<1>1. LInv /\ LInv' /\ [Next]_vars => [Book!Next]_(Book!vars)
  <2> SUFFICES ASSUME LInv, LInv', [Next]_vars PROVE [Book!Next]_(Book!vars)
    OBVIOUS
  <2>1. IInv /\ IInv'
    BY DEF LInv
  <2> QED
    BY <2>1, StepKinds, LedgerStep
<1> QED
  BY <1>1, InitLedger, LedgerInductive, PTL DEF Spec, ImplementsLedger, Book!Spec
=============================================================================
