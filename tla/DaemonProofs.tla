---------------------------- MODULE DaemonProofs ----------------------------
(***************************************************************************)
(* Theorems about Daemon, for every value of its constants.                *)
(*                                                                         *)
(* NoAbandonedClaim is inductive together with the type invariant and      *)
(* three facts about who holds which occurrence:                           *)
(*   - ids are given in order, so a new claim hits no row and no task;     *)
(*   - the occurrence the loop is about to skip is a task of its own;      *)
(*   - a handler between claim and enqueue holds a proper id.              *)
(***************************************************************************)
EXTENDS Daemon, StoreProofs

IdsInOrder == \A i \in OccIds : db.occ[i] # NULL \/ task[i] # NULL => i <= db.seq

SkipOwned == loop.pc = "skip" => loop.occ \in OccIds /\ TaskIs(loop.occ, {"missed"})

HandlerOwns == \A h \in Handlers : handler[h].pc = "claimed" => handler[h].occ \in OccIds

IInv == TypeOK /\ IdsInOrder /\ SkipOwned /\ HandlerOwns /\ NoAbandonedClaim

\* The entry is still of the same job, slot and incarnation.
SameRun(i) ==
  task'[i].job = task[i].job /\ task'[i].slot = task[i].slot /\ task'[i].born = task[i].born

(***************************************************************************)
(* SetTaskType: moving a task on keeps the type of the task table, the run *)
(* the task is of, and every other entry.                                  *)
(***************************************************************************)
LEMMA SetTaskType ==
  ASSUME TypeOK, NEW i \in OccIds, task[i] # NULL, NEW pc,
         pc \in Owning \cup {"sent", "last", "done", "lost"}, SetTask(i, pc)
  PROVE  /\ task' \in [OccIds -> Task \cup {NULL}]
         /\ task'[i] # NULL
         /\ task'[i].pc = pc
         /\ SameRun(i)
         /\ \A k \in OccIds \ {i} : task'[k] = task[k]
<1>1. task[i] \in Task
  BY DEF TypeOK
<1> DEFINE r == [task[i] EXCEPT !.pc = pc]
<1>2. /\ r \in Task /\ r.pc = pc /\ r # NULL
      /\ r.job = task[i].job /\ r.slot = task[i].slot /\ r.born = task[i].born
  BY <1>1, TaskAssumption DEF Task
<1>3. task' = [task EXCEPT ![i] = r]
  BY DEF SetTask, TypeOK
<1> HIDE DEF r
<1> QED
  BY <1>2, <1>3 DEF TypeOK, SameRun

\* Entry i is new, of a job at a place.
NewTask(i, j, slot, pc) ==
  /\ task'[i] # NULL
  /\ task'[i].pc = pc
  /\ task'[i].job = j /\ task'[i].slot = slot /\ task'[i].born = db.jobs[j].born
  /\ \A k \in OccIds \ {i} : task'[k] = task[k]

(***************************************************************************)
(* NewTaskType: so does entering the snapshot of a newly claimed job.      *)
(***************************************************************************)
LEMMA NewTaskType ==
  ASSUME TypeOK, NEW i \in OccIds, NEW j \in JobIds, HasJob(db, j),
         NEW slot \in Nat \cup {Manual}, NEW pc \in Owning,
         task' = [task EXCEPT ![i] = Snapshot(j, slot, pc)]
  PROVE  /\ task' \in [OccIds -> Task \cup {NULL}]
         /\ NewTask(i, j, slot, pc)
<1>1. db.jobs[j] \in Job
  BY DEF TypeOK, Store, HasJob
<1> DEFINE r == Snapshot(j, slot, pc)
<1>2. /\ r \in Task /\ r.pc = pc /\ r # NULL
      /\ r.job = j /\ r.slot = slot /\ r.born = db.jobs[j].born
  BY <1>1, TaskAssumption DEF Task, Snapshot, Job
<1> HIDE DEF r
<1> QED
  BY <1>2 DEF TypeOK, r, NewTask

(***************************************************************************)
(* HandlerGoesType: a handler moving to a place where it holds nothing.    *)
(***************************************************************************)
LEMMA HandlerGoesType ==
  ASSUME TypeOK, HandlerOwns, NEW h \in Handlers, NEW pc \in {"free", "read", "notify"},
         HandlerGoes(h, pc)
  PROVE  /\ handler' \in [Handlers -> Handler]
         /\ HandlerOwns'
<1>1. HandlerAt(pc) \in Handler /\ HandlerAt(pc).pc # "claimed"
  BY DEF HandlerAt, Handler
<1> QED
  BY <1>1 DEF TypeOK, HandlerGoes, HandlerOwns

(***************************************************************************)
(* NearestType: what nearest() returns is a job with a due time.           *)
(***************************************************************************)
LEMMA NearestType ==
  ASSUME TypeOK, NEW j \in Nearest(db)
  PROVE  /\ j \in JobIds
         /\ HasJob(db, j)
         /\ db.jobs[j] \in Job
         /\ db.jobs[j].nextAt \in Nat
BY DEF TypeOK, Store, Nearest, Scheduled, HasJob, Job

(***************************************************************************)
(* AdvanceFromType: the time wake advances from is a time of the clock.    *)
(***************************************************************************)
LEMMA AdvanceFromType ==
  ASSUME TypeOK, NEW j \in Nearest(db), DueAt(j)
  PROVE  AdvanceFrom(db.jobs[j].nextAt) \in Times
BY NearestType, BoundsAssumption DEF TypeOK, Loop, AdvanceFrom, DueAt, Times

(***************************************************************************)
(* InitIInv: the initial state satisfies the invariant.                    *)
(***************************************************************************)
LEMMA InitIInv == Init => IInv
<1> SUFFICES ASSUME Init PROVE IInv
  OBVIOUS
<1>1. db \in Store
  BY BoundsAssumption DEF Init, SchedulerInit, EmptyStore, Store
<1>2. loop \in Loop
  BY BoundsAssumption DEF Init, SchedulerInit, LoopAt, Loop, Times
<1>3. handler \in [Handlers -> Handler]
  BY DEF Init, ServiceInit, HandlerAt, Handler
<1>t. task \in [OccIds -> Task \cup {NULL}]
  BY DEF Init, SchedulerInit
<1>n. now \in Times
  BY BoundsAssumption DEF Init, SchedulerInit, Times
<1>c. count \in [Mishaps -> Nat] /\ tainted \in BOOLEAN
  BY DEF Init
<1>b. permit \in BOOLEAN /\ cancelled \in BOOLEAN /\ drained \in BOOLEAN
  BY DEF Init, SchedulerInit
<1>s. gate \in OccIds \cup {0} /\ pending \in Int /\ procs \subseteq OccIds
  BY DEF Init, SchedulerInit
<1>m. /\ stop \in {"idle", "join", "check", "await", "done"}
      /\ main \in Down
  BY DEF Init, SchedulerInit, Down
<1>4. TypeOK
  BY <1>1, <1>2, <1>3, <1>t, <1>n, <1>b, <1>c, <1>s, <1>m DEF TypeOK
<1>5. IdsInOrder
  BY DEF Init, SchedulerInit, EmptyStore, IdsInOrder
<1>6. SkipOwned
  BY DEF Init, SchedulerInit, LoopAt, SkipOwned
<1>7. HandlerOwns
  BY DEF Init, ServiceInit, HandlerAt, HandlerOwns
<1>8. NoAbandonedClaim
  BY DEF Init, NoAbandonedClaim, Up, Down
<1> QED
  BY <1>4, <1>5, <1>6, <1>7, <1>8 DEF IInv

-----------------------------------------------------------------------------
(***************************************************************************)
(* Footprints.  Steps that leave the tables alone can break neither        *)
(* IdsInOrder nor NoAbandonedClaim.                                        *)
(***************************************************************************)
LEMMA TablesAlone ==
  ASSUME IInv, db' = db, task' = task, (Up /\ ~ tainted)' => Up /\ ~ tainted
  PROVE  IdsInOrder' /\ NoAbandonedClaim'
BY DEF IInv, IdsInOrder, NoAbandonedClaim, IsClaimed, TaskIs

(***************************************************************************)
(* LoopStep: the loop preserves the invariant.                             *)
(***************************************************************************)
LEMMA LoopQuietStep ==
  ASSUME IInv, UNCHANGED <<handler, main, count, tainted>>,
         LoopPlan \/ LoopNotified \/ LoopCancelled \/ WakeNothingDue \/ LoopTimeout
  PROVE  IInv'
<1>1. UNCHANGED <<db, now, cancelled, task, gate, pending, stop, drained, procs>>
  BY DEF LoopPlan, LoopNotified, LoopCancelled, WakeNothingDue, LoopTimeout
<1>2. permit' \in BOOLEAN
  BY DEF IInv, TypeOK, LoopPlan, LoopNotified, LoopCancelled, WakeNothingDue, LoopTimeout
<1>3. ASSUME ~ cancelled, NEW t \in PlanDelays PROVE t \in Nat
  <2>1. CASE Scheduled(db) = {}
    BY <1>3, <2>1, TimerAssumption DEF PlanDelays
  <2>2. CASE Scheduled(db) # {}
    <3>1. PICK j \in Nearest(db) : t = Delay(db.jobs[j].nextAt)
      BY <1>3, <2>2 DEF PlanDelays
    <3>2. db.jobs[j].nextAt \in Nat /\ now \in Nat
      BY NearestType, BoundsAssumption DEF IInv, TypeOK, Times
    <3> QED
      BY <3>1, <3>2, TimerAssumption DEF Delay
  <2> QED
    BY <2>1, <2>2
<1>4. loop' \in Loop /\ loop'.pc # "skip"
  <2>1. CASE LoopPlan
    <3>1. CASE cancelled
      BY <2>1, <3>1, BoundsAssumption DEF LoopPlan, LoopAt, Loop, Times
    <3>2. CASE ~ cancelled
      <4>1. PICK t \in PlanDelays : loop' = [LoopAt("sleep") EXCEPT !.timer = t]
        BY <2>1, <3>2 DEF LoopPlan
      <4>2. t \in Nat
        BY <1>3, <3>2, <4>1
      <4> QED
        BY <4>1, <4>2, BoundsAssumption DEF LoopAt, Loop, Times
    <3> QED
      BY <3>1, <3>2
  <2>2. CASE LoopTimeout
    BY <2>2, BoundsAssumption DEF IInv, TypeOK, LoopTimeout, LoopAt, Loop, Times
  <2>3. CASE LoopNotified \/ LoopCancelled \/ WakeNothingDue
    BY <2>3, BoundsAssumption
       DEF LoopNotified, LoopCancelled, WakeNothingDue, LoopAt, Loop, Times
  <2> QED
    BY <2>1, <2>2, <2>3
<1>5. TypeOK'
  BY <1>1, <1>2, <1>4 DEF IInv, TypeOK
<1>6. IdsInOrder' /\ NoAbandonedClaim'
  BY <1>1, TablesAlone DEF Up
<1>7. SkipOwned'
  BY <1>4 DEF SkipOwned
<1>8. HandlerOwns'
  BY DEF IInv, HandlerOwns
<1> QED
  BY <1>5, <1>6, <1>7, <1>8 DEF IInv

LEMMA WakeConflictStep ==
  ASSUME IInv, UNCHANGED <<handler, main, count, tainted>>, NEW j \in JobIds, WakeConflict(j)
  PROVE  IInv'
<1> DEFINE a == AdvanceFrom(db.jobs[j].nextAt)
<1>1. j \in Nearest(db) /\ DueAt(j) /\ TypeOK
  BY DEF WakeConflict, IInv
<1>2. a \in Times /\ db \in Store
  BY <1>1, AdvanceFromType DEF TypeOK
<1>3. db' = Advance(db, j, a) /\ task' = task
  BY DEF WakeConflict
<1> HIDE DEF a
<1>4. db' \in Store /\ db'.occ = db.occ /\ db'.seq = db.seq
  BY <1>2, <1>3, AdvanceType
<1>5. loop' \in Loop /\ loop'.pc # "skip"
  BY BoundsAssumption DEF WakeConflict, LoopAt, Loop, Times
<1>6. TypeOK'
  BY <1>1, <1>4, <1>5 DEF WakeConflict, TypeOK
<1>7. IdsInOrder' /\ NoAbandonedClaim'
  BY <1>3, <1>4 DEF IInv, IdsInOrder, NoAbandonedClaim, IsClaimed, TaskIs, Up
<1>8. SkipOwned' /\ HandlerOwns'
  BY <1>5 DEF IInv, SkipOwned, HandlerOwns
<1> QED
  BY <1>6, <1>7, <1>8 DEF IInv

(***************************************************************************)
(* NewClaimKeeps: a claim whose row gets an owner at once.                 *)
(***************************************************************************)
LEMMA NewClaimKeeps ==
  ASSUME IInv, NEW id \in OccIds, id = db.seq + 1,
         db'.seq = id, db' \in Store,
         \A i \in OccIds \ {id} : db'.occ[i] = db.occ[i],
         TaskIs(id, Owning)',
         \A i \in OccIds \ {id} : task'[i] = task[i],
         UNCHANGED <<main, count, tainted>>
  PROVE  /\ IdsInOrder'
         /\ NoAbandonedClaim'
         /\ \A i \in OccIds : TaskIs(i, {"missed"}) => TaskIs(i, {"missed"})'
<1>1. task[id] = NULL
  BY DEF IInv, TypeOK, Store, IdsInOrder, OccIds
<1>2. IdsInOrder'
  BY DEF IInv, TypeOK, Store, IdsInOrder, OccIds
<1>3. NoAbandonedClaim'
  BY DEF IInv, NoAbandonedClaim, IsClaimed, TaskIs, Up
<1>4. \A i \in OccIds : TaskIs(i, {"missed"}) => TaskIs(i, {"missed"})'
  BY <1>1 DEF TaskIs
<1> QED
  BY <1>2, <1>3, <1>4

LEMMA WakeClaimStep ==
  ASSUME IInv, UNCHANGED <<handler, main, count, tainted>>, NEW j \in JobIds, WakeClaim(j)
  PROVE  IInv'
<1>1. j \in Nearest(db) /\ DueAt(j) /\ TypeOK /\ db \in Store
  BY DEF WakeClaim, IInv, TypeOK
<1>2. PICK slot \in Nat \cup {Manual} : slot = db.jobs[j].nextAt
  BY <1>1, NearestType
<1>3. PICK a \in Times : a = AdvanceFrom(slot)
  BY <1>1, <1>2, AdvanceFromType
<1>4. HasJob(db, j) /\ db.seq + 1 <= MaxOccurrences
  BY <1>1, NearestType DEF WakeClaim, Room
<1>5. PICK id \in OccIds : id = NewId(db)
  BY <1>1, <1>4, ClaimType
<1>6. PICK c \in Store :
        /\ c = Claim(db, j, slot)
        /\ id = db.seq + 1
        /\ c.seq = id
        /\ \A i \in OccIds \ {id} : c.occ[i] = db.occ[i]
  <2> DEFINE c == Claim(db, j, slot)
  <2>1. /\ c \in Store
        /\ id = db.seq + 1
        /\ c.seq = id
        /\ \A i \in OccIds \ {id} : c.occ[i] = db.occ[i]
    BY <1>1, <1>4, <1>5, ClaimType
  <2> QED
    BY <2>1
<1>7. /\ db' = Advance(c, j, a)
      /\ permit' = TRUE
      /\ UNCHANGED <<now, cancelled, gate, stop, drained, procs>>
  BY <1>2, <1>3, <1>6 DEF WakeClaim
<1>8. PICK pc \in {"missed", "queued"} :
        /\ task' = [task EXCEPT ![id] = Snapshot(j, slot, pc)]
        /\ loop' = IF pc = "missed" THEN [LoopAt("skip") EXCEPT !.occ = id] ELSE LoopAt("plan")
        /\ pending' \in {pending, pending + 1}
  <2>1. CASE IsMissed(slot)
    BY <1>2, <1>5, <2>1 DEF WakeClaim
  <2>2. CASE ~ IsMissed(slot)
    BY <1>2, <1>5, <2>2 DEF WakeClaim
  <2> QED
    BY <2>1, <2>2
<1>9. /\ db' \in Store /\ db'.seq = id
      /\ \A i \in OccIds \ {id} : db'.occ[i] = db.occ[i]
  BY <1>6, <1>7, AdvanceType
<1>10. /\ task' \in [OccIds -> Task \cup {NULL}]
       /\ task'[id] # NULL
       /\ task'[id].pc = pc
       /\ \A k \in OccIds \ {id} : task'[k] = task[k]
  <2>1. pc \in Owning
    BY DEF Owning
  <2>2. task' \in [OccIds -> Task \cup {NULL}] /\ NewTask(id, j, slot, pc)
    BY <1>1, <1>4, <1>8, <2>1, NewTaskType
  <2> QED
    BY <2>2 DEF NewTask
<1>11. loop' \in Loop /\ (loop'.pc = "skip" => loop'.occ = id /\ pc = "missed")
  BY <1>8, BoundsAssumption DEF LoopAt, Loop, Times
<1>12. TypeOK'
  BY <1>1, <1>7, <1>8, <1>9, <1>10, <1>11 DEF TypeOK
<1>13. TaskIs(id, Owning)'
  BY <1>10 DEF TaskIs, Owning
<1>14. IdsInOrder' /\ NoAbandonedClaim'
  BY <1>6, <1>9, <1>10, <1>13, NewClaimKeeps
<1>15. SkipOwned' /\ HandlerOwns'
  BY <1>10, <1>11 DEF IInv, SkipOwned, HandlerOwns, TaskIs
<1> QED
  BY <1>12, <1>14, <1>15 DEF IInv

(***************************************************************************)
(* FinishKeeps: a step that sets the row of one occurrence, which it       *)
(* leaves unclaimed, and moves that occurrence's task on.                  *)
(***************************************************************************)
LEMMA FinishKeeps ==
  ASSUME IInv, NEW id \in OccIds, db' \in Store, db'.seq = db.seq,
         \A i \in OccIds : db.occ[i] = NULL => db'.occ[i] = NULL,
         \A i \in OccIds : IsClaimed(db', i) => IsClaimed(db, i),
         IsClaimed(db', id) => (Up /\ ~ tainted)' = FALSE,
         task[id] # NULL,
         \A i \in OccIds \ {id} : task'[i] = task[i],
         (Up /\ ~ tainted)' => Up /\ ~ tainted
  PROVE  IdsInOrder' /\ NoAbandonedClaim'
<1>1. IdsInOrder'
  BY DEF IInv, IdsInOrder
<1>2. NoAbandonedClaim'
  BY DEF IInv, NoAbandonedClaim, TaskIs
<1> QED
  BY <1>1, <1>2

LEMMA LoopSkipStep ==
  ASSUME IInv, UNCHANGED <<handler, main, count, tainted>>, LoopSkip
  PROVE  IInv'
<1> DEFINE id == loop.occ
<1>1. /\ id \in OccIds /\ task[id] # NULL /\ TypeOK /\ db \in Store
  BY DEF LoopSkip, IInv, SkipOwned, TaskIs, TypeOK
<1>2. /\ db' = Finish(db, id, "skipped")
      /\ SetTask(id, "done")
      /\ loop' = LoopAt("plan")
      /\ UNCHANGED <<now, permit, cancelled, gate, pending, stop, drained, procs>>
  BY DEF LoopSkip
<1> HIDE DEF id
<1>3. /\ db' \in Store /\ db'.seq = db.seq /\ ~ IsClaimed(db', id)
      /\ db.occ[id] = NULL => db'.occ[id] = NULL
      /\ \A k \in OccIds \ {id} : db'.occ[k] \in {db.occ[k], NULL}
  BY <1>1, <1>2, FinishType
<1>4. /\ task' \in [OccIds -> Task \cup {NULL}]
      /\ \A k \in OccIds \ {id} : task'[k] = task[k]
  BY <1>1, <1>2, SetTaskType
<1>5. loop' \in Loop /\ loop'.pc = "plan"
  BY <1>2, BoundsAssumption DEF LoopAt, Loop, Times
<1>6. TypeOK'
  BY <1>1, <1>2, <1>3, <1>4, <1>5 DEF TypeOK
<1>7. /\ \A i \in OccIds : db.occ[i] = NULL => db'.occ[i] = NULL
      /\ \A i \in OccIds : IsClaimed(db', i) => IsClaimed(db, i)
  BY <1>3 DEF IsClaimed
<1>8. IdsInOrder' /\ NoAbandonedClaim'
  BY <1>1, <1>3, <1>4, <1>7, FinishKeeps DEF Up
<1>9. SkipOwned' /\ HandlerOwns'
  BY <1>5 DEF IInv, SkipOwned, HandlerOwns
<1> QED
  BY <1>6, <1>8, <1>9 DEF IInv

(***************************************************************************)
(* LoopStep: every step of the loop preserves the invariant.               *)
(***************************************************************************)
LEMMA LoopStep ==
  ASSUME IInv, LoopWork \/ LoopFires
  PROVE  IInv'
<1>1. CASE LoopFires
  BY <1>1, LoopQuietStep DEF LoopFires
<1>2. CASE LoopWork
  <2>1. CASE LoopPlan \/ LoopNotified \/ LoopCancelled \/ WakeNothingDue
    BY <1>2, <2>1, LoopQuietStep DEF LoopWork
  <2>2. ASSUME NEW j \in JobIds, WakeConflict(j) PROVE IInv'
    BY <1>2, <2>2, WakeConflictStep DEF LoopWork
  <2>3. ASSUME NEW j \in JobIds, WakeClaim(j) PROVE IInv'
    BY <1>2, <2>3, WakeClaimStep DEF LoopWork
  <2>4. CASE LoopSkip
    BY <1>2, <2>4, LoopSkipStep DEF LoopWork
  <2> QED
    BY <1>2, <2>1, <2>2, <2>3, <2>4 DEF LoopWork
<1> QED
  BY <1>1, <1>2

-----------------------------------------------------------------------------
(***************************************************************************)
(* TaskMoves: a task moves on over an unchanged store, and one that owns a *)
(* row still owns it after.                                                *)
(***************************************************************************)
LEMMA TaskMoves ==
  ASSUME IInv, NEW i \in OccIds, NEW S, TaskIs(i, S), "missed" \notin S,
         NEW q \in (Owning \cup {"sent", "last", "done"}) \ {"missed"}, SetTask(i, q),
         TaskIs(i, Owning) => q \in Owning,
         UNCHANGED <<db, loop, main, count, tainted>>
  PROVE  /\ task' \in [OccIds -> Task \cup {NULL}]
         /\ IdsInOrder'
         /\ SkipOwned'
         /\ NoAbandonedClaim'
<1>1. /\ task' \in [OccIds -> Task \cup {NULL}]
      /\ task'[i] # NULL
      /\ task'[i].pc = q
      /\ \A k \in OccIds \ {i} : task'[k] = task[k]
  BY SetTaskType DEF IInv, TaskIs
<1>2. IdsInOrder'
  BY <1>1 DEF IInv, IdsInOrder, TaskIs
<1>3. SkipOwned'
  BY <1>1 DEF IInv, SkipOwned, TaskIs
<1>4. \A k \in OccIds : TaskIs(k, Owning) => TaskIs(k, Owning)'
  BY <1>1 DEF TaskIs
<1>5. NoAbandonedClaim'
  BY <1>4 DEF IInv, NoAbandonedClaim, Up
<1> QED
  BY <1>1, <1>2, <1>3, <1>5

(***************************************************************************)
(* TaskStep: every step of a spawned task preserves the invariant.         *)
(***************************************************************************)
LEMMA TaskQuietStep ==
  ASSUME IInv, UNCHANGED <<handler, main, count, tainted>>, NEW i \in OccIds,
         ExecStart(i) \/ ExecRefused(i) \/ ExecEnd(i) \/ ExecDone(i) \/ ExecNotify(i)
  PROVE  IInv'
<1>1. UNCHANGED <<db, now, permit, cancelled, loop, stop>> /\ TypeOK
  BY DEF ExecStart, ExecRefused, ExecEnd, ExecDone, ExecNotify, IInv
<1>2. /\ task' \in [OccIds -> Task \cup {NULL}]
      /\ IdsInOrder' /\ SkipOwned' /\ NoAbandonedClaim'
  <2>1. CASE ExecStart(i)
    <3>1. TaskIs(i, {"queued"}) /\ SetTask(i, "running")
      BY <2>1 DEF ExecStart
    <3> QED
      BY <1>1, <3>1, TaskMoves DEF Owning
  <2>2. CASE ExecRefused(i)
    <3>1. TaskIs(i, {"queued"}) /\ SetTask(i, "completed")
      BY <2>2 DEF ExecRefused
    <3> QED
      BY <1>1, <3>1, TaskMoves DEF Owning, Outcomes
  <2>3. CASE ExecEnd(i)
    <3>1. PICK o \in Outcomes : TaskIs(i, {"running"}) /\ SetTask(i, o)
      BY <2>3 DEF ExecEnd
    <3> QED
      BY <1>1, <3>1, TaskMoves DEF Owning, Outcomes
  <2>4. CASE ExecDone(i)
    <3>1. PICK q \in {"last", "done"} : TaskIs(i, {"sent"}) /\ SetTask(i, q)
      BY <2>4 DEF ExecDone
    <3>2. ~ TaskIs(i, Owning)
      BY <3>1 DEF TaskIs, Owning, Outcomes
    <3> QED
      BY <1>1, <3>1, <3>2, TaskMoves
  <2>5. CASE ExecNotify(i)
    <3>1. TaskIs(i, {"last"}) /\ SetTask(i, "done")
      BY <2>5 DEF ExecNotify
    <3>2. ~ TaskIs(i, Owning)
      BY <3>1 DEF TaskIs, Owning, Outcomes
    <3> QED
      BY <1>1, <3>1, <3>2, TaskMoves
  <2> QED
    BY <2>1, <2>2, <2>3, <2>4, <2>5
<1>3. gate' \in OccIds \cup {0} /\ pending' \in Int /\ procs' \subseteq OccIds
  BY <1>1 DEF ExecStart, ExecRefused, ExecEnd, ExecDone, ExecNotify, TypeOK
<1>4. drained' \in BOOLEAN
  BY <1>1 DEF ExecStart, ExecRefused, ExecEnd, ExecDone, ExecNotify, TypeOK
<1>5. TypeOK'
  BY <1>1, <1>2, <1>3, <1>4 DEF TypeOK
<1>6. HandlerOwns'
  BY DEF IInv, HandlerOwns
<1> QED
  BY <1>2, <1>5, <1>6 DEF IInv

LEMMA ExecFinishStep ==
  ASSUME IInv, UNCHANGED <<handler, main, count, tainted>>, NEW i \in OccIds, ExecFinish(i)
  PROVE  IInv'
<1>1. PICK o \in Outcomes : o = task[i].pc
  BY DEF ExecFinish, TaskIs
<1>2. /\ task[i] # NULL /\ ~ TaskIs(i, {"missed"}) /\ TypeOK /\ db \in Store
  BY DEF ExecFinish, TaskIs, IInv, TypeOK, Outcomes
<1>3. /\ db' = Finish(db, i, o)
      /\ SetTask(i, "sent")
      /\ gate' = 0
      /\ UNCHANGED <<now, permit, cancelled, loop, pending, stop, drained, procs>>
  BY <1>1 DEF ExecFinish
<1>4. /\ db' \in Store /\ db'.seq = db.seq /\ ~ IsClaimed(db', i)
      /\ db.occ[i] = NULL => db'.occ[i] = NULL
      /\ \A k \in OccIds \ {i} : db'.occ[k] \in {db.occ[k], NULL}
  BY <1>2, <1>3, FinishType DEF Outcomes
<1>5. /\ task' \in [OccIds -> Task \cup {NULL}]
      /\ \A k \in OccIds \ {i} : task'[k] = task[k]
  BY <1>2, <1>3, SetTaskType
<1>6. TypeOK'
  BY <1>2, <1>3, <1>4, <1>5 DEF TypeOK
<1>7. /\ \A k \in OccIds : db.occ[k] = NULL => db'.occ[k] = NULL
      /\ \A k \in OccIds : IsClaimed(db', k) => IsClaimed(db, k)
  BY <1>4 DEF IsClaimed
<1>8. IdsInOrder' /\ NoAbandonedClaim'
  BY <1>2, <1>4, <1>5, <1>7, FinishKeeps DEF Up
<1>9. SkipOwned' /\ HandlerOwns'
  BY <1>2, <1>3, <1>5 DEF IInv, SkipOwned, HandlerOwns, TaskIs
<1> QED
  BY <1>6, <1>8, <1>9 DEF IInv

LEMMA TaskStep ==
  ASSUME IInv, NEW i \in OccIds, TaskWork(i) \/ RunnerExit(i)
  PROVE  IInv'
<1>1. CASE RunnerExit(i)
  <2>1. UNCHANGED <<db, now, permit, cancelled, loop, task, gate, pending, stop, drained,
                    handler, main, count, tainted>> /\ procs' \subseteq OccIds
    BY <1>1 DEF RunnerExit, OrphanExit, IInv, TypeOK
  <2>2. TypeOK'
    BY <2>1 DEF IInv, TypeOK
  <2>3. IdsInOrder' /\ NoAbandonedClaim'
    BY <2>1, TablesAlone DEF Up
  <2>4. SkipOwned' /\ HandlerOwns'
    BY <2>1 DEF IInv, SkipOwned, HandlerOwns, TaskIs
  <2> QED
    BY <2>2, <2>3, <2>4 DEF IInv
<1>2. CASE TaskWork(i)
  BY <1>2, TaskQuietStep, ExecFinishStep DEF TaskWork
<1> QED
  BY <1>1, <1>2

-----------------------------------------------------------------------------
(***************************************************************************)
(* HandlerStep: every step of a handler preserves the invariant.           *)
(***************************************************************************)
LEMMA HandlerQuietStep ==
  ASSUME IInv, UNCHANGED <<main, count, tainted>>, NEW h \in Handlers,
         HandlerAccept(h) \/ HandlerReply(h) \/ HandlerNotify(h) \/ HandlerAnswered(h)
           \/ HandlerDropped(h)
  PROVE  IInv'
<1>1. PICK pc \in {"free", "read", "notify"} : HandlerGoes(h, pc)
  BY DEF HandlerAccept, HandlerReply, HandlerNotify, HandlerAnswered, HandlerDropped
<1>2. UNCHANGED <<db, now, cancelled, loop, task, gate, pending, stop, drained, procs>>
  BY DEF HandlerAccept, HandlerReply, HandlerNotify, HandlerAnswered, HandlerDropped, schedVars
<1>3. permit' \in BOOLEAN
  BY DEF HandlerAccept, HandlerReply, HandlerNotify, HandlerAnswered, HandlerDropped, schedVars,
         IInv, TypeOK
<1>4. handler' \in [Handlers -> Handler] /\ HandlerOwns'
  BY <1>1, HandlerGoesType DEF IInv
<1>5. TypeOK'
  BY <1>2, <1>3, <1>4 DEF IInv, TypeOK
<1>6. IdsInOrder' /\ NoAbandonedClaim'
  BY <1>2, TablesAlone DEF Up
<1>7. SkipOwned'
  BY <1>2 DEF IInv, SkipOwned, TaskIs
<1> QED
  BY <1>4, <1>5, <1>6, <1>7 DEF IInv

LEMMA HandlerEnqueueStep ==
  ASSUME IInv, UNCHANGED <<main, count, tainted>>, NEW h \in Handlers, HandlerEnqueue(h)
  PROVE  IInv'
<1>1. PICK i \in OccIds : i = handler[h].occ
  BY DEF HandlerEnqueue, IInv, HandlerOwns
<1>2. /\ TaskIs(i, {"claimed"})
      /\ SetTask(i, "queued")
      /\ pending' = pending + 1
      /\ UNCHANGED <<db, now, permit, cancelled, loop, gate, stop, drained, procs>>
      /\ handler' = [handler EXCEPT ![h].pc = "wait"]
  BY <1>1 DEF HandlerEnqueue, Enqueue
<1>3. /\ task' \in [OccIds -> Task \cup {NULL}]
      /\ IdsInOrder' /\ SkipOwned' /\ NoAbandonedClaim'
  BY <1>2, TaskMoves DEF Owning
<1>4. handler' \in [Handlers -> Handler] /\ HandlerOwns'
  BY <1>2 DEF IInv, TypeOK, HandlerOwns, Handler
<1>5. TypeOK'
  BY <1>2, <1>3, <1>4 DEF IInv, TypeOK
<1> QED
  BY <1>3, <1>4, <1>5 DEF IInv

(***************************************************************************)
(* StoreChanges: a store that keeps its ids, claims nothing new and fills  *)
(* no empty row, with the task table unchanged.                            *)
(***************************************************************************)
LEMMA StoreChanges ==
  ASSUME IInv, task' = task, db'.seq = db.seq,
         \A i \in OccIds : db'.occ[i] \in {db.occ[i], NULL},
         (Up /\ ~ tainted)' => Up /\ ~ tainted
  PROVE  IdsInOrder' /\ NoAbandonedClaim'
BY DEF IInv, IdsInOrder, NoAbandonedClaim, IsClaimed, TaskIs

LEMMA CommitStep ==
  ASSUME IInv, UNCHANGED <<main, count, tainted>>, NEW h \in Handlers, NEW d \in Store, Commit(h, d),
         d.seq = db.seq, \A i \in OccIds : d.occ[i] \in {db.occ[i], NULL}
  PROVE  IInv'
<1>1. /\ db' = d
      /\ HandlerGoes(h, "notify")
      /\ UNCHANGED <<now, permit, cancelled, loop, task, gate, pending, stop, drained, procs>>
  BY DEF Commit
<1>2. handler' \in [Handlers -> Handler] /\ HandlerOwns'
  BY <1>1, HandlerGoesType DEF IInv
<1>3. TypeOK'
  BY <1>1, <1>2 DEF IInv, TypeOK
<1>4. IdsInOrder' /\ NoAbandonedClaim'
  BY <1>1, StoreChanges DEF Up
<1>5. SkipOwned'
  BY <1>1 DEF IInv, SkipOwned, TaskIs
<1> QED
  BY <1>2, <1>3, <1>4, <1>5 DEF IInv

LEMMA RunNowStep ==
  ASSUME IInv, UNCHANGED <<main, count, tainted>>, NEW h \in Handlers, NEW j \in JobIds,
         HandlerRunNow(h, j)
  PROVE  IInv'
<1>1. HasJob(db, j) /\ db.seq + 1 <= MaxOccurrences /\ TypeOK /\ db \in Store
  BY BoundsAssumption DEF HandlerRunNow, RunNowClaim, Room, IInv, TypeOK, Store
<1>2. Manual \in Nat \cup {Manual}
  OBVIOUS
<1>3. PICK id \in OccIds : id = NewId(db)
  BY <1>1, <1>2, ClaimType
<1>4. /\ db' = Claim(db, j, Manual)
      /\ task' = [task EXCEPT ![id] = Snapshot(j, Manual, "claimed")]
      /\ handler' = [handler EXCEPT ![h] = [pc |-> "claimed", occ |-> id]]
      /\ UNCHANGED <<now, permit, cancelled, loop, gate, pending, stop, drained, procs>>
  BY <1>3 DEF HandlerRunNow, RunNowClaim
<1>5. /\ db' \in Store /\ db'.seq = id /\ id = db.seq + 1
      /\ \A i \in OccIds \ {id} : db'.occ[i] = db.occ[i]
  BY <1>1, <1>2, <1>3, <1>4, ClaimType, ZenonT(60)
<1>6. /\ task' \in [OccIds -> Task \cup {NULL}]
      /\ task'[id] # NULL
      /\ task'[id].pc = "claimed"
      /\ \A k \in OccIds \ {id} : task'[k] = task[k]
  <2>1. "claimed" \in Owning
    BY DEF Owning
  <2>2. task' \in [OccIds -> Task \cup {NULL}] /\ NewTask(id, j, Manual, "claimed")
    BY <1>1, <1>2, <1>4, <2>1, NewTaskType
  <2> QED
    BY <2>2 DEF NewTask
<1>7. handler' \in [Handlers -> Handler] /\ HandlerOwns'
  BY <1>1, <1>4 DEF IInv, TypeOK, HandlerOwns, Handler
<1>8. TypeOK'
  BY <1>1, <1>4, <1>5, <1>6, <1>7 DEF TypeOK
<1>9. TaskIs(id, Owning)'
  BY <1>6 DEF TaskIs, Owning
<1>10. /\ IdsInOrder' /\ NoAbandonedClaim'
       /\ \A i \in OccIds : TaskIs(i, {"missed"}) => TaskIs(i, {"missed"})'
  BY <1>5, <1>6, <1>9, NewClaimKeeps
<1>11. SkipOwned'
  BY <1>4, <1>10 DEF IInv, SkipOwned
<1> QED
  BY <1>7, <1>8, <1>10, <1>11 DEF IInv

LEMMA HandlerStep ==
  ASSUME IInv, NEW h \in Handlers,
         Accepts(h) \/ Requests(h) \/ HandlerProceeds(h) \/ HandlerAborted(h)
  PROVE  IInv'
<1>1. UNCHANGED <<main, count, tainted>>
  BY DEF Accepts, Requests, HandlerProceeds, HandlerAborted
<1>2. CASE HandlerAccept(h) \/ HandlerReply(h) \/ HandlerNotify(h) \/ HandlerAnswered(h)
             \/ HandlerDropped(h)
  BY <1>1, <1>2, HandlerQuietStep
<1>3. CASE HandlerEnqueue(h)
  BY <1>1, <1>3, HandlerEnqueueStep
<1>4. db \in Store /\ now \in Times
  BY DEF IInv, TypeOK
<1>5. ASSUME NEW j \in JobIds, NEW s \in Schedules, NEW e \in BOOLEAN,
             CommitAdd(h, j, s, e) \/ CommitEdit(h, j, s, e)
      PROVE  IInv'
  <2>1. CASE CommitAdd(h, j, s, e)
    <3>1. Commit(h, Add(db, j, s, e, now))
      BY <2>1 DEF CommitAdd
    <3> QED
      BY <1>1, <1>4, <3>1, AddType, CommitStep
  <2>2. CASE CommitEdit(h, j, s, e)
    <3>1. HasJob(db, j) /\ Commit(h, Replace(db, j, s, e, now))
      BY <2>2 DEF CommitEdit
    <3> QED
      BY <1>1, <1>4, <3>1, ReplaceType, CommitStep
  <2> QED
    BY <1>5, <2>1, <2>2
<1>6. ASSUME NEW j \in JobIds, CommitDelete(h, j) PROVE IInv'
  <2>1. Commit(h, Delete(db, j))
    BY <1>6 DEF CommitDelete
  <2> QED
    BY <1>1, <1>4, <2>1, DeleteType, CommitStep
<1>7. ASSUME NEW j \in JobIds, NEW e \in BOOLEAN, CommitSetEnabled(h, j, e) PROVE IInv'
  <2>1. HasJob(db, j) /\ Commit(h, SetEnabled(db, j, e, now))
    BY <1>7 DEF CommitSetEnabled
  <2> QED
    BY <1>1, <1>4, <2>1, SetEnabledType, CommitStep
<1>8. ASSUME NEW j \in JobIds, HandlerRunNow(h, j) PROVE IInv'
  BY <1>1, <1>8, RunNowStep
<1>9. CASE Requests(h)
  BY <1>2, <1>5, <1>6, <1>7, <1>8, <1>9 DEF Requests, HandlerRequest
<1>10. CASE Accepts(h) \/ HandlerProceeds(h) \/ HandlerAborted(h)
  BY <1>2, <1>3, <1>10 DEF Accepts, HandlerProceeds, HandlerWork, HandlerAborted
<1> QED
  BY <1>9, <1>10

-----------------------------------------------------------------------------
(***************************************************************************)
(* HappensType: a mishap is counted, and a fault taints the process.       *)
(***************************************************************************)
LEMMA HappensType ==
  ASSUME TypeOK, NEW kind \in {"signal", "crash", "fault", "clock"}, NEW max, Happens(kind, max)
  PROVE  /\ count' \in [Mishaps -> Nat] /\ tainted' \in BOOLEAN
         /\ count'[kind] > 0 /\ \A m \in Mishaps : count'[m] >= count[m]
         /\ kind = "fault" => tainted'
         /\ ~ tainted' => ~ tainted
<1>1. count \in [Mishaps -> Nat] /\ tainted \in BOOLEAN
  BY DEF TypeOK
<1>2. count' = [count EXCEPT ![kind] = count[kind] + 1] /\ tainted' = (tainted \/ kind = "fault")
  BY DEF Happens
<1>3. /\ count' \in [Mishaps -> Nat]
      /\ count'[kind] > 0 /\ \A m \in Mishaps : count'[m] >= count[m]
  BY <1>1, <1>2 DEF Mishaps
<1>4. /\ tainted' \in BOOLEAN
      /\ kind = "fault" => tainted'
      /\ ~ tainted' => ~ tainted
  BY <1>1, <1>2
<1> QED
  BY <1>3, <1>4

(***************************************************************************)
(* Tainted: with a tainted process, or no process, there is nothing to     *)
(* show of NoAbandonedClaim.                                               *)
(***************************************************************************)
LEMMA Tainted ==
  ASSUME tainted' \/ ~ Up'
  PROVE  NoAbandonedClaim'
BY DEF NoAbandonedClaim

(***************************************************************************)
(* FaultStep: a failing statement of the store preserves the invariant.    *)
(***************************************************************************)
LEMMA LoopSkipFaultStep ==
  ASSUME IInv, UNCHANGED <<handler, main>>, Happens("fault", MaxFaults), LoopSkipFault
  PROVE  IInv'
<1>1. PICK id \in OccIds : id = loop.occ /\ task[id] # NULL
  BY DEF LoopSkipFault, IInv, SkipOwned, TaskIs
<1>2. /\ db' \in {db} \cup FinishPrefixes(db, id, "skipped")
      /\ SetTask(id, "done")
      /\ loop' = LoopAt("plan")
      /\ UNCHANGED <<now, permit, cancelled, gate, pending, stop, drained, procs>>
  BY <1>1 DEF LoopSkipFault
<1>3. TypeOK /\ db \in Store
  BY DEF IInv, TypeOK
<1>4. /\ db' \in Store /\ db'.seq = db.seq
      /\ \A k \in OccIds : db.occ[k] = NULL => db'.occ[k] = NULL
  BY <1>2, <1>3, FinishPrefixesType
<1>5. /\ task' \in [OccIds -> Task \cup {NULL}]
      /\ \A k \in OccIds \ {id} : task'[k] = task[k]
  BY <1>1, <1>2, <1>3, SetTaskType
<1>6. loop' \in Loop /\ loop'.pc = "plan"
  BY <1>2, BoundsAssumption DEF LoopAt, Loop, Times
<1>7. TypeOK' /\ tainted'
  BY <1>2, <1>3, <1>4, <1>5, <1>6, HappensType DEF TypeOK
<1>8. IdsInOrder' /\ NoAbandonedClaim'
  BY <1>1, <1>4, <1>5, <1>7, Tainted DEF IInv, IdsInOrder
<1>9. SkipOwned' /\ HandlerOwns'
  BY <1>6 DEF IInv, SkipOwned, HandlerOwns
<1> QED
  BY <1>7, <1>8, <1>9 DEF IInv

LEMMA ExecFinishFaultStep ==
  ASSUME IInv, UNCHANGED <<handler, main>>, Happens("fault", MaxFaults),
         NEW i \in OccIds, ExecFinishFault(i)
  PROVE  IInv'
<1>1. PICK o \in Outcomes : o = task[i].pc
  BY DEF ExecFinishFault, TaskIs
<1>2. /\ db' \in {db} \cup FinishPrefixes(db, i, o)
      /\ SetTask(i, "sent")
      /\ gate' = 0
      /\ UNCHANGED <<now, permit, cancelled, loop, pending, stop, drained, procs>>
  BY <1>1 DEF ExecFinishFault
<1>3. TypeOK /\ db \in Store /\ task[i] # NULL /\ ~ TaskIs(i, {"missed"})
  BY DEF IInv, TypeOK, ExecFinishFault, TaskIs, Outcomes
<1>4. /\ db' \in Store /\ db'.seq = db.seq
      /\ \A k \in OccIds : db.occ[k] = NULL => db'.occ[k] = NULL
  BY <1>2, <1>3, FinishPrefixesType DEF Outcomes
<1>5. /\ task' \in [OccIds -> Task \cup {NULL}]
      /\ \A k \in OccIds \ {i} : task'[k] = task[k]
  BY <1>2, <1>3, SetTaskType
<1>6. TypeOK' /\ tainted'
  BY <1>2, <1>3, <1>4, <1>5, HappensType DEF TypeOK
<1>7. IdsInOrder' /\ NoAbandonedClaim'
  BY <1>3, <1>4, <1>5, <1>6, Tainted DEF IInv, IdsInOrder
<1>8. SkipOwned' /\ HandlerOwns'
  BY <1>2, <1>3, <1>5 DEF IInv, SkipOwned, HandlerOwns, TaskIs
<1> QED
  BY <1>6, <1>7, <1>8 DEF IInv

(***************************************************************************)
(* UnownedClaimStep: a claim that committed and whose caller failed.       *)
(***************************************************************************)
LEMMA UnownedClaim ==
  ASSUME IInv, NEW j \in JobIds, NEW slot \in Nat \cup {Manual},
         db.seq + 1 <= MaxOccurrences, db' = Claim(db, j, slot)
  PROVE  /\ db' \in Store
         /\ task' = task => IdsInOrder'
<1>1. db \in Store /\ db.seq \in Nat
  BY DEF IInv, TypeOK, Store
<1>2. PICK id \in OccIds : id = NewId(db)
  BY <1>1, ClaimType
<1>3. /\ db' \in Store /\ id = db.seq + 1 /\ db'.seq = db.seq + 1
      /\ \A i \in OccIds \ {id} : db'.occ[i] = db.occ[i]
  BY <1>1, <1>2, ClaimType, ZenonT(60)
<1>4. task' = task => IdsInOrder'
  BY <1>1, <1>3 DEF IInv, IdsInOrder, OccIds
<1> QED
  BY <1>3, <1>4

LEMMA WakeFaultStep ==
  ASSUME IInv, UNCHANGED <<handler, main>>, Happens("fault", MaxFaults),
         NEW j \in JobIds, WakeFault(j)
  PROVE  IInv'
<1>1. TypeOK /\ j \in Nearest(db) /\ db.seq + 1 <= MaxOccurrences
  BY DEF IInv, WakeFault, Room
<1>2. PICK slot \in Nat \cup {Manual} : slot = db.jobs[j].nextAt
  BY <1>1, NearestType
<1>3. /\ db' = Claim(db, j, slot)
      /\ loop' = LoopAt("plan")
      /\ UNCHANGED <<now, permit, cancelled, task, gate, pending, stop, drained, procs>>
  BY <1>2 DEF WakeFault
<1>4. db' \in Store /\ IdsInOrder'
  BY <1>1, <1>3, UnownedClaim
<1>5. loop' \in Loop /\ loop'.pc = "plan"
  BY <1>3, BoundsAssumption DEF LoopAt, Loop, Times
<1>6. TypeOK' /\ tainted'
  BY <1>1, <1>3, <1>4, <1>5, HappensType DEF TypeOK
<1>7. SkipOwned' /\ HandlerOwns' /\ NoAbandonedClaim'
  BY <1>5, <1>6, Tainted DEF IInv, SkipOwned, HandlerOwns
<1> QED
  BY <1>4, <1>6, <1>7 DEF IInv

LEMMA LoopPlanFaultStep ==
  ASSUME IInv, UNCHANGED <<handler, main>>, Happens("fault", MaxFaults), LoopPlanFault
  PROVE  IInv'
<1>1. loop' \in Loop /\ loop'.pc = "sleep"
  BY BoundsAssumption DEF LoopPlanFault, LoopAt, Loop, Times
<1>2. TypeOK' /\ tainted'
  BY <1>1, HappensType DEF LoopPlanFault, IInv, TypeOK
<1>3. IdsInOrder' /\ SkipOwned' /\ HandlerOwns' /\ NoAbandonedClaim'
  BY <1>1, <1>2, Tainted DEF LoopPlanFault, IInv, IdsInOrder, SkipOwned, HandlerOwns
<1> QED
  BY <1>2, <1>3 DEF IInv

LEMMA WakeFaultUnclaimedStep ==
  ASSUME IInv, UNCHANGED <<handler, main>>, Happens("fault", MaxFaults), WakeFaultUnclaimed
  PROVE  IInv'
<1>1. loop' \in Loop /\ loop'.pc = "plan"
  BY BoundsAssumption DEF WakeFaultUnclaimed, LoopAt, Loop, Times
<1>2. TypeOK' /\ tainted'
  BY <1>1, HappensType DEF WakeFaultUnclaimed, IInv, TypeOK
<1>3. IdsInOrder' /\ SkipOwned' /\ HandlerOwns' /\ NoAbandonedClaim'
  BY <1>1, <1>2, Tainted DEF WakeFaultUnclaimed, IInv, IdsInOrder, SkipOwned, HandlerOwns
<1> QED
  BY <1>2, <1>3 DEF IInv

LEMMA RunNowFaultStep ==
  ASSUME IInv, UNCHANGED main, Happens("fault", MaxFaults), NEW h \in Handlers,
         NEW j \in JobIds, HandlerRunNowFault(h, j)
  PROVE  IInv'
<1>1. TypeOK /\ db.seq + 1 <= MaxOccurrences
  BY BoundsAssumption DEF HandlerRunNowFault, RunNowFault, Room, IInv, TypeOK, Store
<1>2. /\ db' = Claim(db, j, Manual)
      /\ HandlerGoes(h, "free")
      /\ UNCHANGED <<now, permit, cancelled, loop, task, gate, pending, stop, drained, procs>>
  BY DEF HandlerRunNowFault, RunNowFault
<1>3. db' \in Store /\ IdsInOrder'
  <2>1. Manual \in Nat \cup {Manual}
    OBVIOUS
  <2> QED
    BY <1>1, <1>2, <2>1, UnownedClaim
<1>4. handler' \in [Handlers -> Handler] /\ HandlerOwns'
  BY <1>2, HandlerGoesType DEF IInv
<1>5. TypeOK' /\ tainted'
  BY <1>1, <1>2, <1>3, <1>4, HappensType DEF TypeOK
<1>6. SkipOwned' /\ NoAbandonedClaim'
  BY <1>2, <1>5, Tainted DEF IInv, SkipOwned, TaskIs
<1> QED
  BY <1>3, <1>4, <1>5, <1>6 DEF IInv

LEMMA CommitFaultStep ==
  ASSUME IInv, UNCHANGED main, Happens("fault", MaxFaults), NEW h \in Handlers,
         NEW j \in JobIds, NEW s \in Schedules, NEW e \in BOOLEAN, CommitFault(h, j, s, e)
  PROVE  IInv'
<1>1. TypeOK /\ db \in Store /\ now \in Times
  BY DEF IInv, TypeOK
<1>2. /\ HandlerGoes(h, "free")
      /\ UNCHANGED <<now, permit, cancelled, loop, task, gate, pending, stop, drained, procs>>
  BY DEF CommitFault
<1>3. db' \in Store /\ db'.occ = db.occ /\ db'.seq = db.seq
  <2>1. CASE db' = Add(db, j, s, e, now)
    BY <1>1, <2>1, AddType
  <2>2. CASE HasJob(db, j) /\ db' = Replace(db, j, s, e, now)
    BY <1>1, <2>2, ReplaceType
  <2> QED
    BY <2>1, <2>2 DEF CommitFault
<1>4. handler' \in [Handlers -> Handler] /\ HandlerOwns'
  BY <1>2, HandlerGoesType DEF IInv
<1>5. TypeOK' /\ tainted'
  BY <1>1, <1>2, <1>3, <1>4, HappensType DEF TypeOK
<1>6. IdsInOrder' /\ SkipOwned' /\ NoAbandonedClaim'
  BY <1>2, <1>3, <1>5, Tainted DEF IInv, IdsInOrder, SkipOwned, TaskIs
<1> QED
  BY <1>4, <1>5, <1>6 DEF IInv

LEMMA FaultStep ==
  ASSUME IInv, StoreFault
  PROVE  IInv'
<1>1. Happens("fault", MaxFaults) /\ UNCHANGED main
  BY DEF StoreFault
<1>2. CASE LoopPlanFault /\ UNCHANGED handler
  BY <1>1, <1>2, LoopPlanFaultStep
<1>3. CASE LoopSkipFault /\ UNCHANGED handler
  BY <1>1, <1>3, LoopSkipFaultStep
<1>4. CASE (\E j \in JobIds : WakeFault(j)) /\ UNCHANGED handler
  BY <1>1, <1>4, WakeFaultStep
<1>5. CASE (\E i \in OccIds : ExecFinishFault(i)) /\ UNCHANGED handler
  BY <1>1, <1>5, ExecFinishFaultStep
<1>6. CASE \E h \in Handlers, j \in JobIds : HandlerRunNowFault(h, j)
  BY <1>1, <1>6, RunNowFaultStep
<1>7. CASE \E h \in Handlers, j \in JobIds, s \in Schedules, e \in BOOLEAN :
             CommitFault(h, j, s, e)
  BY <1>1, <1>7, CommitFaultStep
<1>8. CASE WakeFaultUnclaimed /\ UNCHANGED handler
  BY <1>1, <1>8, WakeFaultUnclaimedStep
<1> QED
  BY <1>2, <1>3, <1>4, <1>5, <1>6, <1>7, <1>8 DEF StoreFault

-----------------------------------------------------------------------------
(***************************************************************************)
(* ProcessEndsType: the end of a process leaves a well-typed state with    *)
(* nobody at work.                                                         *)
(***************************************************************************)
LEMMA ProcessEndsType ==
  ASSUME TypeOK, ProcessEnds
  PROVE  /\ permit' \in BOOLEAN /\ cancelled' \in BOOLEAN /\ drained' \in BOOLEAN
         /\ loop' \in Loop /\ loop'.pc = "off"
         /\ task' \in [OccIds -> Task \cup {NULL}]
         /\ \A i \in OccIds : task[i] = NULL => task'[i] = NULL
         /\ gate' \in OccIds \cup {0} /\ pending' \in Int
         /\ stop' = "idle"
         /\ handler' \in [Handlers -> Handler]
         /\ HandlerOwns'
<1>1. permit' \in BOOLEAN /\ cancelled' \in BOOLEAN /\ drained' \in BOOLEAN
  BY DEF ProcessEnds
<1>2. loop' \in Loop /\ loop'.pc = "off"
  BY BoundsAssumption DEF ProcessEnds, LoopAt, Loop, Times
<1>3. ASSUME NEW i \in OccIds
      PROVE  task'[i] \in Task \cup {NULL} /\ (task[i] = NULL => task'[i] = NULL)
  <2>1. task[i] \in Task \cup {NULL}
    BY DEF TypeOK
  <2>2. CASE TaskIs(i, Owning)
    <3>1. task'[i] = [task[i] EXCEPT !.pc = "lost"]
      BY <2>2 DEF ProcessEnds
    <3> QED
      BY <2>1, <2>2, <3>1 DEF TaskIs, Task
  <2>3. CASE ~ TaskIs(i, Owning) /\ TaskIs(i, {"sent", "last"})
    <3>1. task'[i] = [task[i] EXCEPT !.pc = "done"]
      BY <2>3 DEF ProcessEnds
    <3> QED
      BY <2>1, <2>3, <3>1 DEF TaskIs, Task
  <2>4. CASE ~ TaskIs(i, Owning) /\ ~ TaskIs(i, {"sent", "last"})
    <3>1. task'[i] = task[i]
      BY <2>4 DEF ProcessEnds
    <3> QED
      BY <2>1, <3>1
  <2> QED
    BY <2>2, <2>3, <2>4
<1>4. task' \in [OccIds -> Task \cup {NULL}]
  <2>1. task' = [i \in OccIds |-> task'[i]]
    BY DEF ProcessEnds
  <2> QED
    BY <1>3, <2>1
<1>5. handler' \in [Handlers -> Handler] /\ HandlerOwns'
  BY DEF ProcessEnds, HandlerAt, Handler, HandlerOwns
<1>6. gate' \in OccIds \cup {0} /\ pending' \in Int /\ stop' = "idle"
  BY DEF ProcessEnds
<1> QED
  BY <1>1, <1>2, <1>3, <1>4, <1>5, <1>6

(***************************************************************************)
(* MainStep: starting, stopping and dying preserve the invariant.          *)
(***************************************************************************)
LEMMA RecoveredType ==
  ASSUME TypeOK, NEW S \in SUBSET JobIds,
         NEW d, d = Recalculate(SkipInterrupted(db), S, now)
  PROVE  /\ d \in Store /\ d.seq = db.seq
         /\ \A i \in OccIds : ~ IsClaimed(d, i) /\ (db.occ[i] = NULL => d.occ[i] = NULL)
<1>1. db \in Store /\ now \in Times
  BY DEF TypeOK
<1>2. PICK k \in Store :
        /\ k = SkipInterrupted(db)
        /\ k.seq = db.seq
        /\ \A i \in OccIds : /\ ~ IsClaimed(k, i)
                             /\ db.occ[i] = NULL => k.occ[i] = NULL
  BY <1>1, SkipInterruptedType, Zenon
<1>3. d = Recalculate(k, S, now)
  BY <1>2, Zenon
<1>4. d \in Store /\ d.seq = k.seq /\ d.occ = k.occ
  BY <1>1, <1>2, <1>3, RecalculateType
<1>5. ASSUME NEW i \in OccIds
      PROVE  ~ IsClaimed(d, i) /\ (db.occ[i] = NULL => d.occ[i] = NULL)
  <2>1. d.occ[i] = k.occ[i]
    BY <1>4
  <2>2. ~ IsClaimed(k, i) /\ (db.occ[i] = NULL => k.occ[i] = NULL)
    BY <1>2
  <2> QED
    BY <2>1, <2>2 DEF IsClaimed
<1> QED
  BY <1>2, <1>4, <1>5

LEMMA StartStep ==
  ASSUME IInv, Start
  PROVE  IInv'
<1>1. TypeOK
  BY DEF IInv
<1>2. /\ db' \in Store /\ db'.seq = db.seq
      /\ \A i \in OccIds : ~ IsClaimed(db', i) /\ (db.occ[i] = NULL => db'.occ[i] = NULL)
  BY <1>1, RecoveredType DEF Start, Recovered
<1>3. loop' \in Loop /\ loop'.pc = "plan"
  BY BoundsAssumption DEF Start, LoopAt, Loop, Times
<1>4. count' \in [Mishaps -> Nat] /\ tainted' \in BOOLEAN
  BY <1>1 DEF Start, TypeOK
<1>5. TypeOK'
  BY <1>1, <1>2, <1>3, <1>4 DEF Start, TypeOK
<1>6. IdsInOrder' /\ NoAbandonedClaim'
  BY <1>2 DEF Start, IInv, IdsInOrder, NoAbandonedClaim
<1>7. SkipOwned' /\ HandlerOwns'
  BY <1>3 DEF Start, IInv, SkipOwned, HandlerOwns
<1> QED
  BY <1>5, <1>6, <1>7 DEF IInv

LEMMA StartFaultStep ==
  ASSUME IInv, StartFault
  PROVE  IInv'
<1>1. TypeOK /\ Happens("fault", MaxFaults)
  BY DEF IInv, StartFault
<1>2. /\ db' \in Store /\ db'.seq = db.seq
      /\ \A i \in OccIds : db.occ[i] = NULL => db'.occ[i] = NULL
  BY <1>1, RecoveredType DEF StartFault, TypeOK
<1>3. TypeOK' /\ tainted'
  BY <1>1, <1>2, HappensType DEF StartFault, TypeOK, Down
<1>4. IdsInOrder' /\ SkipOwned' /\ HandlerOwns' /\ NoAbandonedClaim'
  BY <1>2, <1>3, Tainted DEF StartFault, IInv, IdsInOrder, SkipOwned, HandlerOwns, TaskIs
<1> QED
  BY <1>3, <1>4 DEF IInv

(***************************************************************************)
(* MainQuietStep: the steps of the main task that end no process.          *)
(***************************************************************************)
LEMMA MainQuietStep ==
  ASSUME IInv, Terminate \/ ServeBreak \/ ServeJoined \/ ServeError \/ Stopping
  PROVE  IInv'
<1>1. UNCHANGED <<db, now, loop, task, gate, pending, procs, handler>> /\ TypeOK
  BY DEF Terminate, ServeBreak, ServeJoined, ServeError, Stopping, StopCall, StopJoined, StopCheck,
         StopAwaited, schedVars, IInv
<1>2. permit' \in BOOLEAN /\ cancelled' \in BOOLEAN /\ drained' \in BOOLEAN
  BY <1>1 DEF Terminate, ServeBreak, ServeJoined, ServeError, Stopping, StopCall, StopJoined,
         StopCheck, StopAwaited, schedVars, TypeOK
<1>3. stop' \in {"idle", "join", "check", "await", "done"}
  BY <1>1 DEF Terminate, ServeBreak, ServeJoined, ServeError, Stopping, StopCall, StopJoined,
         StopCheck, StopAwaited, schedVars, TypeOK
<1>4. Up /\ main' \in Down \cup {"serving", "joining", "stopping", "aborting"}
  BY <1>1 DEF Terminate, ServeBreak, ServeJoined, ServeError, Stopping, TypeOK, Up, Down
<1>5. /\ count' \in [Mishaps -> Nat] /\ tainted' \in BOOLEAN
      /\ ~ tainted' => ~ tainted
  BY <1>1, HappensType DEF Terminate, ServeBreak, ServeJoined, ServeError, Stopping, TypeOK
<1>6. TypeOK'
  BY <1>1, <1>2, <1>3, <1>4, <1>5 DEF TypeOK
<1>7. IdsInOrder' /\ NoAbandonedClaim'
  BY <1>1, <1>4, <1>5, TablesAlone
<1>8. SkipOwned' /\ HandlerOwns'
  BY <1>1 DEF IInv, SkipOwned, HandlerOwns, TaskIs
<1> QED
  BY <1>6, <1>7, <1>8 DEF IInv

LEMMA ExitStep ==
  ASSUME IInv, Exit
  PROVE  IInv'
<1>1. /\ TypeOK /\ ProcessEnds /\ UNCHANGED <<db, now, count, tainted>>
      /\ main' \in {"exited", "failed"} /\ procs' \subseteq OccIds
  BY DEF Exit, IInv, TypeOK
<1>2. TypeOK'
  BY <1>1, ProcessEndsType DEF TypeOK, Down
<1>3. IdsInOrder'
  BY <1>1, ProcessEndsType DEF IInv, IdsInOrder
<1>4. SkipOwned' /\ HandlerOwns' /\ NoAbandonedClaim'
  BY <1>1, ProcessEndsType, Tainted DEF SkipOwned, Up, Down
<1> QED
  BY <1>2, <1>3, <1>4 DEF IInv

(***************************************************************************)
(* HalfDoneType: what a killed process leaves in the store.                *)
(***************************************************************************)
LEMMA HalfDoneType ==
  ASSUME IInv, NEW d \in {db} \cup HalfDone
  PROVE  /\ d \in Store
         /\ \A i \in OccIds : d.occ[i] # NULL \/ task[i] # NULL => i <= d.seq
<1>1. TypeOK /\ db \in Store /\ db.seq \in Nat
  BY DEF IInv, TypeOK, Store
<1>2. CASE d = db
  BY <1>1, <1>2 DEF IInv, IdsInOrder
<1>3. ASSUME NEW i \in OccIds, NEW s \in Outcomes, d \in FinishPrefixes(db, i, s)
      PROVE  /\ d \in Store
             /\ \A k \in OccIds : d.occ[k] # NULL \/ task[k] # NULL => k <= d.seq
  BY <1>1, <1>3, FinishPrefixesType DEF Outcomes, IInv, IdsInOrder
<1>4. ASSUME NEW j \in Nearest(db), Room(1), d = Claim(db, j, db.jobs[j].nextAt)
      PROVE  /\ d \in Store
             /\ \A k \in OccIds : d.occ[k] # NULL \/ task[k] # NULL => k <= d.seq
  <2>1. j \in JobIds /\ db.seq + 1 <= MaxOccurrences
    BY <1>1, <1>4, NearestType DEF Room
  <2>2. PICK slot \in Nat \cup {Manual} : slot = db.jobs[j].nextAt
    BY <1>1, NearestType
  <2>3. PICK id \in OccIds : id = NewId(db)
    BY <1>1, <2>1, ClaimType
  <2>4. d = Claim(db, j, slot)
    BY <1>4, <2>2
  <2>5. /\ d \in Store /\ d.seq = db.seq + 1 /\ id = db.seq + 1
        /\ \A i \in OccIds \ {id} : d.occ[i] = db.occ[i]
    BY <1>1, <2>1, <2>3, <2>4, ClaimType, ZenonT(60)
  <2> QED
    BY <1>1, <2>5 DEF IInv, IdsInOrder, OccIds
<1>5. CASE d \in UNION {FinishPrefixes(db, i, task[i].pc) : i \in {k \in OccIds : TaskIs(k, Outcomes)}}
  BY <1>3, <1>5 DEF TaskIs
<1>6. CASE loop.pc = "skip" /\ d \in FinishPrefixes(db, loop.occ, "skipped")
  BY <1>3, <1>6 DEF IInv, SkipOwned, Outcomes
<1>7. CASE Room(1) /\ d \in
             {Claim(db, j, db.jobs[j].nextAt) :
                j \in {k \in Nearest(db) : DueAt(k) /\ SlotFree(db, k, db.jobs[k].nextAt)}}
  BY <1>4, <1>7
<1>8. CASE d \in HalfDone
  <2> DEFINE A == UNION {FinishPrefixes(db, i, task[i].pc) :
                           i \in {k \in OccIds : TaskIs(k, Outcomes)}}
             B == FinishPrefixes(db, loop.occ, "skipped")
             C == {Claim(db, j, db.jobs[j].nextAt) :
                     j \in {k \in Nearest(db) : DueAt(k) /\ SlotFree(db, k, db.jobs[k].nextAt)}}
  <2>1. HalfDone = A \cup (IF loop.pc = "skip" THEN B ELSE {})
                     \cup (IF loop.pc = "wake" /\ Room(1) THEN C ELSE {})
    BY DEF HalfDone
  <2>2. \/ d \in A
        \/ loop.pc = "skip" /\ d \in B
        \/ Room(1) /\ d \in C
    <3> HIDE DEF A, B, C
    <3>1. \/ d \in A
          \/ loop.pc = "skip" /\ d \in B
          \/ loop.pc = "wake" /\ Room(1) /\ d \in C
      BY <1>8, <2>1, Zenon
    <3> QED
      BY <3>1, Zenon
  <2> QED
    BY <1>5, <1>6, <1>7, <2>2, Zenon
<1> QED
  BY <1>2, <1>8

LEMMA CrashStep ==
  ASSUME IInv, Crash
  PROVE  IInv'
<1>1. /\ TypeOK /\ ProcessEnds /\ now' = now /\ main' = "crashed" /\ procs' \subseteq OccIds
      /\ Happens("crash", MaxCrashes)
  BY DEF Crash, IInv, TypeOK
<1>2. /\ db' \in Store
      /\ \A i \in OccIds : db'.occ[i] # NULL \/ task[i] # NULL => i <= db'.seq
  BY HalfDoneType DEF Crash
<1>3. TypeOK'
  BY <1>1, <1>2, ProcessEndsType, HappensType DEF TypeOK, Down
<1>4. IdsInOrder'
  BY <1>1, <1>2, ProcessEndsType DEF IdsInOrder
<1>5. SkipOwned' /\ HandlerOwns' /\ NoAbandonedClaim'
  BY <1>1, ProcessEndsType, Tainted DEF SkipOwned, Up, Down
<1> QED
  BY <1>3, <1>4, <1>5 DEF IInv

(***************************************************************************)
(* TimeStep: the passing of time and a clock step preserve the invariant.  *)
(***************************************************************************)
LEMMA TimeStep ==
  ASSUME IInv, Tick \/ ClockSet
  PROVE  IInv'
<1>1. /\ TypeOK
      /\ UNCHANGED <<db, permit, cancelled, task, gate, pending, stop, drained, procs,
                     handler, main>>
  BY DEF IInv, Tick, ClockSet
<1>2. now' \in Times
  BY <1>1, BoundsAssumption DEF Tick, ClockSet, TypeOK, Times
<1>3. loop' \in Loop /\ loop'.pc = loop.pc /\ loop'.occ = loop.occ
  BY <1>1 DEF Tick, ClockSet, TypeOK, Loop
<1>4. /\ count' \in [Mishaps -> Nat] /\ tainted' \in BOOLEAN
      /\ ~ tainted' => ~ tainted
  BY <1>1, HappensType DEF Tick, ClockSet, TypeOK
<1>5. TypeOK'
  BY <1>1, <1>2, <1>3, <1>4 DEF TypeOK
<1>6. IdsInOrder' /\ NoAbandonedClaim'
  BY <1>1, <1>4, TablesAlone DEF Up
<1>7. SkipOwned' /\ HandlerOwns'
  BY <1>1, <1>3 DEF IInv, SkipOwned, HandlerOwns, TaskIs
<1> QED
  BY <1>5, <1>6, <1>7 DEF IInv

-----------------------------------------------------------------------------
(***************************************************************************)
(* NextIInv: every step of the daemon preserves the invariant.             *)
(***************************************************************************)
LEMMA NextIInv == IInv /\ [Next]_vars => IInv'
<1> SUFFICES ASSUME IInv, [Next]_vars PROVE IInv'
  OBVIOUS
<1>1. CASE UNCHANGED vars
  BY <1>1 DEF vars, schedVars, IInv, TypeOK, IdsInOrder, SkipOwned, HandlerOwns, NoAbandonedClaim,
              TaskIs, Up
<1>2. CASE Start
  BY <1>2, StartStep
<1>3. CASE StartFault
  BY <1>3, StartFaultStep
<1>4. CASE Terminate \/ ServeBreak \/ ServeJoined \/ ServeError \/ Stopping
  BY <1>4, MainQuietStep
<1>5. CASE Exit
  BY <1>5, ExitStep
<1>6. CASE Crash
  BY <1>6, CrashStep
<1>7. CASE LoopWork \/ LoopFires
  BY <1>7, LoopStep
<1>8. CASE StoreFault
  BY <1>8, FaultStep
<1>9. CASE \E i \in OccIds : TaskWork(i) \/ RunnerExit(i)
  BY <1>9, TaskStep
<1>10. CASE \E h \in Handlers :
              Accepts(h) \/ Requests(h) \/ HandlerProceeds(h) \/ HandlerAborted(h)
  BY <1>10, HandlerStep
<1>11. CASE Tick \/ ClockSet
  BY <1>11, TimeStep
<1> QED
  BY <1>1, <1>2, <1>3, <1>4, <1>5, <1>6, <1>7, <1>8, <1>9, <1>10, <1>11 DEF Next, MainWork

(***************************************************************************)
(* Inductive: the strengthened invariant holds in every reachable state.   *)
(***************************************************************************)
THEOREM Inductive == Spec => []IInv
<1> QED
  BY InitIInv, NextIInv, PTL DEF Spec

(***************************************************************************)
(* TypeCorrect: every reachable state is well typed.                       *)
(***************************************************************************)
THEOREM TypeCorrect == Spec => []TypeOK
<1>1. IInv => TypeOK
  BY DEF IInv
<1> QED
  BY <1>1, Inductive, PTL

(***************************************************************************)
(* ClaimsAreOwned: while a daemon is up and its store does not fail, every *)
(* claimed row has an owner that is still going to finish it, for any      *)
(* number of jobs, handlers, occurrences, crashes, restarts and clock      *)
(* steps.                                                                  *)
(***************************************************************************)
THEOREM ClaimsAreOwned == Spec => []NoAbandonedClaim
<1>1. IInv => NoAbandonedClaim
  BY DEF IInv
<1> QED
  BY <1>1, Inductive, PTL
=============================================================================
