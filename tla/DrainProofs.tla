----------------------------- MODULE DrainProofs -----------------------------
(***************************************************************************)
(* The drain on a signal leaves nothing behind, for every value of the     *)
(* constants of Daemon.                                                    *)
(*                                                                         *)
(* Scheduler::stop waits for the counter only.  That this is enough rests  *)
(* on who may still raise it: a claim not yet enqueued belongs to a        *)
(* handler in between (ClaimHeld) or to the loop (MissHeld), serve has     *)
(* joined every handler before it calls stop (Joined), and stop reads the  *)
(* counter only once the loop has exited (StopOrder).                      *)
(***************************************************************************)
EXTENDS LedgerProofs

ClaimHeld ==
  \A i \in OccIds : TaskIs(i, {"claimed"}) =>
    \E h \in Handlers : handler[h].pc = "claimed" /\ handler[h].occ = i

MissHeld == \A i \in OccIds : TaskIs(i, {"missed"}) => loop.pc = "skip" /\ loop.occ = i

Joined == main = "stopping" => \A h \in Handlers : handler[h].pc = "free"

StopOrder ==
  /\ stop # "idle" => main \in {"stopping", "aborting"}
  /\ stop \in {"check", "await", "done"} => loop.pc = "exited"
  /\ stop = "done" /\ main = "stopping" => pending = 0

DInv == LInv /\ ClaimHeld /\ MissHeld /\ Joined /\ StopOrder

-----------------------------------------------------------------------------

LEMMA InitDInv == Init => DInv
<1> SUFFICES ASSUME Init PROVE DInv
  OBVIOUS
<1>1. \A i \in OccIds : task[i] = NULL
  BY DEF Init, SchedulerInit
<1>2. ClaimHeld /\ MissHeld
  BY <1>1 DEF ClaimHeld, MissHeld, TaskIs
<1>3. Joined /\ StopOrder
  BY DEF Init, SchedulerInit, Joined, StopOrder
<1> QED
  BY <1>2, <1>3, InitLInv DEF DInv

\* A claim that is not new keeps its holder.
LEMMA ClaimsShrink ==
  ASSUME ClaimHeld, handler' = handler,
         \A i \in OccIds : TaskIs(i, {"claimed"})' => TaskIs(i, {"claimed"})
  PROVE  ClaimHeld'
BY DEF ClaimHeld

LEMMA MissesShrink ==
  ASSUME MissHeld, loop'.pc = loop.pc, loop'.occ = loop.occ,
         \A i \in OccIds : TaskIs(i, {"missed"})' => TaskIs(i, {"missed"})
  PROVE  MissHeld'
BY DEF MissHeld

\* A step that leaves the process and its counter alone, and the loop where it is.
LEMMA StopKept ==
  ASSUME StopOrder, UNCHANGED <<main, stop>>, loop'.pc = loop.pc,
         stop = "done" /\ main = "stopping" => pending' = pending
  PROVE  StopOrder'
BY DEF StopOrder

\* With the counter at zero no task is counted.
LEMMA NoneCounted ==
  ASSUME LInv, pending = 0, NEW i \in OccIds
  PROVE  ~ TaskIs(i, Counted)
<1> DEFINE S == {k \in OccIds : TaskIs(k, Counted)}
<1>1. IsFiniteSet(OccIds)
  BY FS_Interval, BoundsAssumption DEF OccIds
<1>2. IsFiniteSet(S)
  BY <1>1, FS_Subset
<1>3. Cardinality(S) = 0
  BY DEF LInv, PendingCount
<1>4. S = {}
  BY <1>2, <1>3, FS_EmptySet
<1> QED
  BY <1>4

-----------------------------------------------------------------------------
(* The loop. *)

LoopFault == LoopPlanFault \/ WakeFaultUnclaimed \/ LoopSkipFault \/ \E j \in JobIds : WakeFault(j)

\* Claiming enters a task that is not claimed by run_now; skipping ends the missed one.
LEMMA LoopTasks ==
  ASSUME DInv, LoopWork \/ LoopFires \/ LoopFault
  PROVE  /\ \A i \in OccIds : TaskIs(i, {"claimed"})' => TaskIs(i, {"claimed"})
         /\ MissHeld'
         /\ loop.pc \notin {"off", "exited"}
         /\ UNCHANGED stop
<1>1. IInv /\ TypeOK /\ db \in Store
  BY DEF DInv, LInv, IInv, TypeOK
<1>2. ASSUME loop.pc # "skip" PROVE \A i \in OccIds : ~ TaskIs(i, {"missed"})
  BY <1>2 DEF DInv, MissHeld
<1>3. CASE \/ LoopPlan \/ LoopNotified \/ LoopCancelled \/ WakeNothingDue \/ LoopTimeout
           \/ LoopPlanFault \/ WakeFaultUnclaimed
           \/ \E j \in JobIds : WakeConflict(j) \/ WakeFault(j)
  <2>1. /\ task' = task /\ stop' = stop
        /\ loop.pc \in {"plan", "sleep", "wake"}
    BY <1>3 DEF LoopPlan, LoopNotified, LoopCancelled, WakeNothingDue, LoopTimeout,
       LoopPlanFault, WakeFaultUnclaimed, WakeConflict, WakeFault
  <2> QED
    BY <1>2, <2>1 DEF MissHeld, TaskIs
<1>4. ASSUME NEW j \in JobIds, WakeClaim(j)
      PROVE  /\ \A i \in OccIds : TaskIs(i, {"claimed"})' => TaskIs(i, {"claimed"})
             /\ MissHeld'
             /\ loop.pc \notin {"off", "exited"}
             /\ UNCHANGED stop
  <2>1. /\ j \in JobIds /\ HasJob(db, j) /\ loop.pc = "wake" /\ stop' = stop
        /\ db.seq + 1 <= MaxOccurrences
    BY <1>1, <1>4, NearestType DEF WakeClaim, Room
  <2>2. PICK slot \in Nat \cup {Manual} : slot = db.jobs[j].nextAt
    BY <1>1, <1>4, NearestType DEF WakeClaim
  <2>3. PICK id \in OccIds : id = NewId(db) /\ task[id] = NULL
    <3>1. NewId(db) \in OccIds /\ RowsNew(db, Claim(db, j, slot), NewId(db), j, slot)
      BY <1>1, <2>1, <2>2, ClaimRows
    <3>2. task[NewId(db)] = NULL
      BY <1>1, <3>1 DEF IInv, IdsInOrder, RowsNew, Store, OccIds
    <3> QED
      BY <3>1, <3>2
  <2>4. "missed" \in Owning /\ "queued" \in Owning
    BY DEF Owning
  <2>5. CASE IsMissed(slot)
    <3>1. /\ task' = [task EXCEPT ![id] = Snapshot(j, slot, "missed")]
          /\ loop' = [LoopAt("skip") EXCEPT !.occ = id]
      BY <1>4, <2>2, <2>3, <2>5 DEF WakeClaim
    <3>2. NewTask(id, j, slot, "missed")
      BY <1>1, <2>1, <2>4, <3>1, NewTaskType
    <3>3. loop'.pc = "skip" /\ loop'.occ = id
      BY <3>1 DEF LoopAt
    <3> QED
      BY <1>2, <2>1, <3>2, <3>3 DEF NewTask, MissHeld, TaskIs
  <2>6. CASE ~ IsMissed(slot)
    <3>1. task' = [task EXCEPT ![id] = Snapshot(j, slot, "queued")]
      BY <1>4, <2>2, <2>3, <2>6 DEF WakeClaim
    <3>2. NewTask(id, j, slot, "queued")
      BY <1>1, <2>1, <2>4, <3>1, NewTaskType
    <3> QED
      BY <1>2, <2>1, <2>3, <3>2 DEF NewTask, MissHeld, TaskIs
  <2> QED
    BY <2>5, <2>6
<1>5. CASE LoopSkip \/ LoopSkipFault
  <2>1. PICK i \in OccIds : i = loop.occ /\ TaskIs(i, {"missed"})
    BY <1>1, <1>5 DEF LoopSkip, LoopSkipFault, IInv, SkipOwned
  <2>2. SetTask(i, "done") /\ stop' = stop /\ loop.pc = "skip"
    BY <1>5, <2>1 DEF LoopSkip, LoopSkipFault
  <2>3. task'[i].pc = "done" /\ \A k \in OccIds \ {i} : task'[k] = task[k]
    BY <1>1, <2>1, <2>2, SetTaskType DEF TaskIs
  <2>4. \A k \in OccIds : TaskIs(k, {"missed"}) => k = i
    BY <2>1 DEF DInv, MissHeld
  <2> QED
    BY <2>2, <2>3, <2>4 DEF MissHeld, TaskIs
<1> QED
  BY <1>3, <1>4, <1>5 DEF LoopWork, LoopFires, LoopFault

LEMMA LoopDrain ==
  ASSUME DInv, LoopWork \/ LoopFires \/ LoopFault, UNCHANGED <<main, handler>>
  PROVE  ClaimHeld' /\ MissHeld' /\ Joined' /\ StopOrder'
<1>1. ClaimHeld' /\ MissHeld'
  BY LoopTasks, ClaimsShrink DEF DInv
<1>2. Joined'
  BY DEF DInv, Joined
<1>3. StopOrder'
  BY LoopTasks DEF DInv, StopOrder
<1> QED
  BY <1>1, <1>2, <1>3

-----------------------------------------------------------------------------
(* The tasks. *)

TaskMove(i) ==
  \/ ExecStart(i) \/ ExecRefused(i) \/ ExecEnd(i) \/ ExecFinish(i) \/ ExecFinishFault(i)
  \/ ExecDone(i) \/ ExecNotify(i) \/ OrphanExit(i)

LEMMA TaskDrain ==
  ASSUME DInv, NEW i \in OccIds, TaskMove(i), UNCHANGED <<main, handler>>
  PROVE  ClaimHeld' /\ MissHeld' /\ Joined' /\ StopOrder'
<1>1. TypeOK
  BY DEF DInv, LInv, IInv
<1>2. UNCHANGED <<loop, stop>>
  BY DEF TaskMove, ExecStart, ExecRefused, ExecEnd, ExecFinish, ExecFinishFault, ExecDone,
     ExecNotify, OrphanExit
<1>3. \/ task' = task
      \/ \E q \in Outcomes \cup {"running", "sent", "last", "done"} :
           task[i] # NULL /\ SetTask(i, q)
  BY DEF TaskMove, ExecStart, ExecRefused, ExecEnd, ExecFinish, ExecFinishFault, ExecDone,
     ExecNotify, OrphanExit, TaskIs, Outcomes
<1>4. \A k \in OccIds : task'[k] = task[k]
        \/ (task'[k] # NULL /\ task'[k].pc \notin {"claimed", "missed"})
  BY <1>1, <1>3, SetTaskType DEF Owning, Outcomes
<1>5. ClaimHeld' /\ MissHeld'
  BY <1>2, <1>4, ClaimsShrink, MissesShrink DEF DInv, TaskIs
<1>6. pending' = pending \/ (pending' = pending - 1 /\ TaskIs(i, {"sent"}))
  BY DEF TaskMove, ExecStart, ExecRefused, ExecEnd, ExecFinish, ExecFinishFault, ExecDone,
     ExecNotify, OrphanExit
<1>7. pending = 0 => ~ TaskIs(i, {"sent"})
  BY NoneCounted DEF DInv, TaskIs, Counted
<1>8. StopOrder'
  BY <1>2, <1>6, <1>7 DEF DInv, StopOrder
<1>9. Joined'
  BY DEF DInv, Joined
<1> QED
  BY <1>5, <1>8, <1>9

-----------------------------------------------------------------------------
(* The handlers. *)

HandlerFault(h) ==
  \E j \in JobIds :
    \/ HandlerRunNowFault(h, j)
    \/ \E s \in Schedules, e \in BOOLEAN : CommitFault(h, j, s, e)

HandlerMove(h) ==
  \/ Accepts(h) \/ Requests(h) \/ HandlerProceeds(h) \/ HandlerAborted(h)
  \/ (HandlerFault(h) /\ UNCHANGED main)

\* A handler between claim and enqueue keeps its claim; one that is not has none.
LEMMA HandlerClaims ==
  ASSUME DInv, NEW h \in Handlers, HandlerMove(h)
  PROVE  ClaimHeld' /\ MissHeld'
<1>1. IInv /\ TypeOK /\ db \in Store
  BY DEF DInv, LInv, IInv, TypeOK
<1>2. ASSUME NEW pc, handler[h].pc # "claimed", HandlerGoes(h, pc), UNCHANGED <<task, loop>>
      PROVE  ClaimHeld' /\ MissHeld'
  <2>1. \A g \in Handlers : handler[g].pc = "claimed" => handler'[g] = handler[g]
    BY <1>1, <1>2 DEF HandlerGoes, TypeOK
  <2>2. ClaimHeld'
    BY <1>2, <2>1 DEF DInv, ClaimHeld, TaskIs
  <2>3. MissHeld'
    BY <1>2 DEF DInv, MissHeld, TaskIs
  <2> QED
    BY <2>2, <2>3
<1>3. CASE HandlerAccept(h) \/ HandlerReply(h) \/ HandlerNotify(h) \/ HandlerAnswered(h)
             \/ HandlerDropped(h)
  <2>1. \E pc \in {"read", "free"} : handler[h].pc # "claimed" /\ HandlerGoes(h, pc)
    BY <1>3 DEF HandlerAccept, HandlerReply, HandlerNotify, HandlerAnswered, HandlerDropped, Reading
  <2>2. UNCHANGED <<task, loop>>
    BY <1>3 DEF HandlerAccept, HandlerReply, HandlerNotify, HandlerAnswered, HandlerDropped,
       schedVars
  <2> QED
    BY <1>2, <2>1, <2>2
<1>4. ASSUME NEW d, Reading(h), Commit(h, d) PROVE ClaimHeld' /\ MissHeld'
  BY <1>2, <1>4 DEF Commit, Reading
<1>5. CASE HandlerFault(h)
  <2>1. handler[h].pc # "claimed" /\ HandlerGoes(h, "free") /\ UNCHANGED <<task, loop>>
    BY <1>5 DEF HandlerFault, HandlerRunNowFault, RunNowFault, CommitFault, Reading
  <2> QED
    BY <1>2, <2>1
<1>6. ASSUME NEW j \in JobIds, HandlerRunNow(h, j) PROVE ClaimHeld' /\ MissHeld'
  <2>1. HasJob(db, j) /\ db.seq + 1 <= MaxOccurrences /\ handler[h].pc = "read"
    BY <1>1, <1>6, BoundsAssumption DEF HandlerRunNow, RunNowClaim, Room, Store, Reading
  <2>2. Manual \in Nat \cup {Manual}
    OBVIOUS
  <2>3. PICK id \in OccIds : id = NewId(db) /\ task[id] = NULL
    <3>1. NewId(db) \in OccIds /\ RowsNew(db, Claim(db, j, Manual), NewId(db), j, Manual)
      BY <1>1, <2>1, <2>2, ClaimRows
    <3>2. task[NewId(db)] = NULL
      BY <1>1, <3>1 DEF IInv, IdsInOrder, RowsNew, Store, OccIds
    <3> QED
      BY <3>1, <3>2
  <2>4. /\ task' = [task EXCEPT ![id] = Snapshot(j, Manual, "claimed")]
        /\ handler' = [handler EXCEPT ![h] = [pc |-> "claimed", occ |-> id]]
        /\ loop' = loop
    BY <1>6, <2>3 DEF HandlerRunNow, RunNowClaim
  <2>5. NewTask(id, j, Manual, "claimed")
    <3>1. "claimed" \in Owning
      BY DEF Owning
    <3> QED
      BY <1>1, <2>1, <2>2, <2>4, <3>1, NewTaskType
  <2>6. /\ handler'[h].pc = "claimed" /\ handler'[h].occ = id
        /\ \A g \in Handlers : handler[g].pc = "claimed" => handler'[g] = handler[g]
    BY <1>1, <2>1, <2>4 DEF TypeOK
  <2>7. ClaimHeld'
    BY <2>5, <2>6 DEF NewTask, DInv, ClaimHeld, TaskIs
  <2>8. MissHeld'
    BY <2>3, <2>4, <2>5 DEF NewTask, DInv, MissHeld, TaskIs
  <2> QED
    BY <2>7, <2>8
<1>7. CASE HandlerEnqueue(h)
  <2>1. PICK i \in OccIds : i = handler[h].occ
    BY <1>1, <1>7 DEF HandlerEnqueue, IInv, HandlerOwns
  <2>2. /\ TaskIs(i, {"claimed"}) /\ SetTask(i, "queued") /\ loop' = loop
        /\ handler' = [handler EXCEPT ![h].pc = "wait"]
    BY <1>7, <2>1 DEF HandlerEnqueue, Enqueue
  <2>3. task'[i].pc = "queued" /\ \A k \in OccIds \ {i} : task'[k] = task[k]
    BY <1>1, <2>2, SetTaskType DEF TaskIs, Owning
  <2>4. \A g \in Handlers \ {h} : handler'[g] = handler[g]
    BY <1>1, <2>2 DEF TypeOK
  <2>5. ClaimHeld'
    BY <2>1, <2>3, <2>4 DEF DInv, ClaimHeld, TaskIs
  <2>6. MissHeld'
    BY <2>2, <2>3 DEF DInv, MissHeld, TaskIs
  <2> QED
    BY <2>5, <2>6
<1>8. CASE Requests(h)
  <2>1. CASE HandlerReply(h)
    BY <1>3, <2>1
  <2>2. ASSUME NEW j \in JobIds, NEW s \in Schedules, NEW e \in BOOLEAN,
               CommitAdd(h, j, s, e) \/ CommitEdit(h, j, s, e)
        PROVE  ClaimHeld' /\ MissHeld'
    BY <1>4, <2>2 DEF CommitAdd, CommitEdit
  <2>3. ASSUME NEW j \in JobIds, NEW e \in BOOLEAN, CommitDelete(h, j) \/ CommitSetEnabled(h, j, e)
        PROVE  ClaimHeld' /\ MissHeld'
    BY <1>4, <2>3 DEF CommitDelete, CommitSetEnabled
  <2>4. TRUE \in BOOLEAN
    OBVIOUS
  <2> QED
    BY <1>6, <1>8, <2>1, <2>2, <2>3, <2>4 DEF Requests, HandlerRequest
<1> QED
  BY <1>3, <1>5, <1>7, <1>8 DEF HandlerMove, Accepts, HandlerProceeds, HandlerWork, HandlerAborted

LEMMA HandlerDrain ==
  ASSUME DInv, NEW h \in Handlers, HandlerMove(h)
  PROVE  ClaimHeld' /\ MissHeld' /\ Joined' /\ StopOrder'
<1>1. UNCHANGED <<main, loop, stop>>
  BY DEF HandlerMove, Accepts, Requests, HandlerProceeds, HandlerAborted, HandlerFault,
     HandlerAccept, HandlerRequest, HandlerReply, CommitAdd, CommitEdit, CommitDelete,
     CommitSetEnabled, Commit, HandlerRunNow, RunNowClaim, HandlerWork, HandlerNotify,
     HandlerEnqueue, Enqueue, HandlerAnswered, HandlerDropped, HandlerRunNowFault, RunNowFault,
     CommitFault, schedVars
<1>2. main # "stopping"
  <2>1. handler[h].pc # "free" \/ main = "serving"
    BY DEF HandlerMove, Accepts, Requests, HandlerProceeds, HandlerAborted, HandlerFault,
       HandlerRequest, HandlerReply, CommitAdd, CommitEdit, CommitDelete, CommitSetEnabled,
       HandlerRunNow, HandlerWork, HandlerNotify, HandlerEnqueue, HandlerAnswered,
       HandlerDropped, HandlerRunNowFault, CommitFault, Reading
  <2> QED
    BY <2>1 DEF DInv, Joined
<1>3. Joined'
  BY <1>1, <1>2 DEF Joined
<1>4. StopOrder'
  BY <1>1, <1>2, StopKept DEF DInv
<1> QED
  BY <1>3, <1>4, HandlerClaims

-----------------------------------------------------------------------------
(* The process. *)

LEMMA MainDrain ==
  ASSUME DInv, Start \/ StartFault \/ Terminate \/ MainWork \/ ServeError \/ Crash
  PROVE  ClaimHeld' /\ MissHeld' /\ Joined' /\ StopOrder'
<1>1. TypeOK /\ Idle
  BY DEF DInv, LInv, IInv
<1>2. CASE Start
  <2>1. /\ \A i \in OccIds : ~ TaskIs(i, Owning)
        /\ main' = "serving" /\ task' = task /\ stop' = stop /\ stop = "idle"
    BY <1>1, <1>2 DEF Start, Idle, DInv, StopOrder, Up, Down
  <2> QED
    BY <2>1 DEF ClaimHeld, MissHeld, Joined, StopOrder, TaskIs, Owning
<1>3. CASE StartFault
  <2>1. /\ \A i \in OccIds : ~ TaskIs(i, Owning)
        /\ main' = "failed" /\ task' = task /\ stop' = stop /\ stop = "idle"
    BY <1>1, <1>3 DEF StartFault, Idle, DInv, StopOrder, Up, Down
  <2> QED
    BY <2>1 DEF ClaimHeld, MissHeld, Joined, StopOrder, TaskIs, Owning
<1>4. CASE Terminate \/ ServeBreak \/ ServeJoined \/ ServeError \/ Stopping
  <2>1. UNCHANGED <<task, handler, loop, pending>>
    BY <1>4 DEF Terminate, ServeBreak, ServeJoined, ServeError, Stopping, StopCall, StopJoined,
       StopCheck, StopAwaited, schedVars
  <2>2. ClaimHeld' /\ MissHeld'
    BY <2>1, ClaimsShrink, MissesShrink DEF DInv, TaskIs
  <2>3. Joined'
    BY <1>4, <2>1 DEF DInv, Joined, Terminate, ServeBreak, ServeJoined, ServeError, Stopping
  <2>4. StopOrder'
    BY <1>4, <2>1 DEF DInv, StopOrder, Terminate, ServeBreak, ServeJoined, ServeError, Stopping,
       StopCall, StopJoined, StopCheck, StopAwaited, schedVars
  <2> QED
    BY <2>2, <2>3, <2>4
<1>5. CASE Exit \/ Crash
  <2>1. ProcessEnds /\ main' \in Down
    BY <1>5 DEF Exit, Crash, Down
  <2>2. \A i \in OccIds : ~ TaskIs(i, Owning)'
    BY <1>1, <2>1, EndedTask DEF TaskIs, Owning, Outcomes
  <2>3. stop' = "idle" /\ main' # "stopping"
    BY <2>1 DEF ProcessEnds, Down
  <2> QED
    BY <2>2, <2>3 DEF ClaimHeld, MissHeld, Joined, StopOrder, TaskIs, Owning
<1> QED
  BY <1>2, <1>3, <1>4, <1>5 DEF MainWork

LEMMA NextDInv == DInv /\ [Next]_vars => DInv'
<1> SUFFICES ASSUME DInv, [Next]_vars PROVE DInv'
  OBVIOUS
<1>1. LInv'
  BY NextLInv DEF DInv
<1> SUFFICES ClaimHeld' /\ MissHeld' /\ Joined' /\ StopOrder'
  BY <1>1 DEF DInv
<1>2. CASE UNCHANGED vars
  BY <1>2 DEF vars, schedVars, DInv, ClaimHeld, MissHeld, Joined, StopOrder, TaskIs
<1>3. CASE Tick \/ ClockSet
  <2>1. /\ UNCHANGED <<task, handler, main, stop, pending>>
        /\ loop'.pc = loop.pc /\ loop'.occ = loop.occ
    BY <1>3 DEF Tick, ClockSet, DInv, LInv, IInv, TypeOK, Loop
  <2> QED
    BY <2>1 DEF DInv, ClaimHeld, MissHeld, Joined, StopOrder, TaskIs
<1>4. CASE Start \/ StartFault \/ Terminate \/ MainWork \/ ServeError \/ Crash
  BY <1>4, MainDrain
<1>5. CASE LoopWork \/ LoopFires
  BY <1>5, LoopDrain DEF LoopWork, LoopFires
<1>6. CASE StoreFault
  <2>1. \/ LoopFault /\ UNCHANGED <<main, handler>>
        \/ \E i \in OccIds : TaskMove(i) /\ UNCHANGED <<main, handler>>
        \/ \E h \in Handlers : HandlerMove(h)
    BY <1>6 DEF StoreFault, LoopFault, TaskMove, HandlerMove, HandlerFault
  <2> QED
    BY <2>1, LoopDrain, TaskDrain, HandlerDrain
<1>7. CASE \E i \in OccIds : TaskWork(i) \/ RunnerExit(i)
  BY <1>7, TaskDrain DEF TaskWork, RunnerExit, TaskMove
<1>8. CASE \E h \in Handlers :
             Accepts(h) \/ Requests(h) \/ HandlerProceeds(h) \/ HandlerAborted(h)
  BY <1>8, HandlerDrain DEF HandlerMove
<1> QED
  BY <1>2, <1>3, <1>4, <1>5, <1>6, <1>7, <1>8 DEF Next

(***************************************************************************)
(* DrainInductive: the strengthened invariant holds in every reachable     *)
(* state.                                                                  *)
(***************************************************************************)
THEOREM DrainInductive == Spec => []DInv
<1> QED
  BY InitDInv, NextDInv, PTL DEF Spec

\* When stop has returned after a drain, nobody is at work.
LEMMA DrainedIdle ==
  ASSUME DInv, stop = "done", main = "stopping", NEW i \in OccIds
  PROVE  ~ TaskIs(i, Owning)
<1>1. /\ pending = 0 /\ loop.pc = "exited"
      /\ \A h \in Handlers : handler[h].pc = "free"
  BY DEF DInv, StopOrder, Joined
<1>2. ~ TaskIs(i, Counted)
  BY <1>1, NoneCounted DEF DInv
<1>3. ~ TaskIs(i, {"claimed"}) /\ ~ TaskIs(i, {"missed"})
  BY <1>1 DEF DInv, ClaimHeld, MissHeld
<1> QED
  BY <1>2, <1>3 DEF TaskIs, Owning, Counted

(***************************************************************************)
(* DrainIsClean: a daemon that drains on a signal leaves no run of its own *)
(* behind and no runner, and no claimed row unless its store failed, for   *)
(* any number of handlers, jobs and occurrences.                           *)
(***************************************************************************)
THEOREM DrainIsClean == Spec => StoppedClean
<1>1. ASSUME DInv, Exit, main = "stopping"
      PROVE  /\ \A i \in OccIds : ~ TaskIs(i, Owning)
             /\ procs' = procs
             /\ ~ tainted => \A i \in OccIds : ~ IsClaimed(db, i)
  <2>2. ASSUME NEW i \in OccIds PROVE ~ TaskIs(i, Owning)
    BY <1>1, DrainedIdle DEF Exit
  <2>3. procs \subseteq OccIds /\ \A i \in procs : TaskIs(i, {"lost"})
    BY <1>1, <2>2 DEF DInv, LInv, IInv, TypeOK, RunnersTied, TaskIs, Owning
  <2>4. procs' = procs
    BY <1>1, <2>3 DEF Exit
  <2>5. ~ tainted => \A i \in OccIds : ~ IsClaimed(db, i)
    BY <1>1, <2>2 DEF DInv, LInv, IInv, NoAbandonedClaim, Up, Down
  <2> QED
    BY <2>2, <2>4, <2>5
<1>2. DInv /\ [Next]_vars =>
        [Exit /\ main = "stopping" =>
           /\ \A i \in OccIds : ~ TaskIs(i, Owning)
           /\ procs' = procs
           /\ ~ tainted => \A i \in OccIds : ~ IsClaimed(db, i)]_vars
  BY <1>1
<1> QED
  BY <1>2, DrainInductive, PTL DEF Spec, StoppedClean

-----------------------------------------------------------------------------
(* The wake-up of stop is not lost. *)

LEMMA PendingIsNat == ASSUME LInv PROVE pending \in Nat
<1>1. IsFiniteSet({k \in OccIds : TaskIs(k, Counted)})
  <2>1. IsFiniteSet(OccIds)
    BY FS_Interval, BoundsAssumption DEF OccIds
  <2> QED
    BY <2>1, FS_Subset
<1>2. Cardinality({k \in OccIds : TaskIs(k, Counted)}) \in Nat
  BY <1>1, FS_CardinalityType
<1> QED
  BY <1>2 DEF LInv, PendingCount

\* stop begins to wait only with a counter above zero, and a notice taken ends the wait.
LEMMA StopWaits ==
  ASSUME LInv, [Next]_vars, stop' = "await", ~ drained'
  PROVE  \/ stop = "await" /\ ~ drained
         \/ stop = "check" /\ pending # 0 /\ UNCHANGED <<task, pending>>
<1>1. CASE UNCHANGED vars
  BY <1>1 DEF vars, schedVars
<1>2. CASE Start \/ StartFault \/ Terminate \/ ServeBreak \/ Tick \/ ClockSet
  BY <1>2 DEF Start, StartFault, Terminate, ServeBreak, Tick, ClockSet, schedVars
<1>3. CASE ServeJoined \/ ServeError
  BY <1>3 DEF ServeJoined, ServeError, StopCall
<1>4. CASE Stopping
  BY <1>4 DEF Stopping, StopJoined, StopCheck, StopAwaited
<1>5. CASE Exit \/ Crash
  BY <1>5 DEF Exit, Crash, ProcessEnds
<1>6. CASE LoopWork \/ LoopFires \/ LoopFault
  BY <1>6 DEF LoopWork, LoopFires, LoopFault, LoopPlan, LoopNotified, LoopCancelled,
     WakeNothingDue, LoopTimeout, WakeConflict, WakeClaim, LoopSkip, LoopPlanFault,
     WakeFaultUnclaimed, LoopSkipFault, WakeFault
<1>7. CASE \E i \in OccIds : TaskMove(i)
  BY <1>7 DEF TaskMove, ExecStart, ExecRefused, ExecEnd, ExecFinish, ExecFinishFault, ExecDone,
     ExecNotify, OrphanExit
<1>8. CASE \E h \in Handlers : HandlerMove(h)
  BY <1>8 DEF HandlerMove, Accepts, Requests, HandlerProceeds, HandlerAborted, HandlerFault,
     HandlerAccept, HandlerRequest, HandlerReply, CommitAdd, CommitEdit, CommitDelete,
     CommitSetEnabled, Commit, HandlerRunNow, RunNowClaim, HandlerWork, HandlerNotify,
     HandlerEnqueue, Enqueue, HandlerAnswered, HandlerDropped, HandlerRunNowFault, RunNowFault,
     CommitFault, schedVars
<1>9. StoreFault => LoopFault \/ (\E i \in OccIds : TaskMove(i)) \/ \E h \in Handlers : HandlerMove(h)
  BY DEF StoreFault, LoopFault, TaskMove, HandlerMove, HandlerFault
<1> QED
  BY <1>1, <1>2, <1>3, <1>4, <1>5, <1>6, <1>7, <1>8, <1>9
     DEF Next, MainWork, TaskWork, RunnerExit, TaskMove, HandlerMove

\* What a step does to the counter and to the task that is about to notify.
LEMMA NoticeKept ==
  ASSUME LInv, Kinds, DrainIsNotified, stop = "await", ~ drained, stop' = "await", ~ drained'
  PROVE  pending' > 0 \/ \E i \in OccIds : TaskIs(i, {"last"})'
<1>1. pending \in Nat /\ (pending > 0 \/ \E i \in OccIds : TaskIs(i, {"last"}))
  BY PendingIsNat DEF DrainIsNotified
<1>2. CASE Quiet \/ Forgets \/ Recovers \/ Strays
  BY <1>1, <1>2 DEF Quiet, Forgets, Recovers, Strays, TasksKeep, TaskIs
<1>3. CASE Dies
  BY <1>3 DEF Dies, ProcessEnds
<1>4. ASSUME NEW k \in OccIds, Claims(k) \/ Queues(k)
      PROVE  pending' > 0 \/ \E i \in OccIds : TaskIs(i, {"last"})'
  <2>1. pending' = pending \/ pending' = pending + 1
    BY <1>1, <1>4 DEF Claims, Queues
  <2>2. \A i \in OccIds : TaskIs(i, {"last"}) => TaskIs(i, {"last"})'
    BY <1>4 DEF Claims, Queues, Enters, TaskIs
  <2> QED
    BY <1>1, <2>1, <2>2
<1>5. ASSUME NEW k \in OccIds,
             \/ Enqueues(k) \/ Begins(k) \/ Refuses(k) \/ Stops(k) \/ Settles(k)
             \/ Skips(k) \/ Vanishes(k)
      PROVE  pending' > 0 \/ \E i \in OccIds : TaskIs(i, {"last"})'
  <2>1. pending' = pending \/ pending' = pending + 1
    BY <1>1, <1>5 DEF Enqueues, Begins, Refuses, Stops, Settles, Skips, Vanishes
  <2>2. \A i \in OccIds : TaskIs(i, {"last"}) => TaskIs(i, {"last"})'
    <3>1. \/ task' = task
          \/ /\ TaskIs(k, {"claimed", "queued", "running", "missed"} \cup Outcomes)
             /\ \A i \in OccIds \ {k} : task'[i] = task[i]
      BY <1>5 DEF Enqueues, Begins, Refuses, Stops, Settles, Skips, Vanishes, Moves, TaskIs
    <3>2. TaskIs(k, {"claimed", "queued", "running", "missed"} \cup Outcomes) => ~ TaskIs(k, {"last"})
      BY DEF TaskIs, Outcomes
    <3> QED
      BY <3>1, <3>2 DEF TaskIs
  <2> QED
    BY <1>1, <2>1, <2>2
<1>6. ASSUME NEW k \in OccIds, CountsDown(k)
      PROVE  pending' > 0 \/ \E i \in OccIds : TaskIs(i, {"last"})'
  <2>1. pending > 0
    <3>1. TaskIs(k, Counted)
      BY <1>6 DEF CountsDown, Moves, TaskIs, Counted
    <3> QED
      BY <1>1, <3>1, NoneCounted
  <2>2. pending' = pending - 1 /\ (pending = 1 => TaskIs(k, {"last"})')
    BY <1>6 DEF CountsDown
  <2> QED
    BY <1>1, <2>1, <2>2
<1>7. ASSUME NEW k \in OccIds PROVE ~ Notifies(k)
  BY DEF Notifies
<1> QED
  BY <1>2, <1>3, <1>4, <1>5, <1>6, <1>7 DEF Kinds

(***************************************************************************)
(* WaitIsAnswered: a stop that waits is notified, or has a run to wait     *)
(* for, or the task about to notify it, in every reachable state, for any  *)
(* number of handlers, jobs and occurrences.                               *)
(***************************************************************************)
THEOREM WaitIsAnswered == Spec => []DrainIsNotified
<1>1. Init => DrainIsNotified
  BY DEF Init, SchedulerInit, DrainIsNotified
<1>2. ASSUME DInv, DrainIsNotified, [Next]_vars PROVE DrainIsNotified'
  <2> SUFFICES ASSUME stop' = "await", ~ drained'
               PROVE  pending' > 0 \/ \E i \in OccIds : TaskIs(i, {"last"})'
    BY DEF DrainIsNotified
  <2>1. LInv /\ pending \in Nat
    BY <1>2, PendingIsNat DEF DInv
  <2>2. CASE stop = "await" /\ ~ drained
    <3>1. Kinds
      BY <1>2, <2>1, StepKinds DEF LInv
    <3> QED
      BY <1>2, <2>1, <2>2, <3>1, NoticeKept
  <2>3. CASE stop = "check" /\ pending # 0 /\ UNCHANGED <<task, pending>>
    BY <2>1, <2>3
  <2> QED
    BY <1>2, <2>1, <2>2, <2>3, StopWaits
<1> QED
  BY <1>1, <1>2, DrainInductive, PTL DEF Spec
=============================================================================
