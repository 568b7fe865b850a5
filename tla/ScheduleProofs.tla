--------------------------- MODULE ScheduleProofs ---------------------------
(***************************************************************************)
(* What the daemon keeps to of its schedule and of its history, for every  *)
(* value of the constants of Daemon: every run finds its row, no scheduled *)
(* slot runs twice, the history stays bounded, the loop's timer is armed,  *)
(* and a late wake claims no backlog.                                      *)
(*                                                                         *)
(* None of these is inductive.  A row can go while its run is under way,   *)
(* so a run is related to what its row would say (RowsRemembered), and the *)
(* incarnation that a run was claimed for is told from a later one by the  *)
(* order in which they were inserted (BornInOrder).  That a slot never     *)
(* comes up again rests on next_at being past every slot claimed for its   *)
(* job while the clock is not set (SlotsBehind); that a wake leaves no     *)
(* backlog on next_at being a match of its schedule (NextAtIsMatch); and   *)
(* the bound on the history on there being no claim left over when a       *)
(* process that met no fault comes down (RestClean).                       *)
(***************************************************************************)
EXTENDS DrainProofs

\* Incarnations are numbered in the order they were inserted.
BornInOrder ==
  /\ \A j \in JobIds : HasJob(db, j) => db.jobs[j].born <= db.adds
  /\ \A i \in OccIds : task[i] # NULL => task[i].born <= db.adds

\* The incarnation b of job j is no more.
JobGone(d, j, b) == ~ HasJob(d, j) \/ d.jobs[j].born # b

RowThere(i) ==
  /\ db.occ[i] # NULL
  /\ db.occ[i].job = task[i].job /\ db.occ[i].slot = task[i].slot
  /\ TaskIs(i, Owning) => IsClaimed(db, i)

RowGone(i) ==
  /\ db.occ[i] = NULL
  /\ JobGone(db, task[i].job, task[i].born) \/ db.seq - i >= HistoryLimit

RowsRemembered == \A i \in OccIds : task[i] # NULL => RowThere(i) \/ RowGone(i)

\* While the clock is not set, next_at is past every slot taken for the job.
SlotsBehind ==
  count["clock"] = 0 =>
    /\ loop.at <= now
    /\ \A i \in OccIds : task[i] # NULL /\ task[i].slot # Manual =>
         /\ task[i].slot <= now
         /\ task[i].job \in Scheduled(db) => task[i].slot < db.jobs[task[i].job].nextAt

NextAtIsMatch ==
  \A j \in Scheduled(db) :
    \E t \in Times : db.jobs[j].nextAt = NextOccurrence(db.jobs[j].schedule, t)

RInv == DInv /\ BornInOrder /\ RowsRemembered /\ SlotsBehind /\ NextAtIsMatch

-----------------------------------------------------------------------------
(* A run stays the run it is. *)

LEMMA RunsStay ==
  ASSUME TypeOK, Kinds, NEW i \in OccIds, task[i] # NULL
  PROVE  task'[i] # NULL /\ SameRun(i)
<1>1. CASE task' = task
  BY <1>1 DEF SameRun
<1>2. CASE Dies
  BY <1>2, EndedTask DEF Dies
<1>3. ASSUME NEW k \in OccIds, NEW S, Enters(k, S)
      PROVE  task'[i] # NULL /\ SameRun(i)
  <2>1. task'[i] = task[i]
    BY <1>3 DEF Enters
  <2> QED
    BY <2>1 DEF SameRun
<1>4. ASSUME NEW k \in OccIds, NEW S, NEW T, Moves(k, S, T)
      PROVE  task'[i] # NULL /\ SameRun(i)
  <2>1. CASE k = i
    BY <1>4, <2>1 DEF Moves, TaskIs
  <2>2. CASE k # i
    <3>1. task'[i] = task[i]
      BY <1>4, <2>2 DEF Moves
    <3> QED
      BY <3>1 DEF SameRun
  <2> QED
    BY <2>1, <2>2
<1>5. CASE Quiet \/ Forgets \/ Recovers \/ Strays
  BY <1>1, <1>5 DEF Quiet, Forgets, Recovers, Strays, TasksKeep
<1>6. ASSUME NEW k \in OccIds, Claims(k) \/ Queues(k)
      PROVE  task'[i] # NULL /\ SameRun(i)
  BY <1>3, <1>6 DEF Claims, Queues
<1>7. ASSUME NEW k \in OccIds,
             \/ Enqueues(k) \/ Begins(k) \/ Refuses(k) \/ Stops(k) \/ Settles(k) \/ Skips(k)
             \/ CountsDown(k) \/ Notifies(k)
      PROVE  task'[i] # NULL /\ SameRun(i)
  BY <1>4, <1>7 DEF Enqueues, Begins, Refuses, Stops, Settles, Skips, CountsDown, Notifies
<1>8. ASSUME NEW k \in OccIds, Vanishes(k)
      PROVE  task'[i] # NULL /\ SameRun(i)
  BY <1>1, <1>8 DEF Vanishes
<1> QED
  BY <1>2, <1>5, <1>6, <1>7, <1>8 DEF Kinds

\* A run that is new enrolls, alone.
LEMMA RunsEnter ==
  ASSUME TypeOK, Kinds, NEW i \in OccIds, task[i] = NULL, task'[i] # NULL
  PROVE  Enrolls(i) /\ \A k \in OccIds \ {i} : task'[k] = task[k]
<1>1. task' # task
  OBVIOUS
<1>2. ~ Dies
  BY ProcessEndsType DEF Dies
<1>3. ASSUME NEW k \in OccIds, NEW S, Enters(k, S) PROVE k = i /\ Enrolls(i)
  BY <1>3 DEF Enters
<1>4. ASSUME NEW k \in OccIds, NEW S, NEW T, Moves(k, S, T) PROVE FALSE
  BY <1>4 DEF Moves, TaskIs
<1>5. ~ (Quiet \/ Forgets \/ Recovers \/ Strays)
  BY <1>1 DEF Quiet, Forgets, Recovers, Strays, TasksKeep
<1>6. ASSUME NEW k \in OccIds, Claims(k) \/ Queues(k)
      PROVE  Enrolls(i) /\ \A m \in OccIds \ {i} : task'[m] = task[m]
  <2>1. PICK S : Enters(k, S)
    BY <1>6 DEF Claims, Queues
  <2> QED
    BY <1>3, <2>1 DEF Enters
<1>7. ASSUME NEW k \in OccIds,
             \/ Enqueues(k) \/ Begins(k) \/ Refuses(k) \/ Stops(k) \/ Settles(k) \/ Skips(k)
             \/ CountsDown(k) \/ Notifies(k)
      PROVE  FALSE
  BY <1>4, <1>7 DEF Enqueues, Begins, Refuses, Stops, Settles, Skips, CountsDown, Notifies
<1>8. ASSUME NEW k \in OccIds PROVE ~ Vanishes(k)
  BY <1>1 DEF Vanishes
<1> QED
  BY <1>2, <1>5, <1>6, <1>7, <1>8 DEF Kinds

\* A run that owns its row owned it before.
LEMMA OwnersStay ==
  ASSUME TypeOK, Kinds, NEW i \in OccIds, task[i] # NULL, TaskIs(i, Owning)'
  PROVE  TaskIs(i, Owning)
<1>1. CASE task'[i] = task[i]
  BY <1>1 DEF TaskIs
<1>2. CASE Dies
  BY <1>2, EndedTask DEF Dies, TaskIs, Owning, Outcomes
<1>3. ASSUME NEW k \in OccIds, NEW S \in SUBSET Owning, NEW T, Moves(k, S, T)
      PROVE  TaskIs(i, Owning)
  BY <1>1, <1>3 DEF Moves, TaskIs
<1>4. ASSUME NEW k \in OccIds, NEW S, NEW T, Moves(k, S, T), T \cap Owning = {}
      PROVE  TaskIs(i, Owning)
  BY <1>1, <1>4 DEF Moves, TaskIs
<1>5. CASE Quiet \/ Forgets \/ Recovers \/ Strays
  BY <1>1, <1>5 DEF Quiet, Forgets, Recovers, Strays, TasksKeep
<1>6. ASSUME NEW k \in OccIds, Claims(k) \/ Queues(k) \/ Vanishes(k)
      PROVE  TaskIs(i, Owning)
  BY <1>1, <1>6 DEF Claims, Queues, Vanishes, Enters
<1>7. ASSUME NEW k \in OccIds,
             Enqueues(k) \/ Begins(k) \/ Refuses(k) \/ Stops(k) \/ Settles(k) \/ Skips(k)
      PROVE  TaskIs(i, Owning)
  <2>1. PICK S \in SUBSET Owning : \E T : Moves(k, S, T)
    BY <1>7 DEF Enqueues, Begins, Refuses, Stops, Settles, Skips, Owning
  <2> QED
    BY <1>3, <2>1
<1>8. ASSUME NEW k \in OccIds, CountsDown(k) \/ Notifies(k)
      PROVE  TaskIs(i, Owning)
  <2>1. {"last", "done"} \cap Owning = {} /\ {"done"} \cap Owning = {}
    BY DEF Owning, Outcomes
  <2> QED
    BY <1>4, <1>8, <2>1 DEF CountsDown, Notifies
<1> QED
  BY <1>2, <1>5, <1>6, <1>7, <1>8 DEF Kinds

-----------------------------------------------------------------------------
(* What a step does to the jobs, the clock and the mishaps. *)

JobsKeep == db'.jobs = db.jobs /\ db'.adds = db.adds

\* wake moves one due job on.
Wakes(j) ==
  /\ loop.pc = "wake" /\ j \in Nearest(db) /\ DueAt(j)
  /\ Advanced(db, db', j)
  /\ db'.jobs[j].nextAt > db.jobs[j].nextAt

JobsMove ==
  \/ JobsKeep
  \/ JobsWrite(db, db', now) /\ now' = now
  \/ \E j \in JobIds : Wakes(j) /\ now' = now

LEMMA ClaimKeepsJobs ==
  ASSUME TypeOK, NEW j \in JobIds, NEW slot \in Nat \cup {Manual}, db.seq + 1 <= MaxOccurrences
  PROVE  Claim(db, j, slot).jobs = db.jobs /\ Claim(db, j, slot).adds = db.adds
BY ClaimType DEF TypeOK

LEMMA SettleKeepsJobs ==
  ASSUME NEW i, NEW out, RowsSettle(db, db', i, out)
  PROVE  JobsKeep
BY DEF RowsSettle, JobsKeep

LEMMA LoopJobs ==
  ASSUME IInv, LoopWork \/ LoopFires
  PROVE  JobsMove
<1>1. TypeOK /\ db \in Store
  BY DEF IInv, TypeOK
<1>2. CASE LoopPlan \/ LoopNotified \/ LoopCancelled \/ WakeNothingDue \/ LoopTimeout
  BY <1>2 DEF LoopPlan, LoopNotified, LoopCancelled, WakeNothingDue, LoopTimeout, JobsMove, JobsKeep
<1>3. ASSUME NEW j \in JobIds, WakeConflict(j) \/ WakeClaim(j) PROVE JobsMove
  <2>1. loop.pc = "wake" /\ now' = now
    BY <1>3 DEF WakeConflict, WakeClaim
  <2>2. Wakes(j)
    BY <1>1, <1>3, <2>1, WakeAdvances DEF Wakes
  <2> QED
    BY <2>1, <2>2 DEF JobsMove
<1>4. CASE LoopSkip
  <2>1. loop.occ \in OccIds /\ db' = Finish(db, loop.occ, "skipped")
    BY <1>4 DEF LoopSkip, IInv, SkipOwned
  <2>2. JobsKeep
    BY <1>1, <2>1, FinishRows, SettleKeepsJobs
  <2> QED
    BY <2>2 DEF JobsMove
<1> QED
  BY <1>2, <1>3, <1>4 DEF LoopWork, LoopFires

LEMMA TaskJobs ==
  ASSUME IInv, NEW i \in OccIds, TaskWork(i) \/ RunnerExit(i)
  PROVE  JobsKeep
<1>1. TypeOK /\ db \in Store
  BY DEF IInv, TypeOK
<1>2. CASE ExecStart(i) \/ ExecRefused(i) \/ ExecEnd(i) \/ ExecDone(i) \/ ExecNotify(i)
           \/ OrphanExit(i)
  BY <1>2 DEF ExecStart, ExecRefused, ExecEnd, ExecDone, ExecNotify, OrphanExit, JobsKeep
<1>3. CASE ExecFinish(i)
  <2>1. task[i].pc \in {"completed", "skipped"} /\ db' = Finish(db, i, task[i].pc)
    BY <1>3 DEF ExecFinish, TaskIs, Outcomes
  <2> QED
    BY <1>1, <2>1, FinishRows, SettleKeepsJobs
<1> QED
  BY <1>2, <1>3 DEF TaskWork, RunnerExit

LEMMA HandlerJobs ==
  ASSUME IInv, NEW h \in Handlers,
         Accepts(h) \/ Requests(h) \/ HandlerProceeds(h) \/ HandlerAborted(h)
  PROVE  JobsMove
<1>1. TypeOK /\ db \in Store /\ now \in Times
  BY DEF IInv, TypeOK
<1>2. CASE HandlerAccept(h) \/ HandlerReply(h) \/ HandlerNotify(h) \/ HandlerAnswered(h)
             \/ HandlerDropped(h) \/ HandlerEnqueue(h)
  BY <1>2 DEF HandlerAccept, HandlerReply, HandlerNotify, HandlerAnswered, HandlerDropped,
     HandlerEnqueue, Enqueue, schedVars, JobsMove, JobsKeep
<1>3. ASSUME NEW d, Commit(h, d), JobsWrite(db, d, now) PROVE JobsMove
  BY <1>3 DEF Commit, JobsMove
<1>4. ASSUME NEW j \in JobIds, NEW s \in Schedules, NEW e \in BOOLEAN,
             CommitAdd(h, j, s, e) \/ CommitEdit(h, j, s, e)
      PROVE  JobsMove
  BY <1>1, <1>3, <1>4, AddJobs, ReplaceJobs DEF CommitAdd, CommitEdit
<1>5. ASSUME NEW j \in JobIds, CommitDelete(h, j) PROVE JobsMove
  BY <1>1, <1>3, <1>5, DeleteJobs DEF CommitDelete
<1>6. ASSUME NEW j \in JobIds, NEW e \in BOOLEAN, CommitSetEnabled(h, j, e) PROVE JobsMove
  BY <1>1, <1>3, <1>6, SetEnabledJobs DEF CommitSetEnabled
<1>7. ASSUME NEW j \in JobIds, HandlerRunNow(h, j) PROVE JobsMove
  <2>1. db.seq + 1 <= MaxOccurrences /\ db' = Claim(db, j, Manual)
    BY <1>1, <1>7, BoundsAssumption DEF HandlerRunNow, RunNowClaim, Room, Store
  <2> QED
    BY <1>1, <2>1, ClaimKeepsJobs DEF JobsMove, JobsKeep
<1>8. CASE Requests(h)
  BY <1>2, <1>4, <1>5, <1>6, <1>7, <1>8 DEF Requests, HandlerRequest
<1>9. CASE Accepts(h) \/ HandlerProceeds(h) \/ HandlerAborted(h)
  BY <1>2, <1>9 DEF Accepts, HandlerProceeds, HandlerWork, HandlerAborted
<1> QED
  BY <1>8, <1>9

LEMMA FaultJobs ==
  ASSUME IInv, StoreFault
  PROVE  JobsMove
<1>1. TypeOK /\ db \in Store /\ now \in Times
  BY DEF IInv, TypeOK
<1>2. CASE LoopPlanFault \/ WakeFaultUnclaimed
  BY <1>2 DEF LoopPlanFault, WakeFaultUnclaimed, JobsMove, JobsKeep
<1>3. CASE LoopSkipFault
  <2>1. loop.occ \in OccIds /\ db' \in {db} \cup FinishPrefixes(db, loop.occ, "skipped")
    BY <1>3 DEF LoopSkipFault, IInv, SkipOwned
  <2>2. JobsKeep
    <3>1. CASE db' = db
      BY <3>1 DEF JobsKeep
    <3> QED
      BY <1>1, <2>1, <3>1, FinishRows, SettleKeepsJobs
  <2> QED
    BY <2>2 DEF JobsMove
<1>4. ASSUME NEW i \in OccIds, ExecFinishFault(i) PROVE JobsMove
  <2>1. /\ task[i].pc \in {"completed", "skipped"}
        /\ db' \in {db} \cup FinishPrefixes(db, i, task[i].pc)
    BY <1>4 DEF ExecFinishFault, TaskIs, Outcomes
  <2>2. JobsKeep
    <3>1. CASE db' = db
      BY <3>1 DEF JobsKeep
    <3> QED
      BY <1>1, <2>1, <3>1, FinishRows, SettleKeepsJobs
  <2> QED
    BY <2>2 DEF JobsMove
<1>5. ASSUME NEW j \in JobIds, WakeFault(j) PROVE JobsMove
  <2>1. j \in Nearest(db) /\ db.seq + 1 <= MaxOccurrences /\ db' = Claim(db, j, db.jobs[j].nextAt)
    BY <1>5 DEF WakeFault, Room
  <2>2. db.jobs[j].nextAt \in Nat \cup {Manual}
    BY <1>1, <2>1, NearestType
  <2> QED
    BY <1>1, <2>1, <2>2, ClaimKeepsJobs DEF JobsMove, JobsKeep
<1>6. ASSUME NEW h \in Handlers, NEW j \in JobIds, HandlerRunNowFault(h, j) PROVE JobsMove
  <2>1. db.seq + 1 <= MaxOccurrences /\ db' = Claim(db, j, Manual)
    BY <1>1, <1>6, BoundsAssumption DEF HandlerRunNowFault, RunNowFault, Room, Store
  <2> QED
    BY <1>1, <2>1, ClaimKeepsJobs DEF JobsMove, JobsKeep
<1>7. ASSUME NEW h \in Handlers, NEW j \in JobIds, NEW s \in Schedules, NEW e \in BOOLEAN,
             CommitFault(h, j, s, e)
      PROVE  JobsMove
  BY <1>1, <1>7, AddJobs, ReplaceJobs DEF CommitFault, JobsMove
<1> QED
  BY <1>2, <1>3, <1>4, <1>5, <1>6, <1>7 DEF StoreFault

LEMMA MainJobs ==
  ASSUME IInv, Start \/ StartFault \/ Terminate \/ MainWork \/ ServeError \/ Crash
  PROVE  JobsMove
<1>1. TypeOK /\ db \in Store /\ now \in Times
  BY DEF IInv, TypeOK
<1>2. CASE Start \/ StartFault
  <2>1. \/ db' = db
        \/ \E S \in SUBSET JobIds : db' = Recalculate(SkipInterrupted(db), S, now)
    BY <1>2 DEF Start, StartFault, Recovered
  <2>2. now' = now
    BY <1>2 DEF Start, StartFault
  <2> QED
    BY <1>1, <2>1, <2>2, RecoverJobs DEF JobsMove, JobsKeep
<1>3. CASE Terminate \/ ServeBreak \/ ServeJoined \/ ServeError \/ Stopping \/ Exit
  BY <1>3 DEF Terminate, ServeBreak, ServeJoined, ServeError, Stopping, StopCall, StopJoined,
     StopCheck, StopAwaited, Exit, schedVars, JobsMove, JobsKeep
<1>4. CASE Crash
  <2> DEFINE A == UNION {FinishPrefixes(db, i, task[i].pc) :
                           i \in {k \in OccIds : TaskIs(k, Outcomes)}}
             B == FinishPrefixes(db, loop.occ, "skipped")
             C == {Claim(db, j, db.jobs[j].nextAt) :
                     j \in {k \in Nearest(db) : DueAt(k) /\ SlotFree(db, k, db.jobs[k].nextAt)}}
  <2>1. ASSUME db' \in A PROVE JobsKeep
    <3>1. PICK i \in OccIds : TaskIs(i, Outcomes) /\ db' \in FinishPrefixes(db, i, task[i].pc)
      BY <2>1
    <3>2. task[i].pc \in {"completed", "skipped"}
      BY <3>1 DEF TaskIs, Outcomes
    <3> QED
      BY <1>1, <3>1, <3>2, FinishRows, SettleKeepsJobs
  <2>2. ASSUME loop.pc = "skip", db' \in B PROVE JobsKeep
    BY <1>1, <2>2, FinishRows, SettleKeepsJobs DEF IInv, SkipOwned
  <2>3. ASSUME Room(1), db' \in C PROVE JobsKeep
    <3>1. PICK j \in Nearest(db) : db' = Claim(db, j, db.jobs[j].nextAt)
      BY <2>3
    <3>2. /\ j \in JobIds /\ db.jobs[j].nextAt \in Nat \cup {Manual}
          /\ db.seq + 1 <= MaxOccurrences
      BY <1>1, <2>3, NearestType DEF Room
    <3> QED
      BY <1>1, <3>1, <3>2, ClaimKeepsJobs DEF JobsKeep
  <2>4. HalfDone = A \cup (IF loop.pc = "skip" THEN B ELSE {})
                     \cup (IF loop.pc = "wake" /\ Room(1) THEN C ELSE {})
    BY DEF HalfDone
  <2>5. db' \in {db} \cup HalfDone
    BY <1>4 DEF Crash
  <2> HIDE DEF A, B, C
  <2>6. db' = db \/ db' \in A \/ (loop.pc = "skip" /\ db' \in B) \/ (Room(1) /\ db' \in C)
    BY <2>4, <2>5, Zenon
  <2> QED
    BY <2>1, <2>2, <2>3, <2>6 DEF JobsMove, JobsKeep
<1> QED
  BY <1>2, <1>3, <1>4 DEF MainWork

(***************************************************************************)
(* JobsStep: a step leaves the jobs as they are, or writes and removes     *)
(* rows at the time it is, or moves one due job on from a wake.            *)
(***************************************************************************)
LEMMA JobsStep ==
  ASSUME IInv, [Next]_vars
  PROVE  JobsMove
<1>1. CASE UNCHANGED vars
  BY <1>1 DEF vars, schedVars, JobsMove, JobsKeep
<1>2. CASE Tick \/ ClockSet
  BY <1>2 DEF Tick, ClockSet, JobsMove, JobsKeep
<1>3. CASE Start \/ StartFault \/ Terminate \/ MainWork \/ ServeError \/ Crash
  BY <1>3, MainJobs
<1>4. CASE LoopWork \/ LoopFires
  BY <1>4, LoopJobs
<1>5. CASE StoreFault
  BY <1>5, FaultJobs
<1>6. CASE \E i \in OccIds : TaskWork(i) \/ RunnerExit(i)
  BY <1>6, TaskJobs DEF JobsMove
<1>7. CASE \E h \in Handlers :
             Accepts(h) \/ Requests(h) \/ HandlerProceeds(h) \/ HandlerAborted(h)
  BY <1>7, HandlerJobs
<1> QED
  BY <1>1, <1>2, <1>3, <1>4, <1>5, <1>6, <1>7 DEF Next

\* A job that is there is the one that was, or a later one.
LEMMA BornLater ==
  ASSUME db \in Store, JobsMove, NEW j \in JobIds, HasJob(db', j)
  PROVE  \/ HasJob(db, j) /\ db'.jobs[j].born = db.jobs[j].born
         \/ ~ HasJob(db, j) /\ db.adds < db'.jobs[j].born /\ db'.jobs[j].born <= db'.adds
<1>1. CASE JobsKeep
  BY <1>1 DEF JobsKeep, HasJob
<1>2. CASE JobsWrite(db, db', now)
  BY <1>2 DEF JobsWrite, JobWritten, JobRemoved, HasJob
<1>3. ASSUME NEW k \in JobIds, Wakes(k)
      PROVE  HasJob(db, j) /\ db'.jobs[j].born = db.jobs[j].born
  <2>1. HasJob(db, k)
    BY <1>3 DEF Wakes, Nearest, Scheduled, HasJob
  <2> QED
    BY <1>3, <2>1 DEF Wakes, Advanced, HasJob
<1> QED
  BY <1>1, <1>2, <1>3 DEF JobsMove

LEMMA AddsGrow ==
  ASSUME db \in Store, JobsMove
  PROVE  db'.adds >= db.adds
BY DEF JobsMove, JobsKeep, JobsWrite, Wakes, Advanced, Store

\* An incarnation that is no more does not come back.
LEMMA GoneStaysGone ==
  ASSUME db \in Store, JobsMove, NEW j \in JobIds, NEW b \in Nat, b <= db.adds, JobGone(db, j, b)
  PROVE  JobGone(db', j, b)
<1>1. ASSUME HasJob(db', j) PROVE db'.jobs[j].born # b
  <2>1. CASE HasJob(db, j)
    BY <1>1, <2>1, BornLater DEF JobGone
  <2>2. CASE ~ HasJob(db, j)
    <3>1. db.adds < db'.jobs[j].born
      BY <1>1, <2>2, BornLater
    <3> QED
      BY <3>1 DEF Store
  <2> QED
    BY <2>1, <2>2
<1> QED
  BY <1>1 DEF JobGone

\* A job that is gone was gone, or its finished rows went with it.
LEMMA GoneWithRows ==
  ASSUME db \in Store, JobsMove, NEW j \in JobIds, ~ HasJob(db', j)
  PROVE  ~ HasJob(db, j) \/ JobRemoved(db', j)
<1>1. ASSUME NEW k \in JobIds, Wakes(k)
      PROVE  ~ HasJob(db, j)
  BY <1>1 DEF Wakes, Advanced, HasJob
<1> QED
  BY <1>1 DEF JobsMove, JobsKeep, JobsWrite, JobWritten, HasJob

\* A job scheduled now: as it was, planned from now, or moved on.
LEMMA NewlyScheduled ==
  ASSUME db \in Store, JobsMove, NEW j \in Scheduled(db')
  PROVE  \/ /\ j \in Scheduled(db)
            /\ db'.jobs[j].nextAt = db.jobs[j].nextAt
            /\ db'.jobs[j].schedule = db.jobs[j].schedule
         \/ /\ now' = now
            /\ db'.jobs[j].nextAt = NextOccurrence(db'.jobs[j].schedule, now)
         \/ /\ Wakes(j) /\ now' = now
<1>1. CASE JobsKeep
  BY <1>1 DEF JobsKeep, Scheduled
<1>2. CASE JobsWrite(db, db', now) /\ now' = now
  <2>1. CASE db'.jobs[j] = db.jobs[j]
    BY <2>1 DEF Scheduled
  <2>2. CASE JobRemoved(db', j)
    BY <2>2 DEF JobRemoved, HasJob, Scheduled
  <2>3. CASE JobWritten(db, db', j, now)
    <3>1. db'.jobs[j].enabled
      BY DEF Scheduled
    <3> QED
      BY <1>2, <2>3, <3>1 DEF JobWritten, NextAt
  <2> QED
    BY <1>2, <2>1, <2>2, <2>3 DEF JobsWrite, Scheduled
<1>3. ASSUME NEW k \in JobIds, Wakes(k), k # j
      PROVE  j \in Scheduled(db) /\ db'.jobs[j] = db.jobs[j]
  <2>1. j \in JobIds /\ db'.jobs[j] = db.jobs[j]
    BY <1>3 DEF Wakes, Advanced, Scheduled
  <2> QED
    BY <2>1 DEF Scheduled
<1> QED
  BY <1>1, <1>2, <1>3 DEF JobsMove

(***************************************************************************)
(* MishapStep: mishaps add up, the clock goes back only when it is set,    *)
(* only a fault taints a process or makes serve return an error, and a     *)
(* process that comes down without a crash has returned from run.          *)
(***************************************************************************)
CountsUp ==
  /\ \A m \in Mishaps : count'[m] >= count[m]
  /\ count'["fault"] = 0 => (tainted' => tainted) /\ (main' = "aborting" => main = "aborting")

LEMMA CountsKept ==
  ASSUME TypeOK, UNCHANGED <<count, tainted>>, main' = "aborting" => main = "aborting"
  PROVE  CountsUp
BY DEF CountsUp, TypeOK

LEMMA CountsUpStep ==
  ASSUME TypeOK, [Next]_vars
  PROVE  CountsUp
<1>1. CASE UNCHANGED <<main, count, tainted>>
  BY <1>1, CountsKept
<1>2. ASSUME NEW kind \in {"signal", "crash", "clock"}, NEW max, Happens(kind, max),
             main' = "aborting" => main = "aborting"
      PROVE  CountsUp
  <2>1. tainted' => tainted
    BY <1>2 DEF Happens, TypeOK
  <2> QED
    BY <1>2, <2>1, HappensType DEF CountsUp
<1>3. ASSUME NEW max, Happens("fault", max) PROVE CountsUp
  <2>1. count'["fault"] > 0 /\ \A m \in Mishaps : count'[m] >= count[m]
    BY <1>3, HappensType
  <2> QED
    BY <2>1 DEF CountsUp
<1>4. CASE Start
  <2>1. count' = count /\ ~ tainted' /\ main' # "aborting"
    BY <1>4 DEF Start
  <2> QED
    BY <2>1 DEF CountsUp, TypeOK
<1>5. CASE StartFault \/ ServeError \/ StoreFault
  BY <1>3, <1>5 DEF StartFault, ServeError, StoreFault
<1>6. CASE Terminate \/ Crash \/ ClockSet
  BY <1>2, <1>6 DEF Terminate, Crash, ClockSet
<1>7. CASE MainWork
  <2>1. UNCHANGED <<count, tainted>> /\ (main' = "aborting" => main = "aborting")
    BY <1>7 DEF MainWork, ServeBreak, ServeJoined, Stopping, Exit
  <2> QED
    BY <2>1, CountsKept
<1>8. CASE UNCHANGED vars
  BY <1>1, <1>8 DEF vars
<1> QED
  BY <1>1, <1>4, <1>5, <1>6, <1>7, <1>8 DEF Next, LoopWork, LoopFires, TaskWork, RunnerExit,
     Accepts, Requests, HandlerProceeds, HandlerAborted, Tick

LEMMA ClockStep ==
  ASSUME TypeOK, [Next]_vars, count'["clock"] = 0
  PROVE  now' >= now /\ (loop'.at = loop.at \/ loop'.at <= now)
<1>1. ~ ClockSet
  BY HappensType DEF ClockSet
<1>0. now \in Nat /\ 0 <= now
  BY BoundsAssumption DEF TypeOK, Times
<1>2. ASSUME NEW pc PROVE LoopAt(pc).at = 0
  BY DEF LoopAt
<1>3. CASE UNCHANGED vars
  BY <1>0, <1>3 DEF vars, schedVars
<1>4. CASE Tick
  BY <1>0, <1>4 DEF Tick, TypeOK, Loop
<1>5. CASE UNCHANGED <<now, loop>>
  BY <1>0, <1>5
<1>6. CASE Start \/ Exit \/ Crash
  BY <1>0, <1>2, <1>6 DEF Start, Exit, Crash, ProcessEnds
<1>7. CASE LoopPlan \/ LoopPlanFault
  BY <1>0, <1>2, <1>7 DEF LoopPlan, LoopPlanFault, LoopAt
<1>8. CASE LoopTimeout
  BY <1>0, <1>8 DEF LoopTimeout, LoopAt
<1>9. CASE LoopNotified \/ LoopCancelled \/ WakeNothingDue \/ WakeFaultUnclaimed \/ LoopSkip
           \/ LoopSkipFault
  BY <1>0, <1>2, <1>9 DEF LoopNotified, LoopCancelled, WakeNothingDue, WakeFaultUnclaimed, LoopSkip,
     LoopSkipFault
<1>10. ASSUME NEW j \in JobIds, WakeConflict(j) \/ WakeClaim(j) \/ WakeFault(j)
       PROVE  now' >= now /\ loop'.at <= now
  <2>1. now' = now /\ loop'.at = 0
    BY <1>10 DEF WakeConflict, WakeClaim, WakeFault, LoopAt
  <2> QED
    BY <1>0, <2>1
<1>11. CASE StoreFault
  <2>1. ASSUME NEW i \in OccIds, ExecFinishFault(i) PROVE UNCHANGED <<now, loop>>
    BY <2>1 DEF ExecFinishFault
  <2>2. ASSUME NEW h \in Handlers, NEW j \in JobIds, HandlerRunNowFault(h, j)
        PROVE  UNCHANGED <<now, loop>>
    BY <2>2 DEF HandlerRunNowFault, RunNowFault
  <2>3. ASSUME NEW h \in Handlers, NEW j \in JobIds, NEW s \in Schedules, NEW e \in BOOLEAN,
               CommitFault(h, j, s, e)
        PROVE  UNCHANGED <<now, loop>>
    BY <2>3 DEF CommitFault
  <2> QED
    BY <1>5, <1>7, <1>9, <1>10, <1>11, <2>1, <2>2, <2>3 DEF StoreFault
<1>12. ASSUME NEW i \in OccIds, TaskWork(i) \/ RunnerExit(i) PROVE UNCHANGED <<now, loop>>
  BY <1>12 DEF TaskWork, RunnerExit, ExecStart, ExecRefused, ExecEnd, ExecFinish, ExecDone, ExecNotify,
     OrphanExit
<1>13. ASSUME NEW h \in Handlers,
              Accepts(h) \/ Requests(h) \/ HandlerProceeds(h) \/ HandlerAborted(h)
       PROVE  UNCHANGED <<now, loop>>
  BY <1>13 DEF Accepts, Requests, HandlerProceeds, HandlerAborted, HandlerAccept, HandlerRequest,
     HandlerReply, CommitAdd, CommitEdit, CommitDelete, CommitSetEnabled, Commit, HandlerRunNow,
     RunNowClaim, HandlerWork, HandlerNotify, HandlerEnqueue, Enqueue, HandlerAnswered,
     HandlerDropped, schedVars
<1>14. CASE StartFault \/ Terminate \/ ServeBreak \/ ServeJoined \/ ServeError \/ Stopping
  BY <1>5, <1>14 DEF StartFault, Terminate, ServeBreak, ServeJoined, ServeError, Stopping, StopCall,
     StopJoined, StopCheck, StopAwaited, schedVars
<1>15. CASE LoopWork \/ LoopFires
  BY <1>7, <1>8, <1>9, <1>10, <1>15 DEF LoopWork, LoopFires
<1> QED
  BY <1>1, <1>3, <1>4, <1>5, <1>6, <1>11, <1>12, <1>13, <1>14, <1>15 DEF Next, MainWork

LEMMA Falls ==
  ASSUME TypeOK, [Next]_vars, Up, ~ Up', count'["crash"] = 0
  PROVE  Exit
<1>1. ~ Crash
  BY HappensType DEF Crash
<1>2. main' # main
  BY DEF Up
<1>3. main' \in Down
  BY DEF Up
<1> QED
  BY <1>1, <1>2, <1>3 DEF Next, vars, Start, StartFault, Terminate, MainWork, ServeBreak,
     ServeJoined, Stopping, ServeError, LoopWork, LoopFires, StoreFault, TaskWork, RunnerExit,
     Accepts, Requests, HandlerProceeds, HandlerAborted, Tick, ClockSet, Up, Down

-----------------------------------------------------------------------------
(* What the invariants need to be inductive. *)

LEMMA BornStep ==
  ASSUME TypeOK, TypeOK', BornInOrder, Kinds, JobsMove
  PROVE  BornInOrder'
<1>1. db \in Store /\ db' \in Store /\ db.adds \in Nat /\ db'.adds \in Nat /\ db'.adds >= db.adds
  BY AddsGrow DEF TypeOK, Store
<1>2. ASSUME NEW j \in JobIds, HasJob(db', j) PROVE db'.jobs[j].born <= db'.adds
  <2>1. db'.jobs[j] \in Job
    BY <1>1, <1>2 DEF Store, HasJob
  <2>2. db'.jobs[j].born \in Nat
    BY <2>1 DEF Job
  <2> QED
    BY <1>1, <1>2, <2>2, BornLater DEF BornInOrder
<1>3. ASSUME NEW i \in OccIds, task'[i] # NULL PROVE task'[i].born <= db'.adds
  <2>1. task'[i].born \in Nat
    <3>1. task'[i] \in Task
      BY <1>3 DEF TypeOK
    <3> QED
      BY <3>1 DEF Task
  <2>2. task'[i].born <= db.adds
    <3>1. CASE task[i] # NULL
      BY <3>1, RunsStay DEF SameRun, BornInOrder
    <3>2. CASE task[i] = NULL
      BY <1>3, <3>2, RunsEnter DEF Enrolls, BornInOrder
    <3> QED
      BY <3>1, <3>2
  <2> QED
    BY <1>1, <2>1, <2>2
<1> QED
  BY <1>2, <1>3 DEF BornInOrder

LEMMA MatchStep ==
  ASSUME TypeOK, NextAtIsMatch, JobsMove
  PROVE  NextAtIsMatch'
<1>1. db \in Store /\ now \in Times
  BY DEF TypeOK
<1>2. ASSUME NEW j \in Scheduled(db')
      PROVE  \E t \in Times : db'.jobs[j].nextAt = NextOccurrence(db'.jobs[j].schedule, t)
  <2>1. CASE Wakes(j)
    <3>1. AdvanceFrom(db.jobs[j].nextAt) \in Times
      BY <2>1, AdvanceFromType DEF Wakes
    <3> QED
      BY <2>1, <3>1 DEF Wakes, Advanced
  <2>2. CASE ~ Wakes(j)
    BY <1>1, <1>2, <2>2, NewlyScheduled DEF NextAtIsMatch
  <2> QED
    BY <2>1, <2>2
<1> QED
  BY <1>2 DEF NextAtIsMatch

LEMMA SlotsStep ==
  ASSUME TypeOK, TypeOK', SlotsBehind, Kinds, JobsMove, [Next]_vars
  PROVE  SlotsBehind'
<1> SUFFICES ASSUME count'["clock"] = 0 PROVE
      /\ loop'.at <= now'
      /\ \A i \in OccIds : task'[i] # NULL /\ task'[i].slot # Manual =>
           /\ task'[i].slot <= now'
           /\ task'[i].job \in Scheduled(db') => task'[i].slot < db'.jobs[task'[i].job].nextAt
  BY DEF SlotsBehind
<1>1. /\ now \in Nat /\ now' \in Nat /\ now \in Times
      /\ loop.at \in Nat /\ loop'.at \in Nat
      /\ db \in Store /\ db' \in Store
  BY BoundsAssumption DEF TypeOK, Times, Loop
<1>2. now' >= now /\ (loop'.at = loop.at \/ loop'.at <= now)
  BY ClockStep
<1>3. count["clock"] = 0
  BY CountsUpStep DEF CountsUp, TypeOK, Mishaps
<1>4. loop.at <= now
  BY <1>3 DEF SlotsBehind
<1>5. loop'.at <= now'
  BY <1>1, <1>2, <1>4
<1>6. ASSUME NEW i \in OccIds, task'[i] # NULL, task'[i].slot # Manual
      PROVE  /\ task'[i].slot <= now'
             /\ task'[i].job \in Scheduled(db') => task'[i].slot < db'.jobs[task'[i].job].nextAt
  <2>1. PICK slot \in Nat, j \in JobIds : slot = task'[i].slot /\ j = task'[i].job
    BY <1>6 DEF TypeOK, Task
  <2>2. CASE task[i] # NULL
    <3>1. slot = task[i].slot /\ j = task[i].job
      BY <2>1, <2>2, RunsStay DEF SameRun
    <3>2. slot <= now /\ (j \in Scheduled(db) => slot < db.jobs[j].nextAt)
      BY <1>3, <1>6, <2>1, <2>2, <3>1 DEF SlotsBehind
    <3>3. ASSUME j \in Scheduled(db') PROVE slot < db'.jobs[j].nextAt
      <4>1. CASE j \in Scheduled(db) /\ db'.jobs[j].nextAt = db.jobs[j].nextAt
        BY <3>2, <4>1
      <4>2. CASE db'.jobs[j].nextAt = NextOccurrence(db'.jobs[j].schedule, now)
        <5>1. db'.jobs[j].schedule \in Schedules
          BY <1>1, <3>3 DEF Store, Scheduled, Job
        <5>2. NextOccurrence(db'.jobs[j].schedule, now) \in Nat
              /\ NextOccurrence(db'.jobs[j].schedule, now) > now
          BY <1>1, <5>1, CronAssumption
        <5> QED
          BY <1>1, <3>2, <4>2, <5>2
      <4>3. CASE Wakes(j)
        <5>1. j \in Scheduled(db) /\ db.jobs[j].nextAt \in Nat
          BY <4>3, NearestType DEF Wakes, Nearest
        <5>2. db'.jobs[j].nextAt \in Nat
          BY <1>1, <3>3 DEF Store, Scheduled, Job
        <5>3. db'.jobs[j].nextAt > db.jobs[j].nextAt
          BY <4>3 DEF Wakes
        <5> QED
          BY <3>2, <5>1, <5>2, <5>3
      <4> QED
        BY <1>1, <3>3, <4>1, <4>2, <4>3, NewlyScheduled
    <3> QED
      BY <1>1, <1>2, <2>1, <3>2, <3>3
  <2>3. CASE task[i] = NULL
    <3>1. /\ slot <= loop.at /\ db'.jobs[j].nextAt > slot
      BY <1>6, <2>1, <2>3, RunsEnter DEF Enrolls
    <3>2. j \in Scheduled(db') => db'.jobs[j].nextAt \in Nat
      BY <1>1 DEF Store, Scheduled, Job
    <3> QED
      BY <1>1, <1>2, <1>4, <2>1, <3>1, <3>2
  <2> QED
    BY <2>2, <2>3
<1> QED
  BY <1>5, <1>6

\* What a step does to one row.
RowGoes(i) ==
  /\ db.occ[i] # NULL /\ db'.occ[i] = NULL
  /\ \/ ~ HasJob(db', db.occ[i].job)
     \/ JobsKeep /\ db.seq - i >= HistoryLimit

RowEnds(i) ==
  /\ IsClaimed(db, i) /\ IsTerminal(db', i)
  /\ db'.occ[i].job = db.occ[i].job /\ db'.occ[i].slot = db.occ[i].slot
  /\ ~ TaskIs(i, Owning)'

LEMMA SettledFate ==
  ASSUME IInv, NEW i \in OccIds, NEW out \in {"completed", "skipped"}, RowsSettle(db, db', i, out),
         ~ TaskIs(i, Owning)', NEW k \in OccIds
  PROVE  db'.occ[k] = db.occ[k] \/ RowGoes(k) \/ RowEnds(k)
<1>1. db \in Store /\ JobsKeep
  BY SettleKeepsJobs DEF IInv, TypeOK
<1>2. CASE db'.occ[k] = NULL /\ Expendable(db, k)
  <2>1. db.occ[k] # NULL
    BY <1>2 DEF Expendable
  <2>2. ~ HasJob(db, db.occ[k].job) \/ db.seq - k >= HistoryLimit
    BY <1>1, <1>2, OldRow DEF IInv, IdsInOrder
  <2> QED
    BY <1>1, <1>2, <2>1, <2>2 DEF RowGoes, JobsKeep, HasJob
<1> QED
  BY <1>1, <1>2, SettledRow DEF RowEnds, IsTerminal

LEMMA RowFate ==
  ASSUME LInv, Kinds, NEW k \in OccIds, k <= db.seq
  PROVE  /\ db'.seq >= db.seq
         /\ db'.occ[k] = db.occ[k] \/ RowGoes(k) \/ RowEnds(k)
<1>1. TypeOK /\ IInv /\ db \in Store /\ db.seq \in Int /\ \A i \in OccIds : i \in Int
  BY DEF LInv, IInv, TypeOK, Store, OccIds
<1>2. CASE RowsKeep(db, db')
  BY <1>1, <1>2 DEF RowsKeep
<1>3. ASSUME NEW i \in OccIds, RowClaimed(db, db', i)
      PROVE  /\ db'.seq >= db.seq
             /\ db'.occ[k] = db.occ[k]
  BY <1>1, <1>3, ClaimedRow
<1>4. ASSUME NEW i \in OccIds, NEW out \in {"completed", "skipped"}, RowsSettle(db, db', i, out),
             ~ TaskIs(i, Owning)'
      PROVE  /\ db'.seq >= db.seq
             /\ db'.occ[k] = db.occ[k] \/ RowGoes(k) \/ RowEnds(k)
  BY <1>1, <1>4, SettledFate DEF RowsSettle
<1>5. CASE Forgets
  BY <1>1, <1>5 DEF Forgets, RowsForget, RowGoes, IsTerminal
<1>6. CASE Recovers
  <2>1. db'.seq = db.seq /\ ~ TaskIs(k, Owning) /\ task' = task
    BY <1>6 DEF Recovers, RowsRecover, TasksKeep, LInv, Idle
  <2>2. \/ db'.occ[k] = db.occ[k]
        \/ /\ IsClaimed(db, k) /\ db'.occ[k] # NULL /\ db'.occ[k].status = "skipped"
           /\ db'.occ[k].job = db.occ[k].job /\ db'.occ[k].slot = db.occ[k].slot
    BY <1>1, <1>6, RecoveredRow DEF Recovers
  <2> QED
    BY <1>1, <2>1, <2>2 DEF RowEnds, IsTerminal, TaskIs
<1>7. CASE Dies
  <2>1. \A i \in OccIds : ~ TaskIs(i, Owning)'
    BY <1>1, <1>7, EndedTask DEF Dies, TaskIs, Owning, Outcomes
  <2>2. \A i \in OccIds : TaskIs(i, Outcomes) => task[i].pc \in {"completed", "skipped"}
    BY DEF TaskIs, Outcomes
  <2> QED
    BY <1>2, <1>3, <1>4, <1>7, <2>1, <2>2 DEF Dies
<1>8. ASSUME NEW i \in OccIds, Claims(i) \/ Queues(i) PROVE RowClaimed(db, db', i)
  BY <1>8 DEF Claims, Queues, Enters, Enrolls, RowClaimed
<1>9. ASSUME NEW i \in OccIds, Settles(i) \/ Skips(i)
      PROVE  \E out \in {"completed", "skipped"} :
               RowsSettle(db, db', i, out) /\ ~ TaskIs(i, Owning)'
  <2>1. ~ TaskIs(i, Owning)'
    BY <1>9 DEF Settles, Skips, Moves, TaskIs, Owning, Outcomes
  <2>2. CASE Settles(i)
    <3>1. task[i].pc \in {"completed", "skipped"}
      BY <2>2 DEF Settles, Moves, TaskIs, Outcomes
    <3> QED
      BY <2>1, <2>2, <3>1 DEF Settles
  <2>3. CASE Skips(i)
    BY <2>1, <2>3 DEF Skips
  <2> QED
    BY <1>9, <2>2, <2>3
<1>10. CASE Quiet \/ Strays
  BY <1>2, <1>3, <1>10 DEF Quiet, Strays
<1>11. ASSUME NEW i \in OccIds,
              \/ Enqueues(i) \/ Begins(i) \/ Refuses(i) \/ Stops(i) \/ CountsDown(i)
              \/ Notifies(i) \/ Vanishes(i)
       PROVE  RowsKeep(db, db')
  BY <1>11 DEF Enqueues, Begins, Refuses, Stops, CountsDown, Notifies, Vanishes
<1> QED
  BY <1>2, <1>3, <1>4, <1>5, <1>6, <1>7, <1>8, <1>9, <1>10, <1>11 DEF Kinds

LEMMA RowsStep ==
  ASSUME LInv, TypeOK', BornInOrder, RowsRemembered, Kinds, JobsMove
  PROVE  RowsRemembered'
<1>1. TypeOK /\ db \in Store /\ db' \in Store /\ HistoryLimit \in Nat
  BY BoundsAssumption DEF LInv, IInv, TypeOK
<1>2. ASSUME NEW i \in OccIds, task[i] = NULL, task'[i] # NULL PROVE RowThere(i)'
  <2>1. PICK j \in JobIds, slot \in Nat \cup {Manual} :
           RowsNew(db, db', i, j, slot) /\ task'[i].job = j /\ task'[i].slot = slot
    BY <1>1, <1>2, RunsEnter DEF Enrolls
  <2>2. /\ db'.occ[i] # NULL /\ db'.occ[i].status = "claimed"
        /\ db'.occ[i].job = j /\ db'.occ[i].slot = slot
    BY <1>1, <2>1, NewRow
  <2> QED
    BY <2>1, <2>2 DEF RowThere, IsClaimed
<1>3. ASSUME NEW i \in OccIds, task[i] # NULL PROVE RowThere(i)' \/ RowGone(i)'
  <2>1. SameRun(i) /\ (TaskIs(i, Owning)' => TaskIs(i, Owning))
    BY <1>1, <1>3, RunsStay, OwnersStay
  <2>2. /\ i <= db.seq /\ i \in Int /\ db.seq \in Int /\ db'.seq \in Int
        /\ task[i].job \in JobIds /\ task[i].born \in Nat /\ task[i].born <= db.adds
    <3>1. task[i] \in Task
      BY <1>1, <1>3 DEF TypeOK
    <3> QED
      BY <1>1, <1>3, <3>1 DEF LInv, IInv, IdsInOrder, BornInOrder, OccIds, Store, Task
  <2>3. /\ db'.seq >= db.seq
        /\ db'.occ[i] = db.occ[i] \/ RowGoes(i) \/ RowEnds(i)
    BY <2>2, RowFate
  <2>4. CASE RowThere(i)
    <3>1. CASE db'.occ[i] = db.occ[i]
      BY <2>1, <2>4, <3>1 DEF RowThere, SameRun, IsClaimed
    <3>2. CASE RowGoes(i)
      BY <2>1, <2>2, <2>3, <2>4, <3>2, <1>1 DEF RowThere, RowGone, RowGoes, SameRun, JobGone
    <3>3. CASE RowEnds(i)
      BY <2>1, <2>4, <3>3 DEF RowThere, RowEnds, SameRun, IsTerminal
    <3> QED
      BY <2>3, <3>1, <3>2, <3>3
  <2>5. CASE RowGone(i)
    <3>1. db'.occ[i] = NULL
      BY <2>3, <2>5 DEF RowGone, RowGoes, RowEnds, IsClaimed
    <3>2. \/ JobGone(db', task[i].job, task[i].born)
          \/ db'.seq - i >= HistoryLimit
      BY <1>1, <2>2, <2>3, <2>5, GoneStaysGone DEF RowGone
    <3> QED
      BY <2>1, <3>1, <3>2 DEF RowGone, SameRun
  <2> QED
    BY <1>3, <2>4, <2>5 DEF RowsRemembered
<1> QED
  BY <1>2, <1>3 DEF RowsRemembered

LEMMA InitRInv == Init => RInv
<1> SUFFICES ASSUME Init PROVE RInv
  OBVIOUS
<1>1. DInv
  BY InitDInv
<1>2. /\ \A i \in OccIds : task[i] = NULL
      /\ \A j \in JobIds : db.jobs[j] = NULL
      /\ loop.at = 0 /\ now = 0
  BY DEF Init, SchedulerInit, EmptyStore, LoopAt
<1>3. Scheduled(db) = {} /\ \A j \in JobIds : ~ HasJob(db, j)
  BY <1>2 DEF Scheduled, HasJob
<1>4. BornInOrder /\ RowsRemembered /\ NextAtIsMatch
  BY <1>2, <1>3 DEF BornInOrder, RowsRemembered, NextAtIsMatch
<1>5. SlotsBehind
  BY <1>2 DEF SlotsBehind
<1> QED
  BY <1>1, <1>4, <1>5 DEF RInv

LEMMA NextRInv == RInv /\ [Next]_vars => RInv'
<1> SUFFICES ASSUME RInv, [Next]_vars PROVE RInv'
  OBVIOUS
<1>1. DInv' /\ LInv /\ TypeOK /\ TypeOK'
  BY NextDInv DEF RInv, DInv, LInv, IInv
<1>2. Kinds /\ JobsMove
  BY <1>1, StepKinds, JobsStep DEF LInv
<1>3. BornInOrder' /\ RowsRemembered'
  BY <1>1, <1>2, BornStep, RowsStep DEF RInv
<1>4. SlotsBehind' /\ NextAtIsMatch'
  BY <1>1, <1>2, SlotsStep, MatchStep DEF RInv
<1> QED
  BY <1>1, <1>3, <1>4 DEF RInv

(***************************************************************************)
(* RowsInductive: the strengthened invariant holds in every reachable      *)
(* state.                                                                  *)
(***************************************************************************)
THEOREM RowsInductive == Spec => []RInv
<1> QED
  BY InitRInv, NextRInv, PTL DEF Spec

-----------------------------------------------------------------------------
(* Rows, slots and wakes. *)

(***************************************************************************)
(* RowsAreKept: a run under way finds its own row, claimed, unless its job *)
(* was deleted since or HistoryLimit newer claims are behind it, for any   *)
(* number of jobs, handlers, occurrences, crashes and faults.              *)
(***************************************************************************)
THEOREM RowsAreKept == Spec => []RunKeepsItsRow
<1>1. ASSUME RInv, NEW i \in OccIds, TaskIs(i, Owning)
      PROVE  \/ db.occ[i] = [job |-> task[i].job, slot |-> task[i].slot, status |-> "claimed"]
             \/ /\ db.occ[i] = NULL
                /\ \/ ~ HasJob(db, task[i].job)
                   \/ db.jobs[task[i].job].born # task[i].born
                   \/ db.seq - i >= HistoryLimit
  <2>1. RowThere(i) \/ RowGone(i)
    BY <1>1 DEF RInv, RowsRemembered, TaskIs
  <2>2. CASE RowThere(i)
    <3>1. db.occ[i] \in Row
      BY <1>1, <2>2 DEF RInv, DInv, LInv, IInv, TypeOK, Store, RowThere
    <3>2. /\ db.occ[i].job = task[i].job /\ db.occ[i].slot = task[i].slot
          /\ db.occ[i].status = "claimed"
      BY <1>1, <2>2 DEF RowThere, IsClaimed
    <3> QED
      BY <3>1, <3>2 DEF Row
  <2> QED
    BY <2>1, <2>2 DEF RowGone, JobGone
<1>2. RInv => RunKeepsItsRow
  BY <1>1 DEF RunKeepsItsRow
<1> QED
  BY <1>2, RowsInductive, PTL

\* The invariant, for two runs.
SameSlot(a, b) ==
  /\ task[a] # NULL /\ task[b] # NULL
  /\ task[a].job = task[b].job /\ task[a].slot = task[b].slot /\ task[a].slot # Manual

LEMMA SlotTakenAgain ==
  ASSUME RInv, RInv', [Next]_vars, NEW a \in OccIds, NEW b \in OccIds,
         task[a] # NULL, task[b] = NULL, SameSlot(a, b)'
  PROVE  /\ count["clock"] > 0
         /\ task'[a].born # task'[b].born \/ b - a > HistoryLimit
<1>1. LInv /\ IInv /\ TypeOK /\ Kinds /\ db \in Store
  BY StepKinds DEF RInv, DInv, LInv, IInv, TypeOK
<1>2. SameRun(a) /\ Enrolls(b)
  BY <1>1, RunsStay, RunsEnter DEF SameSlot
<1>3. PICK j \in JobIds, slot \in Nat \cup {Manual} :
        /\ RowsNew(db, db', b, j, slot) /\ HasJob(db, j)
        /\ task'[b].job = j /\ task'[b].slot = slot /\ task'[b].born = db.jobs[j].born
        /\ j \in Nearest(db) /\ slot = db.jobs[j].nextAt
        /\ SlotFree(db, j, slot)
  BY <1>2 DEF Enrolls, SameSlot
<1>4. task[a].job = j /\ task[a].slot = slot /\ slot # Manual /\ task[a].born = task'[a].born
  BY <1>2, <1>3 DEF SameSlot, SameRun
<1>5. j \in Scheduled(db) /\ slot \in Nat /\ a \in Int /\ b = db.seq + 1 /\ db.seq \in Int
  BY <1>1, <1>3, NearestType DEF Nearest, RowsNew, OccIds, Store
<1>6. count["clock"] # 0
  BY <1>3, <1>4, <1>5 DEF RInv, SlotsBehind
<1>7. count["clock"] \in Nat
  BY <1>1 DEF TypeOK, Mishaps
<1>8. ~ RowThere(a)
  BY <1>3, <1>4 DEF RowThere, SlotFree, RowsOf
<1>9. RowGone(a)
  BY <1>8 DEF RInv, RowsRemembered
<1>10. task[a].born # db.jobs[j].born \/ db.seq - a >= HistoryLimit
  BY <1>3, <1>4, <1>9 DEF RowGone, JobGone
<1> QED
  BY <1>3, <1>4, <1>5, <1>6, <1>7, <1>10, BoundsAssumption

LEMMA SlotsOnce ==
  ASSUME RInv, RInv', NoDuplicateRun, [Next]_vars
  PROVE  NoDuplicateRun'
<1>1. LInv /\ IInv /\ TypeOK /\ Kinds
  BY StepKinds DEF RInv, DInv, LInv, IInv
<1>2. CountsUp /\ "clock" \in Mishaps /\ count["clock"] \in Nat /\ count'["clock"] \in Nat
  BY <1>1, CountsUpStep DEF RInv, DInv, LInv, IInv, TypeOK, Mishaps
<1>3. ASSUME NEW a \in OccIds, NEW b \in OccIds, a < b, SameSlot(a, b)'
      PROVE  /\ count'["clock"] > 0
             /\ task'[a].born # task'[b].born \/ b - a > HistoryLimit
  <2>1. CASE task[a] # NULL /\ task[b] # NULL
    <3>1. SameRun(a) /\ SameRun(b)
      BY <1>1, <2>1, RunsStay
    <3>2. SameSlot(a, b)
      BY <1>3, <2>1, <3>1 DEF SameSlot, SameRun
    <3>3. count["clock"] > 0 /\ (task[a].born # task[b].born \/ b - a > HistoryLimit)
      BY <1>3, <3>2 DEF NoDuplicateRun, SameSlot
    <3> QED
      BY <1>2, <3>1, <3>3 DEF CountsUp, SameRun
  <2>2. CASE task[a] # NULL /\ task[b] = NULL
    <3>1. /\ count["clock"] > 0
          /\ task'[a].born # task'[b].born \/ b - a > HistoryLimit
      BY <1>3, <2>2, SlotTakenAgain
    <3> QED
      BY <1>2, <3>1 DEF CountsUp
  <2>3. CASE task[a] = NULL
    <3>1. Enrolls(a) /\ task'[b] = task[b]
      BY <1>1, <1>3, <2>3, RunsEnter DEF SameSlot, OccIds
    <3>2. a = db.seq + 1 /\ b <= db.seq
      BY <1>1, <1>3, <3>1 DEF Enrolls, RowsNew, SameSlot, IInv, IdsInOrder
    <3> QED
      BY <1>1, <1>3, <3>2 DEF OccIds, TypeOK, Store
  <2> QED
    BY <2>1, <2>2, <2>3
<1> QED
  BY <1>3 DEF NoDuplicateRun, SameSlot

(***************************************************************************)
(* SlotsRunOnce: no scheduled slot of a job is taken twice, across edits,  *)
(* crashes, faults and restarts, while the clock is not set; and a clock   *)
(* set back brings one up again only for a later incarnation of the job or *)
(* behind a pruned row.                                                    *)
(***************************************************************************)
THEOREM SlotsRunOnce == Spec => []NoDuplicateRun
<1>1. Init => NoDuplicateRun
  BY DEF Init, SchedulerInit, NoDuplicateRun
<1>2. RInv /\ RInv' /\ NoDuplicateRun /\ [Next]_vars => NoDuplicateRun'
  BY SlotsOnce
<1> QED
  BY <1>1, <1>2, RowsInductive, PTL DEF Spec

(***************************************************************************)
(* WakesWithoutBacklog: a wake moves next_at past the time it woke at, and *)
(* queues a run only for a slot less than a minute old, whatever the clock *)
(* did.                                                                    *)
(***************************************************************************)
THEOREM WakesWithoutBacklog == Spec => NoCatchUp
<1>1. ASSUME RInv, NEW j \in JobIds, WakeClaim(j) \/ WakeConflict(j)
      PROVE  /\ db'.jobs[j].nextAt > loop.at
             /\ pending' > pending => loop.at - db.jobs[j].nextAt < MissedAfter
  <2> DEFINE slot == db.jobs[j].nextAt
             s    == db.jobs[j].schedule
  <2>1. TypeOK /\ db \in Store /\ loop.at \in Times /\ loop.at \in Nat /\ pending \in Int
    BY <1>1, BoundsAssumption DEF RInv, DInv, LInv, IInv, TypeOK, Loop, Times
  <2>2. j \in Nearest(db) /\ DueAt(j) /\ Advanced(db, db', j)
    BY <1>1, <2>1, WakeAdvances
  <2>3. slot \in Nat /\ slot <= loop.at /\ s \in Schedules /\ j \in Scheduled(db)
    BY <2>1, <2>2, NearestType DEF DueAt, Nearest, Job
  <2>4. slot \in Times
    BY <2>1, <2>3, BoundsAssumption DEF Times
  <2>5. db'.jobs[j].nextAt = NextOccurrence(s, AdvanceFrom(slot))
    BY <2>2 DEF Advanced
  <2>6. CASE IsMissed(slot)
    <3>1. NextOccurrence(s, loop.at) > loop.at
      BY <2>1, <2>3, CronAssumption
    <3>2. ~ (pending' > pending)
      BY <1>1, <2>1, <2>6 DEF WakeClaim, WakeConflict
    <3> QED
      BY <2>5, <2>6, <3>1, <3>2 DEF AdvanceFrom
  <2>7. CASE ~ IsMissed(slot)
    <3>1. PICK t \in Times : slot = NextOccurrence(s, t)
      BY <1>1, <2>3 DEF RInv, NextAtIsMatch
    <3>2. NextOccurrence(s, slot) >= slot + MissedAfter /\ NextOccurrence(s, slot) \in Nat
      BY <2>3, <2>4, <3>1, CronAssumption
    <3>3. loop.at - slot < MissedAfter
      BY <2>1, <2>3, <2>7, BoundsAssumption DEF IsMissed
    <3>4. NextOccurrence(s, slot) > loop.at
      BY <2>1, <2>3, <3>2, <3>3, BoundsAssumption
    <3> QED
      BY <2>5, <2>7, <3>3, <3>4 DEF AdvanceFrom
  <2> QED
    BY <2>6, <2>7
<1>2. RInv /\ [Next]_vars =>
        [ \A j \in JobIds : WakeClaim(j) \/ WakeConflict(j) =>
            /\ db'.jobs[j].nextAt > loop.at
            /\ pending' > pending => loop.at - db.jobs[j].nextAt < MissedAfter ]_vars
  BY <1>1
<1> QED
  BY <1>2, RowsInductive, PTL DEF Spec, NoCatchUp

-----------------------------------------------------------------------------
(* The bound on the history. *)

Clean == count["crash"] = 0 /\ count["fault"] = 0

\* What only a fault does to the process.
Faulted == count["fault"] = 0 => ~ tainted /\ main # "aborting"

\* A process that comes down without a mishap leaves no claim.
RestClean == ~ Up /\ Clean => \A i \in OccIds : ~ IsClaimed(db, i)

Bounded(d, j) ==
  /\ Cardinality(Finished(d, j)) <= HistoryLimit
  /\ ~ HasJob(d, j) => Finished(d, j) = {}

HInv == DInv /\ Faulted /\ RestClean /\ HistoryBounded

LEMMA CleanStep ==
  ASSUME TypeOK, TypeOK', CountsUp, Clean'
  PROVE  Clean /\ ~ Mishap
BY DEF CountsUp, Clean, Mishap, TypeOK, Mishaps

LEMMA FaultedStep ==
  ASSUME TypeOK, TypeOK', CountsUp, Faulted
  PROVE  Faulted'
BY DEF CountsUp, Faulted, TypeOK, Mishaps

\* Without a mishap a row that is claimed was claimed before, or its run is new.
LEMMA ClaimsFrom ==
  ASSUME LInv, TypeOK', Kinds, ~ Mishap, NEW i \in OccIds, IsClaimed(db', i)
  PROVE  IsClaimed(db, i) \/ TaskIs(i, Owning)'
<1>1. TypeOK /\ db \in Store /\ db' \in Store
  BY DEF LInv, IInv, TypeOK
<1>2. CASE i <= db.seq
  BY <1>2, RowFate DEF RowGoes, RowEnds, IsClaimed, IsTerminal
<1>3. CASE ~ (i <= db.seq)
  <2>1. db.occ[i] = NULL
    BY <1>3 DEF LInv, IInv, IdsInOrder
  <2>2. ~ RowsKeep(db, db') /\ db' # db
    BY <2>1 DEF RowsKeep, IsClaimed
  <2>3. ASSUME NEW k \in OccIds, NEW out \in {"completed", "skipped"}
        PROVE  ~ RowsSettle(db, db', k, out)
    BY <1>1, <2>1, SettledRow DEF IsClaimed, Expendable
  <2>4. ~ Forgets /\ ~ Recovers /\ ~ Quiet /\ ~ Strays /\ ~ Dies
    BY <1>1, <2>1, <2>2, RecoveredRow DEF Forgets, RowsForget, Recovers, Quiet, Strays, Dies, IsClaimed
  <2>5. ASSUME NEW k \in OccIds, Claims(k) \/ Queues(k) PROVE TaskIs(i, Owning)'
    <3>1. Enrolls(k) /\ TaskIs(k, Owning)'
      BY <2>5 DEF Claims, Queues, Enters, TaskIs, Owning
    <3>2. k = i
      BY <2>1, <3>1 DEF Enrolls, RowsNew, IsClaimed
    <3> QED
      BY <3>1, <3>2
  <2>6. ASSUME NEW k \in OccIds PROVE ~ Settles(k) /\ ~ Skips(k)
    <3>1. TaskIs(k, Outcomes) => task[k].pc \in {"completed", "skipped"}
      BY DEF TaskIs, Outcomes
    <3> QED
      BY <2>3, <3>1 DEF Settles, Skips, Moves
  <2>7. ASSUME NEW k \in OccIds
        PROVE  ~ (\/ Enqueues(k) \/ Begins(k) \/ Refuses(k) \/ Stops(k) \/ CountsDown(k)
                  \/ Notifies(k) \/ Vanishes(k))
    BY <2>2 DEF Enqueues, Begins, Refuses, Stops, CountsDown, Notifies, Vanishes
  <2> QED
    BY <2>4, <2>5, <2>6, <2>7 DEF Kinds
<1> QED
  BY <1>2, <1>3

\* The drain on a signal, or a crash or a fault, is the only way down.
LEMMA RestStep ==
  ASSUME DInv, LInv', Faulted, RestClean, CountsUp, Kinds, [Next]_vars
  PROVE  RestClean'
<1>1. TypeOK /\ TypeOK' /\ LInv /\ IInv
  BY DEF DInv, LInv, IInv
<1> SUFFICES ASSUME ~ Up', Clean', NEW i \in OccIds PROVE ~ IsClaimed(db', i)
  BY DEF RestClean
<1>2. Clean /\ ~ Mishap
  BY <1>1, CleanStep
<1>3. CASE Up
  <2>1. Exit
    BY <1>1, <1>3, Falls DEF Clean
  <2>2. stop = "done" /\ main = "stopping" /\ ~ tainted /\ db' = db
    BY <1>2, <2>1 DEF Exit, DInv, StopOrder, Faulted, Clean
  <2>3. ~ TaskIs(i, Owning)
    BY <2>2, DrainedIdle
  <2> QED
    BY <1>1, <1>3, <2>2, <2>3 DEF IInv, NoAbandonedClaim
<1>4. CASE ~ Up
  <2>1. ~ IsClaimed(db, i)
    BY <1>2, <1>4 DEF RestClean
  <2>2. ~ TaskIs(i, Owning)'
    BY DEF LInv, Idle
  <2> QED
    BY <1>1, <1>2, <2>1, <2>2, ClaimsFrom
<1> QED
  BY <1>3, <1>4

LEMMA FinishedFinite ==
  ASSUME NEW d, NEW j
  PROVE  IsFiniteSet(Finished(d, j)) /\ Cardinality(Finished(d, j)) \in Nat
<1>1. IsFiniteSet(OccIds)
  BY FS_Interval, BoundsAssumption DEF OccIds
<1>2. \A i \in Finished(d, j) : i \in OccIds
  BY DEF Finished, RowsOf
<1>3. Finished(d, j) \in SUBSET OccIds
  BY <1>2
<1> QED
  BY <1>1, <1>3, FS_Subset, FS_CardinalityType

\* Without a mishap, a finished row was finished before or finish has made it so.
LEMMA FinishedFrom ==
  ASSUME LInv, RestClean, Clean, TypeOK', Kinds, ~ Mishap
  PROVE  \/ \A k \in OccIds : IsTerminal(db', k) => db'.occ[k] = db.occ[k]
         \/ \E i \in OccIds, out \in {"completed", "skipped"} : db' = Finish(db, i, out)
<1>1. TypeOK /\ db \in Store
  BY DEF LInv, IInv, TypeOK
<1>2. CASE RowsKeep(db, db')
  BY <1>2 DEF RowsKeep
<1>3. CASE Forgets
  BY <1>3 DEF Forgets, RowsForget, IsTerminal
<1>4. CASE Recovers
  <2>1. \A k \in OccIds : ~ IsClaimed(db, k)
    BY <1>4 DEF Recovers, RestClean
  <2> QED
    BY <1>4, <2>1 DEF Recovers, RowsRecover
<1>5. CASE Dies
  BY <1>5 DEF Dies
<1>6. ASSUME NEW i \in OccIds, Claims(i) \/ Queues(i)
      PROVE  \A k \in OccIds : IsTerminal(db', k) => db'.occ[k] = db.occ[k]
  <2>1. RowClaimed(db, db', i)
    BY <1>6 DEF Claims, Queues, Enters, Enrolls, RowClaimed
  <2> QED
    BY <1>1, <2>1, ClaimedRow DEF IsTerminal
<1>7. ASSUME NEW i \in OccIds, Settles(i) \/ Skips(i)
      PROVE  \E out \in {"completed", "skipped"} : db' = Finish(db, i, out)
  <2>1. Settles(i) => task[i].pc \in {"completed", "skipped"}
    BY DEF Settles, Moves, TaskIs, Outcomes
  <2> QED
    BY <1>7, <2>1 DEF Settles, Skips
<1>8. ASSUME NEW i \in OccIds,
             \/ Enqueues(i) \/ Begins(i) \/ Refuses(i) \/ Stops(i) \/ CountsDown(i)
             \/ Notifies(i) \/ Vanishes(i)
      PROVE  RowsKeep(db, db')
  BY <1>8 DEF Enqueues, Begins, Refuses, Stops, CountsDown, Notifies, Vanishes
<1>9. CASE Quiet \/ Strays
  BY <1>2, <1>9 DEF Quiet, Strays
<1> QED
  BY <1>2, <1>3, <1>4, <1>5, <1>6, <1>7, <1>8, <1>9 DEF Kinds

LEMMA BoundStep ==
  ASSUME LInv, RestClean, HistoryBounded, TypeOK', CountsUp, Kinds, JobsMove
  PROVE  HistoryBounded'
<1>1. TypeOK /\ db \in Store /\ HistoryLimit \in Nat
  BY BoundsAssumption DEF LInv, IInv, TypeOK
<1> SUFFICES ASSUME Clean', NEW j \in JobIds PROVE Bounded(db', j)
  BY DEF HistoryBounded, Clean, Bounded, Finished
<1>2. Clean /\ ~ Mishap
  BY <1>1, CleanStep
<1>3. Bounded(db, j)
  BY <1>2 DEF HistoryBounded, Clean, Bounded, Finished
<1>4. /\ IsFiniteSet(Finished(db, j)) /\ Cardinality(Finished(db, j)) \in Nat
      /\ Cardinality(Finished(db', j)) \in Nat
  BY FinishedFinite
<1>5. CASE \A k \in OccIds : IsTerminal(db', k) => db'.occ[k] = db.occ[k]
  <2>1. \A k \in Finished(db', j) : k \in Finished(db, j)
    BY <1>5 DEF Finished, RowsOf, IsTerminal
  <2>2. Cardinality(Finished(db', j)) <= Cardinality(Finished(db, j))
    BY <1>4, <2>1, FS_Subset
  <2>3. ASSUME ~ HasJob(db', j) PROVE Finished(db', j) = {}
    <3>1. CASE ~ HasJob(db, j)
      BY <1>3, <2>1, <3>1 DEF Bounded
    <3>2. CASE JobRemoved(db', j)
      BY <3>2 DEF JobRemoved, Finished, RowsOf
    <3> QED
      BY <1>1, <2>3, <3>1, <3>2, GoneWithRows
  <2> QED
    BY <1>1, <1>3, <1>4, <2>2, <2>3 DEF Bounded
<1>6. ASSUME NEW i \in OccIds, NEW out \in {"completed", "skipped"}, db' = Finish(db, i, out)
      PROVE  Bounded(db', j)
  <2>1. HasJob(db', j) <=> HasJob(db, j)
    BY <1>1, <1>6, FinishRows DEF RowsSettle, HasJob
  <2>2. \/ Finished(db', j) = Finished(db, j)
        \/ /\ Cardinality(Finished(db', j)) <= HistoryLimit
           /\ ~ HasJob(db, j) => Finished(db', j) = {}
    BY <1>1, <1>6, FinishBounds
  <2> QED
    BY <1>3, <2>1, <2>2 DEF Bounded
<1> QED
  BY <1>2, <1>5, <1>6, FinishedFrom

LEMMA InitHInv == Init => HInv
<1> SUFFICES ASSUME Init PROVE HInv
  OBVIOUS
<1>1. DInv
  BY InitDInv
<1>2. ~ tainted /\ main = "off" /\ \A i \in OccIds : db.occ[i] = NULL
  BY DEF Init, SchedulerInit, EmptyStore
<1>3. Faulted /\ RestClean
  BY <1>2 DEF Faulted, RestClean, IsClaimed
<1>4. \A j \in JobIds : {i \in RowsOf(db, j) : IsTerminal(db, i)} = {}
  BY <1>2 DEF RowsOf
<1>5. Cardinality({}) = 0
  BY FS_EmptySet
<1>6. HistoryBounded
  BY <1>4, <1>5, BoundsAssumption DEF HistoryBounded
<1> QED
  BY <1>1, <1>3, <1>6 DEF HInv

LEMMA NextHInv == HInv /\ [Next]_vars => HInv'
<1> SUFFICES ASSUME HInv, [Next]_vars PROVE HInv'
  OBVIOUS
<1>1. DInv' /\ LInv' /\ LInv /\ IInv /\ TypeOK /\ TypeOK'
  BY NextDInv DEF HInv, DInv, LInv, IInv
<1>2. Kinds /\ JobsMove /\ CountsUp
  BY <1>1, StepKinds, JobsStep, CountsUpStep
<1>3. Faulted'
  BY <1>1, <1>2, FaultedStep DEF HInv
<1>4. RestClean'
  BY <1>1, <1>2, RestStep DEF HInv
<1>5. HistoryBounded'
  BY <1>1, <1>2, BoundStep DEF HInv
<1> QED
  BY <1>1, <1>3, <1>4, <1>5 DEF HInv

(***************************************************************************)
(* HistoryStaysBounded: without a crash or a fault no job has more         *)
(* finished rows than the limit, and a job that is gone has none, for any  *)
(* limit and any number of jobs, handlers and occurrences.                 *)
(***************************************************************************)
THEOREM HistoryStaysBounded == Spec => []HistoryBounded
<1>1. HInv => HistoryBounded
  BY DEF HInv
<1> QED
  BY <1>1, InitHInv, NextHInv, PTL DEF Spec

-----------------------------------------------------------------------------
(* The timer. *)

\* A step that leaves the loop's plan, the clock and the jobs as they are.
LEMMA SleepsOn ==
  ASSUME TypeOK, ArmedTimer, CountsUp, UNCHANGED <<loop, now>>, db'.jobs = db.jobs,
         WakeUpComing => WakeUpComing', tainted => tainted'
  PROVE  ArmedTimer'
<1>1. Scheduled(db') = Scheduled(db)
  BY DEF Scheduled
<1>2. count'["clock"] = 0 => count["clock"] = 0
  BY DEF CountsUp, TypeOK, Mishaps
<1> QED
  BY <1>1, <1>2 DEF ArmedTimer

LEMMA NotAsleep ==
  ASSUME loop'.pc # "sleep" \/ WakeUpComing' \/ tainted'
  PROVE  ArmedTimer'
BY DEF ArmedTimer

\* The delay reaches no further than the nearest due time, and than the cap.
LEMMA PlanArms ==
  ASSUME TypeOK, LoopPlan
  PROVE  ArmedTimer'
<1> SUFFICES ASSUME loop'.pc = "sleep", NEW j \in Scheduled(db')
             PROVE  /\ loop'.timer <= TimerCap
                    /\ loop'.timer = 0 \/ now' + loop'.timer <= db'.jobs[j].nextAt
  BY DEF ArmedTimer
<1>1. db' = db /\ now' = now /\ now \in Nat /\ TimerCap \in Nat
  BY TimerAssumption, BoundsAssumption DEF LoopPlan, TypeOK, Times
<1>2. ~ cancelled
  BY DEF LoopPlan, LoopAt
<1>3. PICK t \in PlanDelays : loop' = [LoopAt("sleep") EXCEPT !.timer = t]
  BY <1>2 DEF LoopPlan
<1>4. loop'.timer = t
  BY <1>3 DEF LoopAt
<1>5. PICK k \in Nearest(db) : t = Delay(db.jobs[k].nextAt)
  BY <1>1, <1>3 DEF PlanDelays
<1>6. db.jobs[k].nextAt \in Nat
  BY NearestType
<1>7. db.jobs[k].nextAt <= db.jobs[j].nextAt /\ db.jobs[j].nextAt \in Nat
  BY <1>1 DEF Nearest, Scheduled, TypeOK, Store, Job
<1> QED
  BY <1>1, <1>4, <1>5, <1>6, <1>7 DEF Delay

LEMMA LoopArms ==
  ASSUME TypeOK, LoopWork \/ LoopFires
  PROVE  ArmedTimer'
<1>1. CASE LoopPlan
  BY <1>1, PlanArms
<1>2. CASE LoopNotified \/ LoopCancelled \/ WakeNothingDue \/ LoopSkip
           \/ \E j \in JobIds : WakeConflict(j)
  <2>1. loop'.pc # "sleep"
    BY <1>2 DEF LoopNotified, LoopCancelled, WakeNothingDue, LoopSkip, WakeConflict, LoopAt
  <2> QED
    BY <2>1, NotAsleep
<1>3. CASE LoopTimeout
  BY <1>3, NotAsleep DEF LoopTimeout, LoopAt
<1>4. ASSUME NEW j \in JobIds, WakeClaim(j) PROVE ArmedTimer'
  <2>1. permit'
    BY <1>4 DEF WakeClaim
  <2> QED
    BY <2>1, NotAsleep DEF WakeUpComing
<1> QED
  BY <1>1, <1>2, <1>3, <1>4 DEF LoopWork, LoopFires

LEMMA HandlerArms ==
  ASSUME TypeOK, ArmedTimer, CountsUp, NEW h \in Handlers,
         Accepts(h) \/ Requests(h) \/ HandlerProceeds(h) \/ HandlerAborted(h)
  PROVE  ArmedTimer'
<1>0. handler \in [Handlers -> Handler] /\ tainted' = tainted
  BY DEF TypeOK, Accepts, Requests, HandlerProceeds, HandlerAborted
<1>1. ASSUME UNCHANGED <<db, loop, now, permit, cancelled>>, handler[h].pc # "notify",
             \A g \in Handlers \ {h} : handler'[g] = handler[g]
      PROVE  ArmedTimer'
  <2>1. WakeUpComing => WakeUpComing'
    BY <1>1 DEF WakeUpComing
  <2> QED
    BY <1>0, <1>1, <2>1, SleepsOn
<1>2. CASE HandlerAccept(h) \/ HandlerReply(h) \/ HandlerAnswered(h) \/ HandlerDropped(h)
  <2>1. /\ UNCHANGED <<db, loop, now, permit, cancelled>> /\ handler[h].pc # "notify"
        /\ \E r : handler' = [handler EXCEPT ![h] = r]
    BY <1>2 DEF HandlerAccept, HandlerReply, HandlerAnswered, HandlerDropped, HandlerGoes, Reading,
       schedVars
  <2> QED
    BY <1>0, <1>1, <2>1
<1>3. CASE HandlerEnqueue(h)
  <2>1. /\ UNCHANGED <<db, loop, now, permit, cancelled>> /\ handler[h].pc # "notify"
        /\ \E r : handler' = [handler EXCEPT ![h] = r]
    BY <1>3 DEF HandlerEnqueue, Enqueue
  <2> QED
    BY <1>0, <1>1, <2>1
<1>4. CASE HandlerNotify(h)
  BY <1>4, NotAsleep DEF HandlerNotify, WakeUpComing
<1>5. ASSUME NEW d, Commit(h, d) PROVE ArmedTimer'
  <2>1. handler'[h].pc = "notify"
    BY <1>0, <1>5 DEF Commit, HandlerGoes, HandlerAt
  <2> QED
    BY <2>1, NotAsleep DEF WakeUpComing
<1>6. ASSUME NEW j \in JobIds, HandlerRunNow(h, j) PROVE ArmedTimer'
  <2>1. /\ db.seq + 1 <= MaxOccurrences /\ db' = Claim(db, j, Manual)
        /\ UNCHANGED <<loop, now, permit, cancelled>> /\ handler[h].pc # "notify"
    BY <1>6, BoundsAssumption DEF HandlerRunNow, RunNowClaim, Room, Reading, TypeOK, Store
  <2>2. \A g \in Handlers \ {h} : handler'[g] = handler[g]
    BY <1>0, <1>6 DEF HandlerRunNow
  <2>3. db'.jobs = db.jobs
    BY <2>1, ClaimKeepsJobs
  <2>4. WakeUpComing => WakeUpComing'
    BY <2>1, <2>2 DEF WakeUpComing
  <2> QED
    BY <1>0, <2>1, <2>3, <2>4, SleepsOn
<1>7. CASE Requests(h)
  BY <1>2, <1>5, <1>6, <1>7 DEF Requests, HandlerRequest, CommitAdd, CommitEdit, CommitDelete,
     CommitSetEnabled
<1> QED
  BY <1>2, <1>3, <1>4, <1>7 DEF Accepts, HandlerProceeds, HandlerWork, HandlerAborted

LEMMA MainArms ==
  ASSUME TypeOK, ArmedTimer, CountsUp,
         Start \/ StartFault \/ Terminate \/ MainWork \/ ServeError \/ Crash
  PROVE  ArmedTimer'
<1>1. CASE Start \/ Exit \/ Crash
  BY <1>1, NotAsleep DEF Start, Exit, Crash, ProcessEnds, LoopAt
<1>2. CASE StartFault
  BY <1>2, HappensType, NotAsleep DEF StartFault
<1>3. CASE Terminate \/ ServeJoined \/ ServeError
  BY <1>3, NotAsleep DEF Terminate, ServeJoined, ServeError, StopCall, WakeUpComing
<1>4. CASE ServeBreak \/ Stopping
  <2>1. UNCHANGED <<db, loop, now, permit, cancelled, handler, tainted>>
    BY <1>4 DEF ServeBreak, Stopping, StopJoined, StopCheck, StopAwaited, schedVars
  <2> QED
    BY <2>1, SleepsOn DEF WakeUpComing
<1> QED
  BY <1>1, <1>2, <1>3, <1>4 DEF MainWork

LEMMA TimeArms ==
  ASSUME TypeOK, ArmedTimer, Tick \/ ClockSet
  PROVE  ArmedTimer'
<1>1. CASE Tick
  <2>1. /\ now' = now + 1 /\ loop'.pc = loop.pc
        /\ loop'.timer = IF loop.timer > 0 THEN loop.timer - 1 ELSE 0
        /\ UNCHANGED <<db, permit, cancelled, handler, count, tainted>>
    BY <1>1 DEF Tick, TypeOK, Loop
  <2>2. now \in Nat /\ loop.timer \in Nat /\ TimerCap \in Nat
    BY TimerAssumption, BoundsAssumption DEF TypeOK, Times, Loop
  <2>3. \A j \in Scheduled(db) : db.jobs[j].nextAt \in Nat
    BY DEF TypeOK, Store, Scheduled, Job
  <2> QED
    BY <2>1, <2>2, <2>3 DEF ArmedTimer, WakeUpComing
<1>2. CASE ClockSet
  <2>1. UNCHANGED <<db, permit, cancelled, loop, handler>>
    BY <1>2 DEF ClockSet
  <2>2. count'["clock"] \in Nat /\ count'["clock"] > 0 /\ (~ tainted' => ~ tainted)
    BY <1>2, HappensType DEF ClockSet, Mishaps
  <2> QED
    BY <2>1, <2>2 DEF ArmedTimer, WakeUpComing
<1> QED
  BY <1>1, <1>2

LEMMA TimerStep ==
  ASSUME IInv, ArmedTimer, [Next]_vars
  PROVE  ArmedTimer'
<1>1. TypeOK /\ CountsUp
  BY CountsUpStep DEF IInv
<1>2. CASE UNCHANGED vars
  <2>1. UNCHANGED <<db, loop, now, permit, cancelled, handler, tainted>>
    BY <1>2 DEF vars, schedVars
  <2> QED
    BY <1>1, <2>1, SleepsOn DEF WakeUpComing
<1>3. CASE StoreFault
  <2>1. tainted'
    BY <1>1, <1>3, HappensType DEF StoreFault
  <2> QED
    BY <2>1, NotAsleep
<1>4. ASSUME NEW i \in OccIds, TaskWork(i) \/ RunnerExit(i) PROVE ArmedTimer'
  <2>1. UNCHANGED <<loop, now, permit, cancelled, handler, tainted>>
    BY <1>4 DEF TaskWork, RunnerExit, ExecStart, ExecRefused, ExecEnd, ExecFinish, ExecDone,
       ExecNotify, OrphanExit
  <2> QED
    BY <1>1, <1>4, <2>1, TaskJobs, SleepsOn DEF WakeUpComing, JobsKeep
<1> QED
  BY <1>1, <1>2, <1>3, <1>4, LoopArms, HandlerArms, MainArms, TimeArms DEF Next

(***************************************************************************)
(* TimerIsArmed: a loop asleep with no wake-up on its way, in a process    *)
(* without a fault, wakes within the cap and, while the clock is not set,  *)
(* no later than every scheduled job is due.                               *)
(***************************************************************************)
THEOREM TimerIsArmed == Spec => []ArmedTimer
<1>1. Init => ArmedTimer
  BY DEF Init, SchedulerInit, LoopAt, ArmedTimer
<1>2. IInv /\ ArmedTimer /\ [Next]_vars => ArmedTimer'
  BY TimerStep
<1> QED
  BY <1>1, <1>2, Inductive, PTL DEF Spec
=============================================================================
