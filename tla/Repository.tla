----------------------------- MODULE Repository -----------------------------
(***************************************************************************)
(* The SQLite store of the daemon (rust/src/repository.rs), as pure        *)
(* operators on one store value d:                                         *)
(*                                                                         *)
(*   d.jobs[j]   the row of table jobs with id j, or NULL                  *)
(*   d.occ[i]    the row of table occurrences with id i, or NULL           *)
(*   d.seq       the AUTOINCREMENT counter of table occurrences            *)
(*   d.adds      how many jobs were ever inserted; it numbers the          *)
(*               incarnations of a job id, which the code tells apart only *)
(*               by their created_at stamp                                 *)
(*                                                                         *)
(* Every SQL statement outside Repository::delete commits by itself, so a  *)
(* method of several statements has intermediate stores that a crash or a  *)
(* failing statement leaves on disk: they are the ...Prefixes sets.        *)
(*                                                                         *)
(* Names, prompts, results, error texts and audit stamps are left out: no  *)
(* property here depends on them.  A definition commented as a mutated     *)
(* form shows what a defect in the one after it would break; no            *)
(* specification refers to it.                                             *)
(***************************************************************************)
EXTENDS Integers, FiniteSets

CONSTANTS
  JobIds,               \* the job ids in play
  Schedules,            \* the cron expressions (with their timezone) in play
  NextOccurrence(_, _), \* external: croner's next match of a schedule after a time
  MaxTime,              \* bound of the clock, in ticks
  MissedAfter,          \* the 60_000 ms after which an occurrence counts as missed
  HistoryLimit,         \* the 100 rows a job's history keeps
  MaxOccurrences,       \* bound: how many occurrences are ever claimed
  Manual,               \* scheduled_at of a run_now occurrence ("manual:<time>:<uuid>")
  NULL                  \* SQL NULL, and the absent row

Times    == 0 .. MaxTime
OccIds   == 1 .. MaxOccurrences
Statuses == {"claimed", "completed", "skipped"}

Job == [enabled : BOOLEAN, schedule : Schedules, nextAt : Nat \cup {NULL}, born : Nat]
Row == [job : JobIds, slot : Nat \cup {Manual}, status : Statuses]

Store == [jobs : [JobIds -> Job \cup {NULL}],
          occ  : [OccIds -> Row \cup {NULL}],
          seq  : 0 .. MaxOccurrences,
          adds : Nat]

ASSUME BoundsAssumption ==
  /\ MaxTime \in Nat
  /\ MaxOccurrences \in Nat
  /\ MissedAfter \in Nat \ {0}
  /\ HistoryLimit \in Nat \ {0}

ASSUME NullAssumption == NULL \notin Nat /\ NULL \notin Job /\ NULL \notin Row

(***************************************************************************)
(* What the store relies on in croner: the next occurrence is strictly     *)
(* later, and two matches of a five-field expression are at least a minute *)
(* apart.                                                                  *)
(***************************************************************************)
ASSUME CronAssumption ==
  \A s \in Schedules, t \in Times :
    LET u == NextOccurrence(s, t) IN
      /\ u \in Nat /\ u > t
      /\ u \in Times => NextOccurrence(s, u) >= u + MissedAfter

EmptyStore == [jobs |-> [j \in JobIds |-> NULL], occ |-> [i \in OccIds |-> NULL],
               seq |-> 0, adds |-> 0]

-----------------------------------------------------------------------------
(* Table jobs. *)

HasJob(d, j) == d.jobs[j] # NULL

NextAt(enabled, s, now) == IF enabled THEN NextOccurrence(s, now) ELSE NULL

\* add: INSERT, which the primary key refuses when the id exists.
Add(d, j, s, enabled, now) ==
  [d EXCEPT !.jobs[j] = [enabled |-> enabled, schedule |-> s,
                         nextAt |-> NextAt(enabled, s, now), born |-> d.adds + 1],
            !.adds = @ + 1]

\* replace: created_at stays, so the incarnation stays.
Replace(d, j, s, enabled, now) ==
  [d EXCEPT !.jobs[j] = [enabled |-> enabled, schedule |-> s,
                         nextAt |-> NextAt(enabled, s, now), born |-> d.jobs[j].born]]

SetEnabled(d, j, enabled, now) == Replace(d, j, d.jobs[j].schedule, enabled, now)

\* Mutated form: the second statement of delete is missing.
DeleteKeepsHistory(d, j) == [d EXCEPT !.jobs[j] = NULL]
\* delete: one transaction, which keeps the rows still claimed.
Delete(d, j) ==
  [d EXCEPT !.jobs[j] = NULL,
            !.occ = [i \in OccIds |->
                       IF d.occ[i] # NULL /\ d.occ[i].job = j /\ d.occ[i].status # "claimed"
                         THEN NULL ELSE d.occ[i]]]

\* recalculate_all restricted to the jobs of S that exist.
Recalculate(d, S, now) ==
  [d EXCEPT !.jobs = [j \in JobIds |->
     IF j \in S /\ d.jobs[j] # NULL
       THEN [d.jobs[j] EXCEPT !.nextAt = NextAt(d.jobs[j].enabled, d.jobs[j].schedule, now)]
       ELSE d.jobs[j]]]

\* advance: a job that is gone or disabled is left alone.
Advance(d, j, after) ==
  IF d.jobs[j] # NULL /\ d.jobs[j].enabled
    THEN [d EXCEPT !.jobs[j] = [@ EXCEPT !.nextAt = NextOccurrence(d.jobs[j].schedule, after)]]
    ELSE d

\* The jobs the index on (enabled, next_at) serves, and those nearest() may return.
Scheduled(d) == {j \in JobIds : d.jobs[j] # NULL /\ d.jobs[j].enabled /\ d.jobs[j].nextAt # NULL}
Nearest(d)   == {j \in Scheduled(d) :
                   \A k \in Scheduled(d) : d.jobs[j].nextAt <= d.jobs[k].nextAt}

-----------------------------------------------------------------------------
(* Table occurrences. *)

IsClaimed(d, i)   == d.occ[i] # NULL /\ d.occ[i].status = "claimed"
IsTerminal(d, i)  == d.occ[i] # NULL /\ d.occ[i].status # "claimed"
RowsOf(d, j)      == {i \in OccIds : d.occ[i] # NULL /\ d.occ[i].job = j}

\* Mutated form: the index is not unique.
SlotFreeDropped(d, j, slot) == TRUE

\* UNIQUE(job_id, scheduled_at); the uuid of a manual slot never collides.
SlotFree(d, j, slot) ==
  slot = Manual \/ \A i \in RowsOf(d, j) : d.occ[i].slot # slot

\* AUTOINCREMENT: an id is never given twice, not even when its row is gone.
NewId(d) == d.seq + 1

\* claim, once SlotFree lets the INSERT through.
Claim(d, j, slot) ==
  [d EXCEPT !.seq = @ + 1,
            !.occ[NewId(d)] = [job |-> j, slot |-> slot, status |-> "claimed"]]

\* Mutated form: start does not look for interrupted claims.
SkipInterruptedDropped(d) == d

\* Mutated form: without WHERE status = 'claimed'.
SkipInterruptedAll(d) ==
  [d EXCEPT !.occ = [i \in OccIds |->
     IF d.occ[i] # NULL THEN [d.occ[i] EXCEPT !.status = "skipped"] ELSE d.occ[i]]]

\* skip_interrupted: UPDATE ... WHERE status = 'claimed', with no pruning.
SkipInterrupted(d) ==
  [d EXCEPT !.occ = [i \in OccIds |->
     IF d.occ[i] # NULL /\ d.occ[i].status = "claimed"
       THEN [d.occ[i] EXCEPT !.status = "skipped"] ELSE d.occ[i]]]

(***************************************************************************)
(* finish: three statements.  The first terminalizes the row, and finish   *)
(* fails with no change when that row is not claimed; the second keeps the *)
(* newest HistoryLimit rows of the job, whatever their status; the third   *)
(* removes every row, claimed ones included, of a job that is gone.        *)
(***************************************************************************)
Terminalize(d, i, status) == [d EXCEPT !.occ[i] = [@ EXCEPT !.status = status]]

\* Mutated form: one row less is kept.
IsNewestOffByOne(d, j, i) == Cardinality({k \in RowsOf(d, j) : k > i}) + 1 < HistoryLimit

\* Among the newest HistoryLimit rows of its job.
IsNewest(d, j, i) == Cardinality({k \in RowsOf(d, j) : k > i}) < HistoryLimit

Prune(d, j) ==
  [d EXCEPT !.occ = [i \in OccIds |->
     IF d.occ[i] # NULL /\ d.occ[i].job = j /\ ~ IsNewest(d, j, i) THEN NULL ELSE d.occ[i]]]

\* Mutated form: the job is not looked up.
DropOrphansAlways(d, j) ==
  [d EXCEPT !.occ = [i \in OccIds |->
     IF d.occ[i] # NULL /\ d.occ[i].job = j THEN NULL ELSE d.occ[i]]]
\* The cleanup after a job that is gone.
DropOrphans(d, j) ==
  IF HasJob(d, j) THEN d
  ELSE [d EXCEPT !.occ = [i \in OccIds |->
          IF d.occ[i] # NULL /\ d.occ[i].job = j THEN NULL ELSE d.occ[i]]]

Finish(d, i, status) ==
  IF IsClaimed(d, i)
    THEN LET j == d.occ[i].job
         IN  DropOrphans(Prune(Terminalize(d, i, status), j), j)
    ELSE d

\* The stores finish leaves behind when it stops after one or two statements.
FinishPrefixes(d, i, status) ==
  IF IsClaimed(d, i)
    THEN LET t == Terminalize(d, i, status) IN {t, Prune(t, d.occ[i].job)}
    ELSE {}
=============================================================================
