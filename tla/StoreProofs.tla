----------------------------- MODULE StoreProofs -----------------------------
(***************************************************************************)
(* What the store's operators preserve and do, for any store: each maps a  *)
(* store to a store, only Claim makes a row claimed, and each goes from    *)
(* one table of occurrences to the next in one of a few ways (RowsKeep,    *)
(* RowsNew, RowsSettle, RowsForget, RowsRecover).                          *)
(***************************************************************************)
EXTENDS Repository, FiniteSetTheorems, WellFoundedInduction, TLAPS

(***************************************************************************)
(* NextAtType: a computed next_at is a time or NULL.                       *)
(***************************************************************************)
LEMMA NextAtType ==
  ASSUME NEW s \in Schedules, NEW t \in Times, NEW e \in BOOLEAN
  PROVE  NextAt(e, s, t) \in Nat \cup {NULL}
BY CronAssumption DEF NextAt

(***************************************************************************)
(* SetJobType: storing a job row, or removing it, keeps the store's type.  *)
(***************************************************************************)
LEMMA SetJobType ==
  ASSUME NEW d \in Store, NEW j \in JobIds, NEW r \in Job \cup {NULL}
  PROVE  [d EXCEPT !.jobs[j] = r] \in Store
BY DEF Store

(***************************************************************************)
(* SetOccType: replacing table occurrences keeps the store's type.         *)
(***************************************************************************)
LEMMA SetOccType ==
  ASSUME NEW d \in Store, NEW o \in [OccIds -> Row \cup {NULL}]
  PROVE  [d EXCEPT !.occ = o] \in Store
BY DEF Store

(***************************************************************************)
(* AddType, ReplaceType, ...: each method of the repository maps a store   *)
(* to a store.                                                             *)
(***************************************************************************)
LEMMA AddType ==
  ASSUME NEW d \in Store, NEW j \in JobIds, NEW s \in Schedules, NEW e \in BOOLEAN,
         NEW t \in Times
  PROVE  /\ Add(d, j, s, e, t) \in Store
         /\ Add(d, j, s, e, t).occ = d.occ
         /\ Add(d, j, s, e, t).seq = d.seq
<1>1. NextAt(e, s, t) \in Nat \cup {NULL}
  BY NextAtType
<1> DEFINE r == [enabled |-> e, schedule |-> s, nextAt |-> NextAt(e, s, t), born |-> d.adds + 1]
<1>2. r \in Job
  BY <1>1 DEF Job, Store
<1>3. Add(d, j, s, e, t) = [[d EXCEPT !.jobs[j] = r] EXCEPT !.adds = d.adds + 1]
  BY DEF Add, Store
<1>4. [d.jobs EXCEPT ![j] = r] \in [JobIds -> Job \cup {NULL}]
  BY <1>2 DEF Store
<1>5. d.adds + 1 \in Nat
  BY DEF Store
<1> HIDE DEF r
<1> QED
  BY <1>3, <1>4, <1>5 DEF Store

LEMMA ReplaceType ==
  ASSUME NEW d \in Store, NEW j \in JobIds, NEW s \in Schedules, NEW e \in BOOLEAN,
         NEW t \in Times, HasJob(d, j)
  PROVE  /\ Replace(d, j, s, e, t) \in Store
         /\ Replace(d, j, s, e, t).occ = d.occ
         /\ Replace(d, j, s, e, t).seq = d.seq
<1>1. NextAt(e, s, t) \in Nat \cup {NULL}
  BY NextAtType
<1>2. d.jobs[j] \in Job
  BY DEF Store, HasJob
<1> DEFINE r == [enabled |-> e, schedule |-> s, nextAt |-> NextAt(e, s, t),
                 born |-> d.jobs[j].born]
<1>3. r \in Job
  BY <1>1, <1>2 DEF Job
<1>4. Replace(d, j, s, e, t) = [d EXCEPT !.jobs[j] = r]
  BY DEF Replace
<1> HIDE DEF r
<1> QED
  BY <1>3, <1>4 DEF Store

LEMMA SetEnabledType ==
  ASSUME NEW d \in Store, NEW j \in JobIds, NEW e \in BOOLEAN, NEW t \in Times, HasJob(d, j)
  PROVE  /\ SetEnabled(d, j, e, t) \in Store
         /\ SetEnabled(d, j, e, t).occ = d.occ
         /\ SetEnabled(d, j, e, t).seq = d.seq
<1>1. d.jobs[j].schedule \in Schedules
  BY DEF Store, HasJob, Job
<1> QED
  BY <1>1, ReplaceType DEF SetEnabled

LEMMA DeleteType ==
  ASSUME NEW d \in Store, NEW j \in JobIds
  PROVE  /\ Delete(d, j) \in Store
         /\ Delete(d, j).seq = d.seq
         /\ \A i \in OccIds : Delete(d, j).occ[i] \in {d.occ[i], NULL}
<1> DEFINE o == [i \in OccIds |->
                  IF d.occ[i] # NULL /\ d.occ[i].job = j /\ d.occ[i].status # "claimed"
                    THEN NULL ELSE d.occ[i]]
<1>1. o \in [OccIds -> Row \cup {NULL}]
  BY DEF Store
<1>2. [d.jobs EXCEPT ![j] = NULL] \in [JobIds -> Job \cup {NULL}]
  BY DEF Store
<1>3. Delete(d, j) = [[d EXCEPT !.jobs[j] = NULL] EXCEPT !.occ = o]
  BY DEF Delete
<1>4. \A i \in OccIds : o[i] \in {d.occ[i], NULL}
  OBVIOUS
<1> HIDE DEF o
<1>5. Delete(d, j) \in Store /\ Delete(d, j).seq = d.seq /\ Delete(d, j).occ = o
  BY <1>1, <1>2, <1>3 DEF Store
<1> QED
  BY <1>4, <1>5

LEMMA RecalculateType ==
  ASSUME NEW d \in Store, NEW S \in SUBSET JobIds, NEW t \in Times
  PROVE  /\ Recalculate(d, S, t) \in Store
         /\ Recalculate(d, S, t).occ = d.occ
         /\ Recalculate(d, S, t).seq = d.seq
<1> DEFINE f == [j \in JobIds |->
     IF j \in S /\ d.jobs[j] # NULL
       THEN [d.jobs[j] EXCEPT !.nextAt = NextAt(d.jobs[j].enabled, d.jobs[j].schedule, t)]
       ELSE d.jobs[j]]
<1>1. ASSUME NEW j \in JobIds, d.jobs[j] # NULL
      PROVE  [d.jobs[j] EXCEPT !.nextAt = NextAt(d.jobs[j].enabled, d.jobs[j].schedule, t)] \in Job
  <2>1. d.jobs[j] \in Job
    BY <1>1 DEF Store
  <2>2. NextAt(d.jobs[j].enabled, d.jobs[j].schedule, t) \in Nat \cup {NULL}
    BY <2>1, NextAtType DEF Job
  <2> QED
    BY <2>1, <2>2 DEF Job
<1>2. f \in [JobIds -> Job \cup {NULL}]
  BY <1>1 DEF Store
<1>3. Recalculate(d, S, t) = [d EXCEPT !.jobs = f]
  BY DEF Recalculate
<1> HIDE DEF f
<1> QED
  BY <1>2, <1>3 DEF Store

LEMMA AdvanceType ==
  ASSUME NEW d \in Store, NEW j \in JobIds, NEW t \in Times
  PROVE  /\ Advance(d, j, t) \in Store
         /\ Advance(d, j, t).occ = d.occ
         /\ Advance(d, j, t).seq = d.seq
<1>1. CASE d.jobs[j] # NULL /\ d.jobs[j].enabled
  <2>1. d.jobs[j] \in Job
    BY <1>1 DEF Store
  <2>2. NextOccurrence(d.jobs[j].schedule, t) \in Nat
    BY <2>1, CronAssumption DEF Job
  <2> DEFINE r == [d.jobs[j] EXCEPT !.nextAt = NextOccurrence(d.jobs[j].schedule, t)]
  <2>3. r \in Job
    BY <2>1, <2>2 DEF Job
  <2>4. Advance(d, j, t) = [d EXCEPT !.jobs[j] = r]
    BY <1>1 DEF Advance, Store
  <2> HIDE DEF r
  <2> QED
    BY <2>3, <2>4 DEF Store
<1>2. CASE ~ (d.jobs[j] # NULL /\ d.jobs[j].enabled)
  BY <1>2 DEF Advance
<1> QED
  BY <1>1, <1>2

(***************************************************************************)
(* ClaimType: Claim adds one claimed row under a new id and touches no     *)
(* other row.                                                              *)
(***************************************************************************)
LEMMA ClaimType ==
  ASSUME NEW d \in Store, NEW j \in JobIds, NEW slot \in Nat \cup {Manual},
         d.seq + 1 <= MaxOccurrences
  PROVE  /\ Claim(d, j, slot) \in Store
         /\ NewId(d) \in OccIds
         /\ NewId(d) = d.seq + 1
         /\ Claim(d, j, slot).seq = d.seq + 1
         /\ Claim(d, j, slot).jobs = d.jobs /\ Claim(d, j, slot).adds = d.adds
         /\ Claim(d, j, slot).occ[NewId(d)] = [job |-> j, slot |-> slot, status |-> "claimed"]
         /\ \A i \in OccIds \ {NewId(d)} : Claim(d, j, slot).occ[i] = d.occ[i]
<1> DEFINE r == [job |-> j, slot |-> slot, status |-> "claimed"]
<1>1. r \in Row
  BY DEF Row, Statuses
<1>2. NewId(d) \in OccIds /\ NewId(d) = d.seq + 1
  BY BoundsAssumption DEF NewId, OccIds, Store
<1>3. Claim(d, j, slot) = [[d EXCEPT !.seq = d.seq + 1] EXCEPT !.occ[NewId(d)] = r]
  BY DEF Claim, Store
<1>4. [d.occ EXCEPT ![NewId(d)] = r] \in [OccIds -> Row \cup {NULL}]
  BY <1>1, <1>2 DEF Store
<1>5. d.seq + 1 \in 0 .. MaxOccurrences
  BY BoundsAssumption DEF Store
<1> HIDE DEF r
<1>6. Claim(d, j, slot) \in Store
  BY <1>3, <1>4, <1>5 DEF Store
<1>7. /\ Claim(d, j, slot).occ[NewId(d)] = r
      /\ \A i \in OccIds \ {NewId(d)} : Claim(d, j, slot).occ[i] = d.occ[i]
  BY <1>2, <1>3 DEF Store
<1> QED
  BY <1>2, <1>3, <1>6, <1>7 DEF r

(***************************************************************************)
(* SkipInterruptedType: after skip_interrupted no row is claimed.          *)
(***************************************************************************)
LEMMA SkipInterruptedType ==
  ASSUME NEW d \in Store
  PROVE  /\ SkipInterrupted(d) \in Store
         /\ SkipInterrupted(d).seq = d.seq
         /\ \A i \in OccIds : /\ ~ IsClaimed(SkipInterrupted(d), i)
                              /\ d.occ[i] = NULL => SkipInterrupted(d).occ[i] = NULL
<1> DEFINE o == [i \in OccIds |->
     IF d.occ[i] # NULL /\ d.occ[i].status = "claimed"
       THEN [d.occ[i] EXCEPT !.status = "skipped"] ELSE d.occ[i]]
<1>1. ASSUME NEW i \in OccIds
      PROVE  /\ o[i] \in Row \cup {NULL}
             /\ o[i] = NULL \/ o[i].status # "claimed"
             /\ d.occ[i] = NULL => o[i] = NULL
  BY DEF Store, Row, Statuses
<1>2. SkipInterrupted(d) = [d EXCEPT !.occ = o]
  BY DEF SkipInterrupted
<1>3. o \in [OccIds -> Row \cup {NULL}]
  BY <1>1
<1> HIDE DEF o
<1>4. SkipInterrupted(d) \in Store /\ SkipInterrupted(d).occ = o /\ SkipInterrupted(d).seq = d.seq
  BY <1>2, <1>3 DEF Store
<1> QED
  BY <1>1, <1>4 DEF IsClaimed

(***************************************************************************)
(* PruneType, DropOrphansType: they only remove rows, of one job.          *)
(***************************************************************************)
LEMMA PruneType ==
  ASSUME NEW d \in Store, NEW j \in JobIds
  PROVE  /\ Prune(d, j) \in Store
         /\ Prune(d, j).seq = d.seq
         /\ Prune(d, j).jobs = d.jobs /\ Prune(d, j).adds = d.adds
         /\ \A i \in OccIds : Prune(d, j).occ[i] \in {d.occ[i], NULL}
<1> DEFINE o == [i \in OccIds |->
     IF d.occ[i] # NULL /\ d.occ[i].job = j /\ ~ IsNewest(d, j, i) THEN NULL ELSE d.occ[i]]
<1>1. \A i \in OccIds : o[i] \in {d.occ[i], NULL}
  OBVIOUS
<1>2. Prune(d, j) = [d EXCEPT !.occ = o]
  BY DEF Prune
<1> HIDE DEF o
<1>3. o \in [OccIds -> Row \cup {NULL}]
  BY <1>1 DEF Store, o
<1>4. Prune(d, j) \in Store /\ Prune(d, j).seq = d.seq /\ Prune(d, j).occ = o
      /\ Prune(d, j).jobs = d.jobs /\ Prune(d, j).adds = d.adds
  BY <1>2, <1>3 DEF Store
<1> QED
  BY <1>1, <1>4

LEMMA DropOrphansType ==
  ASSUME NEW d \in Store, NEW j \in JobIds
  PROVE  /\ DropOrphans(d, j) \in Store
         /\ DropOrphans(d, j).seq = d.seq
         /\ DropOrphans(d, j).jobs = d.jobs /\ DropOrphans(d, j).adds = d.adds
         /\ \A i \in OccIds : DropOrphans(d, j).occ[i] \in {d.occ[i], NULL}
<1>1. CASE HasJob(d, j)
  BY <1>1 DEF DropOrphans
<1>2. CASE ~ HasJob(d, j)
  <2> DEFINE o == [i \in OccIds |->
                    IF d.occ[i] # NULL /\ d.occ[i].job = j THEN NULL ELSE d.occ[i]]
  <2>1. \A i \in OccIds : o[i] \in {d.occ[i], NULL}
    OBVIOUS
  <2>2. DropOrphans(d, j) = [d EXCEPT !.occ = o]
    BY <1>2 DEF DropOrphans
  <2> HIDE DEF o
  <2>3. o \in [OccIds -> Row \cup {NULL}]
    BY <2>1 DEF Store, o
  <2>4. DropOrphans(d, j) \in Store /\ DropOrphans(d, j).seq = d.seq
        /\ DropOrphans(d, j).occ = o /\ DropOrphans(d, j).jobs = d.jobs
        /\ DropOrphans(d, j).adds = d.adds
    BY <2>2, <2>3 DEF Store
  <2> QED
    BY <2>1, <2>4
<1> QED
  BY <1>1, <1>2

LEMMA TerminalizeType ==
  ASSUME NEW d \in Store, NEW i \in OccIds, NEW s \in {"completed", "skipped"},
         IsClaimed(d, i)
  PROVE  /\ Terminalize(d, i, s) \in Store
         /\ Terminalize(d, i, s).seq = d.seq
         /\ Terminalize(d, i, s).jobs = d.jobs /\ Terminalize(d, i, s).adds = d.adds
         /\ ~ IsClaimed(Terminalize(d, i, s), i)
         /\ \A k \in OccIds \ {i} : Terminalize(d, i, s).occ[k] = d.occ[k]
         /\ d.occ[i].job \in JobIds
<1>1. d.occ[i] \in Row
  BY DEF Store, IsClaimed
<1> DEFINE r == [d.occ[i] EXCEPT !.status = s]
<1>2. r \in Row /\ r.status # "claimed" /\ d.occ[i].job \in JobIds
  BY <1>1 DEF Row, Statuses
<1>3. Terminalize(d, i, s) = [d EXCEPT !.occ[i] = r]
  BY DEF Terminalize, Store
<1> HIDE DEF r
<1>4. Terminalize(d, i, s).occ[i] = r
  BY <1>3 DEF Store
<1>5. ~ IsClaimed(Terminalize(d, i, s), i)
  BY <1>2, <1>4 DEF IsClaimed
<1> QED
  BY <1>2, <1>3, <1>5 DEF Store

(***************************************************************************)
(* FinishType: finish leaves its own row unclaimed and makes no other row  *)
(* claimed; every other row stays as it was or is removed.                 *)
(***************************************************************************)
LEMMA FinishType ==
  ASSUME NEW d \in Store, NEW i \in OccIds, NEW s \in {"completed", "skipped"}
  PROVE  /\ Finish(d, i, s) \in Store
         /\ Finish(d, i, s).seq = d.seq
         /\ Finish(d, i, s).jobs = d.jobs
         /\ ~ IsClaimed(Finish(d, i, s), i)
         /\ d.occ[i] = NULL => Finish(d, i, s).occ[i] = NULL
         /\ \A k \in OccIds \ {i} : Finish(d, i, s).occ[k] \in {d.occ[k], NULL}
<1>1. CASE IsClaimed(d, i)
  <2> DEFINE t == Terminalize(d, i, s)
             j == d.occ[i].job
             p == Prune(t, j)
             f == DropOrphans(p, j)
  <2>1. Finish(d, i, s) = f
    BY <1>1 DEF Finish
  <2>2. /\ t \in Store /\ t.seq = d.seq /\ t.jobs = d.jobs /\ ~ IsClaimed(t, i)
        /\ \A k \in OccIds \ {i} : t.occ[k] = d.occ[k]
        /\ j \in JobIds
    BY <1>1, TerminalizeType
  <2> HIDE DEF t, j
  <2>3. /\ p \in Store /\ p.seq = t.seq /\ p.jobs = t.jobs
        /\ \A k \in OccIds : p.occ[k] \in {t.occ[k], NULL}
    BY <2>2, PruneType
  <2> HIDE DEF p
  <2>4. /\ f \in Store /\ f.seq = p.seq /\ f.jobs = p.jobs
        /\ \A k \in OccIds : f.occ[k] \in {p.occ[k], NULL}
    BY <2>2, <2>3, DropOrphansType
  <2> HIDE DEF f
  <2>5. d.occ[i] # NULL
    BY <1>1 DEF IsClaimed
  <2>6. ~ IsClaimed(f, i)
    BY <2>2, <2>3, <2>4 DEF IsClaimed
  <2> QED
    BY <2>1, <2>2, <2>3, <2>4, <2>5, <2>6
<1>2. CASE ~ IsClaimed(d, i)
  BY <1>2 DEF Finish
<1> QED
  BY <1>1, <1>2

(***************************************************************************)
(* FinishPrefixesType: so are the stores of a finish that stopped early.   *)
(***************************************************************************)
LEMMA FinishPrefixesType ==
  ASSUME NEW d \in Store, NEW i \in OccIds, NEW s \in {"completed", "skipped"},
         NEW e \in FinishPrefixes(d, i, s)
  PROVE  /\ e \in Store
         /\ e.seq = d.seq
         /\ e.jobs = d.jobs
         /\ ~ IsClaimed(e, i)
         /\ d.occ[i] # NULL
         /\ \A k \in OccIds \ {i} : e.occ[k] \in {d.occ[k], NULL}
<1>1. IsClaimed(d, i)
  BY DEF FinishPrefixes
<1> DEFINE t == Terminalize(d, i, s)
           j == d.occ[i].job
<1>2. e = t \/ e = Prune(t, j)
  BY <1>1 DEF FinishPrefixes
<1>3. /\ t \in Store /\ t.seq = d.seq /\ t.jobs = d.jobs /\ ~ IsClaimed(t, i)
      /\ \A k \in OccIds \ {i} : t.occ[k] = d.occ[k]
      /\ j \in JobIds
  BY <1>1, TerminalizeType
<1> HIDE DEF t, j
<1>4. /\ Prune(t, j) \in Store /\ Prune(t, j).seq = t.seq /\ Prune(t, j).jobs = t.jobs
      /\ \A k \in OccIds : Prune(t, j).occ[k] \in {t.occ[k], NULL}
  BY <1>3, PruneType
<1>5. ~ IsClaimed(Prune(t, j), i)
  BY <1>3, <1>4 DEF IsClaimed
<1> QED
  BY <1>1, <1>2, <1>3, <1>4, <1>5 DEF IsClaimed
-----------------------------------------------------------------------------
(* How many rows a job keeps. *)

\* Above p, among ids that end at n, there is room for n - p.
LEMMA AboveFew ==
  ASSUME NEW n \in Nat, NEW S \in SUBSET (1 .. n), NEW p \in 1 .. n
  PROVE  /\ IsFiniteSet({k \in S : k > p})
         /\ Cardinality({k \in S : k > p}) \in Nat
         /\ Cardinality({k \in S : k > p}) <= n - p
<1> DEFINE A == {k \in S : k > p}
<1>1. /\ IsFiniteSet((p + 1) .. n)
      /\ Cardinality((p + 1) .. n) = n - p
  BY FS_Interval
<1>2. \A k \in A : k \in (p + 1) .. n
  OBVIOUS
<1> HIDE DEF A
<1>3. IsFiniteSet(A) /\ Cardinality(A) <= n - p
  BY <1>1, <1>2, FS_Subset
<1>4. Cardinality(A) \in Nat
  BY <1>3, FS_CardinalityType
<1> QED
  BY <1>3, <1>4 DEF A

\* A set of ids that is not empty has a lowest one.
LEMMA LowestId ==
  ASSUME NEW S \in SUBSET Nat, S # {}
  PROVE  \E m \in S : \A k \in S : k >= m
<1>1. PICK m \in S : \A k \in S : ~ (<<k, m>> \in OpToRel(<, Nat))
  BY NatLessThanWellFounded, WFMin
<1>2. ASSUME NEW k \in S PROVE k >= m
  <2>1. CASE k < m
    <3>1. <<k, m>> \in OpToRel(<, Nat)
      BY <2>1 DEF OpToRel
    <3> QED
      BY <1>1, <3>1
  <2> QED
    BY <2>1
<1> QED
  BY <1>2

\* Those of S with fewer than n above them are at most n.
LEMMA NewestFew ==
  ASSUME NEW N \in Nat, NEW S \in SUBSET (1 .. N), NEW n \in Nat \ {0}
  PROVE  /\ IsFiniteSet({i \in S : Cardinality({k \in S : k > i}) < n})
         /\ Cardinality({i \in S : Cardinality({k \in S : k > i}) < n}) <= n
<1> DEFINE K == {i \in S : Cardinality({k \in S : k > i}) < n}
<1>1. IsFiniteSet(1 .. N)
  BY FS_Interval
<1>2. IsFiniteSet(S) /\ IsFiniteSet(K)
  <2>1. IsFiniteSet(S)
    BY <1>1, FS_Subset
  <2>2. K \in SUBSET S
    OBVIOUS
  <2> QED
    BY <2>1, <2>2, FS_Subset
<1>3. CASE K = {}
  <2>1. Cardinality(K) = 0
    BY <1>3, FS_EmptySet
  <2> HIDE DEF K
  <2>2. IsFiniteSet(K) /\ Cardinality(K) <= n
    BY <1>2, <2>1
  <2> QED
    BY <2>2 DEF K
<1>4. CASE K # {}
  <2>1. PICK m \in K : \A k \in K : k >= m
    <3>1. \A k \in K : k \in Nat
      OBVIOUS
    <3> HIDE DEF K
    <3> QED
      BY <1>4, <3>1, LowestId
  <2> DEFINE A == {k \in S : k > m}
  <2>2. m \in S /\ Cardinality(A) < n
    OBVIOUS
  <2>3. \A k \in K \ {m} : k \in A
    BY <2>1
  <2> HIDE DEF K
  <2>4. IsFiniteSet(A) /\ Cardinality(A) \in Nat
    BY <2>2, AboveFew
  <2> HIDE DEF A
  <2>5. Cardinality(K \ {m}) <= Cardinality(A)
    BY <2>3, <2>4, FS_Subset
  <2>6. Cardinality(K \ {m}) = Cardinality(K) - 1 /\ Cardinality(K) \in Nat
    BY <1>2, <2>1, FS_RemoveElement, FS_CardinalityType
  <2>7. Cardinality(K) <= n
    BY <2>2, <2>4, <2>5, <2>6
  <2> QED
    BY <1>2, <2>7 DEF K
<1> QED
  BY <1>3, <1>4

-----------------------------------------------------------------------------
(* What happens to table occurrences between two stores d and e. *)

\* Row r with status s.
Restated(r, s) == [r EXCEPT !.status = s]

RowsKeep(d, e) == e.seq = d.seq /\ \A k \in OccIds : e.occ[k] = d.occ[k]

\* One row is claimed, under the next id, for a slot of a job.
RowsNew(d, e, i, j, slot) ==
  /\ i = d.seq + 1
  /\ e.seq = i
  /\ e.occ[i] = [job |-> j, slot |-> slot, status |-> "claimed"]
  /\ \A k \in OccIds \ {i} : e.occ[k] = d.occ[k]

\* finish may drop row k: its job is gone, or it is not among the newest.
Expendable(d, k) ==
  d.occ[k] # NULL /\ (~ HasJob(d, d.occ[k].job) \/ ~ IsNewest(d, d.occ[k].job, k))

\* One claimed row may become out; expendable rows may go.
RowsSettle(d, e, i, out) ==
  /\ e.seq = d.seq
  /\ e.jobs = d.jobs
  /\ e.adds = d.adds
  /\ \A k \in OccIds :
       \/ e.occ[k] = d.occ[k]
       \/ e.occ[k] = NULL /\ Expendable(d, k)
       \/ k = i /\ IsClaimed(d, i) /\ e.occ[i] = Restated(d.occ[i], out)

\* Finished rows may go, with their job.
RowsForget(d, e) ==
  /\ e.seq = d.seq
  /\ \A k \in OccIds :
       \/ e.occ[k] = d.occ[k]
       \/ e.occ[k] = NULL /\ IsTerminal(d, k) /\ ~ HasJob(e, d.occ[k].job)

\* Every claimed row is skipped.
RowsRecover(d, e) ==
  /\ e.seq = d.seq
  /\ \A k \in OccIds :
       IF IsClaimed(d, k) THEN e.occ[k] = Restated(d.occ[k], "skipped")
       ELSE e.occ[k] = d.occ[k]

\* A row with another status is the same row.
LEMMA RestatedRow ==
  ASSUME NEW r \in Row, NEW s \in Statuses
  PROVE  /\ Restated(r, s) \in Row
         /\ Restated(r, s) # NULL
         /\ Restated(r, s).status = s
         /\ Restated(r, s).job = r.job
         /\ Restated(r, s).slot = r.slot
BY NullAssumption DEF Row, Restated

LEMMA TerminalizeRows ==
  ASSUME NEW d \in Store, NEW i \in OccIds, NEW s \in {"completed", "skipped"}, IsClaimed(d, i)
  PROVE  /\ Terminalize(d, i, s).occ[i] = Restated(d.occ[i], s)
         /\ \A j \in JobIds : RowsOf(Terminalize(d, i, s), j) = RowsOf(d, j)
<1> DEFINE t == Terminalize(d, i, s)
           r == Restated(d.occ[i], s)
<1>1. d.occ[i] \in Row /\ s \in Statuses
  BY DEF Store, IsClaimed, Statuses
<1>2. r # NULL /\ r.job = d.occ[i].job
  BY <1>1, RestatedRow
<1>3. t = [d EXCEPT !.occ[i] = r]
  BY DEF Terminalize, Store, Restated
<1> HIDE DEF r
<1>4. t.occ[i] = r
  BY <1>3 DEF Store
<1>5. \A k \in OccIds \ {i} : t.occ[k] = d.occ[k]
  BY TerminalizeType
<1> HIDE DEF t
<1>6. ASSUME NEW j \in JobIds PROVE RowsOf(t, j) = RowsOf(d, j)
  <2>1. \A k \in OccIds : t.occ[k] # NULL /\ t.occ[k].job = j <=> d.occ[k] # NULL /\ d.occ[k].job = j
    BY <1>1, <1>2, <1>4, <1>5, NullAssumption
  <2> QED
    BY <2>1 DEF RowsOf
<1> QED
  BY <1>4, <1>6 DEF t, r

LEMMA PruneRows ==
  ASSUME NEW d \in Store, NEW j \in JobIds
  PROVE  /\ \A k \in OccIds :
              \/ Prune(d, j).occ[k] = d.occ[k]
              \/ /\ Prune(d, j).occ[k] = NULL
                 /\ d.occ[k] # NULL /\ d.occ[k].job = j /\ ~ IsNewest(d, j, k)
         /\ \A k \in RowsOf(Prune(d, j), j) : k \in RowsOf(d, j) /\ IsNewest(d, j, k)
<1> DEFINE Drops(k) == d.occ[k] # NULL /\ d.occ[k].job = j /\ ~ IsNewest(d, j, k)
           p == Prune(d, j)
<1>1. p.occ = [k \in OccIds |-> IF Drops(k) THEN NULL ELSE d.occ[k]]
  BY DEF Prune, Store
<1> HIDE DEF p
<1>2. ASSUME NEW k \in OccIds
      PROVE  \/ p.occ[k] = d.occ[k] /\ ~ Drops(k)
             \/ p.occ[k] = NULL /\ Drops(k)
  <2>1. p.occ[k] = IF Drops(k) THEN NULL ELSE d.occ[k]
    BY <1>1
  <2> HIDE DEF Drops
  <2> QED
    BY <2>1, Zenon
<1>3. ASSUME NEW k \in RowsOf(p, j) PROVE k \in RowsOf(d, j) /\ IsNewest(d, j, k)
  BY <1>2, <1>3 DEF RowsOf
<1> QED
  BY <1>2, <1>3 DEF p

LEMMA DropOrphansRows ==
  ASSUME NEW d \in Store, NEW j \in JobIds, NEW k \in OccIds
  PROVE  \/ DropOrphans(d, j).occ[k] = d.occ[k]
         \/ /\ DropOrphans(d, j).occ[k] = NULL
            /\ d.occ[k] # NULL /\ d.occ[k].job = j /\ ~ HasJob(d, j)
<1>1. CASE HasJob(d, j)
  BY <1>1 DEF DropOrphans
<1>2. CASE ~ HasJob(d, j)
  <2> DEFINE o == DropOrphans(d, j).occ
  <2>1. o = [i \in OccIds |-> IF d.occ[i] # NULL /\ d.occ[i].job = j THEN NULL ELSE d.occ[i]]
    BY <1>2 DEF DropOrphans, Store
  <2> HIDE DEF o
  <2>2. o[k] = IF d.occ[k] # NULL /\ d.occ[k].job = j THEN NULL ELSE d.occ[k]
    BY <2>1
  <2>3. CASE d.occ[k] # NULL /\ d.occ[k].job = j
    BY <1>2, <2>2, <2>3 DEF o
  <2>4. CASE ~ (d.occ[k] # NULL /\ d.occ[k].job = j)
    <3>1. o[k] = d.occ[k]
      BY <2>2, <2>4, Zenon
    <3> QED
      BY <3>1 DEF o
  <2> QED
    BY <2>3, <2>4
<1> QED
  BY <1>1, <1>2

(***************************************************************************)
(* FinishRows: finish ends its own row as told, drops only rows it may     *)
(* drop, and changes no other; so do the stores of a finish cut short.     *)
(***************************************************************************)
LEMMA FinishRows ==
  ASSUME NEW d \in Store, NEW i \in OccIds, NEW s \in {"completed", "skipped"}
  PROVE  /\ RowsSettle(d, Finish(d, i, s), i, s)
         /\ \A e \in FinishPrefixes(d, i, s) : RowsSettle(d, e, i, s)
<1>1. CASE ~ IsClaimed(d, i)
  BY <1>1 DEF Finish, FinishPrefixes, RowsSettle
<1>2. CASE IsClaimed(d, i)
  <2> DEFINE t == Terminalize(d, i, s)
             j == d.occ[i].job
             p == Prune(t, j)
             f == DropOrphans(p, j)
  <2>1. Finish(d, i, s) = f /\ FinishPrefixes(d, i, s) = {t, p}
    BY <1>2 DEF Finish, FinishPrefixes
  <2>2. d.occ[i] \in Row /\ j \in JobIds /\ s \in Statuses
    BY <1>2 DEF Store, IsClaimed, Row, Statuses
  <2>3. Restated(d.occ[i], s).job = j
    BY <2>2, RestatedRow
  <2>4. /\ t \in Store /\ t.seq = d.seq /\ t.jobs = d.jobs /\ t.adds = d.adds
        /\ t.occ[i] = Restated(d.occ[i], s)
        /\ \A k \in OccIds \ {i} : t.occ[k] = d.occ[k]
        /\ RowsOf(t, j) = RowsOf(d, j)
    <3>1. /\ t \in Store /\ t.seq = d.seq /\ t.jobs = d.jobs /\ t.adds = d.adds
          /\ \A k \in OccIds \ {i} : t.occ[k] = d.occ[k]
      BY <1>2, TerminalizeType
    <3>2. t.occ[i] = Restated(d.occ[i], s)
      BY <1>2, TerminalizeRows
    <3>3. \A m \in JobIds : RowsOf(t, m) = RowsOf(d, m)
      BY <1>2, TerminalizeRows
    <3>4. RowsOf(t, j) = RowsOf(d, j)
      BY <2>2, <3>3
    <3> QED
      BY <3>1, <3>2, <3>4
  <2> HIDE DEF t
  <2>5. ASSUME NEW k \in OccIds, t.occ[k] # NULL, t.occ[k].job = j
        PROVE  d.occ[k] # NULL /\ d.occ[k].job = j
    BY <1>2, <2>2, <2>4, <2>5 DEF IsClaimed
  <2>6. /\ p \in Store /\ p.seq = d.seq /\ p.jobs = d.jobs /\ p.adds = d.adds
        /\ \A k \in OccIds :
             p.occ[k] = t.occ[k] \/ (p.occ[k] = NULL /\ Expendable(d, k))
    <3>1. p \in Store /\ p.seq = d.seq /\ p.jobs = d.jobs /\ p.adds = d.adds
      BY <2>2, <2>4, PruneType
    <3>2. ASSUME NEW k \in OccIds, p.occ[k] # t.occ[k]
          PROVE  p.occ[k] = NULL /\ Expendable(d, k)
      <4>1. p.occ[k] = NULL /\ t.occ[k] # NULL /\ t.occ[k].job = j /\ ~ IsNewest(t, j, k)
        BY <2>2, <2>4, <3>2, PruneRows
      <4>2. ~ IsNewest(d, j, k)
        BY <2>4, <4>1 DEF IsNewest
      <4> QED
        BY <2>5, <4>1, <4>2 DEF Expendable
    <3> QED
      BY <3>1, <3>2
  <2> HIDE DEF p
  <2>7. /\ f.seq = d.seq /\ f.jobs = d.jobs /\ f.adds = d.adds
        /\ \A k \in OccIds :
             f.occ[k] = t.occ[k] \/ (f.occ[k] = NULL /\ Expendable(d, k))
    <3>1. f.seq = d.seq /\ f.jobs = d.jobs /\ f.adds = d.adds
      BY <2>2, <2>6, DropOrphansType
    <3>2. ASSUME NEW k \in OccIds, f.occ[k] # p.occ[k]
          PROVE  f.occ[k] = NULL /\ Expendable(d, k)
      <4>1. f.occ[k] = NULL /\ p.occ[k] # NULL /\ p.occ[k].job = j /\ ~ HasJob(p, j)
        BY <2>2, <2>6, <3>2, DropOrphansRows
      <4>2. t.occ[k] # NULL /\ t.occ[k].job = j /\ ~ HasJob(d, j)
        BY <2>6, <4>1 DEF HasJob
      <4> QED
        BY <2>5, <4>1, <4>2 DEF Expendable
    <3> QED
      BY <2>6, <3>1, <3>2
  <2> HIDE DEF f
  <2>8. RowsSettle(d, t, i, s) /\ RowsSettle(d, p, i, s) /\ RowsSettle(d, f, i, s)
    BY <1>2, <2>4, <2>6, <2>7 DEF RowsSettle
  <2> QED
    BY <2>1, <2>8
<1> QED
  BY <1>1, <1>2

LEMMA ClaimRows ==
  ASSUME NEW d \in Store, NEW j \in JobIds, NEW slot \in Nat \cup {Manual},
         d.seq + 1 <= MaxOccurrences
  PROVE  NewId(d) \in OccIds /\ RowsNew(d, Claim(d, j, slot), NewId(d), j, slot)
<1>1. /\ NewId(d) \in OccIds /\ NewId(d) = d.seq + 1
      /\ Claim(d, j, slot).seq = d.seq + 1
      /\ Claim(d, j, slot).occ[NewId(d)] = [job |-> j, slot |-> slot, status |-> "claimed"]
      /\ \A i \in OccIds \ {NewId(d)} : Claim(d, j, slot).occ[i] = d.occ[i]
  BY ClaimType
<1> QED
  BY <1>1 DEF RowsNew

\* A row is claimed for some slot of some job.
RowClaimed(d, e, i) == \E j \in JobIds, slot \in Nat \cup {Manual} : RowsNew(d, e, i, j, slot)

(***************************************************************************)
(* NewRow, ClaimedRow, SettledRow, RecoveredRow: one row of such a table.  *)
(***************************************************************************)
LEMMA NewRow ==
  ASSUME NEW d \in Store, NEW e, NEW i \in OccIds, NEW j \in JobIds,
         NEW slot \in Nat \cup {Manual}, RowsNew(d, e, i, j, slot)
  PROVE  /\ e.occ[i] # NULL /\ e.occ[i].status = "claimed"
         /\ e.occ[i].job = j /\ e.occ[i].slot = slot
<1> DEFINE r == [job |-> j, slot |-> slot, status |-> "claimed"]
<1>1. r \in Row /\ r # NULL /\ r.status = "claimed" /\ r.job = j /\ r.slot = slot
  BY NullAssumption DEF Row, Statuses
<1> QED
  BY <1>1 DEF RowsNew

LEMMA ClaimedRow ==
  ASSUME NEW d \in Store, NEW e, NEW i \in OccIds, RowClaimed(d, e, i)
  PROVE  /\ i = d.seq + 1 /\ e.seq = i
         /\ e.occ[i] # NULL /\ e.occ[i].status = "claimed"
         /\ \A k \in OccIds \ {i} : e.occ[k] = d.occ[k]
<1>1. PICK j \in JobIds, slot \in Nat \cup {Manual} : RowsNew(d, e, i, j, slot)
  BY DEF RowClaimed
<1>2. e.occ[i] # NULL /\ e.occ[i].status = "claimed"
  BY <1>1, NewRow
<1> QED
  BY <1>1, <1>2 DEF RowsNew

LEMMA SettledRow ==
  ASSUME NEW d \in Store, NEW e, NEW i \in OccIds, NEW out \in {"completed", "skipped"},
         RowsSettle(d, e, i, out), NEW k \in OccIds
  PROVE  \/ e.occ[k] = d.occ[k]
         \/ e.occ[k] = NULL /\ Expendable(d, k)
         \/ /\ k = i /\ IsClaimed(d, i) /\ e.occ[i] # NULL /\ e.occ[i].status = out
            /\ e.occ[i].job = d.occ[i].job /\ e.occ[i].slot = d.occ[i].slot
<1>1. IsClaimed(d, i) => d.occ[i] \in Row /\ out \in Statuses
  BY DEF IsClaimed, Store, Statuses
<1> QED
  BY <1>1, RestatedRow DEF RowsSettle

LEMMA RecoveredRow ==
  ASSUME NEW d \in Store, NEW e, RowsRecover(d, e), NEW k \in OccIds
  PROVE  \/ e.occ[k] = d.occ[k] /\ ~ IsClaimed(d, k)
         \/ /\ IsClaimed(d, k) /\ e.occ[k] # NULL /\ e.occ[k].status = "skipped"
            /\ e.occ[k].job = d.occ[k].job /\ e.occ[k].slot = d.occ[k].slot
<1>1. CASE IsClaimed(d, k)
  <2>1. d.occ[k] \in Row /\ "skipped" \in Statuses
    BY <1>1 DEF IsClaimed, Store, Statuses
  <2>2. e.occ[k] = Restated(d.occ[k], "skipped")
    BY <1>1 DEF RowsRecover
  <2> QED
    BY <1>1, <2>1, <2>2, RestatedRow
<1>2. CASE ~ IsClaimed(d, k)
  BY <1>2 DEF RowsRecover
<1> QED
  BY <1>1, <1>2

LEMMA DeleteRows ==
  ASSUME NEW d \in Store, NEW j \in JobIds
  PROVE  /\ RowsForget(d, Delete(d, j))
         /\ Delete(d, j).jobs[j] = NULL
         /\ \A m \in JobIds \ {j} : Delete(d, j).jobs[m] = d.jobs[m]
         /\ Delete(d, j).adds = d.adds
         /\ \A k \in OccIds : ~ (IsTerminal(Delete(d, j), k) /\ Delete(d, j).occ[k].job = j)
<1> DEFINE e == Delete(d, j)
           Drops(k) == d.occ[k] # NULL /\ d.occ[k].job = j /\ d.occ[k].status # "claimed"
<1>1. e.seq = d.seq
  BY DeleteType
<1>2. /\ e.occ = [i \in OccIds |-> IF Drops(i) THEN NULL ELSE d.occ[i]]
      /\ e.jobs = [d.jobs EXCEPT ![j] = NULL]
      /\ e.adds = d.adds
  BY DEF Delete, Store
<1>3. e.jobs[j] = NULL /\ \A m \in JobIds \ {j} : e.jobs[m] = d.jobs[m]
  BY <1>2 DEF Store
<1> HIDE DEF e
<1>4. ASSUME NEW k \in OccIds
      PROVE  \/ e.occ[k] = d.occ[k] /\ ~ Drops(k)
             \/ e.occ[k] = NULL /\ Drops(k)
  <2>1. e.occ[k] = IF Drops(k) THEN NULL ELSE d.occ[k]
    BY <1>2
  <2> HIDE DEF Drops
  <2> QED
    BY <2>1, Zenon
<1>5. RowsForget(d, e)
  BY <1>1, <1>3, <1>4 DEF RowsForget, IsTerminal, HasJob
<1>6. \A k \in OccIds : ~ (IsTerminal(e, k) /\ e.occ[k].job = j)
  BY <1>4 DEF IsTerminal
<1> QED
  BY <1>2, <1>3, <1>5, <1>6 DEF e

LEMMA RecoverRows ==
  ASSUME NEW d \in Store, NEW S \in SUBSET JobIds, NEW t \in Times
  PROVE  RowsRecover(d, Recalculate(SkipInterrupted(d), S, t))
<1> DEFINE k == SkipInterrupted(d)
           Hit(i) == d.occ[i] # NULL /\ d.occ[i].status = "claimed"
<1>1. k \in Store /\ k.seq = d.seq
  BY SkipInterruptedType
<1>2. k.occ = [i \in OccIds |-> IF Hit(i) THEN Restated(d.occ[i], "skipped") ELSE d.occ[i]]
  BY DEF SkipInterrupted, Store, Restated
<1> HIDE DEF k
<1>3. Recalculate(k, S, t).occ = k.occ /\ Recalculate(k, S, t).seq = k.seq
  BY <1>1, RecalculateType
<1>4. ASSUME NEW i \in OccIds
      PROVE  IF IsClaimed(d, i) THEN k.occ[i] = Restated(d.occ[i], "skipped")
             ELSE k.occ[i] = d.occ[i]
  <2>1. k.occ[i] = IF Hit(i) THEN Restated(d.occ[i], "skipped") ELSE d.occ[i]
    BY <1>2
  <2> HIDE DEF Hit
  <2>2. IF Hit(i) THEN k.occ[i] = Restated(d.occ[i], "skipped") ELSE k.occ[i] = d.occ[i]
    BY <2>1, Zenon
  <2> QED
    BY <2>2 DEF Hit, IsClaimed
<1>5. RowsRecover(d, Recalculate(k, S, t))
  BY <1>1, <1>3, <1>4 DEF RowsRecover
<1> QED
  BY <1>5 DEF k

-----------------------------------------------------------------------------
(* What happens to table jobs between two stores d and e. *)

\* A row written at time t: a new incarnation, or the old one planned anew.
JobWritten(d, e, j, t) ==
  /\ HasJob(e, j)
  /\ e.jobs[j].nextAt = NextAt(e.jobs[j].enabled, e.jobs[j].schedule, t)
  /\ \/ HasJob(d, j) /\ e.jobs[j].born = d.jobs[j].born
     \/ ~ HasJob(d, j) /\ d.adds < e.jobs[j].born /\ e.jobs[j].born <= e.adds

\* A row removed: its finished occurrences go with it.
JobRemoved(e, j) ==
  ~ HasJob(e, j) /\ \A k \in OccIds : ~ (IsTerminal(e, k) /\ e.occ[k].job = j)

JobsWrite(d, e, t) ==
  /\ e.adds \in Nat
  /\ e.adds >= d.adds
  /\ \A j \in JobIds : e.jobs[j] = d.jobs[j] \/ JobRemoved(e, j) \/ JobWritten(d, e, j, t)

LEMMA AddJobs ==
  ASSUME NEW d \in Store, NEW j \in JobIds, NEW s \in Schedules, NEW b \in BOOLEAN,
         NEW t \in Times, ~ HasJob(d, j)
  PROVE  JobsWrite(d, Add(d, j, s, b, t), t)
<1> DEFINE r == [enabled |-> b, schedule |-> s, nextAt |-> NextAt(b, s, t), born |-> d.adds + 1]
           e == Add(d, j, s, b, t)
<1>1. NextAt(b, s, t) \in Nat \cup {NULL} /\ d.adds \in Nat
  BY NextAtType DEF Store
<1>2. r \in Job /\ r # NULL /\ r.enabled = b /\ r.schedule = s /\ r.nextAt = NextAt(b, s, t)
      /\ r.born = d.adds + 1
  BY <1>1, NullAssumption DEF Job
<1>3. e.jobs = [d.jobs EXCEPT ![j] = r] /\ e.adds = d.adds + 1
  BY DEF Add, Store
<1> HIDE DEF r, e
<1>4. e.jobs[j] = r /\ \A m \in JobIds \ {j} : e.jobs[m] = d.jobs[m]
  BY <1>3 DEF Store
<1>5. JobWritten(d, e, j, t)
  BY <1>1, <1>2, <1>3, <1>4 DEF JobWritten, HasJob
<1>6. JobsWrite(d, e, t)
  BY <1>1, <1>3, <1>4, <1>5 DEF JobsWrite
<1> QED
  BY <1>6 DEF e

LEMMA ReplaceJobs ==
  ASSUME NEW d \in Store, NEW j \in JobIds, NEW s \in Schedules, NEW b \in BOOLEAN,
         NEW t \in Times, HasJob(d, j)
  PROVE  JobsWrite(d, Replace(d, j, s, b, t), t)
<1> DEFINE r == [enabled |-> b, schedule |-> s, nextAt |-> NextAt(b, s, t),
                 born |-> d.jobs[j].born]
           e == Replace(d, j, s, b, t)
<1>1. NextAt(b, s, t) \in Nat \cup {NULL} /\ d.adds \in Nat /\ d.jobs[j] \in Job
  BY NextAtType DEF Store, HasJob
<1>2. r \in Job /\ r # NULL /\ r.enabled = b /\ r.schedule = s /\ r.nextAt = NextAt(b, s, t)
      /\ r.born = d.jobs[j].born
  BY <1>1, NullAssumption DEF Job
<1>3. e.jobs = [d.jobs EXCEPT ![j] = r] /\ e.adds = d.adds
  BY DEF Replace, Store
<1> HIDE DEF r, e
<1>4. e.jobs[j] = r /\ \A m \in JobIds \ {j} : e.jobs[m] = d.jobs[m]
  BY <1>3 DEF Store
<1>5. JobWritten(d, e, j, t)
  BY <1>2, <1>4 DEF JobWritten, HasJob
<1>6. JobsWrite(d, e, t)
  BY <1>1, <1>3, <1>4, <1>5 DEF JobsWrite
<1> QED
  BY <1>6 DEF e

LEMMA SetEnabledJobs ==
  ASSUME NEW d \in Store, NEW j \in JobIds, NEW b \in BOOLEAN, NEW t \in Times, HasJob(d, j)
  PROVE  JobsWrite(d, SetEnabled(d, j, b, t), t)
<1>1. d.jobs[j].schedule \in Schedules
  BY DEF Store, HasJob, Job
<1> QED
  BY <1>1, ReplaceJobs DEF SetEnabled

LEMMA DeleteJobs ==
  ASSUME NEW d \in Store, NEW j \in JobIds, NEW t \in Times
  PROVE  JobsWrite(d, Delete(d, j), t)
<1>1. d.adds \in Nat
  BY DEF Store
<1>2. JobRemoved(Delete(d, j), j)
  BY DeleteRows DEF JobRemoved, HasJob
<1> QED
  BY <1>1, <1>2, DeleteRows DEF JobsWrite

LEMMA RecoverJobs ==
  ASSUME NEW d \in Store, NEW S \in SUBSET JobIds, NEW t \in Times
  PROVE  JobsWrite(d, Recalculate(SkipInterrupted(d), S, t), t)
<1> DEFINE k == SkipInterrupted(d)
           e == Recalculate(k, S, t)
           r(j) == [d.jobs[j] EXCEPT !.nextAt = NextAt(d.jobs[j].enabled, d.jobs[j].schedule, t)]
<1>1. k.jobs = d.jobs /\ k.adds = d.adds /\ d.adds \in Nat
  BY DEF SkipInterrupted, Store
<1>2. /\ e.adds = k.adds
      /\ e.jobs = [j \in JobIds |-> IF j \in S /\ k.jobs[j] # NULL
                     THEN [k.jobs[j] EXCEPT !.nextAt = NextAt(k.jobs[j].enabled,
                                                              k.jobs[j].schedule, t)]
                     ELSE k.jobs[j]]
  BY SkipInterruptedType DEF Recalculate, Store
<1> HIDE DEF k, e
<1>3. ASSUME NEW j \in JobIds
      PROVE  e.jobs[j] = d.jobs[j] \/ JobWritten(d, e, j, t)
  <2>1. e.jobs[j] = IF j \in S /\ d.jobs[j] # NULL THEN r(j) ELSE d.jobs[j]
    BY <1>1, <1>2
  <2>2. CASE j \in S /\ d.jobs[j] # NULL
    <3>1. d.jobs[j] \in Job
      BY <2>2 DEF Store
    <3>2. NextAt(d.jobs[j].enabled, d.jobs[j].schedule, t) \in Nat \cup {NULL}
      BY <3>1, NextAtType DEF Job
    <3>3. /\ r(j) # NULL /\ r(j).enabled = d.jobs[j].enabled
          /\ r(j).schedule = d.jobs[j].schedule /\ r(j).born = d.jobs[j].born
          /\ r(j).nextAt = NextAt(d.jobs[j].enabled, d.jobs[j].schedule, t)
      BY <3>1, <3>2, NullAssumption DEF Job
    <3>4. e.jobs[j] = r(j)
      BY <2>1, <2>2
    <3> HIDE DEF r
    <3> QED
      BY <2>2, <3>3, <3>4 DEF JobWritten, HasJob
  <2>3. CASE ~ (j \in S /\ d.jobs[j] # NULL)
    <3>1. e.jobs[j] = d.jobs[j]
      BY <2>1, <2>3, Zenon
    <3> QED
      BY <3>1
  <2> QED
    BY <2>2, <2>3
<1>4. JobsWrite(d, e, t)
  BY <1>1, <1>2, <1>3 DEF JobsWrite
<1> QED
  BY <1>4 DEF e, k

\* AdvanceJobs: advance moves next_at of an enabled job, and nothing else.
LEMMA AdvanceJobs ==
  ASSUME NEW d \in Store, NEW j \in JobIds, NEW t \in Times, HasJob(d, j), d.jobs[j].enabled
  PROVE  /\ Advance(d, j, t).adds = d.adds
         /\ \A m \in JobIds \ {j} : Advance(d, j, t).jobs[m] = d.jobs[m]
         /\ HasJob(Advance(d, j, t), j)
         /\ Advance(d, j, t).jobs[j].nextAt = NextOccurrence(d.jobs[j].schedule, t)
         /\ Advance(d, j, t).jobs[j].schedule = d.jobs[j].schedule
         /\ Advance(d, j, t).jobs[j].born = d.jobs[j].born
<1> DEFINE r == [d.jobs[j] EXCEPT !.nextAt = NextOccurrence(d.jobs[j].schedule, t)]
           e == Advance(d, j, t)
<1>1. d.jobs[j] \in Job
  BY DEF HasJob, Store
<1>2. NextOccurrence(d.jobs[j].schedule, t) \in Nat
  BY <1>1, CronAssumption DEF Job
<1>3. r \in Job /\ r # NULL /\ r.nextAt = NextOccurrence(d.jobs[j].schedule, t)
      /\ r.schedule = d.jobs[j].schedule /\ r.born = d.jobs[j].born
  BY <1>1, <1>2, NullAssumption DEF Job
<1>4. e.jobs = [d.jobs EXCEPT ![j] = r] /\ e.adds = d.adds
  BY DEF Advance, HasJob, Store
<1> HIDE DEF r, e
<1>5. e.jobs[j] = r /\ \A m \in JobIds \ {j} : e.jobs[m] = d.jobs[m]
  BY <1>4 DEF Store
<1> QED
  BY <1>3, <1>4, <1>5 DEF HasJob, e

-----------------------------------------------------------------------------
(* What a job keeps of its history. *)

Finished(d, j) == {i \in RowsOf(d, j) : IsTerminal(d, i)}

\* A row that finish drops for its age has HistoryLimit ids above it.
LEMMA OldRow ==
  ASSUME NEW d \in Store, NEW k \in OccIds, Expendable(d, k),
         \A i \in OccIds : d.occ[i] # NULL => i <= d.seq
  PROVE  ~ HasJob(d, d.occ[k].job) \/ d.seq - k >= HistoryLimit
<1> DEFINE j == d.occ[k].job
           A == {m \in RowsOf(d, j) : m > k}
<1>1. CASE ~ HasJob(d, j)
  BY <1>1
<1>2. CASE ~ IsNewest(d, j, k)
  <2>1. d.seq \in Nat /\ MaxOccurrences \in Nat /\ HistoryLimit \in Nat
    BY BoundsAssumption DEF Store
  <2>2. \A m \in RowsOf(d, j) : m \in 1 .. d.seq
    BY <2>1 DEF RowsOf, OccIds
  <2>3. k \in 1 .. d.seq
    BY <2>1 DEF Expendable, OccIds
  <2>4. Cardinality(A) \in Nat /\ Cardinality(A) <= d.seq - k
    BY <2>1, <2>2, <2>3, AboveFew
  <2>5. ~ (Cardinality(A) < HistoryLimit)
    BY <1>2 DEF IsNewest
  <2> QED
    BY <2>1, <2>3, <2>4, <2>5
<1> QED
  BY <1>1, <1>2 DEF Expendable

(***************************************************************************)
(* FinishBounds: after finish the job of a claimed row has at most         *)
(* HistoryLimit rows, or none when it is gone; other jobs keep theirs.     *)
(***************************************************************************)
LEMMA FinishBounds ==
  ASSUME NEW d \in Store, NEW i \in OccIds, NEW s \in {"completed", "skipped"},
         NEW j \in JobIds
  PROVE  \/ Finished(Finish(d, i, s), j) = Finished(d, j)
         \/ /\ Cardinality(Finished(Finish(d, i, s), j)) <= HistoryLimit
            /\ ~ HasJob(d, j) => Finished(Finish(d, i, s), j) = {}
<1>1. CASE ~ IsClaimed(d, i)
  BY <1>1 DEF Finish
<1>2. CASE IsClaimed(d, i)
  <2> DEFINE t == Terminalize(d, i, s)
             g == d.occ[i].job
             p == Prune(t, g)
             f == DropOrphans(p, g)
  <2>1. Finish(d, i, s) = f
    BY <1>2 DEF Finish
  <2>2. d.occ[i] \in Row /\ g \in JobIds /\ s \in Statuses
    BY <1>2 DEF Store, IsClaimed, Row, Statuses
  <2>3. t \in Store /\ t.jobs = d.jobs
    BY <1>2, TerminalizeType
  <2> HIDE DEF t
  <2>4. p \in Store /\ p.jobs = d.jobs
    BY <2>2, <2>3, PruneType
  <2>5. \A k \in OccIds : f.occ[k] \in {p.occ[k], NULL}
    BY <2>2, <2>4, DropOrphansType
  <2>6. CASE j = g
    <3>1. \A k \in RowsOf(p, g) : k \in RowsOf(t, g) /\ IsNewest(t, g, k)
      BY <2>2, <2>3, PruneRows
    <3>2. \A k \in RowsOf(f, g) : k \in RowsOf(p, g)
      BY <2>5 DEF RowsOf
    <3> DEFINE R == RowsOf(t, g)
               K == {k \in R : Cardinality({m \in R : m > k}) < HistoryLimit}
    <3>3. \A k \in Finished(f, g) : k \in K
      BY <3>1, <3>2 DEF Finished, IsNewest
    <3>4. \A k \in R : k \in 1 .. MaxOccurrences
      BY DEF RowsOf, OccIds
    <3> HIDE DEF R
    <3>5. IsFiniteSet(K) /\ Cardinality(K) <= HistoryLimit
      BY <3>4, NewestFew, BoundsAssumption
    <3> HIDE DEF K
    <3>6. Finished(f, g) \in SUBSET K
      BY <3>3
    <3>7. IsFiniteSet(Finished(f, g)) /\ Cardinality(Finished(f, g)) <= Cardinality(K)
      BY <3>5, <3>6, FS_Subset
    <3>8. Cardinality(Finished(f, g)) \in Nat /\ Cardinality(K) \in Nat
      BY <3>5, <3>7, FS_CardinalityType
    <3>9. Cardinality(Finished(f, g)) <= HistoryLimit
      BY <3>5, <3>7, <3>8, BoundsAssumption
    <3>10. ASSUME ~ HasJob(d, g) PROVE Finished(f, g) = {}
      <4>1. ~ HasJob(p, g)
        BY <2>4, <3>10 DEF HasJob
      <4>2. f.occ = [k \in OccIds |->
               IF p.occ[k] # NULL /\ p.occ[k].job = g THEN NULL ELSE p.occ[k]]
        BY <2>4, <4>1 DEF DropOrphans, Store
      <4>3. \A k \in OccIds : ~ (f.occ[k] # NULL /\ f.occ[k].job = g)
        BY <4>2
      <4> QED
        BY <4>3 DEF Finished, RowsOf
    <3> QED
      BY <2>1, <2>6, <3>9, <3>10
  <2>7. CASE j # g
    <3>1. ASSUME NEW k \in OccIds
          PROVE  \/ f.occ[k] = d.occ[k]
                 \/ ~ (d.occ[k] # NULL /\ d.occ[k].job = j) /\ ~ (f.occ[k] # NULL /\ f.occ[k].job = j)
      <4>1. p.occ[k] = t.occ[k] \/ (p.occ[k] = NULL /\ t.occ[k] # NULL /\ t.occ[k].job = g)
        BY <2>2, <2>3, PruneRows
      <4>2. f.occ[k] = p.occ[k] \/ (f.occ[k] = NULL /\ p.occ[k] # NULL /\ p.occ[k].job = g)
        BY <2>2, <2>4, DropOrphansRows
      <4>3. CASE k = i
        <5>1. t.occ[i] = Restated(d.occ[i], s)
          BY <1>2, TerminalizeRows DEF t
        <5>2. t.occ[i].job = g
          BY <2>2, <5>1, RestatedRow
        <5> QED
          BY <2>7, <4>1, <4>2, <4>3, <5>2
      <4>4. CASE k # i
        <5>1. t.occ[k] = d.occ[k]
          BY <1>2, <4>4, TerminalizeType DEF t
        <5> QED
          BY <2>7, <4>1, <4>2, <5>1
      <4> QED
        BY <4>3, <4>4
    <3> HIDE DEF f
    <3>2. Finished(f, j) = Finished(d, j)
      BY <3>1 DEF Finished, RowsOf, IsTerminal
    <3> QED
      BY <2>1, <3>2
  <2> QED
    BY <2>6, <2>7
<1> QED
  BY <1>1, <1>2
=============================================================================
