------------------------------- MODULE Ledger -------------------------------
(***************************************************************************)
(* The daemon implements Occurrences: its table and its tasks, seen as a   *)
(* ledger.                                                                 *)
(***************************************************************************)
EXTENDS Daemon

\* An id that was given and has no row is gone.
RowStatus(i) ==
  IF db.occ[i] # NULL THEN db.occ[i].status
  ELSE IF i <= db.seq THEN "gone" ELSE "absent"

\* A run whose process is gone, or whose row is finished, is over.
RunEffect(i) ==
  IF task[i] = NULL THEN "none"
  ELSE IF task[i].pc \in {"claimed", "missed", "queued"} THEN "waiting"
  ELSE IF task[i].pc \in {"running"} \cup Outcomes THEN "begun"
  ELSE "over"

Book == INSTANCE Occurrences
          WITH Ids    <- OccIds,
               status <- [i \in OccIds |-> RowStatus(i)],
               effect <- [i \in OccIds |-> RunEffect(i)]

(***************************************************************************)
(* ImplementsLedger: whatever the daemon does, with crashes in the middle  *)
(* of a statement sequence, restarts, faults of the store, edits and a     *)
(* clock that is set, is what the abstract ledger of occurrences may do:   *)
(* no id is reused, no effect begins twice or beside another, and no       *)
(* finished row changes.  (scheduler.rs and repository.rs as a whole.)     *)
(***************************************************************************)
ImplementsLedger == Book!Spec
=============================================================================
