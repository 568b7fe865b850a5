------------------------------- MODULE Service -------------------------------
(***************************************************************************)
(* The connection handlers of the daemon and the requests they dispatch    *)
(* (rust/src/service.rs, and handle of rust/src/socket.rs).                *)
(*                                                                         *)
(* A handler reads one request, serves it and answers.  Until it takes the *)
(* store's mutex it has read nothing shared, so reading the request,       *)
(* parsing it and validating the action in a runner (add, edit) are one    *)
(* stretch, which ends in the commit of the request or in a reply that     *)
(* changes nothing.  A handler still reading may answer "shutting down"    *)
(* once the token is cancelled, but select! may also serve it the request. *)
(***************************************************************************)
EXTENDS Scheduler

CONSTANTS
  Handlers,     \* bound: the connections served at a time
  MaxAdds       \* bound: how many jobs are ever added

VARIABLE handler  \* of each handler: its place, and the occurrence its run_now waits for

ASSUME MaxAddsAssumption == MaxAdds \in Nat

serviceVars == <<schedVars, handler>>

Handler == [pc : {"free", "read", "notify", "claimed", "wait"}, occ : OccIds \cup {0}]

HandlerAt(pc) == [pc |-> pc, occ |-> 0]

ServiceInit == handler = [h \in Handlers |-> HandlerAt("free")]

Reading(h) == handler[h].pc = "read"

HandlerGoes(h, pc) == handler' = [handler EXCEPT ![h] = HandlerAt(pc)]

-----------------------------------------------------------------------------

HandlerAccept(h) ==
  /\ handler[h].pc = "free"
  /\ HandlerGoes(h, "read")
  /\ UNCHANGED schedVars

(***************************************************************************)
(* The replies that change nothing: list, get, ping, a malformed request,  *)
(* end of input, a rejected action, an unknown or an existing job id, and  *)
(* "shutting down".                                                        *)
(***************************************************************************)
HandlerReply(h) ==
  /\ Reading(h)
  /\ HandlerGoes(h, "free")
  /\ UNCHANGED schedVars

\* A request that changes table jobs: under the lock, then a notify is due.
Commit(h, d) ==
  /\ db' = d
  /\ HandlerGoes(h, "notify")
  /\ UNCHANGED <<now, permit, cancelled, loop, task, gate, pending, stop, drained, procs>>

CommitAdd(h, j, s, enabled) ==
  /\ Reading(h)
  /\ ~ HasJob(db, j)
  /\ db.adds < MaxAdds
  /\ Commit(h, Add(db, j, s, enabled, now))

CommitEdit(h, j, s, enabled) ==
  /\ Reading(h)
  /\ HasJob(db, j)
  /\ Commit(h, Replace(db, j, s, enabled, now))

CommitDelete(h, j) ==
  /\ Reading(h)
  /\ HasJob(db, j)
  /\ Commit(h, Delete(db, j))

\* enable or disable
CommitSetEnabled(h, j, enabled) ==
  /\ Reading(h)
  /\ HasJob(db, j)
  /\ Commit(h, SetEnabled(db, j, enabled, now))

\* The statement commits, reading the job back fails: `?` returns before notify.
CommitFault(h, j, s, enabled) ==
  /\ Reading(h)
  /\ \/ ~ HasJob(db, j) /\ db.adds < MaxAdds /\ db' = Add(db, j, s, enabled, now)
     \/ HasJob(db, j) /\ db' = Replace(db, j, s, enabled, now)
  /\ HandlerGoes(h, "free")
  /\ UNCHANGED <<now, permit, cancelled, loop, task, gate, pending, stop, drained, procs>>

\* Mutated form: scheduler.notify() is forgotten.
HandlerNotifyLost(h) ==
  /\ handler[h].pc = "notify"
  /\ HandlerGoes(h, "free")
  /\ UNCHANGED schedVars

\* scheduler.notify(), then the reply.
HandlerNotify(h) ==
  /\ handler[h].pc = "notify"
  /\ permit' = TRUE
  /\ HandlerGoes(h, "free")
  /\ UNCHANGED <<db, now, cancelled, loop, task, gate, pending, stop, drained, procs>>

HandlerRunNow(h, j) ==
  /\ Reading(h)
  /\ RunNowClaim(j)
  /\ handler' = [handler EXCEPT ![h] = [pc |-> "claimed", occ |-> NewId(db)]]

HandlerRunNowFault(h, j) ==
  /\ Reading(h)
  /\ RunNowFault(j)
  /\ HandlerGoes(h, "free")

HandlerEnqueue(h) ==
  /\ handler[h].pc = "claimed"
  /\ Enqueue(handler[h].occ)
  /\ handler' = [handler EXCEPT ![h].pc = "wait"]

\* The task sent its outcome: the handler replies.
HandlerAnswered(h) ==
  /\ handler[h].pc = "wait"
  /\ TaskIs(handler[h].occ, {"sent", "last", "done"})
  /\ HandlerGoes(h, "free")
  /\ UNCHANGED schedVars

\* Aborted with its JoinSet: it is dropped where it awaits, its task lives on.
HandlerDropped(h) ==
  /\ handler[h].pc \in {"read", "wait"}
  /\ HandlerGoes(h, "free")
  /\ UNCHANGED schedVars

\* The actions without a fault of the store.
HandlerWork(h) ==
  \/ HandlerNotify(h)
  \/ HandlerEnqueue(h)
  \/ HandlerAnswered(h)

HandlerRequest(h) ==
  \/ HandlerReply(h)
  \/ \E j \in JobIds :
       \/ \E s \in Schedules, enabled \in BOOLEAN :
            CommitAdd(h, j, s, enabled) \/ CommitEdit(h, j, s, enabled)
       \/ CommitDelete(h, j)
       \/ \E enabled \in BOOLEAN : CommitSetEnabled(h, j, enabled)
       \/ HandlerRunNow(h, j)
=============================================================================
