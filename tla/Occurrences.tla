---------------------------- MODULE Occurrences ----------------------------
(***************************************************************************)
(* What the daemon promises about one table of occurrences, without jobs,  *)
(* clocks, tasks, locks or processes: ids are given in order and once;     *)
(* what is claimed has at most one effect, effects of a process begin one  *)
(* at a time, a row becomes completed only from an effect that began, and  *)
(* a row that is finished never changes again until it is forgotten.       *)
(*                                                                         *)
(* A claim may be forgotten with its row: the code prunes by age and drops *)
(* every row of a job that is gone.                                        *)
(***************************************************************************)
EXTENDS Naturals

CONSTANT Ids   \* a set of numbers: the ids that are ever given

VARIABLES
  status,  \* of each id: what the table says
  effect   \* of each id: none, waiting, begun, over

vars == <<status, effect>>

Statuses == {"absent", "claimed", "completed", "skipped", "gone"}
Effects  == {"none", "waiting", "begun", "over"}

Init ==
  /\ status = [i \in Ids |-> "absent"]
  /\ effect = [i \in Ids |-> "none"]

Terminal(i) == status[i] \in {"completed", "skipped"}
Live(i)     == effect[i] \in {"waiting", "begun"}

\* The table after i is claimed: the lowest id that was never given.
Claimed(i, table) ==
  /\ status[i] = "absent"
  /\ \A k \in Ids : k < i => status[k] # "absent"
  /\ table = [status EXCEPT ![i] = "claimed"]

\* The table after the effect of i ended with out; any rows given may be forgotten.
Settled(i, out, table) ==
  /\ \A k \in Ids :
       \/ table[k] = status[k]
       \/ table[k] = "gone" /\ status[k] # "absent"
       \/ table[k] = out /\ k = i /\ status[k] = "claimed"
  /\ \/ effect[i] = "begun"
     \/ effect[i] = "waiting" /\ out = "skipped"

\* A claim nobody will serve stays with its row until the next process.
Claim(i) ==
  /\ effect[i] = "none"
  /\ Claimed(i, status')
  /\ effect' = [effect EXCEPT ![i] = "waiting"] \/ effect' = effect

Begin(i) ==
  /\ effect[i] = "waiting"
  /\ \A k \in Ids : effect[k] # "begun"
  /\ effect' = [effect EXCEPT ![i] = "begun"]
  /\ UNCHANGED status

Settle(i, out) ==
  /\ Settled(i, out, status')
  /\ effect' = [effect EXCEPT ![i] = "over"]

\* Finished rows are forgotten with their job.
Forget ==
  /\ \A k \in Ids :
       \/ status'[k] = status[k]
       \/ Terminal(k) /\ status'[k] = "gone"
  /\ UNCHANGED effect

\* The process ends, perhaps in the middle of a claim or of the end of an effect.
Abandon ==
  /\ effect' = [i \in Ids |-> IF Live(i) THEN "over" ELSE effect[i]]
  /\ \/ UNCHANGED status
     \/ \E i \in Ids : Claimed(i, status')
     \/ \E i \in Ids, out \in {"completed", "skipped"} : Settled(i, out, status')

\* The next process skips every claim it finds.
Recover ==
  /\ \A i \in Ids : ~ Live(i)
  /\ status' = [i \in Ids |-> IF status[i] = "claimed" THEN "skipped" ELSE status[i]]
  /\ UNCHANGED effect

Next ==
  \/ \E i \in Ids :
       \/ Claim(i)
       \/ Begin(i)
       \/ \E out \in {"completed", "skipped"} : Settle(i, out)
  \/ Forget
  \/ Abandon
  \/ Recover

Spec == Init /\ [][Next]_vars
=============================================================================
