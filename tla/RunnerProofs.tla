---------------------------- MODULE RunnerProofs ----------------------------
(***************************************************************************)
(* What one invocation of the runner keeps, for every set of descendants   *)
(* and every size: the types, the end of the group and the whole answer.   *)
(***************************************************************************)
EXTENDS Runner, TLAPS

Judged == {"result", "failed", "oversize"}

\* A process of the group has been born.
GroupBorn == \A p \in group : proc[p] # "unborn"

\* Nothing of the group lives before the spawn, nor from the kill on.
GroupKilled ==
  host.pc \in {"spawn", "reap", "joinOut", "joinErr", "returned"} => \A p \in group : ~ Alive(p)

\* The leader is gone when its exit status is used, and when the future was dropped.
LeaderGone ==
  host.pc \in {"joinOut", "joinErr", "dropped"} \/ host.why \in Judged => ~ Alive(Leader)

\* The drains begin after the request is written.
DrainsLater == host.pc \in {"spawn", "write"} => \A name \in {"out", "err"} : drain[name] = "off"

\* The end of a pipe is final.
EofIsFinal ==
  \A name \in {"out", "err"} : drain[name] = "eof" => pipe[name] = 0 /\ ends[name] = {}

\* stdout is at its end when it is judged, and the verdict stays true.
Judgement ==
  /\ host.pc = "joinErr" => drain["out"] = "eof"
  /\ host.why \in Judged =>
       /\ host.pc = "returned"
       /\ drain["out"] = "eof"
       /\ (host.why = "result") <=> (said = "ok" /\ exit = "success" /\ heard <= ResponseLimit)

IInv ==
  /\ TypeOK
  /\ GroupBorn
  /\ GroupKilled
  /\ LeaderGone
  /\ DrainsLater
  /\ EofIsFinal
  /\ Judgement

-----------------------------------------------------------------------------

\* A kill keeps the types, and leaves none of its processes alive.
LEMMA KillEffect ==
  ASSUME TypeOK, NEW S \in SUBSET Procs, Kill(S)
  PROVE  /\ proc' \in [Procs -> {"unborn", "alive", "zombie", "dead"}]
         /\ ends' \in [Pipes -> SUBSET Procs]
         /\ exit' \in {"none", "success", "failure"}
         /\ \A p \in Procs : (Alive(p))' => Alive(p) /\ p \notin S
         /\ \A p \in Procs : proc'[p] = "unborn" => proc[p] = "unborn"
         /\ \A name \in Pipes : ends'[name] \subseteq ends[name]
         /\ ~ Alive(Leader) => exit' = exit
  BY DEF Kill, Slain, Shut, Dead, Alive, TypeOK, Procs

LEMMA InitInv == Init => IInv
<1> SUFFICES ASSUME Init
             PROVE  IInv
  OBVIOUS
<1>1. TypeOK
  <2>1. pipe \in [Pipes -> 0 .. PipeSize]
    BY SizesAssumption DEF Init
  <2>2. host \in [pc : Places, why : Reasons]
    BY DEF Init, Places, Reasons
  <2>3. ends \in [Pipes -> SUBSET Procs]
    BY DEF Init
  <2> QED
    BY <2>1, <2>2, <2>3 DEF Init, TypeOK
<1>2. GroupBorn /\ GroupKilled /\ LeaderGone
  BY DEF Init, GroupBorn, GroupKilled, LeaderGone, Judged, Procs, Alive
<1>3. DrainsLater /\ EofIsFinal /\ Judgement
  BY DEF Init, DrainsLater, EofIsFinal, Judgement, Judged
<1> QED
  BY <1>1, <1>2, <1>3 DEF IInv

LEMMA HostRefusedKeeps ==
  ASSUME IInv, HostRefused
  PROVE  IInv'
<1>1. TypeOK'
  BY LeaderAssumption, SizesAssumption DEF IInv, HostRefused, HostGoes, Returns, TypeOK,
     Pipes, Procs, Places, Reasons, Alive, Dead, Slain, Shut
<1>2. (GroupBorn /\ GroupKilled /\ LeaderGone)'
  BY LeaderAssumption DEF IInv, HostRefused, HostGoes, Returns, TypeOK, GroupBorn,
     GroupKilled, LeaderGone, Judgement, Judged, Procs, Alive, Dead, Slain
<1>3. (DrainsLater /\ EofIsFinal /\ Judgement)'
  BY LeaderAssumption DEF IInv, HostRefused, HostGoes, Returns, TypeOK, GroupKilled,
     LeaderGone, DrainsLater, EofIsFinal, Judgement, Judged, Pipes, Procs, Alive, Dead,
     Slain, Shut
<1> QED
  BY <1>1, <1>2, <1>3 DEF IInv

LEMMA HostSpawnKeeps ==
  ASSUME IInv, HostSpawn
  PROVE  IInv'
<1>1. TypeOK'
  BY LeaderAssumption, SizesAssumption DEF IInv, HostSpawn, HostGoes, Returns, TypeOK,
     Pipes, Procs, Places, Reasons, Alive, Dead, Slain, Shut
<1>2. (GroupBorn /\ GroupKilled /\ LeaderGone)'
  BY LeaderAssumption DEF IInv, HostSpawn, HostGoes, Returns, TypeOK, GroupBorn,
     GroupKilled, LeaderGone, Judgement, Judged, Procs, Alive, Dead, Slain
<1>3. (DrainsLater /\ EofIsFinal /\ Judgement)'
  BY LeaderAssumption DEF IInv, HostSpawn, HostGoes, Returns, TypeOK, GroupKilled,
     LeaderGone, DrainsLater, EofIsFinal, Judgement, Judged, Pipes, Procs, Alive, Dead,
     Slain, Shut
<1> QED
  BY <1>1, <1>2, <1>3 DEF IInv

LEMMA HostWriteKeeps ==
  ASSUME IInv, HostWrite
  PROVE  IInv'
<1>1. TypeOK'
  BY LeaderAssumption, SizesAssumption DEF IInv, HostWrite, HostGoes, Returns, TypeOK,
     Pipes, Procs, Places, Reasons, Alive, Dead, Slain, Shut
<1>2. (GroupBorn /\ GroupKilled /\ LeaderGone)'
  BY LeaderAssumption DEF IInv, HostWrite, HostGoes, Returns, TypeOK, GroupBorn,
     GroupKilled, LeaderGone, Judgement, Judged, Procs, Alive, Dead, Slain
<1>3. (DrainsLater /\ EofIsFinal /\ Judgement)'
  BY LeaderAssumption DEF IInv, HostWrite, HostGoes, Returns, TypeOK, GroupKilled,
     LeaderGone, DrainsLater, EofIsFinal, Judgement, Judged, Pipes, Procs, Alive, Dead,
     Slain, Shut
<1> QED
  BY <1>1, <1>2, <1>3 DEF IInv

LEMMA HostTooLargeKeeps ==
  ASSUME IInv, HostTooLarge
  PROVE  IInv'
<1>0. Kill(group)
  BY DEF HostTooLarge, KillGroup
<1>k. /\ proc' \in [Procs -> {"unborn", "alive", "zombie", "dead"}]
      /\ ends' \in [Pipes -> SUBSET Procs]
      /\ exit' \in {"none", "success", "failure"}
      /\ \A p \in Procs : (Alive(p))' => Alive(p) /\ p \notin group
      /\ \A p \in Procs : proc'[p] = "unborn" => proc[p] = "unborn"
      /\ \A name \in Pipes : ends'[name] \subseteq ends[name]
      /\ ~ Alive(Leader) => exit' = exit
  BY <1>0, KillEffect DEF IInv, TypeOK, Procs
<1>1. TypeOK'
  BY <1>k, LeaderAssumption, SizesAssumption DEF IInv, HostTooLarge, HostGoes,
     Returns, TypeOK, Pipes, Procs, Places, Reasons
<1>2. (GroupBorn /\ GroupKilled /\ LeaderGone)'
  BY <1>k, LeaderAssumption DEF IInv, HostTooLarge, HostGoes, Returns, TypeOK,
     GroupBorn, GroupKilled, LeaderGone, Judgement, Judged, Procs
<1>3. (DrainsLater /\ EofIsFinal /\ Judgement)'
  BY <1>k, LeaderAssumption DEF IInv, HostTooLarge, HostGoes, Returns, TypeOK,
     GroupKilled, LeaderGone, DrainsLater, EofIsFinal, Judgement, Judged, Pipes, Procs
<1> QED
  BY <1>1, <1>2, <1>3 DEF IInv

LEMMA HostBrokenPipeKeeps ==
  ASSUME IInv, HostBrokenPipe
  PROVE  IInv'
<1>0. Kill(group)
  BY DEF HostBrokenPipe, KillGroup
<1>k. /\ proc' \in [Procs -> {"unborn", "alive", "zombie", "dead"}]
      /\ ends' \in [Pipes -> SUBSET Procs]
      /\ exit' \in {"none", "success", "failure"}
      /\ \A p \in Procs : (Alive(p))' => Alive(p) /\ p \notin group
      /\ \A p \in Procs : proc'[p] = "unborn" => proc[p] = "unborn"
      /\ \A name \in Pipes : ends'[name] \subseteq ends[name]
      /\ ~ Alive(Leader) => exit' = exit
  BY <1>0, KillEffect DEF IInv, TypeOK, Procs
<1>1. TypeOK'
  BY <1>k, LeaderAssumption, SizesAssumption DEF IInv, HostBrokenPipe, HostGoes,
     Returns, TypeOK, Pipes, Procs, Places, Reasons
<1>2. (GroupBorn /\ GroupKilled /\ LeaderGone)'
  BY <1>k, LeaderAssumption DEF IInv, HostBrokenPipe, HostGoes, Returns, TypeOK,
     GroupBorn, GroupKilled, LeaderGone, Judgement, Judged, Procs
<1>3. (DrainsLater /\ EofIsFinal /\ Judgement)'
  BY <1>k, LeaderAssumption DEF IInv, HostBrokenPipe, HostGoes, Returns, TypeOK,
     GroupKilled, LeaderGone, DrainsLater, EofIsFinal, Judgement, Judged, Pipes, Procs
<1> QED
  BY <1>1, <1>2, <1>3 DEF IInv

LEMMA HostWrittenKeeps ==
  ASSUME IInv, HostWritten
  PROVE  IInv'
<1>1. TypeOK'
  BY LeaderAssumption, SizesAssumption DEF IInv, HostWritten, HostGoes, Returns, TypeOK,
     Pipes, Procs, Places, Reasons, Alive, Dead, Slain, Shut
<1>2. (GroupBorn /\ GroupKilled /\ LeaderGone)'
  BY LeaderAssumption DEF IInv, HostWritten, HostGoes, Returns, TypeOK, GroupBorn,
     GroupKilled, LeaderGone, Judgement, Judged, Procs, Alive, Dead, Slain
<1>3. (DrainsLater /\ EofIsFinal /\ Judgement)'
  BY LeaderAssumption DEF IInv, HostWritten, HostGoes, Returns, TypeOK, GroupKilled,
     LeaderGone, DrainsLater, EofIsFinal, Judgement, Judged, Pipes, Procs, Alive, Dead,
     Slain, Shut
<1> QED
  BY <1>1, <1>2, <1>3 DEF IInv

LEMMA HostReapsKeeps ==
  ASSUME IInv, HostReaps
  PROVE  IInv'
<1>1. TypeOK'
  BY LeaderAssumption, SizesAssumption DEF IInv, HostReaps, HostGoes, Returns, TypeOK,
     Pipes, Procs, Places, Reasons, Alive, Dead, Slain, Shut
<1>2. (GroupBorn /\ GroupKilled /\ LeaderGone)'
  BY LeaderAssumption DEF IInv, HostReaps, HostGoes, Returns, TypeOK, GroupBorn,
     GroupKilled, LeaderGone, Judgement, Judged, Procs, Alive, Dead, Slain
<1>3. (DrainsLater /\ EofIsFinal /\ Judgement)'
  BY LeaderAssumption DEF IInv, HostReaps, HostGoes, Returns, TypeOK, GroupKilled,
     LeaderGone, DrainsLater, EofIsFinal, Judgement, Judged, Pipes, Procs, Alive, Dead,
     Slain, Shut
<1> QED
  BY <1>1, <1>2, <1>3 DEF IInv

LEMMA HostTimesOutKeeps ==
  ASSUME IInv, HostTimesOut
  PROVE  IInv'
<1>0. Kill(group)
  BY DEF HostTimesOut, KillGroup
<1>k. /\ proc' \in [Procs -> {"unborn", "alive", "zombie", "dead"}]
      /\ ends' \in [Pipes -> SUBSET Procs]
      /\ exit' \in {"none", "success", "failure"}
      /\ \A p \in Procs : (Alive(p))' => Alive(p) /\ p \notin group
      /\ \A p \in Procs : proc'[p] = "unborn" => proc[p] = "unborn"
      /\ \A name \in Pipes : ends'[name] \subseteq ends[name]
      /\ ~ Alive(Leader) => exit' = exit
  BY <1>0, KillEffect DEF IInv, TypeOK, Procs
<1>1. TypeOK'
  BY <1>k, LeaderAssumption, SizesAssumption DEF IInv, HostTimesOut, HostGoes, Returns,
     TypeOK, Pipes, Procs, Places, Reasons
<1>2. (GroupBorn /\ GroupKilled /\ LeaderGone)'
  BY <1>k, LeaderAssumption DEF IInv, HostTimesOut, HostGoes, Returns, TypeOK,
     GroupBorn, GroupKilled, LeaderGone, Judgement, Judged, Procs
<1>3. (DrainsLater /\ EofIsFinal /\ Judgement)'
  BY <1>k, LeaderAssumption DEF IInv, HostTimesOut, HostGoes, Returns, TypeOK,
     GroupKilled, LeaderGone, DrainsLater, EofIsFinal, Judgement, Judged, Pipes, Procs
<1> QED
  BY <1>1, <1>2, <1>3 DEF IInv

LEMMA HostCancelledKeeps ==
  ASSUME IInv, HostCancelled
  PROVE  IInv'
<1>0. Kill(group)
  BY DEF HostCancelled, KillGroup
<1>k. /\ proc' \in [Procs -> {"unborn", "alive", "zombie", "dead"}]
      /\ ends' \in [Pipes -> SUBSET Procs]
      /\ exit' \in {"none", "success", "failure"}
      /\ \A p \in Procs : (Alive(p))' => Alive(p) /\ p \notin group
      /\ \A p \in Procs : proc'[p] = "unborn" => proc[p] = "unborn"
      /\ \A name \in Pipes : ends'[name] \subseteq ends[name]
      /\ ~ Alive(Leader) => exit' = exit
  BY <1>0, KillEffect DEF IInv, TypeOK, Procs
<1>1. TypeOK'
  BY <1>k, LeaderAssumption, SizesAssumption DEF IInv, HostCancelled, HostGoes, Returns,
     TypeOK, Pipes, Procs, Places, Reasons
<1>2. (GroupBorn /\ GroupKilled /\ LeaderGone)'
  BY <1>k, LeaderAssumption DEF IInv, HostCancelled, HostGoes, Returns, TypeOK,
     GroupBorn, GroupKilled, LeaderGone, Judgement, Judged, Procs
<1>3. (DrainsLater /\ EofIsFinal /\ Judgement)'
  BY <1>k, LeaderAssumption DEF IInv, HostCancelled, HostGoes, Returns, TypeOK,
     GroupKilled, LeaderGone, DrainsLater, EofIsFinal, Judgement, Judged, Pipes, Procs
<1> QED
  BY <1>1, <1>2, <1>3 DEF IInv

LEMMA HostWaitsKeeps ==
  ASSUME IInv, HostWaits
  PROVE  IInv'
<1>1. TypeOK'
  BY LeaderAssumption, SizesAssumption DEF IInv, HostWaits, HostGoes, Returns, TypeOK,
     Pipes, Procs, Places, Reasons, Alive, Dead, Slain, Shut
<1>2. (GroupBorn /\ GroupKilled /\ LeaderGone)'
  BY LeaderAssumption DEF IInv, HostWaits, HostGoes, Returns, TypeOK, GroupBorn,
     GroupKilled, LeaderGone, Judgement, Judged, Procs, Alive, Dead, Slain
<1>3. (DrainsLater /\ EofIsFinal /\ Judgement)'
  BY LeaderAssumption DEF IInv, HostWaits, HostGoes, Returns, TypeOK, GroupKilled,
     LeaderGone, DrainsLater, EofIsFinal, Judgement, Judged, Pipes, Procs, Alive, Dead,
     Slain, Shut
<1> QED
  BY <1>1, <1>2, <1>3 DEF IInv

LEMMA HostJoinsOutKeeps ==
  ASSUME IInv, HostJoinsOut
  PROVE  IInv'
<1>1. TypeOK'
  BY LeaderAssumption, SizesAssumption DEF IInv, HostJoinsOut, HostGoes, Returns,
     TypeOK, Pipes, Procs, Places, Reasons, Alive, Dead, Slain, Shut
<1>2. (GroupBorn /\ GroupKilled /\ LeaderGone)'
  BY LeaderAssumption DEF IInv, HostJoinsOut, HostGoes, Returns, TypeOK, GroupBorn,
     GroupKilled, LeaderGone, Judgement, Judged, Procs, Alive, Dead, Slain
<1>3. (DrainsLater /\ EofIsFinal /\ Judgement)'
  BY LeaderAssumption DEF IInv, HostJoinsOut, HostGoes, Returns, TypeOK, GroupKilled,
     LeaderGone, DrainsLater, EofIsFinal, Judgement, Judged, Pipes, Procs, Alive, Dead,
     Slain, Shut
<1> QED
  BY <1>1, <1>2, <1>3 DEF IInv

LEMMA HostJoinsErrKeeps ==
  ASSUME IInv, HostJoinsErr
  PROVE  IInv'
<1>1. TypeOK'
  BY LeaderAssumption, SizesAssumption DEF IInv, HostJoinsErr, Verdict, HostGoes,
     Returns, TypeOK, Pipes, Procs, Places, Reasons, Alive, Dead, Slain, Shut
<1>2. (GroupBorn /\ GroupKilled /\ LeaderGone)'
  BY LeaderAssumption DEF IInv, HostJoinsErr, Verdict, HostGoes, Returns, TypeOK,
     GroupBorn, GroupKilled, LeaderGone, Judgement, Judged, Procs, Alive, Dead, Slain
<1>3. (DrainsLater /\ EofIsFinal /\ Judgement)'
  BY LeaderAssumption, SizesAssumption DEF IInv, HostJoinsErr, Verdict, HostGoes,
     Returns, TypeOK, GroupKilled, LeaderGone, DrainsLater, EofIsFinal, Judgement,
     Judged, Pipes, Procs, Alive, Dead, Slain, Shut
<1> QED
  BY <1>1, <1>2, <1>3 DEF IInv

LEMMA HostDroppedKeeps ==
  ASSUME IInv, HostDropped
  PROVE  IInv'
<1>0. Kill({Leader})
  BY DEF HostDropped
<1>k. /\ proc' \in [Procs -> {"unborn", "alive", "zombie", "dead"}]
      /\ ends' \in [Pipes -> SUBSET Procs]
      /\ exit' \in {"none", "success", "failure"}
      /\ \A p \in Procs : (Alive(p))' => Alive(p) /\ p \notin {Leader}
      /\ \A p \in Procs : proc'[p] = "unborn" => proc[p] = "unborn"
      /\ \A name \in Pipes : ends'[name] \subseteq ends[name]
      /\ ~ Alive(Leader) => exit' = exit
  BY <1>0, KillEffect DEF IInv, TypeOK, Procs
<1>1. TypeOK'
  BY <1>k, LeaderAssumption, SizesAssumption DEF IInv, HostDropped, HostGoes, Returns,
     TypeOK, Pipes, Procs, Places, Reasons
<1>2. (GroupBorn /\ GroupKilled /\ LeaderGone)'
  BY <1>k, LeaderAssumption DEF IInv, HostDropped, HostGoes, Returns, TypeOK, GroupBorn,
     GroupKilled, LeaderGone, Judgement, Judged, Procs
<1>3. (DrainsLater /\ EofIsFinal /\ Judgement)'
  BY <1>k, LeaderAssumption DEF IInv, HostDropped, HostGoes, Returns, TypeOK,
     GroupKilled, LeaderGone, DrainsLater, EofIsFinal, Judgement, Judged, Pipes, Procs
<1> QED
  BY <1>1, <1>2, <1>3 DEF IInv

LEMMA CancelKeeps ==
  ASSUME IInv, Cancel
  PROVE  IInv'
<1>1. TypeOK'
  BY LeaderAssumption, SizesAssumption DEF IInv, Cancel, HostGoes, Returns, TypeOK,
     Pipes, Procs, Places, Reasons, Alive, Dead, Slain, Shut
<1>2. (GroupBorn /\ GroupKilled /\ LeaderGone)'
  BY LeaderAssumption DEF IInv, Cancel, HostGoes, Returns, TypeOK, GroupBorn,
     GroupKilled, LeaderGone, Judgement, Judged, Procs, Alive, Dead, Slain
<1>3. (DrainsLater /\ EofIsFinal /\ Judgement)'
  BY LeaderAssumption DEF IInv, Cancel, HostGoes, Returns, TypeOK, GroupKilled,
     LeaderGone, DrainsLater, EofIsFinal, Judgement, Judged, Pipes, Procs, Alive, Dead,
     Slain, Shut
<1> QED
  BY <1>1, <1>2, <1>3 DEF IInv

LEMMA DrainReadsKeeps ==
  ASSUME IInv, NEW name \in {"out", "err"}, DrainReads(name)
  PROVE  IInv'
<1>1. TypeOK'
  BY LeaderAssumption, SizesAssumption DEF IInv, DrainReads, HostGoes, Returns, TypeOK,
     Pipes, Procs, Places, Reasons, Alive, Dead, Slain, Shut
<1>2. (GroupBorn /\ GroupKilled /\ LeaderGone)'
  BY LeaderAssumption DEF IInv, DrainReads, HostGoes, Returns, TypeOK, GroupBorn,
     GroupKilled, LeaderGone, Judgement, Judged, Procs, Alive, Dead, Slain
<1>3. (DrainsLater /\ EofIsFinal /\ Judgement)'
  BY LeaderAssumption DEF IInv, DrainReads, HostGoes, Returns, TypeOK, GroupKilled,
     LeaderGone, DrainsLater, EofIsFinal, Judgement, Judged, Pipes, Procs, Alive, Dead,
     Slain, Shut
<1> QED
  BY <1>1, <1>2, <1>3 DEF IInv

LEMMA DrainEofKeeps ==
  ASSUME IInv, NEW name \in {"out", "err"}, DrainEof(name)
  PROVE  IInv'
<1>1. TypeOK'
  BY LeaderAssumption, SizesAssumption DEF IInv, DrainEof, HostGoes, Returns, TypeOK,
     Pipes, Procs, Places, Reasons, Alive, Dead, Slain, Shut
<1>2. (GroupBorn /\ GroupKilled /\ LeaderGone)'
  BY LeaderAssumption DEF IInv, DrainEof, HostGoes, Returns, TypeOK, GroupBorn,
     GroupKilled, LeaderGone, Judgement, Judged, Procs, Alive, Dead, Slain
<1>3. (DrainsLater /\ EofIsFinal /\ Judgement)'
  BY LeaderAssumption DEF IInv, DrainEof, HostGoes, Returns, TypeOK, GroupKilled,
     LeaderGone, DrainsLater, EofIsFinal, Judgement, Judged, Pipes, Procs, Alive, Dead,
     Slain, Shut
<1> QED
  BY <1>1, <1>2, <1>3 DEF IInv

LEMMA ForkKeeps ==
  ASSUME IInv, NEW p \in Procs, NEW q \in Descendants, Fork(p, q)
  PROVE  IInv'
<1>1. TypeOK'
  BY LeaderAssumption, SizesAssumption DEF IInv, Fork, HostGoes, Returns, TypeOK, Pipes,
     Procs, Places, Reasons, Alive, Dead, Slain, Shut
<1>2. (GroupBorn /\ GroupKilled /\ LeaderGone)'
  BY LeaderAssumption DEF IInv, Fork, HostGoes, Returns, TypeOK, GroupBorn, GroupKilled,
     LeaderGone, Judgement, Judged, Procs, Alive, Dead, Slain
<1>3. (DrainsLater /\ EofIsFinal /\ Judgement)'
  BY LeaderAssumption DEF IInv, Fork, HostGoes, Returns, TypeOK, GroupKilled,
     LeaderGone, DrainsLater, EofIsFinal, Judgement, Judged, Pipes, Procs, Alive, Dead,
     Slain, Shut
<1> QED
  BY <1>1, <1>2, <1>3 DEF IInv

LEMMA LeavesGroupKeeps ==
  ASSUME IInv, NEW p \in Procs, LeavesGroup(p)
  PROVE  IInv'
<1>1. TypeOK'
  BY LeaderAssumption, SizesAssumption DEF IInv, LeavesGroup, HostGoes, Returns, TypeOK,
     Pipes, Procs, Places, Reasons, Alive, Dead, Slain, Shut
<1>2. (GroupBorn /\ GroupKilled /\ LeaderGone)'
  BY LeaderAssumption DEF IInv, LeavesGroup, HostGoes, Returns, TypeOK, GroupBorn,
     GroupKilled, LeaderGone, Judgement, Judged, Procs, Alive, Dead, Slain
<1>3. (DrainsLater /\ EofIsFinal /\ Judgement)'
  BY LeaderAssumption DEF IInv, LeavesGroup, HostGoes, Returns, TypeOK, GroupKilled,
     LeaderGone, DrainsLater, EofIsFinal, Judgement, Judged, Pipes, Procs, Alive, Dead,
     Slain, Shut
<1> QED
  BY <1>1, <1>2, <1>3 DEF IInv

LEMMA ClosesKeeps ==
  ASSUME IInv, NEW p \in Procs, NEW name \in Pipes, Closes(p, name)
  PROVE  IInv'
<1>1. TypeOK'
  BY LeaderAssumption, SizesAssumption DEF IInv, Closes, HostGoes, Returns, TypeOK,
     Pipes, Procs, Places, Reasons, Alive, Dead, Slain, Shut
<1>2. (GroupBorn /\ GroupKilled /\ LeaderGone)'
  BY LeaderAssumption DEF IInv, Closes, HostGoes, Returns, TypeOK, GroupBorn,
     GroupKilled, LeaderGone, Judgement, Judged, Procs, Alive, Dead, Slain
<1>3. (DrainsLater /\ EofIsFinal /\ Judgement)'
  BY LeaderAssumption DEF IInv, Closes, HostGoes, Returns, TypeOK, GroupKilled,
     LeaderGone, DrainsLater, EofIsFinal, Judgement, Judged, Pipes, Procs, Alive, Dead,
     Slain, Shut
<1> QED
  BY <1>1, <1>2, <1>3 DEF IInv

LEMMA ReadsStdinKeeps ==
  ASSUME IInv, NEW p \in Procs, ReadsStdin(p)
  PROVE  IInv'
<1>1. TypeOK'
  BY LeaderAssumption, SizesAssumption DEF IInv, ReadsStdin, HostGoes, Returns, TypeOK,
     Pipes, Procs, Places, Reasons, Alive, Dead, Slain, Shut
<1>2. (GroupBorn /\ GroupKilled /\ LeaderGone)'
  BY LeaderAssumption DEF IInv, ReadsStdin, HostGoes, Returns, TypeOK, GroupBorn,
     GroupKilled, LeaderGone, Judgement, Judged, Procs, Alive, Dead, Slain
<1>3. (DrainsLater /\ EofIsFinal /\ Judgement)'
  BY LeaderAssumption DEF IInv, ReadsStdin, HostGoes, Returns, TypeOK, GroupKilled,
     LeaderGone, DrainsLater, EofIsFinal, Judgement, Judged, Pipes, Procs, Alive, Dead,
     Slain, Shut
<1> QED
  BY <1>1, <1>2, <1>3 DEF IInv

LEMMA WritesOutKeeps ==
  ASSUME IInv, NEW p \in Procs, WritesOut(p)
  PROVE  IInv'
<1>1. TypeOK'
  BY LeaderAssumption, SizesAssumption DEF IInv, WritesOut, HostGoes, Returns, TypeOK,
     Pipes, Procs, Places, Reasons, Alive, Dead, Slain, Shut
<1>2. (GroupBorn /\ GroupKilled /\ LeaderGone)'
  BY LeaderAssumption DEF IInv, WritesOut, HostGoes, Returns, TypeOK, GroupBorn,
     GroupKilled, LeaderGone, Judgement, Judged, Procs, Alive, Dead, Slain
<1>3. (DrainsLater /\ EofIsFinal /\ Judgement)'
  BY LeaderAssumption DEF IInv, WritesOut, HostGoes, Returns, TypeOK, GroupKilled,
     LeaderGone, DrainsLater, EofIsFinal, Judgement, Judged, Pipes, Procs, Alive, Dead,
     Slain, Shut
<1> QED
  BY <1>1, <1>2, <1>3 DEF IInv

LEMMA WritesErrKeeps ==
  ASSUME IInv, NEW p \in Procs, WritesErr(p)
  PROVE  IInv'
<1>1. TypeOK'
  BY LeaderAssumption, SizesAssumption DEF IInv, WritesErr, HostGoes, Returns, TypeOK,
     Pipes, Procs, Places, Reasons, Alive, Dead, Slain, Shut
<1>2. (GroupBorn /\ GroupKilled /\ LeaderGone)'
  BY LeaderAssumption DEF IInv, WritesErr, HostGoes, Returns, TypeOK, GroupBorn,
     GroupKilled, LeaderGone, Judgement, Judged, Procs, Alive, Dead, Slain
<1>3. (DrainsLater /\ EofIsFinal /\ Judgement)'
  BY LeaderAssumption DEF IInv, WritesErr, HostGoes, Returns, TypeOK, GroupKilled,
     LeaderGone, DrainsLater, EofIsFinal, Judgement, Judged, Pipes, Procs, Alive, Dead,
     Slain, Shut
<1> QED
  BY <1>1, <1>2, <1>3 DEF IInv

LEMMA ExitsKeeps ==
  ASSUME IInv, NEW p \in Procs, Exits(p)
  PROVE  IInv'
<1>1. TypeOK'
  BY LeaderAssumption, SizesAssumption DEF IInv, Exits, HostGoes, Returns, TypeOK,
     Pipes, Procs, Places, Reasons, Alive, Dead, Slain, Shut
<1>2. (GroupBorn /\ GroupKilled /\ LeaderGone)'
  BY LeaderAssumption DEF IInv, Exits, HostGoes, Returns, TypeOK, GroupBorn,
     GroupKilled, LeaderGone, Judgement, Judged, Procs, Alive, Dead, Slain
<1>3. (DrainsLater /\ EofIsFinal /\ Judgement)'
  BY LeaderAssumption DEF IInv, Exits, HostGoes, Returns, TypeOK, GroupKilled,
     LeaderGone, DrainsLater, EofIsFinal, Judgement, Judged, Pipes, Procs, Alive, Dead,
     Slain, Shut
<1> QED
  BY <1>1, <1>2, <1>3 DEF IInv

\* A step that changes nothing keeps the invariant.
LEMMA StutterKeeps ==
  ASSUME IInv, UNCHANGED vars
  PROVE  IInv'
  BY DEF IInv, vars, TypeOK, GroupBorn, GroupKilled, LeaderGone, DrainsLater, EofIsFinal,
     Judgement, Alive

LEMMA StepKeeps ==
  ASSUME IInv, [Next]_vars
  PROVE  IInv'
<1>1. CASE HostWork
  BY <1>1, HostRefusedKeeps, HostSpawnKeeps, HostTooLargeKeeps, HostWriteKeeps,
     HostBrokenPipeKeeps, HostWrittenKeeps,
     HostReapsKeeps, HostTimesOutKeeps,
     HostCancelledKeeps, HostWaitsKeeps, HostJoinsOutKeeps, HostJoinsErrKeeps
  DEF HostWork
<1>2. CASE HostDropped
  BY <1>2, HostDroppedKeeps
<1>3. CASE Cancel
  BY <1>3, CancelKeeps
<1>4. ASSUME NEW name \in {"out", "err"}, DrainWork(name)
      PROVE  IInv'
  BY <1>4, DrainReadsKeeps, DrainEofKeeps DEF DrainWork
<1>5. ASSUME NEW p \in Procs, ProcWork(p)
      PROVE  IInv'
  BY <1>5, ForkKeeps, LeavesGroupKeeps, ClosesKeeps, ReadsStdinKeeps, WritesOutKeeps,
     WritesErrKeeps, ExitsKeeps
  DEF ProcWork
<1>6. CASE UNCHANGED vars
  BY <1>6, StutterKeeps
<1> QED
  BY <1>1, <1>2, <1>3, <1>4, <1>5, <1>6 DEF Next

\* The inductive invariant of an invocation.
THEOREM InvocationInductive == Spec => []IInv
<1>1. Init => IInv
  BY InitInv
<1>2. IInv /\ [Next]_vars => IInv'
  BY StepKeeps
<1> QED
  BY <1>1, <1>2, PTL DEF Spec

\* InvocationTypes: TypeOK of runner.rs invoke holds for every set of descendants and sizes.
THEOREM InvocationTypes == Spec => []TypeOK
<1>1. IInv => TypeOK
  BY DEF IInv
<1> QED
  BY <1>1, InvocationInductive, PTL

(***************************************************************************)
(* GroupIsGone: when invoke returns, no process of the runner's group is   *)
(* alive, however many were forked, and whenever: the kill takes all that  *)
(* are in the group, and only a member of the group can bring a new one.   *)
(***************************************************************************)
THEOREM GroupIsGone == Spec => []GroupGone
<1>1. IInv => GroupGone
  BY DEF IInv, GroupKilled, LeaderGone, GroupGone
<1> QED
  BY <1>1, InvocationInductive, PTL

(***************************************************************************)
(* WholeAnswer: the answer that invoke judges is all that was ever written *)
(* to stdout, and the judgement stays true of it.                          *)
(***************************************************************************)
THEOREM WholeAnswer == Spec => []AnswerIsWhole
<1>1. IInv => AnswerIsWhole
  BY DEF IInv, EofIsFinal, Judgement, Judged, AnswerIsWhole
<1> QED
  BY <1>1, InvocationInductive, PTL
=============================================================================
