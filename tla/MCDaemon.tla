------------------------------ MODULE MCDaemon ------------------------------
(***************************************************************************)
(* Small instances of Daemon for TLC.  A tick is a minute, or half a       *)
(* minute where MissedAfter is 2, and a schedule is its period in ticks.   *)
(***************************************************************************)
EXTENDS Ledger, TLC

MCNextOccurrence(s, t) == s * ((t \div s) + 1)

MCSymmetry == Permutations(JobIds) \cup Permutations(Handlers)
=============================================================================
