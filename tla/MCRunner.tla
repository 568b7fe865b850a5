------------------------------ MODULE MCRunner ------------------------------
(***************************************************************************)
(* Small instances of Runner for TLC.                                      *)
(***************************************************************************)
EXTENDS Runner

\* A request the pipe holds, one it does not hold, and one that is too large.
MCRequestSizes == {PipeSize, RequestLimit, RequestLimit + 1}
=============================================================================
