--------------------------- MODULE MCTaskScheduler ---------------------------
(***************************************************************************)
(* Small instances of TaskScheduler for TLC.                               *)
(***************************************************************************)
EXTENDS TaskScheduler

CONSTANTS r1, r2, c1

MCRunnables == {r1, r2}
MCCallables == {c1}
=============================================================================
