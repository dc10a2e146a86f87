------------------------- MODULE MCWorkerConnection -------------------------
(***************************************************************************)
(* A small instance of WorkerConnection for TLC.                           *)
(***************************************************************************)
EXTENDS WorkerConnection, TLC

CONSTANTS r1, r2

\* Two requests share the task id that responses carry.
MCRequests == {r1, r2}
MCTaskIds == {"resp", "other"}
MCIdOf == (r1 :> "resp") @@ (r2 :> "resp")
=============================================================================
