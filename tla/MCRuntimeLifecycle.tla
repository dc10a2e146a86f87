------------------------- MODULE MCRuntimeLifecycle -------------------------
(***************************************************************************)
(* The instance of RuntimeLifecycle TLC checks: both modes, two workers.   *)
(***************************************************************************)
EXTENDS RuntimeLifecycle

CONSTANTS w1, w2

MCWorkers == {w1, w2}
MCModes == {"desktop", "headless"}
=============================================================================
