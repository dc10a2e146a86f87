-------------------------- MODULE MCDesktopProcess --------------------------
(* Both modes, two workers, one goal and one import.                       *)
EXTENDS DesktopProcess

CONSTANTS w1, w2, g1, i1

MCWorkers == {w1, w2}
MCModes == {"desktop", "headless"}
MCGoals == {g1}
MCImports == {i1}
=============================================================================
