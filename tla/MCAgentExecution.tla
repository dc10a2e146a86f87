-------------------------- MODULE MCAgentExecution --------------------------
(* One agent (agents share nothing), two goals whose plans have two and    *)
(* three steps, and a memory small enough to overflow.                     *)
EXTENDS AgentExecution

CONSTANT a1

MCAgents == {a1}
MCGoals == {{"ppt", "word"}, {"pdf"}}
MCToolNames == UNION {{createPlan(g)[i] : i \in 1 .. Len(createPlan(g))} : g \in MCGoals}
=============================================================================
