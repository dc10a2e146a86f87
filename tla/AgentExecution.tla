--------------------------- MODULE AgentExecution ---------------------------
(***************************************************************************)
(* agent-core: the run of one goal by an Agent (Agent.execute), with its   *)
(* Planner, ToolRegistry, ToolExecutor and MemoryStore.  The run is a      *)
(* supplyAsync task on the common pool; the registry is public through     *)
(* Agent.toolRegistry() and is changed by other threads while it runs.     *)
(*                                                                         *)
(* A goal is the set of the planner's keywords it contains.  A registered  *)
(* tool is what its executor does when it is called; the planner's steps   *)
(* carry no parameters.  A memory entry is who or what it tells about:     *)
(* the user's goal, a step's result, or a step's error.                    *)
(***************************************************************************)
EXTENDS Naturals, Sequences

CONSTANTS Agents,            \* agents, each with its own registry and memory
          Goals,             \* the goals they may be given
          ToolNames,         \* names a tool may be registered under
          MaxGlobalEntries,  \* MemoryStore's bound (1000 in the code)
          None

ASSUME AgentAssumption ==
    /\ MaxGlobalEntries \in Nat
    /\ None \notin {"returns", "needs", "raises", "dies"}

VARIABLES run,        \* where the pool thread of the agent's run is
          goal,       \* the goal it was given
          plan,       \* the tool names of the plan's steps
          steps,      \* the status of each step
          planStatus, \* Plan.status
          tool,       \* the tool the executor has looked up
          tools,      \* ToolRegistry.tools
          memory,     \* MemoryStore.globalMemory
          future      \* the CompletableFuture that execute returned

agentVars == <<run, goal, plan, steps, planStatus, tool, tools, memory, future>>

Keywords == {"ppt", "word", "excel", "pdf"}

\* What a tool's executor does: returns a map, raises an exception or an
\* Error; "needs" has a required parameter, so it is never called.
Behaviours == {"returns", "needs", "raises", "dies"}

StepStatuses == {"PENDING", "RUNNING", "COMPLETED", "FAILED", "SKIPPED"}
PlanStatuses == {"CREATED", "RUNNING", "COMPLETED", "FAILED", "CANCELLED"}

-----------------------------------------------------------------------------
(* Planner.createPlan: the first family of keywords found in the goal      *)
(* decides.                                                                *)
createPlan(g) ==
    IF "ppt" \in g THEN <<"ppt_analyze", "ppt_generate", "ppt_style">>
    ELSE IF "word" \in g THEN <<"doc_analyze", "doc_rewrite">>
    ELSE IF "excel" \in g THEN <<"excel_analyze", "excel_process">>
    ELSE IF "pdf" \in g THEN <<"pdf_extract", "pdf_analyze">>
    ELSE <<"general_analyze", "general_execute">>

\* A tool may be registered under every name the planner uses.
ASSUME ToolAssumption ==
    \A g \in Goals : \A i \in 1 .. Len(createPlan(g)) : createPlan(g)[i] \in ToolNames

\* Plan.isComplete
isComplete(ss) == \A i \in 1 .. Len(ss) : ss[i] = "COMPLETED"

(* ToolExecutor.execute never raises an exception: an unknown tool, a      *)
(* missing parameter and an exception of the tool all become a map with an *)
(* "error" entry.                                                          *)
toolExecute(t) == IF t = "returns" THEN "result" ELSE "error"

(* MemoryStore.addGlobal, by the only thread that writes an agent's store. *)
addGlobal(mem, entry) ==
    LET s == Append(mem, entry)
    IN  IF Len(s) > MaxGlobalEntries THEN Tail(s) ELSE s

-----------------------------------------------------------------------------
AgentTypeOK ==
    /\ run \in [Agents -> {"idle", "submitted", "loop", "lookup", "tool", "over"}]
    /\ goal \in [Agents -> Goals \cup {None}]
    /\ \A a \in Agents : Len(plan[a]) = Len(steps[a])
    /\ \A a \in Agents : \A i \in 1 .. Len(plan[a]) :
           plan[a][i] \in ToolNames /\ steps[a][i] \in StepStatuses
    /\ planStatus \in [Agents -> PlanStatuses \cup {None}]
    /\ tool \in [Agents -> Behaviours \cup {None}]
    /\ tools \in [Agents -> [ToolNames -> Behaviours \cup {None}]]
    /\ \A a \in Agents : \A i \in 1 .. Len(memory[a]) :
           memory[a][i] \in {"goal", "result", "error"}
    /\ future \in [Agents -> {"none", "running", "done", "exceptional"}]

\* new Agent(): an empty registry and an empty store.
AgentInit ==
    /\ run = [a \in Agents |-> "idle"]
    /\ goal = [a \in Agents |-> None]
    /\ plan = [a \in Agents |-> <<>>]
    /\ steps = [a \in Agents |-> <<>>]
    /\ planStatus = [a \in Agents |-> None]
    /\ tool = [a \in Agents |-> None]
    /\ tools = [a \in Agents |-> [n \in ToolNames |-> None]]
    /\ memory = [a \in Agents |-> <<>>]
    /\ future = [a \in Agents |-> "none"]

(* execute: the task is handed to the pool and the future returned.        *)
Execute(a, g) ==
    /\ run[a] = "idle"
    /\ run' = [run EXCEPT ![a] = "submitted"]
    /\ goal' = [goal EXCEPT ![a] = g]
    /\ future' = [future EXCEPT ![a] = "running"]
    /\ UNCHANGED <<plan, steps, planStatus, tool, tools, memory>>

(* The goal is remembered, the plan made and started.                      *)
Begin(a) ==
    /\ run[a] = "submitted"
    /\ run' = [run EXCEPT ![a] = "loop"]
    /\ memory' = [memory EXCEPT ![a] = addGlobal(@, "goal")]
    /\ plan' = [plan EXCEPT ![a] = createPlan(goal[a])]
    /\ steps' = [steps EXCEPT ![a] =
                    [i \in 1 .. Len(createPlan(goal[a])) |-> "PENDING"]]
    /\ planStatus' = [planStatus EXCEPT ![a] = "RUNNING"]
    /\ UNCHANGED <<goal, tool, tools, future>>

Pending(a) == {i \in 1 .. Len(steps[a]) : steps[a][i] = "PENDING"}
Running(a) == {i \in 1 .. Len(steps[a]) : steps[a][i] = "RUNNING"}

StartStep(a) ==
    /\ run[a] = "loop"
    /\ \E i \in Pending(a) :
        /\ \A j \in Pending(a) : i <= j
        /\ steps' = [steps EXCEPT ![a][i] = "RUNNING"]
    /\ run' = [run EXCEPT ![a] = "lookup"]
    /\ UNCHANGED <<goal, plan, planStatus, tool, tools, memory, future>>

(* registry.getTool: what is found now is what will be called.             *)
LookUp(a) ==
    /\ run[a] = "lookup"
    /\ \E i \in Running(a) : tool' = [tool EXCEPT ![a] = tools[a][plan[a][i]]]
    /\ run' = [run EXCEPT ![a] = "tool"]
    /\ UNCHANGED <<goal, plan, steps, planStatus, tools, memory, future>>

(* The executor returns a map, with or without an error in it: the step is *)
(* COMPLETED and the map remembered.  (The catch that sets FAILED is never *)
(* entered: nothing in the executor lets an exception through.)            *)
FinishStep(a) ==
    /\ run[a] = "tool"
    /\ tool[a] # "dies"
    /\ \E i \in Running(a) : steps' = [steps EXCEPT ![a][i] = "COMPLETED"]
    /\ memory' = [memory EXCEPT ![a] = addGlobal(@, toolExecute(tool[a]))]
    /\ tool' = [tool EXCEPT ![a] = None]
    /\ run' = [run EXCEPT ![a] = "loop"]
    /\ UNCHANGED <<goal, plan, planStatus, tools, future>>

\* Seeded fault: the Error is swallowed and the future forgotten.
ToolDies_Swallowed(a) ==
    /\ run[a] = "tool"
    /\ tool[a] = "dies"
    /\ run' = [run EXCEPT ![a] = "over"]
    /\ UNCHANGED <<goal, plan, steps, planStatus, tool, tools, memory, future>>

(* An Error (both catches take an Exception) ends the run where it is;     *)
(* supplyAsync completes the future with it.                               *)
ToolDies(a) ==
    /\ run[a] = "tool"
    /\ tool[a] = "dies"
    /\ run' = [run EXCEPT ![a] = "over"]
    /\ future' = [future EXCEPT ![a] = "exceptional"]
    /\ UNCHANGED <<goal, plan, steps, planStatus, tool, tools, memory>>

\* Seeded fault: the loop ends one step early.
EndPlan_OneEarly(a) ==
    /\ run[a] = "loop"
    /\ \A i, j \in Pending(a) : i = j
    /\ planStatus' = [planStatus EXCEPT ![a] =
                        IF isComplete(steps[a]) THEN "COMPLETED" ELSE "FAILED"]
    /\ future' = [future EXCEPT ![a] = "done"]
    /\ run' = [run EXCEPT ![a] = "over"]
    /\ UNCHANGED <<goal, plan, steps, tool, tools, memory>>

EndPlan(a) ==
    /\ run[a] = "loop"
    /\ Pending(a) = {}
    /\ planStatus' = [planStatus EXCEPT ![a] =
                        IF isComplete(steps[a]) THEN "COMPLETED" ELSE "FAILED"]
    /\ future' = [future EXCEPT ![a] = "done"]
    /\ run' = [run EXCEPT ![a] = "over"]
    /\ UNCHANGED <<goal, plan, steps, tool, tools, memory>>

RunStep(a) ==
    Begin(a) \/ StartStep(a) \/ LookUp(a) \/ FinishStep(a) \/ ToolDies(a) \/ EndPlan(a)

-----------------------------------------------------------------------------
(* ToolRegistry.register and unregister, by any thread.                    *)
register(a, n, b) ==
    /\ tools' = [tools EXCEPT ![a][n] = b]
    /\ UNCHANGED <<run, goal, plan, steps, planStatus, tool, memory, future>>

unregister(a, n) ==
    /\ tools[a][n] # None
    /\ tools' = [tools EXCEPT ![a][n] = None]
    /\ UNCHANGED <<run, goal, plan, steps, planStatus, tool, memory, future>>

AgentNext ==
    \E a \in Agents :
        \/ \E g \in Goals : Execute(a, g)
        \/ RunStep(a)
        \/ \E n \in ToolNames :
              unregister(a, n) \/ \E b \in Behaviours : register(a, n, b)

(* A pool thread that has taken the run goes on with it.  This assumes     *)
(* that a tool's executor returns or raises.                               *)
AgentFairness == \A a \in Agents : WF_agentVars(RunStep(a))

AgentSpec == AgentInit /\ [][AgentNext]_agentVars /\ AgentFairness

-----------------------------------------------------------------------------
Settled(a) == future[a] \in {"done", "exceptional"}

(* How a run ends does not depend on what its tools did: a future that is  *)
(* completed with a result always reports a COMPLETED plan, with errors or *)
(* without; the only other end is an Error, which leaves the plan RUNNING  *)
(* with exactly the step that raised it.                                   *)
OutcomeMatchesPlan ==
    \A a \in Agents :
        /\ future[a] = "done" => planStatus[a] = "COMPLETED" /\ isComplete(steps[a])
        /\ future[a] = "exceptional" =>
              /\ planStatus[a] = "RUNNING"
              /\ \E i \in Running(a) : Running(a) = {i}

(* Every accepted goal's future is settled in the end, whatever is         *)
(* registered or unregistered meanwhile.                                   *)
AcceptedGoalSettles == \A a \in Agents : run[a] = "submitted" ~> Settled(a)
=============================================================================
