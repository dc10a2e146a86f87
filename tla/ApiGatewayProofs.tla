-------------------------- MODULE ApiGatewayProofs --------------------------
(***************************************************************************)
(* AgentExecution for any number of agents, goals and tools, and           *)
(* ApiGateway for any number of exchanges: how a run ends, and that status *)
(* codes, event streams and activeAgents tell the truth about the runs.    *)
(***************************************************************************)
EXTENDS ApiGateway, SequenceTheorems, TLAPS

-----------------------------------------------------------------------------
(* Agents.  The run, its future and its goal agree.                        *)
RunState ==
    \A a \in Agents :
        /\ run[a] = "idle" <=> future[a] = "none"
        /\ run[a] = "over" <=> Settled(a)
        /\ run[a] # "idle" => goal[a] \in Goals

SequenceTypes ==
    /\ plan \in [Agents -> Seq(ToolNames)]
    /\ steps \in [Agents -> Seq(StepStatuses)]
    /\ memory \in [Agents -> Seq({"goal", "result", "error"})]

AgentState == AgentTypeOK /\ SequenceTypes /\ RunState

\* The statuses of steps on which nobody is working.
Rest == {"PENDING", "COMPLETED"}

(* While the plan runs, the loop is between two steps, or exactly one step *)
(* is RUNNING.  So nothing is left over when the loop finds nothing to do, *)
(* and an Error leaves exactly its own step.                               *)
StepState ==
    \A a \in Agents :
        /\ run[a] \in {"loop", "lookup", "tool"} => planStatus[a] = "RUNNING"
        /\ run[a] = "loop" => \A i \in 1 .. Len(steps[a]) : steps[a][i] \in Rest
        /\ run[a] \in {"lookup", "tool"} =>
              \E i \in 1 .. Len(steps[a]) :
                  /\ steps[a][i] = "RUNNING"
                  /\ \A j \in 1 .. Len(steps[a]) : j # i => steps[a][j] \in Rest

AgentIInv == AgentState /\ StepState /\ OutcomeMatchesPlan

USE AgentAssumption, ToolAssumption DEF AgentAssumption, ToolAssumption

(* createPlan makes a plan of registrable tools for every goal.            *)
LEMMA PlanType ==
    ASSUME NEW g \in Goals
    PROVE  createPlan(g) \in Seq(ToolNames)
<1>1. PICK x, y, z : createPlan(g) = <<x, y>> \/ createPlan(g) = <<x, y, z>>
  BY Zenon DEF createPlan
<1>2. CASE createPlan(g) = <<x, y>>
  <2>1. x \in ToolNames /\ y \in ToolNames
    BY <1>2
  <2> QED BY <1>2, <2>1
<1>3. CASE createPlan(g) = <<x, y, z>>
  <2>1. \A i \in 1 .. 3 : createPlan(g)[i] \in ToolNames
    BY <1>3
  <2> QED BY <1>3, <2>1
<1> QED BY <1>1, <1>2, <1>3

(* addGlobal keeps a store a sequence of entries, full or not.             *)
LEMMA AddGlobalType ==
    ASSUME NEW S, NEW mem \in Seq(S), NEW entry \in S
    PROVE  addGlobal(mem, entry) \in Seq(S)
<1>1. Append(mem, entry) \in Seq(S) /\ Append(mem, entry) # << >>
  OBVIOUS
<1>2. Tail(Append(mem, entry)) \in Seq(S)
  BY <1>1, HeadTailProperties
<1> QED BY <1>1, <1>2 DEF addGlobal

(* A step's status is changed in place.                                    *)
LEMMA SetStep ==
    ASSUME SequenceTypes, NEW a \in Agents, NEW i \in 1 .. Len(steps[a]),
           NEW st \in StepStatuses, steps' = [steps EXCEPT ![a][i] = st]
    PROVE  /\ steps' \in [Agents -> Seq(StepStatuses)]
           /\ Len(steps'[a]) = Len(steps[a])
           /\ steps'[a][i] = st
           /\ \A j \in 1 .. Len(steps[a]) : j # i => steps'[a][j] = steps[a][j]
           /\ \A b \in Agents : b # a => steps'[b] = steps[b]
<1>1. steps[a] \in Seq(StepStatuses)
  BY DEF SequenceTypes
<1>2. /\ [steps[a] EXCEPT ![i] = st] \in Seq(StepStatuses)
      /\ Len([steps[a] EXCEPT ![i] = st]) = Len(steps[a])
      /\ \A j \in 1 .. Len(steps[a]) :
            [steps[a] EXCEPT ![i] = st][j] = IF j = i THEN st ELSE steps[a][j]
  BY <1>1, ExceptSeq
<1>3. steps' = [steps EXCEPT ![a] = [steps[a] EXCEPT ![i] = st]]
  OBVIOUS
<1>4. steps'[a] = [steps[a] EXCEPT ![i] = st]
  BY <1>3 DEF SequenceTypes
<1>5. steps' \in [Agents -> Seq(StepStatuses)]
  BY <1>2, <1>3 DEF SequenceTypes
<1>6. \A b \in Agents : b # a => steps'[b] = steps[b]
  BY <1>3 DEF SequenceTypes
<1> QED BY <1>2, <1>4, <1>5, <1>6

(* A new agent has an empty registry, an empty store and no run.           *)
LEMMA InitAgent == AgentInit => AgentIInv
<1> SUFFICES ASSUME AgentInit PROVE AgentIInv
  OBVIOUS
<1>1. AgentTypeOK
  BY DEF AgentInit, AgentTypeOK
<1>2. SequenceTypes
  BY DEF AgentInit, SequenceTypes
<1>3. RunState /\ StepState /\ OutcomeMatchesPlan
  BY DEF AgentInit, RunState, StepState, OutcomeMatchesPlan, Settled
<1> QED BY <1>1, <1>2, <1>3 DEF AgentIInv, AgentState

(* Each step of a run keeps the types, and the future in line with the run. *)
LEMMA RunStepState ==
    ASSUME AgentState, NEW a \in Agents, RunStep(a)
    PROVE  AgentState'
<1> USE DEF AgentState
<1>1. CASE Begin(a)
  <2> USE <1>1 DEF Begin
  <2>1. goal[a] \in Goals
    BY DEF RunState
  <2> DEFINE p == createPlan(goal[a])
             ss == [i \in 1 .. Len(p) |-> "PENDING"]
  <2>2. p \in Seq(ToolNames) /\ Len(p) \in Nat
    BY <2>1, PlanType
  <2>3. ss \in Seq(StepStatuses) /\ Len(ss) = Len(p)
    BY <2>2 DEF StepStatuses
  <2>4. addGlobal(memory[a], "goal") \in Seq({"goal", "result", "error"})
    BY AddGlobalType DEF SequenceTypes
  <2> HIDE DEF p, ss
  <2>5. SequenceTypes'
    BY <2>2, <2>3, <2>4 DEF SequenceTypes, p, ss
  <2>6. \A b \in Agents : Len(plan'[b]) = Len(steps'[b])
    BY <2>2, <2>3 DEF AgentTypeOK, SequenceTypes, p, ss
  <2>7. AgentTypeOK'
    BY <2>5, <2>6 DEF AgentTypeOK, SequenceTypes, PlanStatuses
  <2>8. RunState'
    BY DEF AgentTypeOK, RunState, Settled
  <2> QED BY <2>5, <2>7, <2>8
<1>2. CASE StartStep(a)
  <2> USE <1>2 DEF StartStep
  <2>1. PICK i \in 1 .. Len(steps[a]) : steps' = [steps EXCEPT ![a][i] = "RUNNING"]
    BY DEF Pending
  <2>2. SequenceTypes' /\ \A b \in Agents : Len(steps'[b]) = Len(steps[b])
    BY <2>1, SetStep DEF SequenceTypes, StepStatuses
  <2>3. AgentTypeOK'
    BY <2>2 DEF AgentTypeOK, SequenceTypes
  <2>4. RunState'
    BY DEF AgentTypeOK, RunState, Settled
  <2> QED BY <2>2, <2>3, <2>4
<1>3. CASE LookUp(a)
  <2> USE <1>3 DEF LookUp
  <2>1. PICK i \in 1 .. Len(steps[a]) : tool' = [tool EXCEPT ![a] = tools[a][plan[a][i]]]
    BY DEF Running
  <2>2. tools[a][plan[a][i]] \in Behaviours \cup {None}
    BY <2>1 DEF AgentTypeOK
  <2>3. SequenceTypes'
    BY DEF SequenceTypes
  <2>4. AgentTypeOK'
    BY <2>1, <2>2 DEF AgentTypeOK
  <2>5. RunState'
    BY DEF AgentTypeOK, RunState, Settled
  <2> QED BY <2>3, <2>4, <2>5
<1>4. CASE FinishStep(a)
  <2> USE <1>4 DEF FinishStep
  <2>1. PICK i \in 1 .. Len(steps[a]) : steps' = [steps EXCEPT ![a][i] = "COMPLETED"]
    BY DEF Running
  <2>2. /\ steps' \in [Agents -> Seq(StepStatuses)]
        /\ \A b \in Agents : Len(steps'[b]) = Len(steps[b])
    BY <2>1, SetStep DEF StepStatuses
  <2>3. addGlobal(memory[a], toolExecute(tool[a])) \in Seq({"goal", "result", "error"})
    BY AddGlobalType DEF SequenceTypes, toolExecute
  <2>4. SequenceTypes'
    BY <2>2, <2>3 DEF SequenceTypes
  <2>5. AgentTypeOK'
    BY <2>2, <2>4 DEF AgentTypeOK, SequenceTypes
  <2>6. RunState'
    BY DEF AgentTypeOK, RunState, Settled
  <2> QED BY <2>4, <2>5, <2>6
<1>5. CASE ToolDies(a)
  <2> USE <1>5 DEF ToolDies
  <2>1. AgentTypeOK' /\ SequenceTypes'
    BY DEF AgentTypeOK, SequenceTypes
  <2>2. RunState'
    BY DEF AgentTypeOK, RunState, Settled
  <2> QED BY <2>1, <2>2
<1>6. CASE EndPlan(a)
  <2> USE <1>6 DEF EndPlan
  <2>1. AgentTypeOK' /\ SequenceTypes'
    BY DEF AgentTypeOK, SequenceTypes, PlanStatuses
  <2>2. RunState'
    BY DEF AgentTypeOK, RunState, Settled
  <2> QED BY <2>1, <2>2
<1> QED BY <1>1, <1>2, <1>3, <1>4, <1>5, <1>6 DEF RunStep

(* So do execute, and the threads that change the registry.                *)
LEMMA ExecuteState ==
    ASSUME AgentState, NEW a \in Agents, NEW g \in Goals, Execute(a, g)
    PROVE  AgentState'
<1> USE DEF AgentState, Execute
<1>1. AgentTypeOK' /\ SequenceTypes'
  BY DEF AgentTypeOK, SequenceTypes
<1>2. RunState'
  BY DEF AgentTypeOK, RunState, Settled
<1> QED BY <1>1, <1>2

(* A change of the registry touches no run.                                *)
LEMMA RegistryState ==
    ASSUME AgentState, NEW a \in Agents, NEW n \in ToolNames, NEW b \in Behaviours \cup {None},
           register(a, n, b)
    PROVE  AgentState'
<1> USE DEF AgentState, register
<1>1. tools' \in [Agents -> [ToolNames -> Behaviours \cup {None}]]
  BY DEF AgentTypeOK
<1>2. AgentTypeOK' /\ SequenceTypes'
  BY <1>1 DEF AgentTypeOK, SequenceTypes
<1>3. RunState'
  BY DEF AgentTypeOK, RunState, Settled
<1> QED BY <1>2, <1>3

(* The steps of a plan are run one after another.                          *)
LEMMA RunStepSteps ==
    ASSUME AgentIInv, NEW a \in Agents, RunStep(a)
    PROVE  StepState' /\ OutcomeMatchesPlan'
<1> USE DEF AgentIInv, AgentState
<1>0. AgentState'
  BY RunStepState
<1>1. CASE Begin(a)
  <2> USE <1>1 DEF Begin
  <2> DEFINE p == createPlan(goal[a])
             ss == [i \in 1 .. Len(p) |-> "PENDING"]
  <2>1. Len(p) \in Nat /\ Len(ss) = Len(p)
    BY PlanType DEF RunState
  <2>2. steps'[a] = ss /\ \A i \in 1 .. Len(ss) : ss[i] = "PENDING"
    BY <2>1 DEF SequenceTypes
  <2> HIDE DEF p, ss
  <2>3. \A b \in Agents : b # a => UNCHANGED <<run[b], steps[b], planStatus[b]>>
    BY DEF AgentTypeOK, SequenceTypes
  <2>4. run'[a] = "loop" /\ planStatus'[a] = "RUNNING"
    BY DEF AgentTypeOK
  <2>5. StepState'
    BY <2>2, <2>3, <2>4 DEF StepState, Rest
  <2>6. future'[a] \notin {"done", "exceptional"}
    BY DEF RunState, Settled
  <2>7. OutcomeMatchesPlan'
    <3>1. \A b \in Agents : b # a => (Running(b)' = Running(b))
      BY <2>3 DEF Running
    <3>2. future' = future
      OBVIOUS
    <3> QED BY <2>3, <2>6, <3>1, <3>2 DEF OutcomeMatchesPlan, isComplete
  <2> QED BY <2>5, <2>7
<1>2. CASE StartStep(a)
  <2> USE <1>2 DEF StartStep
  <2>1. PICK i \in 1 .. Len(steps[a]) : steps' = [steps EXCEPT ![a][i] = "RUNNING"]
    BY DEF Pending
  <2>2. /\ Len(steps'[a]) = Len(steps[a])
        /\ steps'[a][i] = "RUNNING"
        /\ \A j \in 1 .. Len(steps[a]) : j # i => steps'[a][j] = steps[a][j]
        /\ \A b \in Agents : b # a => steps'[b] = steps[b]
    BY <2>1, SetStep DEF StepStatuses
  <2>3. run'[a] = "lookup" /\ \A b \in Agents : b # a => run'[b] = run[b]
    BY DEF AgentTypeOK
  <2>4. StepState'
    BY <2>2, <2>3 DEF StepState
  <2>5. future[a] \notin {"done", "exceptional"}
    BY DEF RunState, Settled
  <2>6. OutcomeMatchesPlan'
    BY <2>2, <2>5 DEF OutcomeMatchesPlan, isComplete, Running
  <2> QED BY <2>4, <2>6
<1>3. CASE LookUp(a)
  <2> USE <1>3 DEF LookUp
  <2>1. run'[a] = "tool" /\ \A b \in Agents : b # a => run'[b] = run[b]
    BY DEF AgentTypeOK
  <2>2. StepState'
    BY <2>1 DEF StepState
  <2>3. OutcomeMatchesPlan'
    BY DEF OutcomeMatchesPlan, isComplete, Running
  <2> QED BY <2>2, <2>3
<1>4. CASE FinishStep(a)
  <2> USE <1>4 DEF FinishStep
  <2>1. PICK i \in 1 .. Len(steps[a]) :
            steps[a][i] = "RUNNING" /\ steps' = [steps EXCEPT ![a][i] = "COMPLETED"]
    BY DEF Running
  <2>2. /\ Len(steps'[a]) = Len(steps[a])
        /\ steps'[a][i] = "COMPLETED"
        /\ \A j \in 1 .. Len(steps[a]) : j # i => steps'[a][j] = steps[a][j]
        /\ \A b \in Agents : b # a => steps'[b] = steps[b]
    BY <2>1, SetStep DEF StepStatuses
  <2>3. run'[a] = "loop" /\ \A b \in Agents : b # a => run'[b] = run[b]
    BY DEF AgentTypeOK
  <2>4. \A j \in 1 .. Len(steps[a]) : j # i => steps[a][j] \in Rest
    BY <2>1 DEF StepState, Rest
  <2>5. StepState'
    BY <2>2, <2>3, <2>4 DEF StepState, Rest
  <2>6. future[a] \notin {"done", "exceptional"}
    BY DEF RunState, Settled
  <2>7. OutcomeMatchesPlan'
    BY <2>2, <2>6 DEF OutcomeMatchesPlan, isComplete, Running
  <2> QED BY <2>5, <2>7
<1>5. CASE ToolDies(a)
  <2> USE <1>5 DEF ToolDies
  <2>1. \E i \in Running(a) : Running(a) = {i}
    BY DEF StepState, Running, Rest
  <2>2. run'[a] = "over" /\ \A b \in Agents : b # a => UNCHANGED <<run[b], future[b]>>
    BY DEF AgentTypeOK
  <2>3. StepState'
    BY <2>2 DEF StepState
  <2>4. future'[a] = "exceptional" /\ planStatus[a] = "RUNNING"
    BY DEF AgentTypeOK, StepState
  <2>5. OutcomeMatchesPlan'
    BY <2>1, <2>2, <2>4 DEF OutcomeMatchesPlan, isComplete, Running
  <2> QED BY <2>3, <2>5
<1>6. CASE EndPlan(a)
  <2> USE <1>6 DEF EndPlan
  <2>1. isComplete(steps[a])
    BY DEF StepState, Rest, Pending, isComplete
  <2>2. /\ run'[a] = "over" /\ future'[a] = "done" /\ planStatus'[a] = "COMPLETED"
        /\ \A b \in Agents : b # a => UNCHANGED <<run[b], future[b], planStatus[b]>>
    BY <2>1 DEF AgentTypeOK
  <2>3. StepState'
    BY <2>2 DEF StepState
  <2>4. OutcomeMatchesPlan'
    BY <2>1, <2>2 DEF OutcomeMatchesPlan, isComplete, Running
  <2> QED BY <2>3, <2>4
<1> QED BY <1>1, <1>2, <1>3, <1>4, <1>5, <1>6 DEF RunStep

(* Every step of every agent and of the threads that use its registry      *)
(* preserves the inductive invariant.                                      *)
LEMMA AgentNextIInv == AgentIInv /\ [AgentNext]_agentVars => AgentIInv'
<1> SUFFICES ASSUME AgentIInv, [AgentNext]_agentVars PROVE AgentIInv'
  OBVIOUS
<1> USE DEF AgentIInv
<1>1. ASSUME NEW a \in Agents, NEW g \in Goals, Execute(a, g) PROVE AgentIInv'
  <2>1. AgentState'
    BY <1>1, ExecuteState
  <2>2. /\ run'[a] = "submitted" /\ future'[a] = "running"
        /\ \A b \in Agents : b # a => UNCHANGED <<run[b], future[b]>>
    BY <1>1 DEF Execute, AgentState, AgentTypeOK
  <2>3. UNCHANGED <<steps, planStatus>>
    BY <1>1 DEF Execute
  <2>4. StepState'
    BY <2>2, <2>3 DEF StepState
  <2>5. OutcomeMatchesPlan'
    BY <2>2, <2>3 DEF OutcomeMatchesPlan, Running
  <2> QED BY <2>1, <2>4, <2>5
<1>2. ASSUME NEW a \in Agents, RunStep(a) PROVE AgentIInv'
  BY <1>2, RunStepState, RunStepSteps
<1>3. ASSUME NEW a \in Agents, NEW n \in ToolNames, NEW b \in Behaviours \cup {None},
             register(a, n, b)
      PROVE  AgentIInv'
  <2>1. AgentState'
    BY <1>3, RegistryState
  <2>2. StepState' /\ OutcomeMatchesPlan'
    BY <1>3 DEF register, StepState, OutcomeMatchesPlan, Running
  <2> QED BY <2>1, <2>2
<1>4. ASSUME NEW a \in Agents, NEW n \in ToolNames, unregister(a, n) PROVE register(a, n, None)
  BY <1>4, Zenon DEF register, unregister
<1>5. CASE UNCHANGED agentVars
  <2>1. AgentState'
    BY <1>5 DEF agentVars, AgentState, AgentTypeOK, SequenceTypes, RunState, Settled
  <2>2. StepState'
    BY <1>5 DEF agentVars, StepState
  <2>3. OutcomeMatchesPlan'
    BY <1>5 DEF agentVars, OutcomeMatchesPlan, Running
  <2> QED BY <2>1, <2>2, <2>3
<1> QED BY <1>1, <1>2, <1>3, <1>4, <1>5 DEF AgentNext

(* Agents never leave their inductive invariant.                           *)
THEOREM AgentInvariance == AgentSpec => []AgentIInv
BY InitAgent, AgentNextIInv, PTL DEF AgentSpec

(* For any number of agents, goals and tools, whatever other threads       *)
(* register and unregister while the plan runs: execute's future has a     *)
(* result only with every step COMPLETED, and an Error leaves exactly the  *)
(* step that raised it RUNNING.                                            *)
THEOREM OutcomesMatchPlans == AgentSpec => []OutcomeMatchesPlan
BY AgentInvariance, PTL DEF AgentIInv

-----------------------------------------------------------------------------
(* The gateway.  A handler is at the places its kind of request leads to.  *)
KindOf(e) ==
    /\ handler[e] \in {"headers", "start", "attach", "close"} => kind[e] = "stream"
    /\ handler[e] = "join" => kind[e] = "sync"
    /\ handler[e] \in {"execute", "finally"} => kind[e] \in {"sync", "stream"}
    /\ handler[e] \in {"send", "body"} => kind[e] # "stream"
    /\ kind[e] = "sync" => reply[e] \in {"none", "200", "500"}

(* A 200 is true from the moment the handler decides to send it, not only  *)
(* once it is sent: in between the connection may fail and the handler     *)
(* decide again.                                                           *)
Truthful(e) ==
    reply[e] = "200" \/ status[e] = "200" =>
        /\ kind[e] = "sync" => future[e] = "done"
        /\ kind[e] = "import" => e \in documentStore
        /\ kind[e] = "lookup" => wants[e] \in documentStore
        /\ kind[e] # "refused"

(* The run is started behind "execute", and a handler without "stream"     *)
(* gets behind "join" only with the run over.                              *)
RunOf(e) ==
    /\ handler[e] \in {"none", "parse", "execute", "headers", "start"} => run[e] = "idle"
    /\ handler[e] \in {"join", "attach"} => run[e] # "idle"
    /\ kind[e] = "sync" =>
          handler[e] \in {"none", "parse", "execute", "join"} \/ Settled(e)

Listed(e) ==
    /\ handler[e] \in {"none", "parse", "headers"} => status[e] = "none"
    /\ kind[e] = "sync" /\ handler[e] \in {"execute", "join", "send", "body", "finally"} =>
          e \in activeAgents
    /\ e \in activeAgents =>
          \/ handler[e] \in Executing /\ kind[e] \in {"sync", "stream"}
          \/ kind[e] = "stream" /\ events[e] = <<>> /\ status[e] # "200"
             /\ handler[e] \in {"wrap", "wrapBody", "end", "died"}

(* A callback that waits has not written; before it is attached only the   *)
(* start has been written, and nothing before that.                        *)
Streamed(e) ==
    /\ kind[e] # "stream" => events[e] = <<>> /\ callback[e] = "none"
    /\ handler[e] \in {"none", "parse", "headers", "start"} =>
          events[e] = <<>> /\ callback[e] = "none"
    /\ kind[e] = "stream" /\ handler[e] \in {"execute", "attach"} =>
          events[e] = <<"start">> /\ callback[e] = "none"
    /\ callback[e] = "waiting" => events[e] = <<"start">>
    /\ events[e] \in {<<>>, <<"start">>, <<"start", "complete">>, <<"start", "error">>}
    /\ events[e] = <<"start", "complete">> => future[e] = "done"
    /\ events[e] = <<"start", "error">> => future[e] = "exceptional"

Exchange(e) == KindOf(e) /\ Truthful(e) /\ RunOf(e) /\ Listed(e) /\ Streamed(e)

EventType == events \in [Exchanges -> Seq({"start", "complete", "error"})]

IInv ==
    /\ TypeOK
    /\ AgentState
    /\ EventType
    /\ \A e \in Exchanges : Exchange(e)

(* No exchange has begun at the start.                                     *)
LEMMA InitIInv == Init => IInv
<1> SUFFICES ASSUME Init PROVE IInv
  OBVIOUS
<1>1. AgentState
  BY InitAgent DEF Init, AgentIInv
<1>2. EventType
  BY DEF Init, EventType
<1>3. TypeOK
  <2>1. AgentTypeOK
    BY <1>1 DEF AgentState
  <2>2. \A e \in Exchanges : \A i \in 1 .. Len(events[e]) :
            events[e][i] \in {"start", "complete", "error"}
    BY DEF Init
  <2> QED BY <2>1, <2>2 DEF Init, TypeOK
<1>4. ASSUME NEW e \in Exchanges PROVE Exchange(e)
  BY <1>1 DEF Init, AgentInit, Exchange, KindOf, Truthful, RunOf, Listed, Streamed,
              Exchanges
<1> QED BY <1>1, <1>2, <1>3, <1>4 DEF IInv

(* An exchange stays in order if nothing of its own is changed, however    *)
(* many documents the others import.                                       *)
LEMMA OthersKeep ==
    ASSUME NEW f \in Exchanges, Exchange(f),
           UNCHANGED <<kind[f], wants[f], handler[f], reply[f], status[f], events[f],
                       callback[f], run[f], future[f]>>,
           f \in activeAgents' <=> f \in activeAgents,
           documentStore \subseteq documentStore'
    PROVE  Exchange(f)'
<1> USE DEF Exchange
<1>1. KindOf(f)' /\ RunOf(f)'
  BY DEF KindOf, RunOf, Settled
<1>2. Truthful(f)'
  BY DEF Truthful
<1>3. Listed(f)'
  BY DEF Listed
<1>4. Streamed(f)'
  BY DEF Streamed
<1> QED BY <1>1, <1>2, <1>3, <1>4

(* The life of the server, and connections that are lost, change nothing   *)
(* of what an exchange has said.                                           *)
LEMMA ServerIInv ==
    ASSUME IInv, Start \/ Stop \/ ServerCloses \/ \E e \in Exchanges : PeerCloses(e)
    PROVE  IInv'
<1> USE DEF Start, Stop, ServerCloses, PeerCloses, agentVars, serverVars, response, stores
<1>1. UNCHANGED <<run, goal, plan, steps, planStatus, tool, tools, memory, future,
                  kind, wants, handler, reply, raised, status, events, closed,
                  callback, activeAgents, documentStore>>
  OBVIOUS
<1>2. AgentState' /\ EventType'
  BY <1>1 DEF IInv, AgentState, AgentTypeOK, SequenceTypes, RunState, Settled, EventType
<1>3. TypeOK'
  BY <1>1, <1>2 DEF IInv, TypeOK, AgentState
<1>4. \A e \in Exchanges : Exchange(e)'
  BY <1>1, OthersKeep DEF IInv
<1> QED BY <1>2, <1>3, <1>4 DEF IInv

(* The steps of a run, and an Error in it, settle the future at most once, *)
(* and never before it was started.                                        *)
LEMMA RunIInv ==
    ASSUME IInv, NEW e \in Exchanges, AgentRuns(e) \/ RunDies(e)
    PROVE  IInv'
<1>1. UNCHANGED <<running, server, kind, wants, handler, reply, raised, status, peer,
                  events, closed, callback, activeAgents, documentStore>>
  BY DEF AgentRuns, RunDies, serverVars, response, stores
<1>2. AgentState'
  <2>1. CASE AgentRuns(e)
    BY <2>1, RunStepState DEF IInv, AgentRuns, Exchanges
  <2>2. CASE RunDies(e)
    BY <2>2 DEF IInv, RunDies, AgentState, AgentTypeOK, SequenceTypes, RunState,
                Settled, Exchanges
  <2> QED BY <2>1, <2>2
<1>3. TypeOK' /\ EventType'
  BY <1>1, <1>2 DEF IInv, TypeOK, AgentState, EventType
<1>4. /\ \A f \in Exchanges : f # e => UNCHANGED <<run[f], future[f]>>
      /\ run[e] \notin {"idle", "over"} /\ run'[e] # "idle"
  BY DEF IInv, AgentState, AgentTypeOK, Exchanges, AgentRuns, RunDies, RunStep, Begin,
         StartStep, LookUp, FinishStep, ToolDies, EndPlan
<1>5. \A f \in Exchanges : f # e => Exchange(f)'
  BY <1>1, <1>4, OthersKeep DEF IInv
<1>6. Exchange(e)'
  <2>1. future[e] \notin {"none", "done", "exceptional"} /\ ~Settled(e)
    BY <1>4 DEF IInv, AgentState, RunState, Settled, Exchanges
  <2>2. Exchange(e)
    BY DEF IInv
  <2>3. KindOf(e)' /\ RunOf(e)' /\ Listed(e)'
    BY <1>1, <1>4, <2>1, <2>2 DEF Exchange, KindOf, RunOf, Listed
  <2>4. Truthful(e)'
    BY <1>1, <2>1, <2>2 DEF Exchange, Truthful
  <2>5. Streamed(e)'
    BY <1>1, <2>1, <2>2 DEF Exchange, Streamed
  <2> QED BY <2>3, <2>4, <2>5 DEF Exchange
<1> QED BY <1>2, <1>3, <1>5, <1>6 DEF IInv

-----------------------------------------------------------------------------
ResponseTypes ==
    /\ handler \in [Exchanges -> Handling \cup {"none", "end", "died"}]
    /\ reply \in [Exchanges -> {"none"} \cup Codes]
    /\ raised \in [Exchanges -> BOOLEAN]
    /\ status \in [Exchanges -> {"none"} \cup Codes]
    /\ peer \in [Exchanges -> BOOLEAN]
    /\ EventType
    /\ closed \in [Exchanges -> BOOLEAN]
    /\ callback \in [Exchanges -> {"none", "waiting", "ran"}]
    /\ activeAgents \subseteq Exchanges
    /\ documentStore \subseteq Exchanges

(* A step of one exchange leaves alone what the other exchanges have.      *)
Apart(e) ==
    /\ \A f \in Exchanges : f # e =>
          /\ UNCHANGED <<handler[f], reply[f], status[f], events[f], callback[f],
                         run[f], future[f]>>
          /\ f \in activeAgents' <=> f \in activeAgents
    /\ documentStore \subseteq documentStore'

(* It is enough to look at the exchange that moves.                        *)
LEMMA OneMoves ==
    ASSUME IInv, NEW e \in Exchanges, UNCHANGED serverVars, AgentState',
           Apart(e), ResponseTypes', Exchange(e)'
    PROVE  IInv'
<1>1. UNCHANGED <<running, server, kind, wants>>
  BY DEF serverVars
<1>2. TypeOK' /\ EventType'
  BY <1>1 DEF IInv, TypeOK, AgentState, ResponseTypes, EventType
<1>3. \A f \in Exchanges : f # e => Exchange(f)'
  BY <1>1, OthersKeep DEF IInv, Apart
<1> QED BY <1>2, <1>3 DEF IInv

(* The parts of the invariant an exchange's step starts from.              *)
LEMMA Parts ==
    ASSUME IInv, NEW e \in Exchanges
    PROVE  /\ ResponseTypes /\ AgentState
           /\ KindOf(e) /\ Truthful(e) /\ RunOf(e) /\ Listed(e) /\ Streamed(e)
BY DEF IInv, TypeOK, EventType, ResponseTypes, Exchange

(* A step that no agent takes part in leaves the agents in order.          *)
LEMMA AgentsStay ==
    ASSUME AgentState, UNCHANGED agentVars
    PROVE  AgentState'
BY DEF AgentState, AgentTypeOK, SequenceTypes, RunState, Settled, agentVars

(* A handler that decides on an answer keeps the exchange in order if a    *)
(* 200 is true and the run of a request without "stream" is over.          *)
LEMMA ReplyIInv ==
    ASSUME IInv, NEW e \in Exchanges, NEW code \in Codes, Reply(e, code),
           UNCHANGED <<agentVars, serverVars, activeAgents>>,
           handler[e] \in {"parse", "join", "send", "body"},
           documentStore \subseteq documentStore', documentStore' \subseteq Exchanges,
           kind[e] # "stream",
           kind[e] = "sync" => Settled(e) /\ e \in activeAgents /\ code \in {"200", "500"},
           code = "200" =>
               /\ kind[e] = "sync" => future[e] = "done"
               /\ kind[e] = "import" => e \in documentStore'
               /\ kind[e] = "lookup" => wants[e] \in documentStore'
               /\ kind[e] # "refused"
    PROVE  IInv'
<1> USE Parts DEF Reply
<1>1. UNCHANGED <<run, future, kind, wants, raised, status, peer, events, closed,
                  callback, activeAgents>>
  BY DEF agentVars, serverVars
<1>2. ResponseTypes'
  BY <1>1 DEF ResponseTypes, EventType, Handling
<1>3. Apart(e)
  BY <1>1 DEF Apart, ResponseTypes
<1>4. handler'[e] = "send" /\ reply'[e] = code
  BY DEF ResponseTypes
<1>5. KindOf(e)' /\ RunOf(e)'
  BY <1>1, <1>4 DEF KindOf, RunOf, Settled
<1>6. Truthful(e)'
  BY <1>1, <1>4 DEF Truthful
<1>7. Listed(e)'
  BY <1>1, <1>4 DEF Listed, Executing
<1>8. Streamed(e)'
  BY <1>1, <1>4 DEF Streamed
<1> QED BY <1>2, <1>3, <1>5, <1>6, <1>7, <1>8, AgentsStay, OneMoves DEF Exchange

(* Requests that are answered at once.                                     *)
LEMMA AnswerIInv ==
    ASSUME IInv, NEW e \in Exchanges, NEW k \in {"refused", "other", "page"},
           NEW codes \in SUBSET Codes, Answer(e, k, codes),
           k = "refused" => "200" \notin codes
    PROVE  IInv'
<1>1. PICK code \in codes : Reply(e, code)
  BY DEF Answer
<1>2. UNCHANGED <<agentVars, serverVars, activeAgents, documentStore>>
  BY DEF Answer, stores
<1>3. documentStore \subseteq Exchanges
  BY DEF IInv, TypeOK
<1>4. handler[e] = "parse" /\ kind[e] = k
  BY DEF Answer
<1> QED BY <1>1, <1>2, <1>3, <1>4, ReplyIInv

(* Lookups, imports, and the answer of an agent's run.                     *)
LEMMA LookupIInv ==
    ASSUME IInv, NEW e \in Exchanges, Answer(e, "lookup", {Found(e)})
    PROVE  IInv'
<1>1. Reply(e, Found(e)) /\ handler[e] = "parse" /\ kind[e] = "lookup"
  BY DEF Answer
<1>2. UNCHANGED <<agentVars, serverVars, activeAgents, documentStore>>
  BY DEF Answer, stores
<1>3. documentStore \subseteq Exchanges
  BY DEF IInv, TypeOK
<1>4. Found(e) \in Codes /\ (Found(e) = "200" => wants[e] \in documentStore)
  BY DEF Found, Codes
<1> QED BY <1>1, <1>2, <1>3, <1>4, ReplyIInv

(* A document is stored before the answer that says so.                    *)
LEMMA ImportIInv ==
    ASSUME IInv, NEW e \in Exchanges, ImportDocument(e) \/ ImportFails(e)
    PROVE  IInv'
<1>1. documentStore \subseteq Exchanges
  BY DEF IInv, TypeOK
<1>2. CASE ImportDocument(e)
  BY <1>1, <1>2, ReplyIInv DEF ImportDocument, Codes
<1>3. CASE ImportFails(e)
  BY <1>1, <1>3, ReplyIInv DEF ImportFails, Codes, stores
<1> QED BY <1>2, <1>3

(* join returns the outcome of the run, and the answer is the one it had.  *)
LEMMA JoinIInv ==
    ASSUME IInv, NEW e \in Exchanges, JoinReturns(e)
    PROVE  IInv'
<1>1. documentStore \subseteq Exchanges
  BY DEF IInv, TypeOK
<1>2. kind[e] = "sync" /\ e \in activeAgents
  BY Parts DEF JoinReturns, KindOf, Listed
<1>3. PICK code \in {"200", "500"} : Reply(e, code) /\ (code = "200" => future[e] = "done")
  BY DEF JoinReturns
<1> QED BY <1>1, <1>2, <1>3, ReplyIInv DEF JoinReturns, Codes, stores

(* The agent is listed before its run can be started.                      *)
LEMMA PutAgentIInv ==
    ASSUME IInv, NEW e \in Exchanges, PutAgent(e)
    PROVE  IInv'
<1> USE Parts DEF PutAgent
<1>1. UNCHANGED <<run, future, kind, wants, reply, raised, status, peer,
                  events, closed, callback, documentStore>>
  BY DEF agentVars, serverVars, response, stores
<1>2. ResponseTypes'
  BY <1>1 DEF ResponseTypes, EventType, Handling, Codes
<1>3. Apart(e)
  BY <1>1 DEF Apart, ResponseTypes
<1>4. /\ handler[e] = "parse" /\ kind[e] \in {"sync", "stream"} /\ e \in activeAgents'
      /\ handler'[e] = IF kind[e] = "sync" THEN "execute" ELSE "headers"
  BY DEF ResponseTypes
<1>5. KindOf(e)' /\ Truthful(e)'
  BY <1>1, <1>4 DEF KindOf, Truthful
<1>6. RunOf(e)'
  BY <1>1, <1>4 DEF RunOf, KindOf, Settled
<1>7. Listed(e)'
  BY <1>1, <1>4 DEF Listed, KindOf, Streamed, Executing
<1>8. Streamed(e)'
  BY <1>1, <1>4 DEF Streamed, KindOf
<1> QED BY <1>1, <1>2, <1>3, <1>5, <1>6, <1>7, <1>8, AgentsStay, OneMoves DEF Exchange

(* The status of an event stream says nothing of the run.                  *)
LEMMA StreamHeadersIInv ==
    ASSUME IInv, NEW e \in Exchanges, StreamHeaders(e)
    PROVE  IInv'
<1> USE Parts DEF StreamHeaders
<1>1. UNCHANGED <<run, future, kind, wants, reply, raised, peer, events,
                  closed, callback, activeAgents, documentStore>>
  BY DEF agentVars, serverVars, response, stores
<1>2. ResponseTypes'
  BY <1>1 DEF ResponseTypes, EventType, Handling, Codes
<1>3. Apart(e)
  BY <1>1 DEF Apart, ResponseTypes
<1>4. handler[e] = "headers" /\ handler'[e] = "start" /\ status'[e] = "200"
  BY DEF ResponseTypes
<1>5. KindOf(e)' /\ Truthful(e)'
  BY <1>1, <1>4 DEF KindOf, Truthful
<1>6. RunOf(e)'
  BY <1>1, <1>4 DEF RunOf, KindOf, Settled
<1>7. Listed(e)'
  BY <1>1, <1>4 DEF Listed, KindOf, Streamed, Executing
<1>8. Streamed(e)'
  BY <1>1, <1>4 DEF Streamed, KindOf
<1> QED BY <1>1, <1>2, <1>3, <1>5, <1>6, <1>7, <1>8, AgentsStay, OneMoves DEF Exchange

(* The leak that ActiveAreTheRuns names: the agent stays listed, with an   *)
(* empty stream and without a 200.                                         *)
LEMMA StreamHeadersFailIInv ==
    ASSUME IInv, NEW e \in Exchanges, StreamHeadersFail(e)
    PROVE  IInv'
<1> USE Parts DEF StreamHeadersFail
<1>1. UNCHANGED <<run, future, kind, wants, reply, raised, status, peer,
                  events, closed, callback, activeAgents, documentStore>>
  BY DEF agentVars, serverVars, response, stores
<1>2. ResponseTypes'
  BY <1>1 DEF ResponseTypes, EventType, Handling, Codes
<1>3. Apart(e)
  BY <1>1 DEF Apart, ResponseTypes
<1>4. handler[e] = "headers" /\ handler'[e] = "wrap"
  BY DEF ResponseTypes
<1>5. KindOf(e)' /\ Truthful(e)'
  BY <1>1, <1>4 DEF KindOf, Truthful
<1>6. RunOf(e)'
  BY <1>1, <1>4 DEF RunOf, KindOf, Settled
<1>7. Listed(e)'
  BY <1>1, <1>4 DEF Listed, KindOf, Streamed, Executing
<1>8. Streamed(e)'
  BY <1>1, <1>4 DEF Streamed, KindOf
<1> QED BY <1>1, <1>2, <1>3, <1>5, <1>6, <1>7, <1>8, AgentsStay, OneMoves DEF Exchange

(* The four states of an event stream are told apart by what is in it.     *)
LEMMA FourStreams ==
    /\ <<"start">> # <<>> /\ <<"start", "complete">> # <<>> /\ <<"start", "error">> # <<>>
    /\ <<"start">> # <<"start", "complete">> /\ <<"start">> # <<"start", "error">>
    /\ <<"start", "complete">> # <<"start", "error">>
OBVIOUS

(* The start is the first event.                                           *)
LEMMA WriteStartIInv ==
    ASSUME IInv, NEW e \in Exchanges, WriteStart(e)
    PROVE  IInv'
<1> USE Parts DEF WriteStart
<1>1. UNCHANGED <<run, future, kind, wants, reply, raised, status, peer,
                  closed, callback, activeAgents, documentStore>>
  BY DEF agentVars, serverVars, response, stores
<1>2. ResponseTypes'
  BY <1>1 DEF ResponseTypes, EventType, Handling, Codes
<1>3. Apart(e)
  BY <1>1 DEF Apart, ResponseTypes
<1>4. handler[e] = "start" /\ handler'[e] = "execute" /\ events'[e] = <<"start">>
  <2>1. Append(<<>>, "start") = <<"start">>
    OBVIOUS
  <2>2. events[e] = <<>>
    BY DEF Streamed
  <2>3. events'[e] = Append(events[e], "start")
    BY DEF ResponseTypes, EventType
  <2> QED BY <2>1, <2>2, <2>3 DEF ResponseTypes
<1>5. KindOf(e)' /\ Truthful(e)'
  BY <1>1, <1>4 DEF KindOf, Truthful
<1>6. RunOf(e)'
  BY <1>1, <1>4 DEF RunOf, KindOf, Settled
<1>7. Listed(e)'
  BY <1>1, <1>4 DEF Listed, KindOf, Streamed, Executing
<1>8. Streamed(e)'
  BY <1>1, <1>4, FourStreams DEF Streamed, KindOf
<1> QED BY <1>1, <1>2, <1>3, <1>5, <1>6, <1>7, <1>8, AgentsStay, OneMoves DEF Exchange

(* Without its start a stream stays empty.                                 *)
LEMMA WriteStartFailsIInv ==
    ASSUME IInv, NEW e \in Exchanges, WriteStartFails(e)
    PROVE  IInv'
<1> USE Parts DEF WriteStartFails
<1>1. UNCHANGED <<run, future, kind, wants, reply, status, peer, events,
                  callback, activeAgents, documentStore>>
  BY DEF agentVars, serverVars, response, stores
<1>2. ResponseTypes'
  BY <1>1 DEF ResponseTypes, EventType, Handling, Codes
<1>3. Apart(e)
  BY <1>1 DEF Apart, ResponseTypes
<1>4. handler[e] = "start" /\ handler'[e] = "finally"
  BY DEF ResponseTypes
<1>5. KindOf(e)' /\ Truthful(e)'
  BY <1>1, <1>4 DEF KindOf, Truthful
<1>6. RunOf(e)'
  BY <1>1, <1>4 DEF RunOf, KindOf, Settled
<1>7. Listed(e)'
  BY <1>1, <1>4 DEF Listed, KindOf, Streamed, Executing
<1>8. Streamed(e)'
  BY <1>1, <1>4 DEF Streamed, KindOf
<1> QED BY <1>1, <1>2, <1>3, <1>5, <1>6, <1>7, <1>8, AgentsStay, OneMoves DEF Exchange

(* Closing the stream writes nothing.                                      *)
LEMMA CloseStreamIInv ==
    ASSUME IInv, NEW e \in Exchanges, CloseStream(e)
    PROVE  IInv'
<1> USE Parts DEF CloseStream
<1>1. UNCHANGED <<run, future, kind, wants, reply, status, peer, events,
                  callback, activeAgents, documentStore>>
  BY DEF agentVars, serverVars, response, stores
<1>2. ResponseTypes'
  BY <1>1 DEF ResponseTypes, EventType, Handling, Codes, Writable
<1>3. Apart(e)
  BY <1>1 DEF Apart, ResponseTypes
<1>4. handler[e] = "close" /\ handler'[e] = "finally"
  BY DEF ResponseTypes
<1>5. KindOf(e)' /\ Truthful(e)'
  BY <1>1, <1>4 DEF KindOf, Truthful
<1>6. RunOf(e)'
  BY <1>1, <1>4 DEF RunOf, KindOf, Settled
<1>7. Listed(e)'
  BY <1>1, <1>4 DEF Listed, KindOf, Streamed, Executing
<1>8. Streamed(e)'
  BY <1>1, <1>4 DEF Streamed, KindOf
<1> QED BY <1>1, <1>2, <1>3, <1>5, <1>6, <1>7, <1>8, AgentsStay, OneMoves DEF Exchange

(* The finally block takes the agent off the list; a run without "stream"  *)
(* is over by then.                                                        *)
LEMMA RemoveAgentIInv ==
    ASSUME IInv, NEW e \in Exchanges, RemoveAgent(e)
    PROVE  IInv'
<1> USE Parts DEF RemoveAgent
<1>1. UNCHANGED <<run, future, kind, wants, reply, raised, status, peer,
                  events, closed, callback, documentStore>>
  BY DEF agentVars, serverVars, response, stores
<1>2. ResponseTypes'
  BY <1>1 DEF ResponseTypes, EventType, Handling, Codes
<1>3. Apart(e)
  BY <1>1 DEF Apart, ResponseTypes
<1>4. /\ handler[e] = "finally" /\ e \notin activeAgents'
      /\ handler'[e] \in {"wrap", "end"}
  BY DEF ResponseTypes
<1>5. KindOf(e)' /\ Truthful(e)'
  BY <1>1, <1>4 DEF KindOf, Truthful
<1>6. RunOf(e)'
  BY <1>1, <1>4 DEF RunOf, KindOf, Settled
<1>7. Listed(e)'
  BY <1>1, <1>4 DEF Listed, KindOf, Streamed, Executing
<1>8. Streamed(e)'
  BY <1>1, <1>4 DEF Streamed, KindOf
<1> QED BY <1>1, <1>2, <1>3, <1>5, <1>6, <1>7, <1>8, AgentsStay, OneMoves DEF Exchange

(* What was decided is what is sent.                                       *)
LEMMA SendHeadersIInv ==
    ASSUME IInv, NEW e \in Exchanges, SendHeaders(e)
    PROVE  IInv'
<1> USE Parts DEF SendHeaders
<1>1. UNCHANGED <<run, future, kind, wants, reply, raised, peer, events,
                  closed, callback, activeAgents, documentStore>>
  BY DEF agentVars, serverVars, response, stores
<1>2. ResponseTypes'
  BY <1>1 DEF ResponseTypes, EventType, Handling, Codes
<1>3. Apart(e)
  BY <1>1 DEF Apart, ResponseTypes
<1>4. /\ handler[e] = "send" /\ status'[e] = reply[e]
      /\ handler'[e] = IF HasBody(e) THEN "body" ELSE "end"
      /\ kind[e] = "sync" => HasBody(e)
  BY DEF ResponseTypes, HasBody, KindOf
<1>5. KindOf(e)' /\ Truthful(e)'
  BY <1>1, <1>4 DEF KindOf, Truthful
<1>6. RunOf(e)'
  BY <1>1, <1>4 DEF RunOf, KindOf, Settled
<1>7. Listed(e)'
  BY <1>1, <1>4 DEF Listed, KindOf, Streamed, Executing
<1>8. Streamed(e)'
  BY <1>1, <1>4 DEF Streamed, KindOf
<1> QED BY <1>1, <1>2, <1>3, <1>5, <1>6, <1>7, <1>8, AgentsStay, OneMoves DEF Exchange

(* The body ends an answer.                                                *)
LEMMA SendBodyIInv ==
    ASSUME IInv, NEW e \in Exchanges, SendBody(e)
    PROVE  IInv'
<1> USE Parts DEF SendBody
<1>1. UNCHANGED <<run, future, kind, wants, reply, raised, status, peer,
                  events, callback, activeAgents, documentStore>>
  BY DEF agentVars, serverVars, response, stores
<1>2. ResponseTypes'
  BY <1>1 DEF ResponseTypes, EventType, Handling, Codes
<1>3. Apart(e)
  BY <1>1 DEF Apart, ResponseTypes
<1>4. /\ handler[e] = "body"
      /\ handler'[e] = IF kind[e] = "sync" THEN "finally" ELSE "end"
  BY DEF ResponseTypes
<1>5. KindOf(e)' /\ Truthful(e)'
  BY <1>1, <1>4 DEF KindOf, Truthful
<1>6. RunOf(e)'
  BY <1>1, <1>4 DEF RunOf, KindOf, Settled
<1>7. Listed(e)'
  BY <1>1, <1>4 DEF Listed, KindOf, Streamed, Executing
<1>8. Streamed(e)'
  BY <1>1, <1>4 DEF Streamed, KindOf
<1> QED BY <1>1, <1>2, <1>3, <1>5, <1>6, <1>7, <1>8, AgentsStay, OneMoves DEF Exchange

(* The error wrapper answers with a 500, never with a 200.                 *)
LEMMA WrapSendsIInv ==
    ASSUME IInv, NEW e \in Exchanges, WrapSends(e)
    PROVE  IInv'
<1> USE Parts DEF WrapSends
<1>1. UNCHANGED <<run, future, kind, wants, reply, raised, peer, events,
                  closed, callback, activeAgents, documentStore>>
  BY DEF agentVars, serverVars, response, stores
<1>2. ResponseTypes'
  BY <1>1 DEF ResponseTypes, EventType, Handling, Codes
<1>3. Apart(e)
  BY <1>1 DEF Apart, ResponseTypes
<1>4. handler[e] = "wrap" /\ handler'[e] = "wrapBody" /\ status'[e] = "500"
  BY DEF ResponseTypes
<1>5. KindOf(e)' /\ Truthful(e)'
  BY <1>1, <1>4 DEF KindOf, Truthful
<1>6. RunOf(e)'
  BY <1>1, <1>4 DEF RunOf, KindOf, Settled
<1>7. Listed(e)'
  BY <1>1, <1>4 DEF Listed, KindOf, Streamed, Executing
<1>8. Streamed(e)'
  BY <1>1, <1>4 DEF Streamed, KindOf
<1> QED BY <1>1, <1>2, <1>3, <1>5, <1>6, <1>7, <1>8, AgentsStay, OneMoves DEF Exchange

(* The body of the wrapper's answer.                                       *)
LEMMA WrapBodyIInv ==
    ASSUME IInv, NEW e \in Exchanges, WrapBody(e)
    PROVE  IInv'
<1> USE Parts DEF WrapBody
<1>1. UNCHANGED <<run, future, kind, wants, reply, raised, status, peer,
                  events, callback, activeAgents, documentStore>>
  BY DEF agentVars, serverVars, response, stores
<1>2. ResponseTypes'
  BY <1>1 DEF ResponseTypes, EventType, Handling, Codes
<1>3. Apart(e)
  BY <1>1 DEF Apart, ResponseTypes
<1>4. handler[e] = "wrapBody" /\ handler'[e] = "end"
  BY DEF ResponseTypes
<1>5. KindOf(e)' /\ Truthful(e)'
  BY <1>1, <1>4 DEF KindOf, Truthful
<1>6. RunOf(e)'
  BY <1>1, <1>4 DEF RunOf, KindOf, Settled
<1>7. Listed(e)'
  BY <1>1, <1>4 DEF Listed, KindOf, Streamed, Executing
<1>8. Streamed(e)'
  BY <1>1, <1>4 DEF Streamed, KindOf
<1> QED BY <1>1, <1>2, <1>3, <1>5, <1>6, <1>7, <1>8, AgentsStay, OneMoves DEF Exchange

(* A wrapper that fails as well.                                           *)
LEMMA WrapFailsIInv ==
    ASSUME IInv, NEW e \in Exchanges, WrapFails(e)
    PROVE  IInv'
<1> USE Parts DEF WrapFails
<1>1. UNCHANGED <<run, future, kind, wants, reply, raised, status, peer,
                  events, closed, callback, activeAgents, documentStore>>
  BY DEF agentVars, serverVars, response, stores
<1>2. ResponseTypes'
  BY <1>1 DEF ResponseTypes, EventType, Handling, Codes
<1>3. Apart(e)
  BY <1>1 DEF Apart, ResponseTypes
<1>4. handler[e] \in {"wrap", "wrapBody"} /\ handler'[e] = "died"
  BY DEF ResponseTypes
<1>5. KindOf(e)' /\ Truthful(e)'
  BY <1>1, <1>4 DEF KindOf, Truthful
<1>6. RunOf(e)'
  BY <1>1, <1>4 DEF RunOf, KindOf, Settled
<1>7. Listed(e)'
  BY <1>1, <1>4 DEF Listed, KindOf, Streamed, Executing
<1>8. Streamed(e)'
  BY <1>1, <1>4 DEF Streamed, KindOf
<1> QED BY <1>1, <1>2, <1>3, <1>5, <1>6, <1>7, <1>8, AgentsStay, OneMoves DEF Exchange

(* A request is accepted before anything is known of it.                   *)
LEMMA ReceiveIInv ==
    ASSUME IInv, NEW e \in Exchanges, Receive(e)
    PROVE  IInv'
<1> USE Parts DEF Receive
<1>1. UNCHANGED <<run, future, kind, wants, reply, raised, status, peer, events,
                  closed, callback, activeAgents, documentStore>>
  BY DEF agentVars, serverVars, response, stores
<1>2. ResponseTypes'
  BY <1>1 DEF ResponseTypes, EventType, Handling
<1>3. Apart(e)
  BY <1>1 DEF Apart, ResponseTypes
<1>4. handler[e] = "none" /\ handler'[e] = "parse"
  BY DEF ResponseTypes
<1>5. Exchange(e)'
  BY <1>1, <1>4 DEF Exchange, KindOf, Truthful, RunOf, Listed, Streamed, Executing, Settled
<1> QED BY <1>1, <1>2, <1>3, <1>5, AgentsStay, OneMoves

(* Agent.execute is called once, with the agent listed.                    *)
LEMMA CallExecuteIInv ==
    ASSUME IInv, NEW e \in Exchanges, CallExecute(e)
    PROVE  IInv'
<1> USE Parts DEF CallExecute
<1>1. UNCHANGED <<kind, wants, reply, raised, status, peer, events, closed, callback,
                  activeAgents, documentStore>>
  BY DEF serverVars, response, stores
<1>2. PICK g \in Goals : Execute(e, g)
  OBVIOUS
<1>3. AgentState'
  BY <1>2, ExecuteState DEF Exchanges
<1>4. ResponseTypes'
  BY <1>1 DEF ResponseTypes, EventType, Handling
<1>5. Apart(e)
  BY <1>1, <1>2 DEF Apart, ResponseTypes, Execute, AgentState, AgentTypeOK, Exchanges
<1>6. /\ handler[e] = "execute" /\ kind[e] \in {"sync", "stream"}
      /\ handler'[e] = IF kind[e] = "sync" THEN "join" ELSE "attach"
      /\ run'[e] = "submitted" /\ future[e] = "none" /\ future'[e] = "running"
  BY <1>2 DEF ResponseTypes, KindOf, RunOf, Execute, AgentState, AgentTypeOK, RunState,
              Exchanges
<1>7. KindOf(e)' /\ RunOf(e)'
  BY <1>1, <1>6 DEF KindOf, RunOf
<1>8. Truthful(e)'
  BY <1>1, <1>6 DEF Truthful
<1>9. Listed(e)'
  BY <1>1, <1>6 DEF Listed, Executing
<1>10. Streamed(e)'
  BY <1>1, <1>6 DEF Streamed
<1> QED BY <1>3, <1>4, <1>5, <1>7, <1>8, <1>9, <1>10, OneMoves DEF Exchange

(* Appending to a sequence of one element makes a pair.                    *)
LEMMA AppendToOne ==
    ASSUME NEW x, NEW y
    PROVE  Append(<<x>>, y) = <<x, y>>
<1>1. <<x>> \in Seq({x, y}) /\ <<x, y>> \in Seq({x, y})
  OBVIOUS
<1>2. /\ Append(<<x>>, y) \in Seq({x, y})
      /\ Len(Append(<<x>>, y)) = 2
      /\ Append(<<x>>, y)[1] = x /\ Append(<<x>>, y)[2] = y
  BY <1>1
<1>3. Len(<<x, y>>) = 2 /\ <<x, y>>[1] = x /\ <<x, y>>[2] = y
  OBVIOUS
<1>4. \A i \in 1 .. Len(Append(<<x>>, y)) : Append(<<x>>, y)[i] = <<x, y>>[i]
  <2>1. \A i \in 1 .. 2 : i = 1 \/ i = 2
    OBVIOUS
  <2> QED BY <1>2, <1>3, <2>1
<1>5. Len(Append(<<x>>, y)) = Len(<<x, y>>)
  BY <1>2, <1>3
<1> QED BY <1>1, <1>2, <1>4, <1>5, SeqEqual

(* What a callback does to a stream that has its start only: it adds the   *)
(* outcome the run had, or nothing.                                        *)
LEMMA OutcomeWritten ==
    ASSUME EventType, NEW e \in Exchanges, events[e] = <<"start">>, Settled(e), WriteOutcome(e)
    PROVE  /\ EventType'
           /\ \A f \in Exchanges : f # e => events'[f] = events[f]
           /\ \/ events'[e] = <<"start">>
              \/ events'[e] = <<"start", "complete">> /\ future[e] = "done"
              \/ events'[e] = <<"start", "error">> /\ future[e] = "exceptional"
<1>1. CASE events' = events
  BY <1>1 DEF EventType
<1>2. CASE future[e] = "done" /\ events' = [events EXCEPT ![e] = Append(@, "complete")]
  <2>1. Append(<<"start">>, "complete") = <<"start", "complete">>
    BY AppendToOne
  <2>2. events[e] \in Seq({"start", "complete", "error"})
    BY DEF EventType
  <2>3. Append(events[e], "complete") \in Seq({"start", "complete", "error"})
    BY <2>2
  <2> QED BY <1>2, <2>1, <2>3 DEF EventType
<1>3. CASE future[e] = "exceptional" /\ events' = [events EXCEPT ![e] = Append(@, "error")]
  <2>1. Append(<<"start">>, "error") = <<"start", "error">>
    BY AppendToOne
  <2>2. events[e] \in Seq({"start", "complete", "error"})
    BY DEF EventType
  <2>3. Append(events[e], "error") \in Seq({"start", "complete", "error"})
    BY <2>2
  <2> QED BY <1>3, <2>1, <2>3 DEF EventType
<1> QED BY <1>1, <1>2, <1>3 DEF WriteOutcome, Settled

(* The callback writes the outcome when it is attached to a settled        *)
(* future, ...                                                             *)
LEMMA AttachIInv ==
    ASSUME IInv, NEW e \in Exchanges, Attach(e)
    PROVE  IInv'
<1> USE Parts DEF Attach
<1>1. UNCHANGED <<run, future, kind, wants, reply, raised, status, peer, closed,
                  activeAgents, documentStore>>
  BY DEF agentVars, serverVars, stores
<1>2. handler[e] = "attach" /\ kind[e] = "stream" /\ events[e] = <<"start">> /\ run[e] # "idle"
  BY DEF KindOf, Streamed, RunOf
<1>3. /\ EventType'
      /\ \A f \in Exchanges : f # e => events'[f] = events[f]
      /\ \/ events'[e] = <<"start">>
         \/ events'[e] = <<"start", "complete">> /\ future[e] = "done"
         \/ events'[e] = <<"start", "error">> /\ future[e] = "exceptional"
  <2>1. CASE Settled(e)
    BY <1>2, <2>1, OutcomeWritten DEF ResponseTypes
  <2>2. CASE ~Settled(e)
    BY <1>2, <2>2 DEF ResponseTypes, EventType
  <2> QED BY <2>1, <2>2
<1>4. ResponseTypes'
  BY <1>1, <1>3 DEF ResponseTypes, Handling
<1>5. Apart(e)
  BY <1>1, <1>3 DEF Apart, ResponseTypes
<1>6. /\ handler'[e] = "close"
      /\ callback'[e] \in {"waiting", "ran"}
      /\ callback'[e] = "waiting" => events'[e] = <<"start">>
  BY <1>2 DEF ResponseTypes
<1>7. KindOf(e)' /\ RunOf(e)' /\ Truthful(e)'
  BY <1>1, <1>2, <1>6 DEF KindOf, RunOf, Truthful
<1>8. Listed(e)'
  BY <1>1, <1>2, <1>6 DEF Listed, Executing
<1>9. Streamed(e)'
  BY <1>1, <1>2, <1>3, <1>6, FourStreams DEF Streamed
<1> QED BY <1>1, <1>4, <1>5, <1>7, <1>8, <1>9, AgentsStay, OneMoves DEF Exchange

(* ... or when it waits, in the pool thread, wherever the handler is by    *)
(* then.                                                                   *)
LEMMA CallbackIInv ==
    ASSUME IInv, NEW e \in Exchanges, RunCallback(e)
    PROVE  IInv'
<1> USE Parts DEF RunCallback
<1>1. UNCHANGED <<run, future, kind, wants, handler, reply, raised, status, peer,
                  closed, activeAgents, documentStore>>
  BY DEF agentVars, serverVars, stores
<1>2. events[e] = <<"start">> /\ callback[e] = "waiting"
  BY DEF Streamed
<1>3. /\ EventType'
      /\ \A f \in Exchanges : f # e => events'[f] = events[f]
      /\ \/ events'[e] = <<"start">>
         \/ events'[e] = <<"start", "complete">> /\ future[e] = "done"
         \/ events'[e] = <<"start", "error">> /\ future[e] = "exceptional"
  BY <1>2, OutcomeWritten DEF ResponseTypes
<1>4. ResponseTypes'
  BY <1>1, <1>3 DEF ResponseTypes
<1>5. Apart(e)
  BY <1>1, <1>3 DEF Apart, ResponseTypes
<1>6. callback'[e] = "ran"
  BY DEF ResponseTypes
<1>7. /\ kind[e] = "stream"
      /\ handler[e] \notin {"none", "parse", "headers", "start", "execute", "attach"}
  BY <1>2 DEF Streamed
<1>8. KindOf(e)' /\ RunOf(e)' /\ Truthful(e)'
  BY <1>1, <1>6 DEF KindOf, RunOf, Truthful, Settled
<1>9. Listed(e)'
  BY <1>1, <1>2, <1>7 DEF Listed
<1>10. Streamed(e)'
  BY <1>1, <1>3, <1>6, <1>7, FourStreams DEF Streamed
<1> QED BY <1>1, <1>4, <1>5, <1>8, <1>9, <1>10, AgentsStay, OneMoves DEF Exchange

(* An answer that cannot be sent is replaced by an error answer, or leaves *)
(* the handler.                                                            *)
LEMMA SendFailsIInv ==
    ASSUME IInv, NEW e \in Exchanges, SendFails(e)
    PROVE  IInv'
<1> USE Parts DEF SendFails
<1>1. UNCHANGED <<agentVars, serverVars, activeAgents, documentStore>>
  BY DEF stores
<1>2. handler[e] \in {"send", "body"} /\ kind[e] # "stream"
  BY DEF KindOf
<1>3. kind[e] = "sync" => Settled(e) /\ e \in activeAgents
  BY <1>2 DEF RunOf, Listed
<1>4. CASE Reply(e, "500")
  BY <1>1, <1>2, <1>3, <1>4, ReplyIInv DEF ResponseTypes, Codes
<1>5. CASE ~(kind[e] \in {"sync", "import"} /\ reply[e] = "200")
  <2>1. UNCHANGED <<run, future, kind, wants, reply, status, peer, events, closed,
                    callback, activeAgents, documentStore>>
    BY <1>5 DEF agentVars, serverVars, stores
  <2>2. PICK h \in {"finally", "died", "wrap"} :
            /\ handler' = [handler EXCEPT ![e] = h]
            /\ h = "finally" <=> kind[e] = "sync"
    BY <1>5
  <2>3. ResponseTypes'
    BY <1>5, <2>1, <2>2 DEF ResponseTypes, EventType, Handling
  <2>4. Apart(e)
    BY <2>1, <2>2 DEF Apart, ResponseTypes
  <2>5. handler'[e] = h
    BY <2>2 DEF ResponseTypes
  <2>6. KindOf(e)' /\ RunOf(e)' /\ Truthful(e)'
    BY <1>3, <2>1, <2>2, <2>5 DEF KindOf, RunOf, Truthful, Settled
  <2>7. Listed(e)' /\ Streamed(e)'
    BY <1>2, <1>3, <2>1, <2>2, <2>5 DEF Listed, Streamed, Executing
  <2> QED BY <1>1, <2>3, <2>4, <2>6, <2>7, AgentsStay, OneMoves DEF Exchange
<1> QED BY <1>4, <1>5

-----------------------------------------------------------------------------
(* Every step of a handler thread preserves the invariant.                 *)
LEMMA HandlerIInv ==
    ASSUME IInv, NEW e \in Exchanges, HandlerStep(e)
    PROVE  IInv'
<1>1. CASE \/ RefuseExecute(e) \/ RefuseImport(e) \/ AnswerStatus(e) \/ AnswerPatch(e)
           \/ AnswerSystem(e) \/ AnswerUnknown(e) \/ AnswerOptions(e) \/ AnswerPage(e)
           \/ AnswerUpgrade(e)
  <2>1. PICK k \in {"refused", "other", "page"}, codes \in SUBSET Codes :
            Answer(e, k, codes) /\ (k = "refused" => "200" \notin codes)
    BY <1>1 DEF RefuseExecute, RefuseImport, AnswerStatus, AnswerPatch, AnswerSystem,
                AnswerUnknown, AnswerOptions, AnswerPage, AnswerUpgrade, Codes
  <2> QED BY <2>1, AnswerIInv
<1>2. CASE GetDocument(e) \/ ExportDocument(e)
  BY <1>2, LookupIInv DEF GetDocument, ExportDocument
<1>3. CASE ~\/ RefuseExecute(e) \/ RefuseImport(e) \/ AnswerStatus(e) \/ AnswerPatch(e)
            \/ AnswerSystem(e) \/ AnswerUnknown(e) \/ AnswerOptions(e) \/ AnswerPage(e)
            \/ AnswerUpgrade(e) \/ GetDocument(e) \/ ExportDocument(e)
  BY <1>3, ImportIInv, PutAgentIInv, CallExecuteIInv, JoinIInv, StreamHeadersIInv,
     StreamHeadersFailIInv, WriteStartIInv, WriteStartFailsIInv, AttachIInv,
     CloseStreamIInv, RemoveAgentIInv, SendHeadersIInv, SendBodyIInv, SendFailsIInv,
     WrapSendsIInv, WrapBodyIInv, WrapFailsIInv DEF HandlerStep
<1> QED BY <1>1, <1>2, <1>3

(* Every step of the gateway and of the runs preserves it.                 *)
LEMMA NextIInv == IInv /\ [Next]_vars => IInv'
<1> SUFFICES ASSUME IInv, [Next]_vars PROVE IInv'
  OBVIOUS
<1>1. CASE Next
  BY <1>1, ServerIInv, ReceiveIInv, HandlerIInv, CallbackIInv, RunIInv DEF Next
<1>2. CASE UNCHANGED vars
  <2>1. /\ UNCHANGED <<agentVars, kind, wants, handler, reply, raised, status, peer,
                       events, closed, callback, activeAgents, documentStore,
                       running, server>>
        /\ UNCHANGED <<run, future>>
    BY <1>2 DEF vars, agentVars, serverVars, response, stores
  <2>2. AgentState'
    BY <2>1, AgentsStay DEF IInv
  <2>3. TypeOK' /\ EventType'
    BY <2>1, <2>2 DEF IInv, TypeOK, AgentState, EventType
  <2>4. \A e \in Exchanges : Exchange(e)'
    BY <2>1, OthersKeep DEF IInv
  <2> QED BY <2>2, <2>3, <2>4 DEF IInv
<1> QED BY <1>1, <1>2

(* The gateway never leaves its inductive invariant.                       *)
THEOREM Invariance == Spec => []IInv
BY InitIInv, NextIInv, PTL DEF Spec

(* The exchanges, the runs and the two stores keep their types.            *)
THEOREM TypeCorrect == Spec => []TypeOK
BY Invariance, PTL DEF IInv

(* For any number of exchanges: an agent is listed in activeAgents only    *)
(* while its handler runs (but for the leak the property names), and the   *)
(* one of a request without "stream" for as long as its run lasts.         *)
THEOREM ActiveMatchesRuns == Spec => []ActiveAreTheRuns
<1>1. IInv => ActiveAreTheRuns
  <2> SUFFICES ASSUME IInv PROVE ActiveAreTheRuns
    OBVIOUS
  <2>1. ASSUME NEW e \in activeAgents
        PROVE  \/ handler[e] \in Executing
               \/ kind[e] = "stream" /\ events[e] = <<>> /\ status[e] # "200"
    BY Parts DEF IInv, TypeOK, Listed
  <2>2. ASSUME NEW e \in Exchanges, kind[e] = "sync", future[e] = "running"
        PROVE  e \in activeAgents
    <3>1. run[e] # "idle" /\ ~Settled(e)
      BY <2>2 DEF IInv, AgentState, RunState, Settled, Exchanges
    <3>2. handler[e] = "join"
      BY <2>2, <3>1, Parts DEF RunOf
    <3> QED BY <2>2, <3>2, Parts DEF Listed
  <2> QED BY <2>1, <2>2 DEF ActiveAreTheRuns
<1> QED BY <1>1, Invariance, PTL

(* For any number of exchanges: a 200 is only ever sent for a run that has *)
(* a result, a document that is stored, or a request that changes nothing. *)
THEOREM OkIsTrue == Spec => []OkMeansDone
<1>1. IInv => OkMeansDone
  BY DEF IInv, Exchange, Truthful, OkMeansDone
<1> QED BY <1>1, Invariance, PTL

(* For any number of exchanges: an event stream is a start and at most one *)
(* outcome, the one the run had, whichever thread writes it.               *)
THEOREM StreamsAreWellFormed == Spec => []StreamIsWellFormed
<1>1. IInv => StreamIsWellFormed
  BY DEF IInv, Exchange, Streamed, StreamIsWellFormed
<1> QED BY <1>1, Invariance, PTL
=============================================================================
