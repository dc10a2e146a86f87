----------------------- MODULE RuntimeLifecycleProofs -----------------------
(***************************************************************************)
(* RuntimeLifecycle for any set of workers and both modes: TERMINATED is   *)
(* announced over a stopped runtime, the hook leaves nothing behind, and   *)
(* the life cycle has one invalid move.  DesktopProcess for any number of  *)
(* jobs: the window takes nothing away from that, and its status bar comes *)
(* to rest.                                                                *)
(***************************************************************************)
EXTENDS DesktopProcess, TLAPS

\* Where RuntimeContext.shutdown has set SHUTTING_DOWN, and what follows it.
Stopping == {"stopScheduler", "stopPool", "terminate", "clearFlag"}

(* main has registered the hook; before that it is the only thread.        *)
Late == {"launch", "launched", "serve", "end"}

\* Each thread stays in its own part of the program.
ThreadPlaces ==
    /\ pc["main"] \in {"publish", "initializing", "startPool", "startScheduler",
                       "initialized", "setFlag", "startWorkers", "addHook"} \cup Late
    /\ pc["fx"] \in {"idle", "init", "window", "checkFlag", "down", "end", "threw"}
                    \cup Stopping
    /\ pc["hook"] \in {"idle", "stopWorkers", "down", "end", "threw", "killed"}
                      \cup Stopping

\* The other threads come after main's start-up, the application thread only
\* in the desktop mode.
StartOrder ==
    /\ hooked <=> pc["main"] \in Late
    /\ pc["fx"] # "idle" => pc["main"] \in {"launched", "end"} /\ mode = "desktop"
    /\ pc["hook"] \notin {"idle", "killed"} => hooked

\* transitionTo is left with the value it has read forgotten.
ReadState == \A t \in Threads : read[t] # None => pc[t] \in DOMAIN Target

(* What main's start-up makes of the state; afterwards it only goes down.  *)
StartState ==
    /\ pc["main"] \in {"publish", "initializing"} => state = "CREATED"
    /\ pc["main"] \in {"startPool", "startScheduler", "initialized"} =>
          state = "INITIALIZING"
    /\ pc["main"] \in {"setFlag", "startWorkers", "addHook"} => state = "INITIALIZED"
    /\ pc["main"] \in Late => state \in {"INITIALIZED", "SHUTTING_DOWN", "TERMINATED"}

(* What either shutdown has done by the place where it is.                 *)
StopState ==
    \A t \in {"fx", "hook"} :
        /\ pc[t] \in Stopping => state \in {"SHUTTING_DOWN", "TERMINATED"}
        /\ pc[t] \in {"stopPool", "terminate", "clearFlag"} => ~scheduling
        /\ pc[t] \in {"terminate", "clearFlag"} => pool = "shutdown"

\* The hook has stopped the workers before it calls shutdown.
WorkerState ==
    pc["hook"] \in {"down", "end", "threw"} \cup Stopping =>
        processes = {} /\ connections = {}

\* Without the application thread, only the hook's own shutdown terminates.
AloneState ==
    pc["fx"] = "idle" /\ state = "TERMINATED" => pc["hook"] \in {"clearFlag", "end", "threw"}

IInv ==
    /\ TypeOK
    /\ TerminatedIsStopped
    /\ ExitIsClean
    /\ ThreadPlaces
    /\ StartOrder
    /\ ReadState
    /\ StartState
    /\ StopState
    /\ WorkerState
    /\ AloneState

USE RuntimeAssumption DEF RuntimeAssumption

(* main is about to publish, the other threads have not begun.             *)
LEMMA InitIInv == Init => IInv
<1> SUFFICES ASSUME Init PROVE IInv
  OBVIOUS
<1>1. pc["main"] = "publish" /\ pc["fx"] = "idle" /\ pc["hook"] = "idle"
  BY DEF Init, Threads
<1>2. TypeOK
  <2>1. pc \in [Threads -> Places]
    BY DEF Init, Places
  <2>2. read \in [Threads -> States \cup {None}]
    BY DEF Init
  <2> QED BY <2>1, <2>2 DEF Init, TypeOK, States
<1>3. TerminatedIsStopped /\ ExitIsClean /\ ThreadPlaces /\ StartOrder
  BY <1>1 DEF Init, TerminatedIsStopped, ExitIsClean, ThreadPlaces, StartOrder, Late
<1>4. ReadState /\ StartState /\ StopState /\ WorkerState /\ AloneState
  BY <1>1 DEF Init, ReadState, StartState, StopState, WorkerState, AloneState,
              Late, Stopping
<1> QED BY <1>2, <1>3, <1>4 DEF IInv

(* Every step of the three threads preserves the inductive invariant.      *)
LEMMA NextIInv == IInv /\ [Next]_vars => IInv'
<1> SUFFICES ASSUME IInv, [Next]_vars PROVE IInv'
  OBVIOUS
<1> USE DEF IInv, TypeOK, TerminatedIsStopped, ExitIsClean, ThreadPlaces,
            StartOrder, ReadState, StartState, StopState, WorkerState,
            AloneState, Threads, Places, States, Late, Stopping, Target,
            workerMaps, Go, At, Halted
<1>1. CASE MainStep
  <2>1. CASE Publish
    BY <2>1 DEF Publish
  <2>2. CASE StartPool
    BY <2>2 DEF StartPool
  <2>3. CASE StartScheduler
    BY <2>3 DEF StartScheduler
  <2>4. CASE SetFlag
    BY <2>4 DEF SetFlag
  <2>5. CASE WorkersStarted
    BY <2>5 DEF WorkersStarted
  <2>6. CASE AddHook
    BY <2>6 DEF AddHook
  <2>7. CASE LaunchHeadless
    BY <2>7 DEF LaunchHeadless
  <2>8. CASE LaunchDesktop
    BY <2>8 DEF LaunchDesktop
  <2>9. CASE MainReturns
    BY <2>9 DEF MainReturns
  <2>10. ASSUME NEW w \in Workers, StartWorker(w) PROVE IInv'
    BY <2>10 DEF StartWorker, startWorker
  <2> QED
    BY <1>1, <2>1, <2>2, <2>3, <2>4, <2>5, <2>6, <2>7, <2>8, <2>9, <2>10 DEF MainStep
<1>2. CASE FxStep
  <2>1. CASE FxInit
    BY <2>1 DEF FxInit
  <2>2. CASE FxStopGateway
    <3>1. TypeOK'
      BY <2>2 DEF FxStopGateway
    <3>2. (ThreadPlaces /\ StartOrder /\ ReadState /\ StartState)'
      BY <2>2 DEF FxStopGateway
    <3>3. (TerminatedIsStopped /\ ExitIsClean /\ StopState)'
      BY <2>2 DEF FxStopGateway
    <3>4. (WorkerState /\ AloneState)'
      BY <2>2 DEF FxStopGateway
    <3> QED BY <3>1, <3>2, <3>3, <3>4
  <2>3. CASE FxCheckFlag
    BY <2>3 DEF FxCheckFlag
  <2> QED BY <1>2, <2>1, <2>2, <2>3 DEF FxStep
<1>3. CASE Exit
  BY <1>3 DEF Exit
<1>4. CASE StopWorkers
  BY <1>4 DEF StopWorkers, stopAll
<1>5. ASSUME NEW t \in Threads, Step(t) PROVE IInv'
  <2>1. CASE Read(t)
    BY <2>1 DEF Read, isValidTransition
  <2>2. CASE Write(t)
    BY <2>2 DEF Write, Following
  <2>3. CASE StopScheduler(t)
    <3>1. TypeOK'
      BY <2>3 DEF StopScheduler
    <3>2. (ThreadPlaces /\ StartOrder /\ ReadState /\ StartState)'
      BY <2>3 DEF StopScheduler
    <3>3. (TerminatedIsStopped /\ ExitIsClean /\ StopState)'
      BY <2>3 DEF StopScheduler
    <3>4. (WorkerState /\ AloneState)'
      BY <2>3 DEF StopScheduler
    <3> QED BY <3>1, <3>2, <3>3, <3>4
  <2>4. CASE StopPool(t)
    BY <2>4 DEF StopPool
  <2>5. CASE ClearFlag(t)
    <3>1. TypeOK'
      BY <2>5 DEF ClearFlag
    <3>2. (ThreadPlaces /\ StartOrder /\ ReadState /\ StartState)'
      BY <2>5 DEF ClearFlag
    <3>3. (TerminatedIsStopped /\ ExitIsClean /\ StopState)'
      BY <2>5 DEF ClearFlag
    <3>4. (WorkerState /\ AloneState)'
      BY <2>5 DEF ClearFlag
    <3> QED BY <3>1, <3>2, <3>3, <3>4
  <2> QED BY <1>5, <2>1, <2>2, <2>3, <2>4, <2>5 DEF Step
<1>6. CASE UNCHANGED vars
  BY <1>6 DEF vars
<1> QED BY <1>1, <1>2, <1>3, <1>4, <1>5, <1>6 DEF Next

(* The inductive invariant holds always.                                   *)
THEOREM Invariance == Spec => []IInv
BY InitIInv, NextIInv, PTL DEF Spec

(* The state of the runtime keeps its types, and a worker that is          *)
(* connected has a process.                                                *)
THEOREM TypeCorrect == Spec => []TypeOK
<1>1. IInv => TypeOK
  BY DEF IInv
<1> QED BY <1>1, Invariance, PTL

(* TERMINATED is announced only over a stopped scheduler and pool, however *)
(* the two calls of RuntimeContext.shutdown interleave.                    *)
THEOREM TerminationIsTrue == Spec => []TerminatedIsStopped
<1>1. IInv => TerminatedIsStopped
  BY DEF IInv
<1> QED BY <1>1, Invariance, PTL

(* Whatever workers there are and however their start failed, a process    *)
(* that leaves through its shutdown hook leaves nothing behind.            *)
THEOREM HookLeavesNothing == Spec => []ExitIsClean
<1>1. IInv => ExitIsClean
  BY DEF IInv
<1> QED BY <1>1, Invariance, PTL

(* The one invalid move of transitionTo is TERMINATED to SHUTTING_DOWN, in *)
(* the desktop mode.                                                       *)
THEOREM OneInvalidMove == Spec => ValidButForTheRace
<1> DEFINE Move == \/ isValidTransition(state, state')
                   \/ /\ mode = "desktop"
                      /\ state = "TERMINATED"
                      /\ state' = "SHUTTING_DOWN"
<1>1. IInv /\ [Next]_vars => [Move]_state
  <2> SUFFICES ASSUME IInv, [Next]_vars, state' # state PROVE Move
    OBVIOUS
  <2>1. PICK t \in Threads : Write(t)
    BY DEF Next, vars, MainStep, Publish, StartPool, StartScheduler, SetFlag,
           StartWorker, WorkersStarted, AddHook, LaunchHeadless, LaunchDesktop,
           MainReturns, FxStep, FxInit, FxStopGateway, FxCheckFlag, Exit,
           StopWorkers, Step, Read, StopScheduler, StopPool, ClearFlag
  <2>2. PICK place \in DOMAIN Target :
            pc[t] = place /\ ~Halted /\ state' = Target[place]
    BY <2>1 DEF Write, Go, At
  <2>3. CASE t = "main"
    BY <2>2, <2>3 DEF IInv, ThreadPlaces, StartState, Target, Late, isValidTransition
  <2>4. CASE t \in {"fx", "hook"}
    BY <2>2, <2>4 DEF IInv, TypeOK, ThreadPlaces, StartOrder, StartState, StopState,
        AloneState, Target, Late, Stopping, isValidTransition
  <2> QED BY <2>3, <2>4 DEF Threads
<1> QED BY <1>1, Invariance, PTL DEF Spec, ValidButForTheRace

-----------------------------------------------------------------------------
(* The process.  A step of the window or of a job is a stutter of the life *)
(* cycle.                                                                  *)
LEMMA ProcessStutters == [ProcessNext]_processVars => [Next]_vars
BY DEF ProcessNext, processVars, WindowStep, JobStep

(* The process of the desktop application, with its window and its jobs,   *)
(* keeps what its life cycle promises: whatever the user does meanwhile,   *)
(* TERMINATED is announced over a stopped runtime and the hook leaves      *)
(* nothing behind.                                                         *)
THEOREM ProcessKeepsPromises == ProcessSpec => [](TerminatedIsStopped /\ ExitIsClean)
<1>1. ProcessInit => IInv
  BY InitIInv DEF ProcessInit
<1>2. IInv /\ [ProcessNext]_processVars => IInv'
  BY NextIInv, ProcessStutters
<1>3. IInv => TerminatedIsStopped /\ ExitIsClean
  BY DEF IInv
<1> QED BY <1>1, <1>2, <1>3, PTL DEF ProcessSpec

(* The places of the jobs' threads, and the runnables they have handed to  *)
(* the application thread.                                                 *)
LaterState ==
    /\ job \in [Client!Jobs -> {"none", "running", "stored", "posted", "dead"}]
    /\ later \in Seq(Client!Jobs)

Busy == {"Processing", "Importing"}

\* The job has not said its last word yet, or died without it.
Unsaid(j) ==
    \/ job[j] \in {"running", "stored", "dead"}
    \/ \E i \in 1 .. Len(later) : later[i] = j

(* The job the status bar shows as busy has not had its last word.         *)
StatusState ==
    statusLabel[1] \in Busy => statusLabel[2] \in Client!Jobs /\ Unsaid(statusLabel[2])

(* Appending to later keeps what is in it.                                 *)
LEMMA LaterGrows ==
    ASSUME LaterState, NEW j \in Client!Jobs, later' = Append(later, j)
    PROVE  /\ later' \in Seq(Client!Jobs)
           /\ \E i \in 1 .. Len(later') : later'[i] = j
           /\ \A k : (\E i \in 1 .. Len(later) : later[i] = k)
                        => \E i \in 1 .. Len(later') : later'[i] = k
<1>1. later \in Seq(Client!Jobs)
  BY DEF LaterState
<1>2. PICK n \in Nat : n = Len(later)
  BY <1>1
<1>3. /\ later' \in Seq(Client!Jobs) /\ Len(later') = n + 1 /\ later'[n + 1] = j
      /\ \A i \in 1 .. n : i \in 1 .. n + 1 /\ later'[i] = later[i]
  BY <1>1, <1>2
<1>4. n + 1 \in 1 .. Len(later')
  BY <1>3
<1> QED BY <1>2, <1>3, <1>4

(* A job's step: it hands its last word over, or goes on, or dies.         *)
LEMMA JobStepStatus ==
    ASSUME LaterState, StatusState, NEW j \in Client!Jobs, Client!JobStep(j)
    PROVE  LaterState' /\ StatusState'
<1>1. /\ statusLabel' = statusLabel
      /\ \E to \in {"stored", "posted", "dead"} :
            /\ job' = [job EXCEPT ![j] = to]
            /\ later' = IF to = "posted" THEN Append(later, j) ELSE later
  BY DEF Client!JobStep, Client!TaskEnds, Client!StoreDocument, Client!PostImported,
         Client!ImportFails, Client!ImportDies, Client!Go, Client!window
<1>2. PICK to \in {"stored", "posted", "dead"} :
         /\ job' = [job EXCEPT ![j] = to]
         /\ later' = IF to = "posted" THEN Append(later, j) ELSE later
  BY <1>1
<1>3. LaterState'
  BY <1>2, LaterGrows DEF LaterState
<1>4. \A k \in Client!Jobs : Unsaid(k) => Unsaid(k)'
  <2> TAKE k \in Client!Jobs
  <2>1. CASE to = "posted"
    BY <1>2, <2>1, LaterGrows DEF Unsaid, LaterState
  <2>2. CASE to # "posted"
    BY <1>2, <2>2 DEF Unsaid, LaterState
  <2> QED BY <2>1, <2>2
<1> QED BY <1>1, <1>3, <1>4 DEF StatusState

(* The application thread's step: the status bar shows a job that has just *)
(* begun, or one that has said its last word, or what it did before.       *)
LEMMA WindowStepStatus ==
    ASSUME LaterState, StatusState, Client!UserStep \/ Client!RunLater
    PROVE  LaterState' /\ StatusState'
<1>1. ASSUME NEW j \in Client!Jobs, Client!HandleSend(j) \/ Client!ImportFile(j)
      PROVE  LaterState' /\ StatusState'
  <2>1. /\ job' = [job EXCEPT ![j] = "running"] /\ later' = later
        /\ statusLabel'[2] = j
    BY <1>1 DEF Client!HandleSend, Client!ImportFile, Client!Go
  <2> QED BY <2>1 DEF LaterState, StatusState, Unsaid
<1>2. ASSUME NEW j \in Client!Jobs, Client!ShowDocumentDetail(j)
      PROVE  LaterState' /\ StatusState'
  BY <1>2 DEF Client!ShowDocumentDetail, LaterState, StatusState, Unsaid
<1>3. CASE Client!RunLater
  <2>1. job' = job /\ later' = Tail(later) /\ later # << >>
    BY <1>3 DEF Client!RunLater
  <2>2. statusLabel'[1] \in {"Failed", "Completed", "Imported"}
    BY <1>3 DEF Client!RunLater, Client!RunLaterTask, Client!RunLaterImportFailed,
                Client!RunLaterImported
  <2> QED BY <2>1, <2>2 DEF LaterState, StatusState, Busy
<1> QED BY <1>1, <1>2, <1>3 DEF Client!UserStep, Client!Jobs

(* For any number of goals and imports, and wherever the window is closed: *)
(* the status bar of MainController does not claim that something is going *)
(* on when nothing is, but for an import whose thread an Error has ended.  *)
(* Overlapping jobs overwrite each other's status; the last word of each   *)
(* comes after its first one, so the job shown as busy has its last word   *)
(* still to come.                                                          *)
THEOREM StatusComesToRest == ProcessSpec => []QuietStatus
<1> DEFINE Inv == LaterState /\ StatusState
<1>1. ProcessInit => Inv
  BY DEF ProcessInit, Client!ClientInit, LaterState, StatusState, Busy
<1>2. Inv /\ [ProcessNext]_processVars => Inv'
  <2> SUFFICES ASSUME Inv, [ProcessNext]_processVars PROVE Inv'
    OBVIOUS
  <2>1. CASE UNCHANGED client
    BY <2>1 DEF client, LaterState, StatusState, Unsaid
  <2>2. CASE WindowStep
    BY <2>2, WindowStepStatus DEF WindowStep
  <2>3. ASSUME NEW j \in Client!Jobs, JobStep(j) PROVE Inv'
    BY <2>3, JobStepStatus DEF JobStep
  <2> QED BY <2>1, <2>2, <2>3 DEF ProcessNext, processVars
<1>3. Inv => QuietStatus
  BY DEF LaterState, StatusState, Unsaid, Busy, QuietStatus, Client!QuietStatus
<1> QED BY <1>1, <1>2, <1>3, PTL DEF ProcessSpec
=============================================================================
