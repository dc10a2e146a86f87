-------------------------- MODULE RuntimeLifecycle --------------------------
(***************************************************************************)
(* The life of the process: Main brings the RuntimeContext up, starts the  *)
(* workers, registers the shutdown hook and launches the desktop or the    *)
(* headless mode; the desktop's application thread (DesktopApp.init, stop) *)
(* and the hook's thread (RuntimeBootstrap.shutdown) both shut the one     *)
(* RuntimeContext down.  LifecycleManager.transitionTo is a read, a test   *)
(* and a write: the actions Read and Write keep them apart, because        *)
(* another thread's write can come between.                                *)
(***************************************************************************)
CONSTANTS
    Modes,         \* Main's --mode: "desktop", "headless"
    Workers,       \* the worker types the configuration enables
    None           \* no value read yet

ASSUME RuntimeAssumption ==
    /\ Modes \subseteq {"desktop", "headless"}
    /\ None \notin {"CREATED", "INITIALIZING", "INITIALIZED", "RUNNING",
                    "PAUSED", "SHUTTING_DOWN", "TERMINATED"}

VARIABLES
    mode,          \* the mode of this process
    state,         \* LifecycleManager.currentState
    published,     \* RuntimeContext.instance # null
    initialized,   \* RuntimeContext.initialized
    pool,          \* VirtualThreadPool.executor: "null", "running", "shutdown"
    scheduling,    \* TaskScheduler.running
    processes,     \* WorkerManager.workerProcesses
    connections,   \* WorkerManager.connections
    gateway,       \* ApiGateway.running
    hooked,        \* is the shutdown hook registered?
    pc,            \* where each thread is
    read           \* what transitionTo has read in each thread, or None

vars == <<mode, state, published, initialized, pool, scheduling, processes,
          connections, gateway, hooked, pc, read>>

workerMaps == <<processes, connections>>

Threads == {"main", "fx", "hook"}

States == {"CREATED", "INITIALIZING", "INITIALIZED", "RUNNING", "PAUSED",
           "SHUTTING_DOWN", "TERMINATED"}

Places == {"idle", "publish", "initializing", "startPool", "startScheduler",
           "initialized", "setFlag", "startWorkers", "addHook", "launch",
           "launched", "serve", "init", "window", "checkFlag", "stopWorkers",
           "down", "stopScheduler", "stopPool", "terminate", "clearFlag",
           "end", "threw", "killed"}

-----------------------------------------------------------------------------
(* LifecycleManager.isValidTransition.                                     *)
isValidTransition(from, to) ==
    \/ from = to
    \/ from = "CREATED" /\ to = "INITIALIZING"
    \/ from = "INITIALIZING" /\ to \in {"INITIALIZED", "SHUTTING_DOWN"}
    \/ from = "INITIALIZED" /\ to \in {"RUNNING", "SHUTTING_DOWN"}
    \/ from = "RUNNING" /\ to \in {"PAUSED", "SHUTTING_DOWN"}
    \/ from = "PAUSED" /\ to \in {"RUNNING", "SHUTTING_DOWN"}
    \/ from = "SHUTTING_DOWN" /\ to = "TERMINATED"

(* The calls of transitionTo, by the place they are made from, with the    *)
(* place that follows.                                                     *)
Target == [initializing |-> "INITIALIZING", initialized |-> "INITIALIZED",
           down |-> "SHUTTING_DOWN", terminate |-> "TERMINATED"]

\* Seeded fault: shutdown announces TERMINATED before it stops anything.
Following_TerminateFirst ==
    [initializing |-> "startPool", initialized |-> "setFlag",
     down |-> "terminate", terminate |-> "stopScheduler"]

Following == [initializing |-> "startPool", initialized |-> "setFlag",
              down |-> "stopScheduler", terminate |-> "clearFlag"]

Init ==
    /\ mode \in Modes
    /\ state = "CREATED"
    /\ published = FALSE
    /\ initialized = FALSE
    /\ pool = "null"
    /\ scheduling = FALSE
    /\ processes = {}
    /\ connections = {}
    /\ gateway = FALSE
    /\ hooked = FALSE
    /\ pc = [t \in Threads |-> IF t = "main" THEN "publish" ELSE "idle"]
    /\ read = [t \in Threads |-> None]

(* The virtual machine runs until the hook has ended (or until a signal    *)
(* finds no hook): then no thread takes another step.                      *)
Halted == pc["hook"] \in {"end", "threw", "killed"}

At(t, place) == ~Halted /\ pc[t] = place
Go(t, from, to) == At(t, from) /\ pc' = [pc EXCEPT ![t] = to]

-----------------------------------------------------------------------------
(* LifecycleManager.transitionTo, called by thread t: get and test ...     *)
Read(t) ==
    \E place \in DOMAIN Target :
        /\ At(t, place)
        /\ read[t] = None
        /\ IF isValidTransition(state, Target[place])
           THEN read' = [read EXCEPT ![t] = state] /\ pc' = pc
           ELSE read' = read /\ pc' = [pc EXCEPT ![t] = "threw"]
        /\ UNCHANGED <<mode, state, published, initialized, pool, scheduling,
                       workerMaps, gateway, hooked>>

(* ... and set.                                                            *)
Write(t) ==
    \E place \in DOMAIN Target :
        /\ Go(t, place, Following[place])
        /\ read[t] # None
        /\ state' = Target[place]
        /\ read' = [read EXCEPT ![t] = None]
        /\ UNCHANGED <<mode, published, initialized, pool, scheduling, workerMaps,
                       gateway, hooked>>

-----------------------------------------------------------------------------
\* Seeded fault: the hook is registered before the context is initialized.
Publish_HookFirst ==
    /\ Go("main", "publish", "initializing")
    /\ published' = TRUE
    /\ hooked' = TRUE
    /\ UNCHANGED <<mode, state, initialized, pool, scheduling, workerMaps,
                   gateway, read>>

(* Main.main: RuntimeBootstrap.bootstrap calls RuntimeContext.initialize,  *)
(* which publishes the instance and only then calls doInitialize.          *)
Publish ==
    /\ Go("main", "publish", "initializing")
    /\ published' = TRUE
    /\ UNCHANGED <<mode, state, initialized, pool, scheduling, workerMaps, gateway,
                   hooked, read>>

StartPool ==
    /\ Go("main", "startPool", "startScheduler")
    /\ pool' = "running"
    /\ UNCHANGED <<mode, state, published, initialized, scheduling, workerMaps,
                   gateway, hooked, read>>

StartScheduler ==
    /\ Go("main", "startScheduler", "initialized")
    /\ scheduling' = TRUE
    /\ UNCHANGED <<mode, state, published, initialized, pool, workerMaps, gateway,
                   hooked, read>>

SetFlag ==
    /\ Go("main", "setFlag", "startWorkers")
    /\ initialized' = TRUE
    /\ UNCHANGED <<mode, state, published, pool, scheduling, workerMaps, gateway,
                   hooked, read>>

(* WorkerManager.startWorker: the process is started and recorded, and     *)
(* then connected to, or not.                                              *)
startWorker(w, up) ==
    /\ processes' = processes \cup {w}
    /\ connections' = IF up THEN connections \cup {w} ELSE connections

(* RuntimeBootstrap.startWorkers, one try around all of them: the first    *)
(* that fails, with its process running (here) or not (WorkersStarted),    *)
(* ends the loop.                                                          *)
StartWorker(w) ==
    /\ w \notin processes
    /\ \E up \in BOOLEAN :
          /\ Go("main", "startWorkers", IF up THEN "startWorkers" ELSE "addHook")
          /\ startWorker(w, up)
    /\ UNCHANGED <<mode, state, published, initialized, pool, scheduling, gateway,
                   hooked, read>>

WorkersStarted ==
    /\ Go("main", "startWorkers", "addHook")
    /\ UNCHANGED <<mode, state, published, initialized, pool, scheduling, workerMaps,
                   gateway, hooked, read>>

AddHook ==
    /\ Go("main", "addHook", "launch")
    /\ hooked' = TRUE
    /\ UNCHANGED <<mode, state, published, initialized, pool, scheduling, workerMaps,
                   gateway, read>>

(* launchHeadless: the gateway starts and main waits for ever, or the port *)
(* is taken and System.exit(1) runs the hook.                              *)
LaunchHeadless ==
    /\ mode = "headless"
    /\ \E up \in BOOLEAN :
          /\ Go("main", "launch", IF up THEN "serve" ELSE "end")
          /\ gateway' = up
    /\ UNCHANGED <<mode, state, published, initialized, pool, scheduling, workerMaps,
                   hooked, read>>

(* launchDesktop: main waits in Application.launch until the application   *)
(* thread has ended.                                                       *)
LaunchDesktop ==
    /\ mode = "desktop"
    /\ At("main", "launch")
    /\ pc' = [pc EXCEPT !["main"] = "launched", !["fx"] = "init"]
    /\ UNCHANGED <<mode, state, published, initialized, pool, scheduling, workerMaps,
                   gateway, hooked, read>>

MainReturns ==
    /\ Go("main", "launched", "end")
    /\ pc["fx"] \in {"end", "threw"}
    /\ UNCHANGED <<mode, state, published, initialized, pool, scheduling, workerMaps,
                   gateway, hooked, read>>

-----------------------------------------------------------------------------
(* DesktopApp.init: initialize() finds the instance published and returns  *)
(* it, so its test changes nothing; then the gateway starts, or its port   *)
(* is taken and init raises (JavaFX then never calls stop).                *)
FxInit ==
    /\ \E up \in BOOLEAN :
          /\ Go("fx", "init", IF up THEN "window" ELSE "threw")
          /\ gateway' = up
    /\ published
    /\ UNCHANGED <<mode, state, published, initialized, pool, scheduling, workerMaps,
                   hooked, read>>

(* The window is closed: DesktopApp.stop.                                  *)
FxStopGateway ==
    /\ Go("fx", "window", "checkFlag")
    /\ gateway' = FALSE
    /\ UNCHANGED <<mode, state, published, initialized, pool, scheduling, workerMaps,
                   hooked, read>>

FxCheckFlag ==
    /\ Go("fx", "checkFlag", IF published /\ initialized THEN "down" ELSE "end")
    /\ UNCHANGED <<mode, state, published, initialized, pool, scheduling, workerMaps,
                   gateway, hooked, read>>

-----------------------------------------------------------------------------
(* The virtual machine runs its hooks: on a signal, on System.exit, or     *)
(* when main and the application thread are done.  A signal that comes     *)
(* before the hook is registered just ends the process.                    *)
Exit ==
    /\ Go("hook", "idle", IF hooked THEN "stopWorkers" ELSE "killed")
    /\ UNCHANGED <<mode, state, published, initialized, pool, scheduling, workerMaps,
                   gateway, hooked, read>>

\* Seeded fault: only the workers with a connection are stopped.
stopAll_Connected ==
    /\ processes' = processes \ connections
    /\ connections' = {}

(* WorkerManager.stopAll: every worker is disconnected and its process     *)
(* destroyed, the ones that never connected too.                           *)
stopAll == processes' = {} /\ connections' = {}

(* RuntimeBootstrap.shutdown: stopAll, then RuntimeContext.shutdown.       *)
StopWorkers ==
    /\ Go("hook", "stopWorkers", "down")
    /\ stopAll
    /\ UNCHANGED <<mode, state, published, initialized, pool, scheduling, gateway,
                   hooked, read>>

-----------------------------------------------------------------------------
\* Seeded fault: the scheduler waits for the end of the life cycle.
StopScheduler_AwaitsTermination(t) ==
    /\ Go(t, "stopScheduler", "stopPool")
    /\ state = "TERMINATED"
    /\ scheduling' = FALSE
    /\ UNCHANGED <<mode, state, published, initialized, pool, workerMaps, gateway,
                   hooked, read>>

(* RuntimeContext.shutdown, in the thread fx or hook, between and after    *)
(* its two calls of transitionTo.                                          *)
StopScheduler(t) ==
    /\ Go(t, "stopScheduler", "stopPool")
    /\ scheduling' = FALSE
    /\ UNCHANGED <<mode, state, published, initialized, pool, workerMaps, gateway,
                   hooked, read>>

StopPool(t) ==
    /\ Go(t, "stopPool", "terminate")
    /\ pool' = "shutdown"
    /\ UNCHANGED <<mode, state, published, initialized, scheduling, workerMaps,
                   gateway, hooked, read>>

ClearFlag(t) ==
    /\ Go(t, "clearFlag", "end")
    /\ initialized' = FALSE
    /\ UNCHANGED <<mode, state, published, pool, scheduling, workerMaps, gateway,
                   hooked, read>>

-----------------------------------------------------------------------------
MainStep ==
    \/ Publish \/ StartPool \/ StartScheduler \/ SetFlag
    \/ \E w \in Workers : StartWorker(w)
    \/ WorkersStarted \/ AddHook \/ LaunchHeadless \/ LaunchDesktop
    \/ MainReturns

FxStep == FxInit \/ FxStopGateway \/ FxCheckFlag

Step(t) ==
    Read(t) \/ Write(t) \/ StopScheduler(t) \/ StopPool(t) \/ ClearFlag(t)

Next ==
    \/ MainStep
    \/ FxStep
    \/ Exit \/ StopWorkers
    \/ \E t \in Threads : Step(t)

(* Threads that can run do run; a hook that was triggered ends.  Neither a *)
(* signal nor the closing of the window has to come.                       *)
Fairness ==
    /\ WF_vars(StopWorkers \/ Step("hook"))
    /\ WF_vars(MainStep \/ Step("main"))
    /\ WF_vars(Exit /\ pc["main"] = "end")

Spec == Init /\ [][Next]_vars /\ Fairness

-----------------------------------------------------------------------------
TypeOK ==
    /\ mode \in Modes
    /\ state \in States
    /\ published \in BOOLEAN
    /\ initialized \in BOOLEAN
    /\ pool \in {"null", "running", "shutdown"}
    /\ scheduling \in BOOLEAN
    /\ processes \subseteq Workers
    /\ connections \subseteq processes
    /\ gateway \in BOOLEAN
    /\ hooked \in BOOLEAN
    /\ pc \in [Threads -> Places]
    /\ read \in [Threads -> States \cup {None}]

(* What transitionTo promises when it raises "Invalid state transition":   *)
(* the state moves only along the transitions isValidTransition allows.    *)
ValidTransitions == [][isValidTransition(state, state')]_state

(* What is true of it: the only invalid move is TERMINATED to              *)
(* SHUTTING_DOWN, and only in the desktop mode, where a second thread      *)
(* shuts the context down between another thread's test and its write.     *)
ValidButForTheRace ==
    [][\/ isValidTransition(state, state')
       \/ mode = "desktop" /\ state = "TERMINATED" /\ state' = "SHUTTING_DOWN"]_state

(* TERMINATED is only ever announced over a stopped scheduler and a pool   *)
(* that has been shut down, whichever of the two shutdowns announces it    *)
(* and however they interleave.                                            *)
TerminatedIsStopped == state = "TERMINATED" => pool = "shutdown" /\ ~scheduling

(* A process that leaves through its hook leaves nothing behind: no worker *)
(* process or connection, no scheduler, no pool, even when the hook's      *)
(* shutdown raised because the application thread was first.               *)
ExitIsClean ==
    pc["hook"] \in {"end", "threw"} =>
        processes = {} /\ connections = {} /\ pool = "shutdown" /\ ~scheduling

(* A hook that was triggered ends, whatever the application thread does.   *)
ExitCompletes == pc["hook"] = "stopWorkers" ~> pc["hook"] \in {"end", "threw"}
=============================================================================
