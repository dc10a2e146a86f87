---------------------------- MODULE TaskScheduler ----------------------------
(***************************************************************************)
(* runtime-core's TaskScheduler over its VirtualThreadPool: clients that   *)
(* schedule runnables and callables, clients that cancel, the pool's       *)
(* worker, and the thread that shuts the RuntimeContext down.  A step is   *)
(* what one thread does between two accesses to shared state.              *)
(*                                                                         *)
(* External: java.util.concurrent.ThreadPoolExecutor as VirtualThreadPool  *)
(* builds it, with no core thread, an unbounded queue and no bound on      *)
(* threads.  Such an executor starts a thread only when it has none, so    *)
(* one worker takes the queue in order.                                    *)
(***************************************************************************)
EXTENDS Naturals, Sequences

CONSTANTS
    Runnables,   \* tasks given to schedule
    Callables,   \* tasks given to scheduleCallable
    None         \* no task

Tasks == Runnables \cup Callables

ASSUME TaskAssumption == Runnables \cap Callables = {} /\ None \notin Tasks

VARIABLES
    tasks,         \* the keys of TaskScheduler.tasks
    priorityQueue, \* TaskScheduler.priorityQueue, which nobody polls
    running,       \* TaskScheduler.running, which nobody reads
    status,        \* ScheduledTask.status
    cancelled,     \* ScheduledTask.cancelled
    future,        \* the future scheduleCallable returns
    queue,         \* the executor's queue
    pool,          \* the executor: "running", "shutdown", "stopped"
    worker,        \* the task in executeTask, or None
    at,            \* where executeTask is
    result,        \* how its runnable ended
    spc,           \* where the schedule call of each task is
    cpc,           \* where the cancelTask call for each task is
    stop,          \* where RuntimeContext.shutdown is
    lost           \* history: tasks dropped by shutdownNow or ended by an Error

exec == <<worker, at, result>>
vars == <<tasks, priorityQueue, running, status, cancelled, future, queue,
          pool, exec, spc, cpc, stop, lost>>

TypeOK ==
    /\ tasks \subseteq Tasks
    /\ priorityQueue \subseteq Runnables
    /\ running \in BOOLEAN
    /\ status \in [Tasks -> {"UNKNOWN", "PENDING", "RUNNING", "COMPLETED",
                             "FAILED", "CANCELLED"}]
    /\ cancelled \subseteq Tasks
    /\ future \in [Callables -> {"none", "incomplete", "value", "exception"}]
    /\ queue \in Seq(Tasks)
    /\ pool \in {"running", "shutdown", "stopped"}
    /\ worker \in Tasks \cup {None}
    /\ at \in {"idle", "check", "start", "run", "finish", "remove"}
    /\ result \in {"none", "normal", "exception", "error"}
    /\ spc \in [Tasks -> {"idle", "offer", "execute", "accepted", "rejected"}]
    /\ cpc \in [Runnables -> {"idle", "removed", "flagged", "true", "false"}]
    /\ stop \in {"idle", "clear", "clearQueue", "shutdown", "await", "done"}
    /\ lost \subseteq Tasks

(* RuntimeContext.doInitialize has started the pool and the scheduler.     *)
Init ==
    /\ tasks = {}
    /\ priorityQueue = {}
    /\ running = TRUE
    /\ status = [t \in Tasks |-> "UNKNOWN"]
    /\ cancelled = {}
    /\ future = [c \in Callables |-> "none"]
    /\ queue = << >>
    /\ pool = "running"
    /\ worker = None
    /\ at = "idle"
    /\ result = "none"
    /\ spc = [t \in Tasks |-> "idle"]
    /\ cpc = [t \in Runnables |-> "idle"]
    /\ stop = "idle"
    /\ lost = {}

Queued(t) == \E i \in 1 .. Len(queue) : queue[i] = t

-----------------------------------------------------------------------------
(* Seeded faults: what an action would be with a plausible bug.  Nothing   *)
(* below uses them; each breaks the property that is about that bug.       *)

\* executeTask does not look at the cancelled flag.
CheckCancelled_Ignored ==
    /\ at = "check"
    /\ at' = "start"
    /\ UNCHANGED <<tasks, priorityQueue, running, status, cancelled, future,
                   queue, pool, worker, result, spc, cpc, stop, lost>>

\* The record is removed only after a normal end, not in a finally block.
RemoveRecord_NoFinally ==
    /\ at = "remove"
    /\ tasks' = IF result = "normal" THEN tasks \ {worker} ELSE tasks
    /\ worker' = None
    /\ at' = "idle"
    /\ result' = "none"
    /\ UNCHANGED <<priorityQueue, running, status, cancelled, future, queue,
                   pool, spc, cpc, stop, lost>>

\* shutdown() loses the queue, as shutdownNow() does.
ShutdownPool_DropsQueue ==
    /\ stop = "shutdown"
    /\ pool' = "shutdown"
    /\ queue' = << >>
    /\ stop' = "await"
    /\ UNCHANGED <<tasks, priorityQueue, running, status, cancelled, future,
                   exec, spc, cpc, lost>>

-----------------------------------------------------------------------------
(* schedule(task, priority) and scheduleCallable(task, priority): record   *)
(* the task, offer a runnable to the priority queue, hand it to the pool.  *)
Put(t) ==
    /\ spc[t] = "idle"
    /\ tasks' = tasks \cup {t}
    /\ status' = [status EXCEPT ![t] = "PENDING"]
    /\ future' = IF t \in Callables THEN [future EXCEPT ![t] = "incomplete"] ELSE future
    /\ spc' = [spc EXCEPT ![t] = IF t \in Callables THEN "execute" ELSE "offer"]
    /\ UNCHANGED <<priorityQueue, running, cancelled, queue, pool, exec, cpc,
                   stop, lost>>

Offer(t) ==
    /\ spc[t] = "offer"
    /\ priorityQueue' = priorityQueue \cup {t}
    /\ spc' = [spc EXCEPT ![t] = "execute"]
    /\ UNCHANGED <<tasks, running, status, cancelled, future, queue, pool,
                   exec, cpc, stop, lost>>

(* VirtualThreadPool.execute.  A pool that was shut down raises            *)
(* RejectedExecutionException, which leaves schedule: the record stays.    *)
Execute(t) ==
    /\ spc[t] = "execute"
    /\ IF pool = "running"
       THEN queue' = Append(queue, t) /\ spc' = [spc EXCEPT ![t] = "accepted"]
       ELSE queue' = queue /\ spc' = [spc EXCEPT ![t] = "rejected"]
    /\ UNCHANGED <<tasks, priorityQueue, running, status, cancelled, future,
                   pool, exec, cpc, stop, lost>>

-----------------------------------------------------------------------------
(* cancelTask(taskId).  The id is what schedule returned; the callers of   *)
(* scheduleCallable never learn theirs.                                    *)
CancelRemove(t) ==
    /\ spc[t] = "accepted"
    /\ cpc[t] = "idle"
    /\ cpc' = [cpc EXCEPT ![t] = IF t \in tasks THEN "removed" ELSE "false"]
    /\ tasks' = tasks \ {t}
    /\ UNCHANGED <<priorityQueue, running, status, cancelled, future, queue,
                   pool, exec, spc, stop, lost>>

CancelFlag(t) ==
    /\ cpc[t] = "removed"
    /\ cpc' = [cpc EXCEPT ![t] = "flagged"]
    /\ cancelled' = cancelled \cup {t}
    /\ UNCHANGED <<tasks, priorityQueue, running, status, future, queue, pool,
                   exec, spc, stop, lost>>

CancelStatus(t) ==
    /\ cpc[t] = "flagged"
    /\ cpc' = [cpc EXCEPT ![t] = "true"]
    /\ status' = [status EXCEPT ![t] = "CANCELLED"]
    /\ UNCHANGED <<tasks, priorityQueue, running, cancelled, future, queue,
                   pool, exec, spc, stop, lost>>

-----------------------------------------------------------------------------
(* The executor's worker takes the head of the queue and runs executeTask. *)
Take ==
    /\ worker = None
    /\ queue # << >>
    /\ worker' = Head(queue)
    /\ queue' = Tail(queue)
    /\ at' = "check"
    /\ UNCHANGED <<tasks, priorityQueue, running, status, cancelled, future,
                   pool, result, spc, cpc, stop, lost>>

(* The early return of executeTask is before its try block.                *)
CheckCancelled ==
    /\ at = "check"
    /\ IF worker \in cancelled
       THEN worker' = None /\ at' = "idle"
       ELSE worker' = worker /\ at' = "start"
    /\ UNCHANGED <<tasks, priorityQueue, running, status, cancelled, future,
                   queue, pool, result, spc, cpc, stop, lost>>

StartTask ==
    /\ at = "start"
    /\ at' = "run"
    /\ status' = [status EXCEPT ![worker] = "RUNNING"]
    /\ UNCHANGED <<tasks, priorityQueue, running, cancelled, future, queue,
                   pool, worker, result, spc, cpc, stop, lost>>

(* The client's code runs: it returns, raises an Exception or an Error.    *)
(* A callable's runnable turns the first two into the future's completion  *)
(* and then returns normally; an Error passes both handlers.               *)
RunTask(r) ==
    /\ at = "run"
    /\ at' = "finish"
    /\ IF worker \in Callables /\ r # "error"
       THEN /\ future' = [future EXCEPT ![worker] =
                              IF r = "normal" THEN "value" ELSE "exception"]
            /\ result' = "normal"
       ELSE /\ future' = future
            /\ result' = r
    /\ lost' = IF r = "error" THEN lost \cup {worker} ELSE lost
    /\ UNCHANGED <<tasks, priorityQueue, running, status, cancelled, queue,
                   pool, worker, spc, cpc, stop>>

FinishTask ==
    /\ at = "finish"
    /\ at' = "remove"
    /\ status' = CASE result = "normal"    -> [status EXCEPT ![worker] = "COMPLETED"]
                   [] result = "exception" -> [status EXCEPT ![worker] = "FAILED"]
                   [] result = "error"     -> status
    /\ UNCHANGED <<tasks, priorityQueue, running, cancelled, future, queue,
                   pool, worker, result, spc, cpc, stop, lost>>

(* The finally block.  After an Error the executor replaces its thread.    *)
RemoveRecord ==
    /\ at = "remove"
    /\ tasks' = tasks \ {worker}
    /\ worker' = None
    /\ at' = "idle"
    /\ result' = "none"
    /\ UNCHANGED <<priorityQueue, running, status, cancelled, future, queue,
                   pool, spc, cpc, stop, lost>>

-----------------------------------------------------------------------------
(* RuntimeContext.shutdown: TaskScheduler.stop, VirtualThreadPool.stop.    *)
StopRunning ==
    /\ stop = "idle"
    /\ stop' = "clear"
    /\ running' = FALSE
    /\ UNCHANGED <<tasks, priorityQueue, status, cancelled, future, queue,
                   pool, exec, spc, cpc, lost>>

ClearTasks ==
    /\ stop = "clear"
    /\ stop' = "clearQueue"
    /\ tasks' = {}
    /\ UNCHANGED <<priorityQueue, running, status, cancelled, future, queue,
                   pool, exec, spc, cpc, lost>>

ClearPriorityQueue ==
    /\ stop = "clearQueue"
    /\ stop' = "shutdown"
    /\ priorityQueue' = {}
    /\ UNCHANGED <<tasks, running, status, cancelled, future, queue, pool,
                   exec, spc, cpc, lost>>

ShutdownPool ==
    /\ stop = "shutdown"
    /\ stop' = "await"
    /\ pool' = "shutdown"
    /\ UNCHANGED <<tasks, priorityQueue, running, status, cancelled, future,
                   queue, exec, spc, cpc, lost>>

(* awaitTermination: the queue has drained within 30 s ...                 *)
PoolTerminates ==
    /\ stop = "await"
    /\ queue = << >> /\ worker = None
    /\ stop' = "done"
    /\ UNCHANGED <<tasks, priorityQueue, running, status, cancelled, future,
                   queue, pool, exec, spc, cpc, lost>>

(* ... or it has not, and shutdownNow drops what is still queued.          *)
PoolTimesOut ==
    /\ stop = "await"
    /\ queue # << >> \/ worker # None
    /\ stop' = "done"
    /\ pool' = "stopped"
    /\ queue' = << >>
    /\ lost' = lost \cup {t \in Tasks : Queued(t)}
    /\ UNCHANGED <<tasks, priorityQueue, running, status, cancelled, future,
                   exec, spc, cpc>>

-----------------------------------------------------------------------------
Schedule(t) == Put(t) \/ Offer(t) \/ Execute(t)

Cancel(t) == CancelRemove(t) \/ CancelFlag(t) \/ CancelStatus(t)

WorkerStep ==
    \/ Take \/ CheckCancelled \/ StartTask \/ FinishTask \/ RemoveRecord
    \/ \E r \in {"normal", "exception", "error"} : RunTask(r)

StopStep ==
    \/ StopRunning \/ ClearTasks \/ ClearPriorityQueue \/ ShutdownPool
    \/ PoolTerminates \/ PoolTimesOut

Next ==
    \/ \E t \in Tasks : Schedule(t)
    \/ \E t \in Runnables : Cancel(t)
    \/ WorkerStep
    \/ StopStep

(* The pool's worker runs and the tasks it runs end.                       *)
Spec == Init /\ [][Next]_vars /\ WF_vars(WorkerStep)

-----------------------------------------------------------------------------
(* No record stays in the map by accident: its task is being scheduled,    *)
(* waits in the queue, is being executed, or it is one of the two known    *)
(* leaks: execute rejected it after the put, or shutdownNow dropped it     *)
(* after a put that came too late for stop's clear.                        *)
RecordIsAccountedFor ==
    \A t \in tasks :
        \/ spc[t] \in {"offer", "execute", "rejected"}
        \/ Queued(t) \/ worker = t
        \/ t \in lost

(* A future that is still incomplete has a task that will complete it, or  *)
(* its task was rejected, dropped by shutdownNow, or ended by an Error.    *)
(* A stop that clears the map takes no future with it.                     *)
FutureIsAccountedFor ==
    \A c \in Callables :
        future[c] = "incomplete" =>
            \/ spc[c] \in {"execute", "rejected"}
            \/ Queued(c)
            \/ worker = c /\ at \in {"check", "start", "run"}
            \/ c \in lost

(* Nothing that was scheduled is forgotten, whatever is cancelled, stopped *)
(* or shut down between any two of its steps: neither its record nor its   *)
(* future is left behind but by the leaks the two parts name.              *)
NothingIsForgotten == RecordIsAccountedFor /\ FutureIsAccountedFor

(* A task that was cancelled while it waited in the queue is never run,    *)
(* whatever is cancelled, scheduled or shut down later.                    *)
CancelledInQueueNeverRuns ==
    \A t \in Runnables :
        [](cpc[t] = "true" /\ Queued(t) =>
              []~(worker = t /\ at \in {"start", "run", "finish", "remove"}))

(* A callable the pool accepted gets its future completed, unless its task *)
(* is lost.                                                                *)
AcceptedFutureCompletes ==
    \A c \in Callables :
        spc[c] = "accepted" ~> future[c] \in {"value", "exception"} \/ c \in lost
=============================================================================
