------------------------- MODULE TaskSchedulerProofs -------------------------
(***************************************************************************)
(* TaskScheduler for any sets of runnables and callables: nothing that was *)
(* scheduled is forgotten, and a task cancelled in the queue never runs.   *)
(***************************************************************************)
EXTENDS TaskScheduler, TLAPS

(* executeTask is in a place exactly while it has a task, and it knows how *)
(* the client's code ended before it writes the status.                    *)
WorkerState ==
    /\ worker = None <=> at = "idle"
    /\ at = "finish" => result # "none"

(* A task is handed to the executor once: it is in the queue once, or with *)
(* the worker, and never in both.                                          *)
QueueState ==
    /\ \A i, j \in 1 .. Len(queue) : queue[i] = queue[j] => i = j
    /\ \A i \in 1 .. Len(queue) : queue[i] # worker /\ spc[queue[i]] = "accepted"
    /\ worker # None => spc[worker] = "accepted"

(* Only runnables are offered to the priority queue.  cancelTask takes the *)
(* record before it sets the flag, so a flagged task has no record that an *)
(* early return could leave behind.                                        *)
CallState ==
    /\ \A c \in Callables : spc[c] # "offer"
    /\ cancelled \subseteq Runnables
    /\ \A t \in Runnables :
          /\ cpc[t] # "idle" => spc[t] = "accepted"
          /\ cpc[t] \in {"removed", "flagged", "true"} => t \notin tasks
          /\ t \in cancelled <=> cpc[t] \in {"flagged", "true"}

IInv ==
    /\ TypeOK
    /\ WorkerState
    /\ QueueState
    /\ CallState
    /\ RecordIsAccountedFor
    /\ FutureIsAccountedFor

USE TaskAssumption DEF TaskAssumption

(* The initial state satisfies the inductive invariant.                    *)
LEMMA InitIInv == Init => IInv
<1> SUFFICES ASSUME Init PROVE IInv
  OBVIOUS
<1>1. TypeOK
  BY DEF Init, TypeOK, Tasks
<1>2. WorkerState /\ QueueState /\ CallState
  BY DEF Init, WorkerState, QueueState, CallState, Tasks
<1>3. RecordIsAccountedFor /\ FutureIsAccountedFor
  BY DEF Init, RecordIsAccountedFor, FutureIsAccountedFor, Tasks
<1> QED BY <1>1, <1>2, <1>3 DEF IInv

(* schedule and scheduleCallable preserve it: between the put and execute  *)
(* the call itself accounts for the record and the future.                 *)
LEMMA ScheduleIInv ==
    ASSUME IInv, NEW t \in Tasks, Schedule(t)
    PROVE  IInv'
<1> USE DEF IInv, exec
<1>1. CASE Put(t)
  <2> USE <1>1 DEF Put
  <2>1. TypeOK'
    BY DEF TypeOK, Tasks
  <2>2. WorkerState' /\ QueueState'
    BY DEF TypeOK, WorkerState, QueueState
  <2>3. CallState'
    BY DEF TypeOK, CallState, Tasks
  <2>4. RecordIsAccountedFor'
    BY DEF TypeOK, RecordIsAccountedFor, Queued, Tasks
  <2>5. FutureIsAccountedFor'
    BY DEF TypeOK, FutureIsAccountedFor, Queued, Tasks
  <2> QED BY <2>1, <2>2, <2>3, <2>4, <2>5
<1>2. CASE Offer(t)
  <2> USE <1>2 DEF Offer
  <2>1. TypeOK'
    BY DEF TypeOK, CallState, Tasks
  <2>2. WorkerState' /\ QueueState'
    BY DEF TypeOK, WorkerState, QueueState
  <2>3. CallState'
    BY DEF TypeOK, CallState, Tasks
  <2>4. RecordIsAccountedFor' /\ FutureIsAccountedFor'
    BY DEF TypeOK, CallState, RecordIsAccountedFor, FutureIsAccountedFor, Queued, Tasks
  <2> QED BY <2>1, <2>2, <2>3, <2>4
<1>3. CASE Execute(t) /\ pool = "running"
  <2> USE <1>3 DEF Execute
  <2>0. queue \in Seq(Tasks) /\ queue' = Append(queue, t)
    BY DEF TypeOK
  <2>1. TypeOK'
    <3>1. queue' \in Seq(Tasks)
      BY <2>0
    <3> QED BY <3>1 DEF TypeOK
  <2>2. /\ Len(queue') = Len(queue) + 1
        /\ \A i \in 1 .. Len(queue) : queue'[i] = queue[i]
        /\ queue'[Len(queue) + 1] = t
        /\ Len(queue) \in Nat
    BY <2>0
  <2>3. WorkerState'
    BY DEF WorkerState
  <2>4. QueueState'
    <3>1. t # worker /\ \A i \in 1 .. Len(queue) : queue[i] # t
      BY DEF QueueState, Tasks
    <3>2. \A u \in Tasks : spc[u] = "accepted" => spc'[u] = "accepted"
      BY DEF TypeOK
    <3>3. spc'[t] = "accepted" /\ UNCHANGED worker
      BY DEF TypeOK, exec
    <3>4. \A i \in 1 .. Len(queue) : queue[i] \in Tasks
      BY <2>0
    <3>5. \A i \in 1 .. Len(queue') : i \in 1 .. Len(queue) \/ i = Len(queue) + 1
      BY <2>2
    <3>6. (\A i, j \in 1 .. Len(queue) : queue[i] = queue[j] => i = j)'
      BY <2>2, <3>1, <3>5 DEF QueueState
    <3>7. (\A i \in 1 .. Len(queue) : queue[i] # worker /\ spc[queue[i]] = "accepted")'
      BY <2>2, <3>1, <3>2, <3>3, <3>4, <3>5 DEF QueueState
    <3>8. (worker # None => spc[worker] = "accepted")'
      BY <3>2, <3>3 DEF QueueState, TypeOK
    <3> QED BY <3>6, <3>7, <3>8 DEF QueueState
  <2>5. CallState'
    BY DEF TypeOK, CallState, Tasks
  <2>6. Queued(t)' /\ \A u : Queued(u) => Queued(u)'
    BY <2>2 DEF Queued
  <2>7. RecordIsAccountedFor'
    BY <2>6 DEF TypeOK, RecordIsAccountedFor
  <2>8. FutureIsAccountedFor'
    BY <2>6 DEF TypeOK, FutureIsAccountedFor, Tasks
  <2> QED BY <2>1, <2>3, <2>4, <2>5, <2>7, <2>8
<1>4. CASE Execute(t) /\ pool # "running"
  <2> USE <1>4 DEF Execute
  <2>1. TypeOK'
    BY DEF TypeOK
  <2>2. WorkerState' /\ QueueState'
    BY DEF TypeOK, WorkerState, QueueState
  <2>3. CallState'
    BY DEF TypeOK, CallState, Tasks
  <2>4. RecordIsAccountedFor' /\ FutureIsAccountedFor'
    BY DEF TypeOK, RecordIsAccountedFor, FutureIsAccountedFor, Queued, Tasks
  <2> QED BY <2>1, <2>2, <2>3, <2>4
<1> QED BY <1>1, <1>2, <1>3, <1>4 DEF Schedule

(* cancelTask preserves it: it only takes a record away.                   *)
LEMMA CancelIInv ==
    ASSUME IInv, NEW t \in Runnables, Cancel(t)
    PROVE  IInv'
<1> USE DEF IInv, exec, Cancel, CancelRemove, CancelFlag, CancelStatus
<1>1. TypeOK'
  BY DEF TypeOK, Tasks
<1>2. WorkerState' /\ QueueState'
  BY DEF WorkerState, QueueState
<1>3. CallState'
  BY DEF TypeOK, CallState, Tasks
<1>4. RecordIsAccountedFor' /\ FutureIsAccountedFor'
  BY DEF RecordIsAccountedFor, FutureIsAccountedFor, Queued
<1> QED BY <1>1, <1>2, <1>3, <1>4

(* executeTask preserves it.  The early return for a cancelled task leaves *)
(* no record and no future behind, since only runnables are cancelled and  *)
(* their records are gone by then.                                         *)
LEMMA WorkerIInv ==
    ASSUME IInv, WorkerStep
    PROVE  IInv'
<1> USE DEF IInv
<1>1. CASE Take
  <2> USE <1>1 DEF Take
  <2>1. /\ Len(queue) \in Nat /\ Len(queue) > 0
        /\ queue' \in Seq(Tasks) /\ worker' = queue[1]
        /\ worker' \in Tasks
        /\ Len(queue') = Len(queue) - 1
        /\ \A i \in 1 .. Len(queue') : queue'[i] = queue[i + 1]
    BY DEF TypeOK
  <2>2. TypeOK'
    BY <2>1 DEF TypeOK
  <2>3. WorkerState'
    BY <2>1 DEF WorkerState, Tasks
  <2>4. QueueState'
    BY <2>1 DEF QueueState
  <2>5. CallState'
    BY DEF CallState
  <2>6. \A u : Queued(u) => Queued(u)' \/ worker' = u
    <3>1. ASSUME NEW i \in 1 .. Len(queue)
          PROVE  i = 1 \/ (i - 1 \in 1 .. Len(queue') /\ queue'[i - 1] = queue[i])
      BY <2>1
    <3> QED BY <2>1, <3>1 DEF Queued
  <2>7. RecordIsAccountedFor'
    BY <2>1, <2>6 DEF TypeOK, RecordIsAccountedFor
  <2>8. FutureIsAccountedFor'
    BY <2>1, <2>6 DEF TypeOK, FutureIsAccountedFor, Tasks
  <2> QED BY <2>2, <2>3, <2>4, <2>5, <2>7, <2>8
<1>2. CASE CheckCancelled
  <2> USE <1>2 DEF CheckCancelled
  <2>1. TypeOK'
    BY DEF TypeOK
  <2>2. WorkerState' /\ QueueState'
    BY DEF TypeOK, WorkerState, QueueState, Tasks
  <2>3. CallState'
    BY DEF CallState
  <2>4. RecordIsAccountedFor' /\ FutureIsAccountedFor'
    BY DEF TypeOK, CallState, RecordIsAccountedFor, FutureIsAccountedFor, Queued, Tasks
  <2> QED BY <2>1, <2>2, <2>3, <2>4
<1>3. CASE StartTask
  <2> USE <1>3 DEF StartTask
  <2>1. TypeOK'
    BY DEF TypeOK
  <2>2. WorkerState' /\ QueueState' /\ CallState'
    BY DEF WorkerState, QueueState, CallState
  <2>3. RecordIsAccountedFor' /\ FutureIsAccountedFor'
    BY DEF RecordIsAccountedFor, FutureIsAccountedFor, Queued
  <2> QED BY <2>1, <2>2, <2>3
<1>4. ASSUME NEW r \in {"normal", "exception", "error"}, RunTask(r)
      PROVE  IInv'
  <2> USE <1>4 DEF RunTask
  <2>0. worker \in Tasks
    BY DEF TypeOK, WorkerState
  <2>1. TypeOK'
    BY <2>0 DEF TypeOK, Tasks
  <2>2. WorkerState' /\ QueueState' /\ CallState'
    BY DEF WorkerState, QueueState, CallState
  <2>3. RecordIsAccountedFor'
    BY DEF RecordIsAccountedFor, Queued
  <2>4. FutureIsAccountedFor'
    BY <2>0 DEF TypeOK, FutureIsAccountedFor, Queued, Tasks
  <2> QED BY <2>1, <2>2, <2>3, <2>4
<1>5. CASE FinishTask
  <2> USE <1>5 DEF FinishTask
  <2>1. result \in {"normal", "exception", "error"}
    BY DEF TypeOK, WorkerState
  <2>2. TypeOK'
    BY <2>1 DEF TypeOK
  <2>3. WorkerState' /\ QueueState' /\ CallState'
    BY DEF WorkerState, QueueState, CallState
  <2>4. RecordIsAccountedFor' /\ FutureIsAccountedFor'
    BY DEF RecordIsAccountedFor, FutureIsAccountedFor, Queued
  <2> QED BY <2>2, <2>3, <2>4
<1>6. CASE RemoveRecord
  <2> USE <1>6 DEF RemoveRecord
  <2>1. TypeOK'
    BY DEF TypeOK
  <2>2. WorkerState' /\ QueueState' /\ CallState'
    BY DEF TypeOK, WorkerState, QueueState, CallState, Tasks
  <2>3. RecordIsAccountedFor' /\ FutureIsAccountedFor'
    BY DEF RecordIsAccountedFor, FutureIsAccountedFor, Queued
  <2> QED BY <2>1, <2>2, <2>3
<1> QED BY <1>1, <1>2, <1>3, <1>4, <1>5, <1>6 DEF WorkerStep

(* RuntimeContext.shutdown preserves it: what shutdownNow drops from the   *)
(* queue is recorded as lost.                                              *)
LEMMA StopIInv ==
    ASSUME IInv, StopStep
    PROVE  IInv'
<1> USE DEF IInv, exec
<1>1. CASE StopRunning \/ ClearTasks \/ ClearPriorityQueue \/ ShutdownPool \/ PoolTerminates
  <2>1. TypeOK'
    <3>1. CASE StopRunning \/ ClearTasks
      BY <3>1 DEF TypeOK, StopRunning, ClearTasks
    <3>2. CASE ClearPriorityQueue \/ ShutdownPool
      BY <3>2 DEF TypeOK, ClearPriorityQueue, ShutdownPool
    <3>3. CASE PoolTerminates
      BY <3>3 DEF TypeOK, PoolTerminates
    <3> QED BY <1>1, <3>1, <3>2, <3>3
  <2> USE <1>1 DEF StopRunning, ClearTasks, ClearPriorityQueue, ShutdownPool, PoolTerminates
  <2>2. WorkerState' /\ QueueState' /\ CallState'
    BY DEF WorkerState, QueueState, CallState
  <2>3. RecordIsAccountedFor' /\ FutureIsAccountedFor'
    BY DEF RecordIsAccountedFor, FutureIsAccountedFor, Queued
  <2> QED BY <2>1, <2>2, <2>3
<1>2. CASE PoolTimesOut
  <2> USE <1>2 DEF PoolTimesOut
  <2>1. TypeOK'
    BY DEF TypeOK
  <2>2. WorkerState' /\ QueueState' /\ CallState'
    BY DEF WorkerState, QueueState, CallState
  <2>3. \A u \in Tasks : Queued(u) => u \in lost'
    OBVIOUS
  <2>4. RecordIsAccountedFor'
    BY <2>3 DEF TypeOK, RecordIsAccountedFor
  <2>5. FutureIsAccountedFor'
    BY <2>3 DEF TypeOK, FutureIsAccountedFor, Tasks
  <2> QED BY <2>1, <2>2, <2>4, <2>5
<1> QED BY <1>1, <1>2 DEF StopStep

(* Every step of every thread preserves the inductive invariant.           *)
LEMMA NextIInv == IInv /\ [Next]_vars => IInv'
<1> SUFFICES ASSUME IInv, [Next]_vars PROVE IInv'
  OBVIOUS
<1>1. CASE Next
  BY <1>1, ScheduleIInv, CancelIInv, WorkerIInv, StopIInv DEF Next
<1>2. CASE UNCHANGED vars
  BY <1>2 DEF vars, exec, IInv, TypeOK, WorkerState, QueueState, CallState,
              RecordIsAccountedFor, FutureIsAccountedFor, Queued
<1> QED BY <1>1, <1>2

(* The scheduler never leaves its inductive invariant.                     *)
THEOREM Invariance == Spec => []IInv
BY InitIInv, NextIInv, PTL DEF Spec

(* The records, flags and futures keep their types.                        *)
THEOREM TypeCorrect == Spec => []TypeOK
BY Invariance, PTL DEF IInv

(* Whatever is cancelled, stopped or shut down between any two steps of a  *)
(* schedule call or of executeTask, a record in the map and an incomplete  *)
(* future have somebody who will take care of them, or are one of the      *)
(* leaks that the property names.                                          *)
THEOREM NothingForgotten == Spec => []NothingIsForgotten
<1>1. IInv => NothingIsForgotten
  BY DEF IInv, NothingIsForgotten
<1> QED BY <1>1, Invariance, PTL

-----------------------------------------------------------------------------
(* The task is flagged and executeTask is not past its look at the flag.   *)
Withdrawn(t) ==
    /\ t \in cancelled
    /\ ~(worker = t /\ at \in {"start", "run", "finish", "remove"})

(* A withdrawn task stays withdrawn: the flag is never taken back, and the *)
(* worker passes the check only with a task that is not flagged.           *)
LEMMA WithdrawnStays ==
    ASSUME NEW t \in Runnables
    PROVE  IInv /\ Withdrawn(t) /\ [Next]_vars => Withdrawn(t)'
<1> SUFFICES ASSUME IInv, Withdrawn(t), [Next]_vars PROVE Withdrawn(t)'
  OBVIOUS
<1> USE DEF Withdrawn, exec
<1>1. ASSUME NEW u \in Tasks, Schedule(u) PROVE Withdrawn(t)'
  BY <1>1 DEF Schedule, Put, Offer, Execute
<1>2. ASSUME NEW u \in Runnables, Cancel(u) PROVE Withdrawn(t)'
  BY <1>2 DEF Cancel, CancelRemove, CancelFlag, CancelStatus
<1>3. CASE WorkerStep
  <2>1. t # None
    BY DEF Tasks
  <2> QED BY <1>3, <2>1 DEF WorkerStep, Take, CheckCancelled, StartTask, RunTask,
                           FinishTask, RemoveRecord
<1>4. CASE StopStep
  BY <1>4 DEF StopStep, StopRunning, ClearTasks, ClearPriorityQueue, ShutdownPool,
              PoolTerminates, PoolTimesOut
<1>5. CASE UNCHANGED vars
  BY <1>5 DEF vars
<1> QED BY <1>1, <1>2, <1>3, <1>4, <1>5 DEF Next

(* A task that cancelTask reported cancelled while it was in the queue is  *)
(* never run, for any number of tasks and whatever else is going on.       *)
THEOREM CancelledNeverRuns == Spec => CancelledInQueueNeverRuns
<1> SUFFICES ASSUME NEW t \in Runnables
             PROVE  Spec => [](cpc[t] = "true" /\ Queued(t) =>
                        []~(worker = t /\ at \in {"start", "run", "finish", "remove"}))
  BY DEF CancelledInQueueNeverRuns
<1>1. IInv /\ cpc[t] = "true" /\ Queued(t) => Withdrawn(t)
  BY DEF IInv, CallState, QueueState, Queued, Withdrawn
<1>2. Withdrawn(t) => ~(worker = t /\ at \in {"start", "run", "finish", "remove"})
  BY DEF Withdrawn
<1>3. IInv /\ Withdrawn(t) /\ [Next]_vars => Withdrawn(t)'
  BY WithdrawnStays
<1>4. Spec => []IInv /\ [][Next]_vars
  BY Invariance, PTL DEF Spec
<1> QED BY <1>1, <1>2, <1>3, <1>4, PTL
=============================================================================
