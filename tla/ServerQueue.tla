----------------------------- MODULE ServerQueue -----------------------------
(***************************************************************************)
(* The two queues between the HTTP threads of llama-server (the process    *)
(* WorkerManager.createWorkerProcess launches) and its main loop, and the  *)
(* reader an HTTP thread uses for one request.                             *)
(*                                                                         *)
(*   server_queue            tasks for the main loop, and the tasks put    *)
(*                           off until a slot is released (mutex_tasks)    *)
(*   server_response         the ids somebody waits for, and the results   *)
(*                           nobody has taken yet (mutex_results)          *)
(*   server_response_reader  post, next / wait_for_all, stop               *)
(*                                                                         *)
(* The main loop takes one critical section per action. A reader's         *)
(* sections are joined where nobody can see the difference: an id becomes  *)
(* known to the main loop only when its task is posted, so add_waiting and *)
(* post are one action, and a result that arrives while a reader stops is  *)
(* dropped or erased wherever in stop() it arrives. A cancel can be posted *)
(* while its task is in the main loop's hand, in neither of the queues.    *)
(***************************************************************************)
EXTENDS Integers, FiniteSets, SequencesExt

CONSTANTS
    Requests,       \* HTTP requests, each with a thread of its own
    Shapes,         \* what each request may ask for, see QueueAssumption
    NSlots,         \* params_base.n_parallel
    SleepIdle,      \* params.sleep_idle_seconds >= 0
    NoTask

Task == Requests \X Nat

ASSUME QueueAssumption ==
    /\ NSlots \in Nat \ {0}
    /\ NoTask \notin Task /\ NoTask \notin UNION {Shapes[r] : r \in Requests}
    /\ SleepIdle \in BOOLEAN
    /\ \A sh \in UNION {Shapes[r] : r \in Requests} :
          /\ sh.type \in {"completion", "embedding", "control", "action"}
          /\ sh.more \in Nat                  \* tasks besides the first
          /\ sh.len \in Nat                   \* prompt length in tokens
          /\ sh.id_slot \in -1..NSlots        \* -1: any; NSlots: no such slot
          /\ sh.stream \in BOOLEAN
          /\ sh.type \in {"control", "action"} => sh.more = 0

VARIABLES
    running,                \* server_queue::running
    sleeping,               \* server_queue::sleeping
    req_stop_sleeping,
    queue_tasks,            \* entries: see Run, Cancel, NextResponse
    queue_tasks_deferred,   \* tasks
    waiting_task_ids,
    queue_results,          \* [task, kind: "partial" | "final" | "error"]
    reader,                 \* where the thread of a request is
    shape,                  \* what the request asked for, NoTask before
    received,               \* tasks whose final result the reader counted
    alive,                  \* the process has not died
    woken,                  \* tasks fetched from the deferred queue and not yet processed
    lost                    \* the last of them took no slot: its wake-up is spent

taskVars == <<queue_tasks, queue_tasks_deferred, woken, lost>>
sleepVars == <<sleeping, req_stop_sleeping>>
resultVars == <<waiting_task_ids, queue_results>>
readerVars == <<reader, shape, received>>
-----------------------------------------------------------------------------
(* A task is <<request, k>>. A completion has a parent, k = 0, and children *)
(* for n_cmpl > 1; an embedding has a task for each of its inputs.         *)
TasksOf(r) == IF shape[r] = NoTask THEN {} ELSE {<<r, k>> : k \in 0..shape[r].more}
TypeOf(t) == shape[t[1]].type
IsChild(t) == t[2] > 0 /\ TypeOf(t) = "completion"

\* create_child does not copy id_slot
IdSlot(t) == IF IsChild(t) THEN -1 ELSE shape[t[1]].id_slot

\* the order of post_tasks: children are pushed before their parent
PostOrder(r) ==
    [j \in 1..shape[r].more + 1 |->
        [op |-> "run", task |-> <<r, IF j <= shape[r].more THEN j ELSE 0>>]]

Run(t) == [op |-> "run", task |-> t]
Cancel(t) == [op |-> "cancel", task |-> t]
NextResponse == [op |-> "next", task |-> NoTask]

\* the n-th smallest element of a finite set of integers
Nth(I, n) == CHOOSE i \in I : Cardinality({k \in I : k < i}) = n - 1

\* the elements of I from the smallest to the largest
Ascending(I) == [n \in 1..Cardinality(I) |-> Nth(I, n)]

\* what a loop that drops the elements at all positions but I leaves of s
Kept(s, I) == [n \in 1..Cardinality(I) |-> s[Nth(I, n)]]

\* the orders in which an unordered_set of ids may be iterated
Orders(S) == {f \in [1..Cardinality(S) -> S] : \A i, j \in DOMAIN f : f[i] = f[j] => i = j}

QueueInit ==
    /\ running = TRUE
    /\ sleeping = FALSE
    /\ req_stop_sleeping = FALSE
    /\ queue_tasks = <<>>
    /\ queue_tasks_deferred = <<>>
    /\ waiting_task_ids = {}
    /\ queue_results = <<>>
    /\ reader = [r \in Requests |-> "idle"]
    /\ shape = [r \in Requests |-> NoTask]
    /\ received = [r \in Requests |-> {}]
    /\ alive = TRUE
    /\ woken = {}
    /\ lost = FALSE
-----------------------------------------------------------------------------
(* Operations the main loop uses; each is part of one of its actions.      *)

\* server_response::send: a result nobody waits for is dropped
send(results) ==
    queue_results' = queue_results \o
        Kept(results, {i \in DOMAIN results : results[i].task \in waiting_task_ids})

Result(t, k) == [task |-> t, kind |-> k]

\* a task leaves the main loop's hand without a slot
NoSlotFor(t) ==
    /\ woken' = woken \ {t}
    /\ lost' = (lost \/ t \in woken)

\* server_queue::defer
defer(t) ==
    /\ queue_tasks_deferred' = Append(queue_tasks_deferred, t)
    /\ NoSlotFor(t)
    /\ UNCHANGED queue_tasks

\* n calls of server_queue::pop_deferred_task, after which q is the rest
\* of the queue: each call moves the oldest task to the front
pop_deferred_tasks(n, q) ==
    LET popped == SubSeq(queue_tasks_deferred, 1, Min({n, Len(queue_tasks_deferred)}))
    IN  /\ queue_tasks_deferred' =
             SubSeq(queue_tasks_deferred, Len(popped) + 1, Len(queue_tasks_deferred))
        /\ queue_tasks' = [i \in DOMAIN popped |-> Run(Reverse(popped)[i])] \o q
        /\ woken' = woken \cup Range(popped)
        /\ lost' = (lost /\ n = 0)
-----------------------------------------------------------------------------
(* The thread of an HTTP request.                                          *)

Goto(r, place) == reader' = [reader EXCEPT ![r] = place]

\* fault: waits for the end of the sleep without asking for it
Arrive_NoWakeUp(r) ==
    /\ reader[r] = "idle"
    /\ \E sh \in Shapes[r] : shape' = [shape EXCEPT ![r] = sh]
    /\ Goto(r, IF sleeping THEN "sleeps" ELSE "ready")
    /\ UNCHANGED <<running, sleepVars, taskVars, resultVars, received, alive>>

\* A request comes in; create_response() calls wait_until_no_sleep().
Arrive(r) ==
    /\ reader[r] = "idle"
    /\ \E sh \in Shapes[r] : shape' = [shape EXCEPT ![r] = sh]
    /\ Goto(r, IF sleeping THEN "sleeps" ELSE "ready")
    /\ req_stop_sleeping' = (req_stop_sleeping \/ sleeping)
    /\ UNCHANGED <<running, sleeping, taskVars, resultVars, received, alive>>

\* The wait of wait_until_no_sleep() returns.
NoSleep(r) ==
    /\ reader[r] = "sleeps"
    /\ ~sleeping
    /\ Goto(r, "ready")
    /\ UNCHANGED <<running, sleepVars, taskVars, resultVars, shape, received, alive>>

\* The body cannot be parsed or tokenised: answered before a task exists.
Refuse(r) ==
    /\ reader[r] = "ready"
    /\ shape[r].type \in {"completion", "embedding"}
    /\ Goto(r, "gone")
    /\ UNCHANGED <<running, sleepVars, taskVars, resultVars, shape, received, alive>>

\* post_task(s): add_waiting_tasks and server_queue::post, metrics and
\* slots at the front. The main loop may have gone to sleep meanwhile.
post_tasks(r) ==
    /\ reader[r] = "ready"
    /\ waiting_task_ids' = waiting_task_ids \cup TasksOf(r)
    /\ queue_tasks' = IF shape[r].type = "control"
                      THEN PostOrder(r) \o queue_tasks
                      ELSE queue_tasks \o PostOrder(r)
    /\ Goto(r, "wait")
    /\ UNCHANGED <<running, sleepVars, queue_tasks_deferred, woken, lost, queue_results,
                   shape, received, alive>>

\* server_queue::cleanup_pending_task: the tasks of r leave both queues
WithoutRuns(q, r) ==
    Kept(q, {i \in DOMAIN q : ~(q[i].op = "run" /\ q[i].task \in TasksOf(r))})

WithoutTasks(q, r) == Kept(q, {i \in DOMAIN q : q[i] \notin TasksOf(r)})

\* fault: the results already queued are not erased
stop_KeepsResults(r, got, rest) ==
    /\ Goto(r, "gone")
    /\ received' = [received EXCEPT ![r] = {}]
    /\ waiting_task_ids' = waiting_task_ids \ TasksOf(r)
    /\ queue_results' = rest
    /\ IF got = TasksOf(r)
       THEN UNCHANGED taskVars
       ELSE LET dropped == {t \in TasksOf(r) : \E i \in DOMAIN queue_tasks : queue_tasks[i] = Run(t)}
            IN  /\ \E order \in Orders(TasksOf(r)) :
                     queue_tasks' = [i \in DOMAIN order |-> Cancel(order[i])]
                                    \o WithoutRuns(queue_tasks, r)
                /\ queue_tasks_deferred' =
                     WithoutTasks(queue_tasks_deferred, r)
                /\ woken' = woken \ dropped
                /\ lost' = (lost \/ woken \cap dropped # {})

\* fault: cleanup_pending_task looks into queue_tasks only
stop_KeepsDeferred(r, got, rest) ==
    /\ Goto(r, "gone")
    /\ received' = [received EXCEPT ![r] = {}]
    /\ waiting_task_ids' = waiting_task_ids \ TasksOf(r)
    /\ IF got = TasksOf(r)
       THEN queue_results' = rest /\ UNCHANGED taskVars
       ELSE LET dropped == {t \in TasksOf(r) : \E i \in DOMAIN queue_tasks : queue_tasks[i] = Run(t)}
            IN  /\ \E order \in Orders(TasksOf(r)) :
                     queue_tasks' = [i \in DOMAIN order |-> Cancel(order[i])]
                                    \o WithoutRuns(queue_tasks, r)
                /\ UNCHANGED queue_tasks_deferred
                /\ queue_results' = Kept(rest, {i \in DOMAIN rest : rest[i].task \notin TasksOf(r)})
                /\ woken' = woken \ dropped
                /\ lost' = (lost \/ woken \cap dropped # {})

\* stop() with `rest' in queue_results: the ids are no longer waited for.
\* When a final result is missing the results already queued are erased,
\* the tasks are taken out of both queues (cleanup_pending_task) and one
\* cancel per id goes to the front.
\* A woken task that is taken out has spent its wake-up.
stop(r, got, rest) ==
    /\ Goto(r, "gone")
    /\ received' = [received EXCEPT ![r] = {}]
    /\ waiting_task_ids' = waiting_task_ids \ TasksOf(r)
    /\ IF got = TasksOf(r)
       THEN queue_results' = rest /\ UNCHANGED taskVars
       ELSE LET dropped == {t \in TasksOf(r) : \E i \in DOMAIN queue_tasks : queue_tasks[i] = Run(t)}
            IN  /\ \E order \in Orders(TasksOf(r)) :
                     queue_tasks' = [i \in DOMAIN order |-> Cancel(order[i])]
                                    \o WithoutRuns(queue_tasks, r)
                /\ queue_tasks_deferred' =
                     WithoutTasks(queue_tasks_deferred, r)
                /\ queue_results' = Kept(rest, {i \in DOMAIN rest : rest[i].task \notin TasksOf(r)})
                /\ woken' = woken \ dropped
                /\ lost' = (lost \/ woken \cap dropped # {})

\* server_response_reader::next with recv_with_timeout: the first result
\* for one of the reader's ids; an error stops the reader, and so does the
\* last final result (the destructor calls stop()).
next(r) ==
    /\ reader[r] = "wait"
    /\ \E i \in DOMAIN queue_results :
         LET res == queue_results[i]
             got == IF res.kind = "final" THEN received[r] \cup {res.task} ELSE received[r]
         IN  /\ res.task \in TasksOf(r)
             /\ \A j \in 1..i - 1 : queue_results[j].task \notin TasksOf(r)
             /\ IF res.kind = "error" \/ got = TasksOf(r)
                THEN stop(r, got, RemoveAt(queue_results, i))
                ELSE /\ queue_results' = RemoveAt(queue_results, i)
                     /\ received' = [received EXCEPT ![r] = got]
                     /\ UNCHANGED <<reader, waiting_task_ids, taskVars>>
    /\ UNCHANGED <<running, sleepVars, shape, alive>>

\* The poll timed out and the client has left: next() returns nullptr. The
\* completion and embedding handlers return and the reader stops; those of
\* metrics, slots and slot actions call is_error() on the null pointer.
ClientLeaves(r) ==
    /\ reader[r] = "wait"
    /\ IF shape[r].type \in {"control", "action"}
       THEN /\ alive' = FALSE
            /\ UNCHANGED <<reader, received, taskVars, resultVars>>
       ELSE /\ stop(r, received[r], queue_results)
            /\ UNCHANGED alive
    /\ UNCHANGED <<running, sleepVars, shape>>

\* server_context::terminate, from the signal handler
Terminate ==
    /\ running
    /\ running' = FALSE
    /\ UNCHANGED <<sleepVars, taskVars, resultVars, readerVars, alive>>
=============================================================================
