---------------------------- MODULE ServerContext ----------------------------
(***************************************************************************)
(* The main loop of llama-server (server_queue::start_loop) and the slots  *)
(* it runs the tasks in (server_context_impl): process_single_task and     *)
(* update_slots, with the batch that is built from all slots and decoded   *)
(* in one or several views.                                                *)
(*                                                                         *)
(* What a token is, which idle slot suits a prompt best, how much of the   *)
(* slot's old prompt can be kept and whether generation stops are choices  *)
(* of the model; how many tokens go where is counted as the code counts.   *)
(* Text models without LoRA adapters, context shift and draft model, and   *)
(* a unified KV cache: what the launcher's command line gives.             *)
(***************************************************************************)
EXTENDS ServerQueue

CONSTANTS
    NBatch,     \* llama_n_batch(ctx), also n_ubatch
    NCtx        \* slot.n_ctx

ASSUME ContextAssumption == NBatch \in Nat \ {0} /\ NCtx \in Nat \ {0}

VARIABLES
    loop,       \* where the main loop is
    hand,       \* the queue entry being processed, NoTask if none
    slots,      \* slot id -> [state, task, i_batch, prompt]
    cursor,     \* the slot a loop over the slots has come to
    batch,      \* batch.seq_id: the slot each token of the batch is for
    kind,       \* type of the task of slot_batched, NoTask if there is none
    view,       \* [i, n]: start and size limit n_batch of the next view
    orphans     \* tasks deferred after their cancel had been posted

batchVars == <<cursor, batch, kind, view>>
vars == <<running, sleepVars, taskVars, resultVars, readerVars, alive,
          loop, hand, slots, batchVars, orphans>>

SlotIds == 0..NSlots - 1

NewSlot == [state |-> "IDLE", task |-> NoTask, i_batch |-> -1, prompt |-> 0]

Init ==
    /\ QueueInit
    /\ loop = "take"
    /\ hand = NoTask
    /\ slots = [s \in SlotIds |-> NewSlot]
    /\ cursor = 0
    /\ batch = <<>>
    /\ kind = NoTask
    /\ view = [i |-> 0, n |-> NBatch]
    /\ orphans = {}

\* the main loop changes none of these
LoopFrame == UNCHANGED <<waiting_task_ids, readerVars, running, alive>>
-----------------------------------------------------------------------------
is_processing(s) == slots[s].state # "IDLE"
Processing == {s \in SlotIds : is_processing(s)}
is_child(s) == is_processing(s) /\ IsChild(slots[s].task)

\* the prompt of an embedding has to be computed in one batch
can_split(s) == TypeOf(slots[s].task) # "embedding"
n_tokens(s) == shape[slots[s].task[1]].len

\* server_slot::release; its callback_on_release fetches a deferred task,
\* which the actions below do with pop_deferred_tasks. Of the prompt an
\* idle slot keeps only matters whether it has tokens.
released(sl) == [sl EXCEPT !.state = "IDLE", !.task = NoTask, !.prompt = Min({@, 1})]

\* send_error and release for every slot of S, in slot order
FailSlots(S, tail) ==
    LET order == Ascending(S)
    IN  /\ send([k \in DOMAIN order |-> Result(slots[order[k]].task, "error")])
        /\ pop_deferred_tasks(Len(order), queue_tasks \o tail)
-----------------------------------------------------------------------------
(* start_loop: the inner loop over queue_tasks                             *)

Take ==
    /\ loop = "take"
    /\ IF running /\ queue_tasks # <<>>
       THEN /\ loop' = "task"
            /\ hand' = Head(queue_tasks)
            /\ queue_tasks' = Tail(queue_tasks)
       ELSE /\ loop' = IF running THEN "update" ELSE "ended"
            /\ UNCHANGED <<hand, queue_tasks>>
    /\ LoopFrame
    /\ UNCHANGED <<sleepVars, queue_tasks_deferred, woken, lost, queue_results, slots, batchVars,
                   orphans>>

\* get_slot_by_id for a task that names a slot, get_available_slot for the
\* others (the most similar idle slot, or the least recently used one)
Candidates(t) == IF IdSlot(t) = -1 THEN SlotIds \ Processing ELSE ({IdSlot(t)} \cap SlotIds) \ Processing

Cancelled(t) == \E i \in DOMAIN queue_tasks : queue_tasks[i] = Cancel(t)

Defer(t) ==
    /\ defer(t)
    /\ orphans' = IF Cancelled(t) THEN orphans \cup {t} ELSE orphans
    /\ UNCHANGED <<slots, queue_results>>

Answer(t, k) ==
    /\ send(<<Result(t, k)>>)
    /\ NoSlotFor(t)
    /\ UNCHANGED <<queue_tasks, queue_tasks_deferred, orphans>>

\* fault: a child is recognised by its task
launch_slot_with_task_ByTask(s, t) ==
    /\ slots' = [slots EXCEPT ![s].task = t,
                              ![s].state = IF IsChild(t) THEN "WAIT_OTHER" ELSE "STARTED"]
    /\ woken' = woken \ {t}
    /\ UNCHANGED <<queue_tasks, queue_tasks_deferred, queue_results, lost, orphans>>

launch_slot_with_task(s, t) ==
    /\ slots' = [slots EXCEPT ![s].task = t,
                              ![s].state = IF is_child(s) THEN "WAIT_OTHER" ELSE "STARTED"]
    /\ woken' = woken \ {t}
    /\ UNCHANGED <<queue_tasks, queue_tasks_deferred, queue_results, lost, orphans>>

\* COMPLETION, INFILL, EMBEDDING, RERANK; the launch fails for an invalid
\* prompt, grammar or adapter
RunTask(t) ==
    \/ Candidates(t) = {} /\ Defer(t)
    \/ \E s \in Candidates(t) :
          \/ launch_slot_with_task(s, t)
          \/ Answer(t, "error") /\ UNCHANGED slots

\* SLOT_SAVE, SLOT_RESTORE, SLOT_ERASE: the slot's prompt is kept, read
\* from a file or cleared; a restore may fail, which clears it too
ActOnSlot(t) ==
    LET s == IdSlot(t)
    IN  \/ s \notin SlotIds /\ Answer(t, "error") /\ UNCHANGED slots
        \/ s \in Processing /\ Defer(t)
        \/ /\ s \in SlotIds \ Processing
           /\ \E p \in {0, slots[s].prompt} :
                /\ slots' = [slots EXCEPT ![s].prompt = p]
                /\ Answer(t, "final") \/ (p = 0 /\ Answer(t, "error"))

\* fault: the release of a cancelled slot fetches no deferred task
CancelTask_NoWakeUp(t) ==
    LET S == {s \in SlotIds : slots[s].task = t}
    IN  /\ slots' = [s \in SlotIds |-> IF s \in S THEN released(slots[s]) ELSE slots[s]]
        /\ UNCHANGED taskVars
        /\ UNCHANGED <<queue_results, orphans>>

CancelTask(t) ==
    LET S == {s \in SlotIds : slots[s].task = t}
    IN  /\ slots' = [s \in SlotIds |-> IF s \in S THEN released(slots[s]) ELSE slots[s]]
        /\ pop_deferred_tasks(Cardinality(S), queue_tasks)
        /\ UNCHANGED <<queue_results, orphans>>

\* METRICS, GET_LORA and SET_LORA are answered at once, NEXT_RESPONSE only
\* brings the loop round
process_single_task ==
    /\ loop = "task"
    /\ CASE hand.op = "cancel" -> CancelTask(hand.task)
         [] hand.op = "next" -> UNCHANGED <<slots, taskVars, queue_results, orphans>>
         [] hand.op = "run" ->
              CASE TypeOf(hand.task) = "control" -> Answer(hand.task, "final") /\ UNCHANGED slots
                [] TypeOf(hand.task) = "action" -> ActOnSlot(hand.task)
                [] OTHER -> RunTask(hand.task)
    /\ hand' = NoTask
    /\ loop' = "take"
    /\ LoopFrame
    /\ UNCHANGED <<sleepVars, batchVars>>
-----------------------------------------------------------------------------
(* update_slots: building the batch                                        *)

AllIdle ==
    /\ loop = "update"
    /\ Processing = {}
    /\ loop' = "wait"
    /\ LoopFrame
    /\ UNCHANGED <<sleepVars, taskVars, queue_results, hand, slots, batchVars, orphans>>

\* The slots from c on that still get their turn in the loop over the
\* prompts: they can share the batch b of kind k, and no slot before them
\* ends the loop because the batch is full.
Turns(c, b, k, sl) ==
    LET shares == {s \in SlotIds : /\ s >= c
                                   /\ sl[s].state # "IDLE"
                                   /\ k \in {NoTask, TypeOf(sl[s].task)}}
        prompt == {s \in shares : sl[s].state \in {"STARTED", "PROCESSING_PROMPT"}}
    IN  {s \in prompt : Len(b) >= NBatch => \A o \in shares \ prompt : o > s}

\* to the next slot, or to the decoding; an empty batch is not decoded
NextTurn(turns, b, k) ==
    /\ IF turns # {}
       THEN loop' = "prompt" /\ cursor' = Min(turns)
       ELSE loop' = (IF b = <<>> THEN "wait" ELSE "decode") /\ cursor' = 0
    /\ batch' = b
    /\ kind' = IF turns = {} /\ b = <<>> THEN NoTask ELSE k
    /\ view' = view

\* Posts NEXT_RESPONSE, ends the slots whose context is full, and puts the
\* sampled token of every generating slot that can share a batch with the
\* first one into the batch.
AddSampled ==
    LET full == {s \in SlotIds : slots[s].state = "GENERATING" /\ slots[s].prompt + 1 >= NCtx}
        gen == {s \in SlotIds \ full : slots[s].state = "GENERATING"}
        first == TypeOf(slots[Min(gen)].task)
        in == {s \in gen : TypeOf(slots[s].task) = first}
        k == IF gen = {} THEN NoTask ELSE first
        sl == [s \in SlotIds |->
                 IF s \in full THEN released(slots[s])
                 ELSE IF s \in in
                 THEN [slots[s] EXCEPT !.i_batch = Cardinality({o \in in : o < s}), !.prompt = @ + 1]
                 ELSE slots[s]]
    IN  /\ loop = "update"
        /\ Processing # {}
        /\ FailSlots(full, <<NextResponse>>)
        /\ slots' = sl
        /\ NextTurn(Turns(0, Ascending(in), k, sl), Ascending(in), k)
        /\ LoopFrame
        /\ UNCHANGED <<sleepVars, hand, orphans>>

\* the prompt does not fit into the context or, not divisible, into a batch
TooLong(s) ==
    IF can_split(s) THEN n_tokens(s) >= NCtx ELSE n_tokens(s) > NBatch \/ n_tokens(s) > NCtx

\* STARTED: an empty prompt is answered at once, one too long is an error
EndAtStart ==
    LET sl == [slots EXCEPT ![cursor] = released(@)]
    IN  /\ loop = "prompt"
        /\ slots[cursor].state = "STARTED"
        /\ n_tokens(cursor) = 0 \/ TooLong(cursor)
        /\ send(<<Result(slots[cursor].task, IF n_tokens(cursor) = 0 THEN "final" ELSE "error")>>)
        /\ pop_deferred_tasks(1, queue_tasks)
        /\ slots' = sl
        /\ NextTurn(Turns(cursor + 1, batch, kind, sl), batch, kind)
        /\ LoopFrame
        /\ UNCHANGED <<sleepVars, hand, orphans>>

\* An embedding that does not fit into the rest of the batch waits for the
\* next one.
WaitForBatch ==
    LET sl == [slots EXCEPT ![cursor].state = "PROCESSING_PROMPT", ![cursor].prompt = 0]
    IN  /\ loop = "prompt"
        /\ ~can_split(cursor)
        /\ n_tokens(cursor) > 0 /\ ~TooLong(cursor)
        /\ Len(batch) + n_tokens(cursor) > NBatch
        /\ slots' = sl
        /\ NextTurn(Turns(cursor + 1, batch, kind, sl), batch, kind)
        /\ LoopFrame
        /\ UNCHANGED <<sleepVars, taskVars, queue_results, hand, orphans>>

\* how many tokens of the slot's old prompt can be kept: a common prefix,
\* at most all but the last token of the new prompt
n_past(s) ==
    IF slots[s].state = "PROCESSING_PROMPT" THEN {slots[s].prompt}
    ELSE IF ~can_split(s) THEN {0}
    ELSE IF slots[s].prompt = 0 THEN {0}
    ELSE 0..n_tokens(s) - 1

\* Prompt tokens go into the batch until the prompt ends or the batch is
\* full, which ends the loop.
AddPrompt ==
    /\ loop = "prompt"
    /\ n_tokens(cursor) > 0 /\ ~TooLong(cursor)
    /\ can_split(cursor) \/ Len(batch) + n_tokens(cursor) <= NBatch
    /\ \E past \in n_past(cursor) :
         LET add == Min({n_tokens(cursor) - past, Max({NBatch - Len(batch), 0})})
             b == batch \o [j \in 1..add |-> cursor]
             done == past + add = n_tokens(cursor)
             k == TypeOf(slots[cursor].task)
             sl == [slots EXCEPT
                      ![cursor].prompt = past + add,
                      ![cursor].state = IF done THEN "DONE_PROMPT" ELSE "PROCESSING_PROMPT",
                      ![cursor].i_batch = IF done THEN Len(b) - 1 ELSE @]
         IN  /\ slots' = sl
             /\ NextTurn(IF Len(b) >= NBatch THEN {} ELSE Turns(cursor + 1, b, k, sl), b, k)
    /\ LoopFrame
    /\ UNCHANGED <<sleepVars, taskVars, queue_results, hand, orphans>>
-----------------------------------------------------------------------------
(* update_slots: llama_decode of one view of the batch after the other     *)

ViewEnd == Min({view.i + view.n, Len(batch)})

\* the slots from c on with a token of this view to sample from
ToSample(c) ==
    {s \in SlotIds : /\ s >= c
                     /\ slots[s].state \in {"DONE_PROMPT", "GENERATING"}
                     /\ view.i <= slots[s].i_batch /\ slots[s].i_batch < ViewEnd}

\* to the next slot, or to the next view with n_batch at its full size, or
\* out of update_slots (the batch is cleared before it is used again)
NextSample(todo) ==
    IF todo # {}
    THEN /\ loop' = "sample"
         /\ cursor' = Min(todo)
         /\ UNCHANGED <<batch, kind, view>>
    ELSE IF ViewEnd < Len(batch)
    THEN /\ loop' = "decode"
         /\ cursor' = 0
         /\ view' = [i |-> ViewEnd, n |-> NBatch]
         /\ UNCHANGED <<batch, kind>>
    ELSE /\ loop' = "wait"
         /\ cursor' = 0
         /\ batch' = <<>>
         /\ kind' = NoTask
         /\ view' = [i |-> 0, n |-> NBatch]

Decoded ==
    /\ loop = "decode"
    /\ NextSample(ToSample(0))
    /\ LoopFrame
    /\ UNCHANGED <<sleepVars, taskVars, queue_results, hand, slots, orphans>>

\* ret = 1, no room in the KV cache: an idle slot is cleared
\* (try_clear_idle_slots), or the view is made half as large
NoRoom ==
    LET idle == {s \in SlotIds \ Processing : slots[s].prompt > 0}
    IN  /\ loop = "decode"
        /\ view.n > 1
        /\ IF idle # {}
           THEN slots' = [slots EXCEPT ![Min(idle)].prompt = 0] /\ UNCHANGED view
           ELSE view' = [view EXCEPT !.n = @ \div 2] /\ UNCHANGED slots
        /\ LoopFrame
        /\ UNCHANGED <<sleepVars, taskVars, queue_results, loop, hand, cursor, batch, kind, orphans>>

\* fault: only the slots with a token in the failed view are ended
DecodeFails_InView ==
    /\ loop = "decode"
    /\ FailSlots({s \in Processing : view.i <= slots[s].i_batch /\ slots[s].i_batch < ViewEnd}, <<>>)
    /\ slots' = [s \in SlotIds |-> IF is_processing(s) /\ view.i <= slots[s].i_batch /\ slots[s].i_batch < ViewEnd THEN [released(slots[s]) EXCEPT !.prompt = 0]
                                                       ELSE slots[s]]
    /\ loop' = "wait"
    /\ cursor' = 0
    /\ batch' = <<>>
    /\ kind' = NoTask
    /\ view' = [i |-> 0, n |-> NBatch]
    /\ LoopFrame
    /\ UNCHANGED <<sleepVars, hand, orphans>>

\* a compute error, or no room for a view of one token: every task is
\* answered with an error, its slot released and cleared
DecodeFails ==
    /\ loop = "decode"
    /\ FailSlots(Processing, <<>>)
    /\ slots' = [s \in SlotIds |-> IF is_processing(s) THEN [released(slots[s]) EXCEPT !.prompt = 0]
                                                       ELSE slots[s]]
    /\ loop' = "wait"
    /\ cursor' = 0
    /\ batch' = <<>>
    /\ kind' = NoTask
    /\ view' = [i |-> 0, n |-> NBatch]
    /\ LoopFrame
    /\ UNCHANGED <<sleepVars, hand, orphans>>

\* An embedding is answered; a completion samples a token. process_token
\* sends the text of a streamed request unless it ends inside a character;
\* generation goes on, or stops (end of text, stop word, limits, and always
\* when the context is full) and the final answer is sent.
Sample ==
    LET sl == slots[cursor]
        embedding == TypeOf(sl.task) = "embedding"
        part == IF ~embedding /\ shape[sl.task[1]].stream THEN <<Result(sl.task, "partial")>> ELSE <<>>
    IN  /\ loop = "sample"
        /\ \E ends \in BOOLEAN, text \in {part, <<>>} :
             /\ (embedding \/ sl.prompt + 1 >= NCtx) => ends
             /\ slots' = [slots EXCEPT ![cursor] =
                   [IF ends THEN released(sl) ELSE [sl EXCEPT !.state = "GENERATING"]
                      EXCEPT !.i_batch = -1]]
             /\ send(text \o IF ends THEN <<Result(sl.task, "final")>> ELSE <<>>)
             /\ IF ends THEN pop_deferred_tasks(1, queue_tasks) ELSE UNCHANGED taskVars
        /\ NextSample(ToSample(cursor + 1))
        /\ LoopFrame
        /\ UNCHANGED <<sleepVars, hand, orphans>>
-----------------------------------------------------------------------------
(* start_loop: waiting for tasks, and sleeping                             *)

WaitEnds ==
    /\ loop = "wait"
    /\ ~running \/ queue_tasks # <<>>
    /\ loop' = "take"
    /\ LoopFrame
    /\ UNCHANGED <<sleepVars, taskVars, queue_results, hand, slots, batchVars, orphans>>

\* No task for sleep_idle_seconds: destroy() frees the model. A thread that
\* the end of the last sleep woke takes the mutex before that time has
\* passed again.
Sleep ==
    /\ loop = "wait"
    /\ running /\ queue_tasks = <<>>
    /\ SleepIdle
    /\ \A r \in Requests : reader[r] # "sleeps"
    /\ sleeping' = TRUE
    /\ req_stop_sleeping' = FALSE
    /\ loop' = "asleep"
    /\ LoopFrame
    /\ UNCHANGED <<taskVars, queue_results, hand, slots, batchVars, orphans>>

\* Ends by terminate(), which leaves `sleeping' as it is, or by a request:
\* load_model builds new slots.
Wake ==
    /\ loop = "asleep"
    /\ \/ /\ ~running
          /\ UNCHANGED <<sleepVars, slots>>
       \/ /\ running /\ req_stop_sleeping
          /\ sleeping' = FALSE
          /\ req_stop_sleeping' = FALSE
          /\ slots' = [s \in SlotIds |-> NewSlot]
    /\ loop' = "take"
    /\ LoopFrame
    /\ UNCHANGED <<taskVars, queue_results, hand, batchVars, orphans>>
-----------------------------------------------------------------------------
MainLoop ==
    /\ alive
    /\ \/ Take \/ process_single_task
       \/ AllIdle \/ AddSampled \/ EndAtStart \/ WaitForBatch \/ AddPrompt
       \/ Decoded \/ NoRoom \/ DecodeFails \/ Sample
       \/ WaitEnds \/ Sleep \/ Wake

\* what the thread of a request does by itself
Serve(r) ==
    /\ alive
    /\ NoSleep(r) \/ Refuse(r) \/ post_tasks(r) \/ next(r)
    /\ UNCHANGED <<loop, hand, slots, batchVars, orphans>>

Client(r) ==
    /\ alive
    /\ \/ loop # "ended" /\ Arrive(r)
       \/ ClientLeaves(r)
    /\ UNCHANGED <<loop, hand, slots, batchVars, orphans>>

\* A signal; the loop looks at `running' only in these places, so a signal
\* in between is one that comes a little later.
Signal ==
    /\ alive
    /\ loop \in {"take", "wait", "asleep"}
    /\ Terminate
    /\ UNCHANGED <<loop, hand, slots, batchVars, orphans>>

Next ==
    \/ MainLoop
    \/ \E r \in Requests : Serve(r) \/ Client(r)
    \/ Signal

\* The main thread and the threads that wait with a predicate or a timeout
\* keep running; clients and signals do as they like.
Fairness ==
    /\ WF_vars(MainLoop)
    /\ \A r \in Requests : WF_vars(Serve(r))

Spec == Init /\ [][Next]_vars /\ Fairness
-----------------------------------------------------------------------------
(* What can be in queue_tasks, and the types of the variables. Of the six  *)
(* slot_states WAIT_OTHER is left out: see NobodyWaitsForParent.            *)
Entry == [op : {"run", "cancel"}, task : Task] \cup {NextResponse}

TypeOK ==
    /\ running \in BOOLEAN /\ sleeping \in BOOLEAN /\ req_stop_sleeping \in BOOLEAN
    /\ alive \in BOOLEAN /\ lost \in BOOLEAN
    /\ queue_tasks \in Seq(Entry)
    /\ queue_tasks_deferred \in Seq(Task)
    /\ waiting_task_ids \subseteq Task /\ woken \subseteq Task /\ orphans \subseteq Task
    /\ queue_results \in Seq([task : Task, kind : {"partial", "final", "error"}])
    /\ reader \in [Requests -> {"idle", "sleeps", "ready", "wait", "gone"}]
    /\ shape \in [Requests -> UNION {Shapes[r] : r \in Requests} \cup {NoTask}]
    /\ \A r \in Requests : shape[r] \in Shapes[r] \cup {NoTask}
    /\ received \in [Requests -> SUBSET Task]
    /\ loop \in {"take", "task", "update", "prompt", "decode", "sample", "wait", "asleep",
                 "ended"}
    /\ IF loop = "task" THEN hand \in Entry ELSE hand = NoTask
    /\ slots \in [SlotIds -> [state : {"IDLE", "STARTED", "PROCESSING_PROMPT", "DONE_PROMPT",
                                      "GENERATING"},
                              task : Task \cup {NoTask}, i_batch : Int, prompt : Nat]]
    /\ cursor \in SlotIds
    /\ batch \in Seq(SlotIds)
    /\ kind \in {NoTask, "completion", "embedding"}
    /\ view \in [i : Nat, n : Nat \ {0}]

(* The final result of a task, an answer or an error, is its last and its  *)
(* only one: nothing is queued after it, and once the reader has counted it *)
(* nothing of that task comes any more (wait_for_all asserts "duplicate    *)
(* result received"), whatever cancels, decode errors and releases         *)
(* happened between.                                                       *)
ResultsEndOnce ==
    \A i \in DOMAIN queue_results :
        LET x == queue_results[i]
        IN  /\ x.task \in waiting_task_ids \ received[x.task[1]]
            /\ x.kind # "partial" => \A j \in DOMAIN queue_results :
                                        j > i => queue_results[j].task # x.task

(* A slot works for a reader that waits, or its cancel is on the way, or   *)
(* the task was in the main loop's hand when its cancel was posted and was *)
(* deferred afterwards (cleanup_pending_task could not find it).           *)
SlotsServeReaders ==
    \A s \in Processing :
        LET t == slots[s].task
        IN  \/ t \in waiting_task_ids \cup orphans
            \/ Cancelled(t) \/ hand = Cancel(t)

(* A deferred task is not forgotten: while some slot works its release will *)
(* fetch one, or one has just been fetched, or the one fetched last has    *)
(* taken no slot and so has spent the only wake-up its release gave.       *)
DeferredHasWaker ==
    (\E t \in Range(queue_tasks_deferred) : IdSlot(t) < NSlots)
        => Processing # {} \/ woken # {} \/ lost

(* A slot samples from the logits of a token it has put into the batch     *)
(* itself, in whatever views the batch is decoded and whatever i_batch an  *)
(* earlier batch has left behind; when the batch is done no slot still     *)
(* waits for logits.                                                       *)
SampledFromOwnToken ==
    /\ loop = "sample" =>
         \A s \in ToSample(cursor) : batch[slots[s].i_batch + 1] = s
    /\ loop \in {"take", "wait", "asleep"} => \A s \in SlotIds : slots[s].state # "DONE_PROMPT"

(* No slot waits for another one. launch_slot_with_task asks is_child()    *)
(* while the slot is still IDLE and has no task, so a child goes to STARTED *)
(* and computes the prompt it shares with its parent by itself; the copying *)
(* of the parent's state in update_slots never runs, and a parent that is  *)
(* cancelled, refused or deferred cannot leave a child waiting for it.     *)
NobodyWaitsForParent ==
    \A s \in SlotIds : slots[s].state # "WAIT_OTHER"

(* Every request the server has taken ends, answered or given up, unless   *)
(* the server stops or dies, a wake-up was spent, the request names a slot *)
(* that does not exist, or it was posted after the main loop went to sleep. *)
RequestsEnd ==
    \A r \in Requests :
        reader[r] \notin {"idle", "gone"} ~>
            \/ reader[r] = "gone"
            \/ ~running \/ ~alive \/ lost
            \/ reader[r] # "idle" /\ shape[r].id_slot = NSlots
            \/ sleeping /\ queue_tasks # <<>>
=============================================================================
