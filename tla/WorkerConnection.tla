-------------------------- MODULE WorkerConnection --------------------------
(***************************************************************************)
(* worker-api's WorkerConnection with the UnixDomainSocketClient it owns:  *)
(* callers of sendRequest, one timer thread per request that was written,  *)
(* the receiver thread, and the one thread (WorkerManager.stopWorker) that *)
(* disconnects.  They share a flag per class, the channel, the map         *)
(* pendingRequests and the futures.  A step is what one thread does        *)
(* between two accesses to that shared state.                              *)
(*                                                                         *)
(* The worker process at the other end of the socket is external: it may   *)
(* send any frame, die, or never answer.                                   *)
(***************************************************************************)
EXTENDS Naturals

CONSTANTS
    Requests,    \* the calls of sendRequest
    TaskIds,     \* the values of WorkerRequest.taskId
    IdOf,        \* the task id of each request; two requests may share one
    RespId,      \* the task id fromProtobuf gives to every response ("resp")
    None,        \* Java's null
    MaxFrames    \* bound: frames the worker sends in a behaviour

ASSUME ConnectionAssumption ==
    /\ IdOf \in [Requests -> TaskIds]
    /\ RespId \in TaskIds
    /\ None \notin Requests
    /\ MaxFrames \in Nat

VARIABLES
    connected,       \* WorkerConnection.connected
    clientConnected, \* UnixDomainSocketClient.connected
    channel,         \* "null", "failed" to connect, "open" or "closed"
    peer,            \* is the worker process at the other end?
    pendingRequests, \* taskId -> the request whose future is stored, or None
    future,          \* "none" before it exists, "incomplete", or its status
    pc,              \* where each request's sendRequest call is
    timer,           \* where each request's timer thread is
    recv,            \* where the receiver thread is
    held,            \* the future the receiver removed and will complete
    disc,            \* where WorkerConnection.disconnect is
    frames,          \* frames read so far
    badFrame         \* history: a frame was read that decode rejects

flags    == <<connected, clientConnected, channel, peer>>
receiver == <<recv, held, frames, badFrame>>
vars == <<flags, pendingRequests, future, pc, timer, receiver, disc>>

Statuses == {"SUCCESS", "TIMEOUT", "FAILED"}

TypeOK ==
    /\ connected \in BOOLEAN
    /\ clientConnected \in BOOLEAN
    /\ channel \in {"null", "failed", "open", "closed"}
    /\ peer \in BOOLEAN
    /\ pendingRequests \in [TaskIds -> Requests \cup {None}]
    /\ future \in [Requests -> {"none", "incomplete", "refused"} \cup Statuses]
    /\ pc \in [Requests -> {"idle", "checked", "put", "writing", "written",
                            "ioerror", "failed", "returned", "raised"}]
    /\ timer \in [Requests -> {"none", "sleeping", "expired", "done"}]
    /\ recv \in {"none", "top", "check", "read", "response", "complete", "dead"}
    /\ held \in Requests \cup {None}
    /\ disc \in {"idle", "flag", "client", "channel", "done"}
    /\ frames \in 0 .. MaxFrames
    /\ badFrame \in BOOLEAN

Init ==
    /\ connected = FALSE
    /\ clientConnected = FALSE
    /\ channel = "null"
    /\ peer = TRUE
    /\ pendingRequests = [i \in TaskIds |-> None]
    /\ future = [r \in Requests |-> "none"]
    /\ pc = [r \in Requests |-> "idle"]
    /\ timer = [r \in Requests |-> "none"]
    /\ recv = "none"
    /\ held = None
    /\ disc = "idle"
    /\ frames = 0
    /\ badFrame = FALSE

-----------------------------------------------------------------------------
\* Seeded fault: a later completion overwrites an earlier one.
CompleteWith_Overwrites(r, status) == [future EXCEPT ![r] = status]

(* CompletableFuture.complete: only the first completion counts.           *)
CompleteWith(r, status) ==
    IF future[r] = "incomplete" THEN [future EXCEPT ![r] = status] ELSE future

Remove(id) == [pendingRequests EXCEPT ![id] = None]

Go(r, from, to) == pc[r] = from /\ pc' = [pc EXCEPT ![r] = to]

-----------------------------------------------------------------------------
(* Seeded faults: what an action would be with a plausible bug.  Nothing   *)
(* below uses them; each breaks the property that is about that bug.       *)

\* The timer is started only if the map still holds this future.
StartTimer_IfStillPending(r) ==
    /\ Go(r, "written", "returned")
    /\ timer' = IF pendingRequests[IdOf[r]] = r
                THEN [timer EXCEPT ![r] = "sleeping"] ELSE timer
    /\ UNCHANGED <<flags, pendingRequests, future, receiver, disc>>

\* The timer removes the entry first and does not complete the future.
TimerExpires_RemovesFirst(r) ==
    /\ timer[r] = "sleeping"
    /\ timer' = [timer EXCEPT ![r] = "expired"]
    /\ pendingRequests' = Remove(IdOf[r])
    /\ UNCHANGED <<flags, future, pc, receiver, disc>>

\* disconnect stops the timers.
TimerExpires_WhileConnected(r) ==
    /\ connected
    /\ timer[r] = "sleeping"
    /\ timer' = [timer EXCEPT ![r] = "expired"]
    /\ future' = CompleteWith(r, "TIMEOUT")
    /\ UNCHANGED <<flags, pendingRequests, pc, receiver, disc>>

\* The receiver looks the future up without removing it.
TakePending_Get ==
    /\ recv = "response"
    /\ held' = pendingRequests[RespId]
    /\ recv' = IF held' = None THEN "top" ELSE "complete"
    /\ UNCHANGED <<flags, pendingRequests, future, pc, timer, frames,
                   badFrame, disc>>

-----------------------------------------------------------------------------
(* connect().  The connection is not shared before startWorker has put it  *)
(* into WorkerManager.connections, so nobody can see a half-done connect.  *)
Connect ==
    /\ channel = "null"
    /\ peer
    /\ clientConnected' = TRUE
    /\ channel' = "open"
    /\ connected' = TRUE
    /\ recv' = "top"
    /\ UNCHANGED <<peer, pendingRequests, future, pc, timer, held, frames,
                   badFrame, disc>>

(* The socket refuses: the client's flag stays set, connected stays false, *)
(* and startWorker drops the object without having shared it.              *)
ConnectFails ==
    /\ channel = "null"
    /\ clientConnected' = TRUE
    /\ channel' = "failed"
    /\ UNCHANGED <<connected, peer, pendingRequests, future, pc, timer,
                   receiver, disc>>

-----------------------------------------------------------------------------
(* sendRequest(request), one action per access to shared state.            *)
Shared == recv # "none"

CheckConnected(r) ==
    /\ Shared
    /\ Go(r, "idle", "checked")
    /\ connected
    /\ UNCHANGED <<flags, pendingRequests, future, timer, receiver, disc>>

RefuseRequest(r) ==
    /\ Shared
    /\ Go(r, "idle", "returned")
    /\ ~connected
    /\ future' = [future EXCEPT ![r] = "refused"]
    /\ UNCHANGED <<flags, pendingRequests, timer, receiver, disc>>

PutPending(r) ==
    /\ Go(r, "checked", "put")
    /\ future' = [future EXCEPT ![r] = "incomplete"]
    /\ pendingRequests' = [pendingRequests EXCEPT ![IdOf[r]] = r]
    /\ UNCHANGED <<flags, timer, receiver, disc>>

(* client.sendMessage tests its own flag; its IllegalStateException is not *)
(* an IOException, leaves sendRequest, and the map entry stays.            *)
CheckClient(r) ==
    /\ Go(r, "put", IF clientConnected THEN "writing" ELSE "raised")
    /\ UNCHANGED <<flags, pendingRequests, future, timer, receiver, disc>>

WriteFrame(r) ==
    /\ Go(r, "writing", "written")
    /\ channel = "open"
    /\ peer
    /\ UNCHANGED <<flags, pendingRequests, future, timer, receiver, disc>>

WriteError(r) ==
    /\ Go(r, "writing", "ioerror")
    /\ channel = "closed" \/ ~peer
    /\ UNCHANGED <<flags, pendingRequests, future, timer, receiver, disc>>

StartTimer(r) ==
    /\ Go(r, "written", "returned")
    /\ timer' = [timer EXCEPT ![r] = "sleeping"]
    /\ UNCHANGED <<flags, pendingRequests, future, receiver, disc>>

FailRequest(r) ==
    /\ Go(r, "ioerror", "failed")
    /\ future' = CompleteWith(r, "FAILED")
    /\ UNCHANGED <<flags, pendingRequests, timer, receiver, disc>>

RemoveFailed(r) ==
    /\ Go(r, "failed", "returned")
    /\ pendingRequests' = Remove(IdOf[r])
    /\ UNCHANGED <<flags, future, timer, receiver, disc>>

-----------------------------------------------------------------------------
(* The timer thread: sleep(timeout), complete, then remove BY TASK ID.     *)
TimerExpires(r) ==
    /\ timer[r] = "sleeping"
    /\ timer' = [timer EXCEPT ![r] = "expired"]
    /\ future' = CompleteWith(r, "TIMEOUT")
    /\ UNCHANGED <<flags, pendingRequests, pc, receiver, disc>>

TimerRemoves(r) ==
    /\ timer[r] = "expired"
    /\ timer' = [timer EXCEPT ![r] = "done"]
    /\ pendingRequests' = Remove(IdOf[r])
    /\ UNCHANGED <<flags, future, pc, receiver, disc>>

-----------------------------------------------------------------------------
(* receiveLoop().                                                          *)
LoopTop ==
    /\ recv = "top"
    /\ recv' = IF connected THEN "check" ELSE "dead"
    /\ UNCHANGED <<flags, pendingRequests, future, pc, timer, held, frames,
                   badFrame, disc>>

(* receiveMessage tests the client's flag; its IllegalStateException is    *)
(* not caught and ends the thread.                                         *)
LoopCheck ==
    /\ recv = "check"
    /\ recv' = IF clientConnected THEN "read" ELSE "dead"
    /\ UNCHANGED <<flags, pendingRequests, future, pc, timer, held, frames,
                   badFrame, disc>>

(* A closed channel raises an IOException, end of stream yields an empty   *)
(* array: in both cases nothing but another turn of the loop.              *)
ReadNothing ==
    /\ recv = "read"
    /\ channel = "closed" \/ ~peer
    /\ recv' = "top"
    /\ UNCHANGED <<flags, pendingRequests, future, pc, timer, held, frames,
                   badFrame, disc>>

(* A frame arrives.  decode rejects an unknown type or a length that does  *)
(* not fit ("bad") with an unchecked exception that ends the thread; only  *)
(* WORKER_RESPONSE is looked at.                                           *)
ReadFrame(kind) ==
    /\ recv = "read"
    /\ channel = "open"
    /\ peer
    /\ frames < MaxFrames
    /\ frames' = frames + 1
    /\ recv' = CASE kind = "bad"      -> "dead"
                 [] kind = "other"    -> "top"
                 [] kind = "response" -> "response"
    /\ badFrame' = (badFrame \/ kind = "bad")
    /\ UNCHANGED <<flags, pendingRequests, future, pc, timer, held, disc>>

TakePending ==
    /\ recv = "response"
    /\ held' = pendingRequests[RespId]
    /\ pendingRequests' = Remove(RespId)
    /\ recv' = IF held' = None THEN "top" ELSE "complete"
    /\ UNCHANGED <<flags, future, pc, timer, frames, badFrame, disc>>

CompleteHeld ==
    /\ recv = "complete"
    /\ future' = CompleteWith(held, "SUCCESS")
    /\ held' = None
    /\ recv' = "top"
    /\ UNCHANGED <<flags, pendingRequests, pc, timer, frames, badFrame, disc>>

-----------------------------------------------------------------------------
(* disconnect(): flag, the client's flag, the channel, clear.              *)
DisconnectFlag ==
    /\ disc = "idle"
    /\ connected
    /\ disc' = "flag"
    /\ connected' = FALSE
    /\ UNCHANGED <<clientConnected, channel, peer, pendingRequests, future,
                   pc, timer, receiver>>

DisconnectClient ==
    /\ disc = "flag"
    /\ disc' = "client"
    /\ clientConnected' = FALSE
    /\ UNCHANGED <<connected, channel, peer, pendingRequests, future, pc,
                   timer, receiver>>

CloseChannel ==
    /\ disc = "client"
    /\ disc' = "channel"
    /\ channel' = "closed"
    /\ UNCHANGED <<connected, clientConnected, peer, pendingRequests, future,
                   pc, timer, receiver>>

ClearPending ==
    /\ disc = "channel"
    /\ disc' = "done"
    /\ pendingRequests' = [i \in TaskIds |-> None]
    /\ UNCHANGED <<flags, future, pc, timer, receiver>>

-----------------------------------------------------------------------------
(* External: the worker process exits.                                     *)
WorkerDies ==
    /\ peer
    /\ peer' = FALSE
    /\ UNCHANGED <<connected, clientConnected, channel, pendingRequests,
                   future, pc, timer, receiver, disc>>

-----------------------------------------------------------------------------
SendStep(r) ==
    \/ CheckConnected(r) \/ RefuseRequest(r) \/ PutPending(r)
    \/ CheckClient(r) \/ WriteFrame(r) \/ WriteError(r) \/ StartTimer(r)
    \/ FailRequest(r) \/ RemoveFailed(r)

TimerStep(r) == TimerExpires(r) \/ TimerRemoves(r)

ReceiveStep ==
    \/ LoopTop \/ LoopCheck \/ ReadNothing \/ TakePending \/ CompleteHeld
    \/ \E kind \in {"bad", "other", "response"} : ReadFrame(kind)

DisconnectStep ==
    DisconnectFlag \/ DisconnectClient \/ CloseChannel \/ ClearPending

Next ==
    \/ Connect \/ ConnectFails \/ WorkerDies
    \/ \E r \in Requests : SendStep(r) \/ TimerStep(r)
    \/ ReceiveStep
    \/ DisconnectStep

(* A sleeping timer thread wakes up, and a caller whose write has returned *)
(* runs on.  Nothing is assumed of the write itself (it blocks as long as  *)
(* the worker does not drain its socket), of the worker, of the receiver,  *)
(* or of the thread that disconnects.                                      *)
Fairness ==
    \A r \in Requests :
        /\ WF_vars(StartTimer(r) \/ FailRequest(r) \/ RemoveFailed(r))
        /\ WF_vars(TimerStep(r))

Spec == Init /\ [][Next]_vars /\ Fairness

-----------------------------------------------------------------------------
Completed(r) == future[r] \in Statuses

(* Every slot of pendingRequests that holds a request still has a thread   *)
(* that will empty it: its own sendRequest call, or its timer.  The only   *)
(* exception is the call that client.sendMessage left with an              *)
(* IllegalStateException: its entry leaks (sendRequest catches IOException *)
(* only).  Duplicate ids, the clear in disconnect and the receiver's       *)
(* remove race with the put and with each other.                           *)
EntryHasRemover ==
    \A i \in TaskIds : LET r == pendingRequests[i] IN
        r # None =>
            /\ IdOf[r] = i
            /\ \/ pc[r] \in {"put", "writing", "written", "ioerror", "failed"}
               \/ timer[r] \in {"sleeping", "expired"}
               \/ pc[r] = "raised"

(* A completed future is found in the map only by the thread that is about *)
(* to remove it: between complete() and remove() of the timer or of the    *)
(* IOException handler.  (A receiver that used get instead of remove would *)
(* leave it there.)                                                        *)
CompletedEntryIsLeaving ==
    \A i \in TaskIds : LET r == pendingRequests[i] IN
        r # None /\ Completed(r) => timer[r] = "expired" \/ pc[r] = "failed"

(* Together: an entry of pendingRequests is owed to somebody.  It is the   *)
(* entry of a request that still waits, or a thread is about to take it    *)
(* out, for every interleaving of duplicate ids, the receiver's remove,    *)
(* the timers and disconnect's clear.                                      *)
PendingIsOwed == EntryHasRemover /\ CompletedEntryIsLeaving

(* No caller is left holding a future that nobody will complete: once      *)
(* sendRequest has returned an incomplete future, its timer is asleep,     *)
(* whatever the receiver, disconnect's clear or another request with the   *)
(* same id did to its slot in the map.                                     *)
ReturnedFutureIsTimed ==
    \A r \in Requests :
        pc[r] = "returned" /\ future[r] = "incomplete" => timer[r] = "sleeping"

(* While the connection counts as connected its receiver is alive, unless  *)
(* the worker sent a frame that decode rejects: read errors and end of     *)
(* stream never end the loop.                                              *)
ReceiverAlive == connected => recv # "dead" \/ badFrame

(* A request that is still waiting loses its slot only to the receiver     *)
(* (which then completes it), to disconnect's clear, or to another request *)
(* with the same task id: its overwriting put, or the remove-by-id of its  *)
(* timer or error path.                                                    *)
WaitingKeepsSlot ==
    [][\A r \in Requests :
         pendingRequests[IdOf[r]] = r /\ pendingRequests'[IdOf[r]] # r
            /\ future[r] = "incomplete"
            => \/ held' = r
               \/ disc' = "done" /\ disc = "channel"
               \/ \E q \in Requests \ {r} : IdOf[q] = IdOf[r] /\ pc[q] # "idle"
      ]_vars

(* A request that was written is completed, whatever becomes of its slot:  *)
(* the timer is armed after the write and completes it at the latest.      *)
WrittenRequestSettles ==
    \A r \in Requests : pc[r] = "written" ~> Completed(r)

(* The connection keeps the promise stated in RequestFutures: the caller   *)
(* sees nothing before sendRequest returns or raises, and then the future. *)
outcomeOf(r) ==
    CASE pc[r] = "raised" -> "raised"
      [] pc[r] = "returned" -> IF future[r] = "incomplete" THEN "open" ELSE future[r]
      [] OTHER -> "none"

Promise == INSTANCE RequestFutures
               WITH outcome <- [r \in Requests |-> outcomeOf(r)]

KeepsPromise == Promise!Spec
=============================================================================
