----------------------- MODULE WorkerConnectionProofs -----------------------
(***************************************************************************)
(* WorkerConnection for any set of requests, any task ids, shared or not,  *)
(* and any number of frames: the invariants TLC checks on a small instance *)
(* hold always, and the connection implements the safety part of           *)
(* RequestFutures.                                                         *)
(***************************************************************************)
EXTENDS WorkerConnection, TLAPS

(* Where a sendRequest call is decides what its future and timer can be.   *)
CallState ==
    \A r \in Requests :
        /\ pc[r] \in {"idle", "checked"} => future[r] = "none"
        /\ pc[r] \in {"put", "writing", "written", "ioerror", "raised"}
               => future[r] \in {"incomplete", "SUCCESS"}
        /\ pc[r] = "failed" => Completed(r)
        /\ pc[r] = "returned" => future[r] # "none"
        /\ pc[r] # "returned" => timer[r] = "none"
        /\ timer[r] = "sleeping" => future[r] # "refused"
        /\ timer[r] \in {"expired", "done"} => Completed(r)

(* The receiver holds a future exactly between its remove and its          *)
(* complete, and what it holds is no longer in the map.                    *)
HeldState ==
    /\ recv = "complete" <=> held # None
    /\ held # None => /\ future[held] \in {"incomplete"} \cup Statuses
                      /\ \A i \in TaskIds : pendingRequests[i] # held

(* The two connected flags and the channel change in a fixed order.        *)
FlagState ==
    /\ connected => clientConnected /\ channel = "open"
    /\ disc # "idle" => ~connected /\ channel # "null"
    /\ channel = "null" => recv = "none"
    /\ recv = "none" => ~connected

IInv ==
    /\ TypeOK
    /\ EntryHasRemover
    /\ CompletedEntryIsLeaving
    /\ ReturnedFutureIsTimed
    /\ ReceiverAlive
    /\ CallState
    /\ HeldState
    /\ FlagState

USE ConnectionAssumption DEF ConnectionAssumption

(* The initial state satisfies the inductive invariant.                    *)
LEMMA InitIInv == Init => IInv
<1> SUFFICES ASSUME Init PROVE IInv
  OBVIOUS
<1>1. TypeOK
  <2>1. pendingRequests \in [TaskIds -> Requests \cup {None}]
    BY DEF Init
  <2>2. frames \in 0 .. MaxFrames
    BY DEF Init
  <2>3. /\ future \in [Requests -> {"none", "incomplete", "refused"} \cup Statuses]
        /\ pc \in [Requests -> {"idle", "checked", "put", "writing", "written",
                                "ioerror", "failed", "returned", "raised"}]
        /\ timer \in [Requests -> {"none", "sleeping", "expired", "done"}]
    BY DEF Init
  <2> QED
    BY <2>1, <2>2, <2>3 DEF Init, TypeOK
<1>2. EntryHasRemover /\ CompletedEntryIsLeaving
  BY DEF Init, EntryHasRemover, CompletedEntryIsLeaving
<1>3. ReturnedFutureIsTimed /\ CallState
  BY DEF Init, ReturnedFutureIsTimed, CallState
<1>4. ReceiverAlive /\ HeldState /\ FlagState
  BY DEF Init, ReceiverAlive, HeldState, FlagState
<1> QED BY <1>1, <1>2, <1>3, <1>4 DEF IInv

(* Every step of every thread preserves the inductive invariant.           *)
LEMMA NextIInv == IInv /\ [Next]_vars => IInv'
<1> SUFFICES ASSUME IInv, [Next]_vars PROVE IInv'
  OBVIOUS
<1> USE DEF IInv, TypeOK, EntryHasRemover, CompletedEntryIsLeaving,
            ReturnedFutureIsTimed, ReceiverAlive, CallState, HeldState,
            FlagState, Completed, Statuses, flags, receiver
<1>1. CASE Connect
  BY <1>1 DEF Connect
<1>2. CASE ConnectFails
  BY <1>2 DEF ConnectFails
<1>3. CASE WorkerDies
  <2>1. TypeOK'
    BY <1>3 DEF WorkerDies
  <2>2. (EntryHasRemover /\ CompletedEntryIsLeaving /\ ReturnedFutureIsTimed)'
    BY <1>3 DEF WorkerDies
  <2>3. (ReceiverAlive /\ CallState /\ HeldState /\ FlagState)'
    BY <1>3 DEF WorkerDies
  <2> QED BY <2>1, <2>2, <2>3
<1>4. ASSUME NEW r \in Requests, SendStep(r) PROVE IInv'
  <2>1. CASE CheckConnected(r)
    BY <2>1 DEF CheckConnected, Go
  <2>2. CASE RefuseRequest(r)
    BY <2>2 DEF RefuseRequest, Go
  <2>3. CASE PutPending(r)
    BY <2>3 DEF PutPending, Go
  <2>4. CASE CheckClient(r)
    BY <2>4 DEF CheckClient, Go
  <2>5. CASE WriteFrame(r)
    BY <2>5 DEF WriteFrame, Go
  <2>6. CASE WriteError(r)
    BY <2>6 DEF WriteError, Go
  <2>7. CASE StartTimer(r)
    BY <2>7 DEF StartTimer, Go
  <2>8. CASE FailRequest(r)
    BY <2>8 DEF FailRequest, Go, CompleteWith
  <2>9. CASE RemoveFailed(r)
    BY <2>9 DEF RemoveFailed, Go, Remove
  <2> QED
    BY <1>4, <2>1, <2>2, <2>3, <2>4, <2>5, <2>6, <2>7, <2>8, <2>9 DEF SendStep
<1>5. ASSUME NEW r \in Requests, TimerStep(r) PROVE IInv'
  <2>1. CASE TimerExpires(r)
    BY <2>1 DEF TimerExpires, CompleteWith
  <2>2. CASE TimerRemoves(r)
    BY <2>2 DEF TimerRemoves, Remove
  <2> QED BY <1>5, <2>1, <2>2 DEF TimerStep
<1>6. CASE ReceiveStep
  <2>1. CASE LoopTop
    BY <2>1 DEF LoopTop
  <2>2. CASE LoopCheck
    BY <2>2 DEF LoopCheck
  <2>3. CASE ReadNothing
    BY <2>3 DEF ReadNothing
  <2>4. CASE TakePending
    BY <2>4 DEF TakePending, Remove
  <2>5. CASE CompleteHeld
    BY <2>5 DEF CompleteHeld, CompleteWith
  <2>6. ASSUME NEW kind \in {"bad", "other", "response"}, ReadFrame(kind)
        PROVE IInv'
    BY <2>6 DEF ReadFrame
  <2> QED BY <1>6, <2>1, <2>2, <2>3, <2>4, <2>5, <2>6 DEF ReceiveStep
<1>7. CASE DisconnectStep
  <2>1. CASE DisconnectFlag
    BY <2>1 DEF DisconnectFlag
  <2>2. CASE DisconnectClient
    BY <2>2 DEF DisconnectClient
  <2>3. CASE CloseChannel
    BY <2>3 DEF CloseChannel
  <2>4. CASE ClearPending
    BY <2>4 DEF ClearPending
  <2> QED BY <1>7, <2>1, <2>2, <2>3, <2>4 DEF DisconnectStep
<1>8. CASE UNCHANGED vars
  BY <1>8 DEF vars
<1> QED BY <1>1, <1>2, <1>3, <1>4, <1>5, <1>6, <1>7, <1>8 DEF Next

(* The inductive invariant holds in every state of every behaviour.        *)
THEOREM Invariance == Spec => []IInv
  BY InitIInv, NextIInv, PTL DEF Spec

(* Every state of WorkerConnection is well typed.                          *)
THEOREM TypeCorrect == Spec => []TypeOK
<1>1. IInv => TypeOK
  BY DEF IInv
<1> QED BY <1>1, Invariance, PTL

(* Every entry of pendingRequests has a thread that will remove it, or its *)
(* sendRequest call raised.                                                *)
THEOREM EntriesAreRemoved == Spec => []EntryHasRemover
<1>1. IInv => EntryHasRemover
  BY DEF IInv
<1> QED BY <1>1, Invariance, PTL

(* A completed future is in the map only while its completer removes it.   *)
THEOREM CompletedEntriesLeave == Spec => []CompletedEntryIsLeaving
<1>1. IInv => CompletedEntryIsLeaving
  BY DEF IInv
<1> QED BY <1>1, Invariance, PTL

(* Both: every entry of pendingRequests is owed to a thread that will take *)
(* it out, or to the one call that sendMessage's exception left.           *)
THEOREM PendingAreOwed == Spec => []PendingIsOwed
<1>1. IInv => PendingIsOwed
  BY DEF IInv, PendingIsOwed
<1> QED BY <1>1, Invariance, PTL

(* A future handed out incomplete has a timer asleep that will complete it *)
(* (the safety half of: every returned future completes).                  *)
THEOREM ReturnedFuturesAreTimed == Spec => []ReturnedFutureIsTimed
<1>1. IInv => ReturnedFutureIsTimed
  BY DEF IInv
<1> QED BY <1>1, Invariance, PTL

(* Only a frame that decode rejects ends the receiver of a live connection. *)
THEOREM ReceiverStaysAlive == Spec => []ReceiverAlive
<1>1. IInv => ReceiverAlive
  BY DEF IInv
<1> QED BY <1>1, Invariance, PTL

-----------------------------------------------------------------------------
(* The step relation behind WaitingKeepsSlot, for one request.             *)
LosesSlotFairly(r) ==
    pendingRequests[IdOf[r]] = r /\ pendingRequests'[IdOf[r]] # r
        /\ future[r] = "incomplete"
    => \/ held' = r
       \/ disc' = "done" /\ disc = "channel"
       \/ \E q \in Requests \ {r} : IdOf[q] = IdOf[r] /\ pc[q] # "idle"

(* A step that takes the slot of a waiting request is the receiver's, the  *)
(* clear of disconnect, or a step of a request with the same id.           *)
LEMMA SlotStep ==
    IInv /\ [Next]_vars => \A r \in Requests : LosesSlotFairly(r)
<1> SUFFICES ASSUME IInv, [Next]_vars, NEW r \in Requests
             PROVE  LosesSlotFairly(r)
  OBVIOUS
<1> USE DEF LosesSlotFairly, IInv, TypeOK, CallState, Completed, Statuses
<1>1. CASE UNCHANGED pendingRequests
  BY <1>1
<1>2. ASSUME NEW q \in Requests,
             PutPending(q) \/ RemoveFailed(q) \/ TimerRemoves(q)
      PROVE  LosesSlotFairly(r)
  <2>1. CASE PutPending(q)
    BY <2>1 DEF PutPending, Go
  <2>2. CASE RemoveFailed(q)
    BY <2>2 DEF RemoveFailed, Go, Remove
  <2>3. CASE TimerRemoves(q)
    BY <2>3 DEF TimerRemoves, Remove
  <2> QED BY <1>2, <2>1, <2>2, <2>3
<1>3. CASE TakePending
  BY <1>3 DEF TakePending, Remove
<1>4. CASE ClearPending
  BY <1>4 DEF ClearPending
<1> QED
  BY <1>1, <1>2, <1>3, <1>4
     DEF Next, vars, Connect, ConnectFails, WorkerDies, SendStep, TimerStep,
         ReceiveStep, DisconnectStep, CheckConnected, RefuseRequest,
         CheckClient, WriteFrame, WriteError, StartTimer, FailRequest,
         TimerExpires, LoopTop, LoopCheck, ReadNothing, ReadFrame,
         CompleteHeld, DisconnectFlag, DisconnectClient, CloseChannel

(* A waiting request loses its slot only as WaitingKeepsSlot allows: this  *)
(* is what the unconditional remove-by-id of timers and error paths means  *)
(* when task ids are not unique.                                           *)
THEOREM SlotsAreKept == Spec => WaitingKeepsSlot
<1>1. IInv /\ [Next]_vars => [\A r \in Requests : LosesSlotFairly(r)]_vars
  BY SlotStep
<1>2. Spec => [][\A r \in Requests : LosesSlotFairly(r)]_vars
  BY <1>1, Invariance, PTL DEF Spec
<1> QED BY <1>2 DEF WaitingKeepsSlot, LosesSlotFairly

-----------------------------------------------------------------------------
(* What the caller of one request observes moves as RequestFutures allows. *)
OutcomeStep(r) ==
    \/ outcomeOf(r)' = outcomeOf(r)
    \/ /\ outcomeOf(r) = "none"
       /\ outcomeOf(r)' \in {"refused", "raised", "open"} \cup Statuses
    \/ outcomeOf(r) = "open" /\ outcomeOf(r)' \in Statuses

AtMostOneMoves ==
    /\ \A r \in Requests : OutcomeStep(r)
    /\ \A r, q \in Requests :
          outcomeOf(r)' # outcomeOf(r) /\ outcomeOf(q)' # outcomeOf(q) => r = q

(* One step of the connection changes what at most one caller observes.    *)
LEMMA OneOutcome == IInv /\ IInv' /\ [Next]_vars => AtMostOneMoves
<1> SUFFICES ASSUME IInv, IInv', [Next]_vars PROVE AtMostOneMoves
  OBVIOUS
<1> USE DEF AtMostOneMoves, OutcomeStep, outcomeOf, IInv, TypeOK, CallState, HeldState,
            Completed, Statuses
<1>1. CASE UNCHANGED <<pc, future>>
  BY <1>1
<1>2. ASSUME NEW s \in Requests, SendStep(s) PROVE AtMostOneMoves
  BY <1>2 DEF SendStep, Go, CheckConnected, RefuseRequest, PutPending,
         CheckClient, WriteFrame, WriteError, StartTimer, FailRequest,
         RemoveFailed, CompleteWith
<1>3. ASSUME NEW s \in Requests, TimerExpires(s) PROVE AtMostOneMoves
  BY <1>3 DEF TimerExpires, CompleteWith
<1>4. CASE CompleteHeld
  BY <1>4 DEF CompleteHeld, CompleteWith
<1> QED
  BY <1>1, <1>2, <1>3, <1>4
     DEF Next, vars, Connect, ConnectFails, WorkerDies, TimerStep,
         ReceiveStep, DisconnectStep, TimerRemoves, LoopTop, LoopCheck,
         ReadNothing, ReadFrame, TakePending, DisconnectFlag,
         DisconnectClient, CloseChannel, ClearPending

(* The connection implements the safety part of RequestFutures: every      *)
(* caller gets one answer, and a future is completed once.                 *)
THEOREM ImplementsPromise == Spec => Promise!SafetySpec
<1> DEFINE oc == [r \in Requests |-> outcomeOf(r)]
<1>1. Init => Promise!Init
  BY DEF Init, Promise!Init, outcomeOf
<1>2. IInv /\ IInv' /\ [Next]_vars => [Promise!Next]_oc
  <2> SUFFICES ASSUME IInv, IInv', [Next]_vars, oc' # oc
               PROVE  Promise!Next
    OBVIOUS
  <2>1. PICK r \in Requests : outcomeOf(r)' # outcomeOf(r)
    OBVIOUS
  <2>2. \A q \in Requests \ {r} : outcomeOf(q)' = outcomeOf(q)
    BY <2>1, OneOutcome DEF AtMostOneMoves
  <2>3. oc' = [oc EXCEPT ![r] = outcomeOf(r)']
    BY <2>2
  <2>4. OutcomeStep(r)
    BY OneOutcome DEF AtMostOneMoves
  <2>5. oc[r] = outcomeOf(r)
    OBVIOUS
  <2> HIDE DEF oc
  <2> QED
    BY <2>1, <2>3, <2>4, <2>5
       DEF OutcomeStep, Promise!Next, Promise!Answer, Promise!Complete,
           Promise!Results, Statuses, oc
<1> QED
  BY <1>1, <1>2, Invariance, PTL DEF Spec, Promise!SafetySpec
=============================================================================
