--------------------------- MODULE RequestFutures ---------------------------
(***************************************************************************)
(* What WorkerConnection promises the callers of sendRequest, and nothing  *)
(* of how it keeps the promise: a call is refused, raises, or hands out a  *)
(* future; a future that was handed out open is completed once, with one   *)
(* status, and it is completed eventually.                                 *)
(***************************************************************************)
CONSTANT Requests      \* the calls of sendRequest

VARIABLE outcome       \* what the caller of each request can observe

Results == {"SUCCESS", "TIMEOUT", "FAILED"}

Init == outcome = [r \in Requests |-> "none"]

\* The call ends: with a future that has already failed because there is no
\* connection, with an exception, or with a future, open or completed.
Answer(r) ==
    /\ outcome[r] = "none"
    /\ \E o \in {"refused", "raised", "open"} \cup Results :
          outcome' = [outcome EXCEPT ![r] = o]

Complete(r) ==
    /\ outcome[r] = "open"
    /\ \E s \in Results : outcome' = [outcome EXCEPT ![r] = s]

Next == \E r \in Requests : Answer(r) \/ Complete(r)

Fairness == \A r \in Requests : WF_outcome(Complete(r))

SafetySpec == Init /\ [][Next]_outcome

Spec == SafetySpec /\ Fairness
=============================================================================
