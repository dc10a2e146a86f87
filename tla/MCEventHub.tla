----------------------------- MODULE MCEventHub -----------------------------
(* Two publishers, one other subscriber, and two connections, the second   *)
(* of which stays up: what may happen to the first is everything.          *)
EXTENDS EventHub, TLC

CONSTANTS p1, p2, c1, c2, h1

MCPublishers == {p1, p2}
MCConnections == {c1, c2}
MCHandlers == {h1}

MCSecondStaysUp ==
    open[c2] /\ socket[c2] /\ peer[c2] /\ (c2 \in met => c2 \in connections)

\* Publishers are told apart by nothing.
MCSymmetry == Permutations(MCPublishers)
=============================================================================
