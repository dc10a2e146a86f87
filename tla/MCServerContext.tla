--------------------------- MODULE MCServerContext ---------------------------
(***************************************************************************)
(* A small llama-server: two slots, a batch and a context of three tokens. *)
(***************************************************************************)
EXTENDS ServerContext

CONSTANTS q1, q2

MCRequests == {q1, q2}

Ask(type, more, len, id_slot, stream) ==
    [type |-> type, more |-> more, len |-> len, id_slot |-> id_slot, stream |-> stream]

\* two completions of one prompt, the first in slot 0; two embeddings, a
\* stream for slot 0, a prompt that is too long, a slot that does not exist,
\* slot actions, metrics
MCShapes ==
    (q1 :> {Ask("completion", 1, 2, 0, FALSE)})
 @@ (q2 :> {Ask("embedding", 1, 2, -1, FALSE), Ask("completion", 0, 1, 0, TRUE),
            Ask("completion", 0, 3, -1, FALSE), Ask("completion", 0, 1, 2, FALSE),
            Ask("action", 0, 0, 0, FALSE), Ask("action", 0, 0, 2, FALSE),
            Ask("control", 0, 0, -1, FALSE)})

(* What Kept leaves, by rank, is what a filter leaves, and Ascending is the *)
(* sorted sequence.                                                        *)
ASSUME KeptFilters ==
    /\ \A s \in BoundedSeq(1..3, 4), X \in SUBSET (1..3) :
          Kept(s, {i \in DOMAIN s : s[i] \in X}) = SelectSeq(s, LAMBDA x : x \in X)
    /\ \A I \in SUBSET (0..4) : Ascending(I) = SetToSortSeq(I, <)
=============================================================================
