----------------------------- MODULE MCKvMemory -----------------------------
(***************************************************************************)
(* Two sequences, a window of two positions and micro batches of one token; *)
(* the caches with a window have the sizes that follow from that.          *)
(***************************************************************************)
EXTENDS KvMemory

Layout(streams, kv_size, swa, swa_full, max_calls) ==
    [streams |-> streams, kv_size |-> kv_size, swa |-> swa, swa_full |-> swa_full,
     max_calls |-> max_calls]

MCLayouts ==
    {Layout(1, 3, "none", FALSE, 2),
     Layout(2, 3, "none", FALSE, 2),
     Layout(2, 3, "standard", TRUE, 1),
     Layout(2, 5, "standard", FALSE, 2),
     Layout(1, 6, "standard", FALSE, 0),
     Layout(1, 6, "chunked", FALSE, 1)}

MCBatches == {<<{0}>>, <<{0}, {0}, {0}>>, <<{0}, {1}>>, <<{0, 1}>>, <<{1}, {0}, {1}>>}

MCRanges == {<<-1, -1>>, <<0, 1>>, <<1, -1>>}
=============================================================================
