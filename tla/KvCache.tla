------------------------------- MODULE KvCache -------------------------------
(***************************************************************************)
(* One KV cache (llama-kv-cache.cpp, class llama_kv_cache): cells in one   *)
(* stream for all sequences (unified) or in one stream for each.  A cache  *)
(* is a record                                                             *)
(*   cells   per stream, the meta data of its cells (KvCells);             *)
(*   heads   per stream, where the next search for cells starts;           *)
(*   copies  the stream copies that the next update performs (sc_info);    *)
(*   keys    per stream and cell, the key in the tensors: the position it  *)
(*           is rotated to, and for the properties whether it can be       *)
(*           trusted (sound);                                              *)
(*   div     history: per stream, the cells whose position was divided;    *)
(*   swa     the sliding window attention of its layers, [type, n].        *)
(* Every method is an operator from caches to caches.                      *)
(***************************************************************************)
EXTENDS Integers, FiniteSets, Sequences, FiniteSetsExt, Functions

CONSTANT SeqIds

Cells == INSTANCE KvCells

\* the m-th smallest number of a set
Nth(S, m) == CHOOSE x \in S : Cardinality({y \in S : y <= x}) = m

NoKey == [rope |-> 0, sound |-> FALSE]

llama_kv_cache(n_stream, kv_size, swa) ==
    [cells  |-> [st \in 0 .. n_stream-1 |-> Cells!resize(kv_size)],
     heads  |-> [st \in 0 .. n_stream-1 |-> 0],
     copies |-> << >>,
     keys   |-> [st \in 0 .. n_stream-1 |-> [i \in 0 .. kv_size-1 |-> NoKey]],
     div    |-> [st \in 0 .. n_stream-1 |-> {}],
     swa    |-> swa]

n_stream(k) == Cardinality(DOMAIN k.cells)

seq_to_stream(k, s) == IF n_stream(k) = 1 THEN 0 ELSE s

CellsOf(k, s) == k.cells[seq_to_stream(k, s)]

seq_pos_min(k, s) == Cells!seq_pos_min(CellsOf(k, s), s)
seq_pos_max(k, s) == Cells!seq_pos_max(CellsOf(k, s), s)

\* is a token at p0 outside the window of one at p1?
is_masked_swa(swa, p0, p1) ==
    \/ swa.type = "standard" /\ p1 - p0 >= swa.n
    \/ swa.type = "chunked" /\ p0 < (p1 \div swa.n) * swa.n

-----------------------------------------------------------------------------
(***************************************************************************)
(* Operations on sequences.  When cells were freed, the search for cells   *)
(* starts at the first of them, if that is before the head.                *)
(***************************************************************************)
Freed(old, new) == {i \in DOMAIN old.pos : ~Cells!is_empty(old, i) /\ Cells!is_empty(new, i)}

Rewound(head, old, new) ==
    IF Freed(old, new) = {} THEN head ELSE Min({head} \cup Freed(old, new))

clear(k, data) ==
    [k EXCEPT !.cells = [st \in DOMAIN k.cells |-> Cells!resize(Cells!size(k.cells[st]))],
              !.heads = [st \in DOMAIN k.heads |-> 0],
              !.keys  = IF data THEN [st \in DOMAIN k.keys |-> [i \in DOMAIN k.keys[st] |-> NoKey]]
                        ELSE @]

\* the cells of sequence s, or of any if s is -1, at positions from p0 to p1
Within(c, s, p0, p1) ==
    {i \in DOMAIN c.pos : Cells!pos_in(c, i, p0, p1) /\ (s = -1 \/ s \in c.seq[i])}

\* the loops over the cells S, for sequence s, for any of them or by d
LoopRm(c, S, s) ==
    FoldSet(LAMBDA i, e : IF s = -1 THEN Cells!rm(e, i) ELSE Cells!seq_rm(e, i, s), c, S)

LoopShare(c, S, s) == FoldSet(LAMBDA i, e : Cells!seq_add(e, i, {s}), c, S)

LoopKeep(c, S, s) == FoldSet(LAMBDA i, e : Cells!seq_keep(e, i, s), c, S)

LoopAdd(c, S, d) == FoldSet(LAMBDA i, e : Cells!pos_add(e, i, d), c, S)

LoopDiv(c, S, d) == FoldSet(LAMBDA i, e : Cells!pos_div(e, i, d), c, S)

seq_rm(k, s, p0, p1) ==
    LET cells == [st \in DOMAIN k.cells |->
                    IF s = -1 \/ st = seq_to_stream(k, s)
                    THEN LoopRm(k.cells[st], Within(k.cells[st], s, p0, p1), s)
                    ELSE k.cells[st]]
    IN  [k EXCEPT !.cells = cells,
                  !.heads = [st \in DOMAIN k.heads |->
                               Rewound(k.heads[st], k.cells[st], cells[st])]]

\* every sequence of the domain of from loses what it has from there on
LoopTruncate(k, from) == FoldSet(LAMBDA s, e : seq_rm(e, s, from[s], -1), k, DOMAIN from)

\* a cell of another stream, with the shift that its key still waits for
CopiedCell(c, new, i, dst) ==
    LET d == Cells!seq_add(Cells!pos_set(new, i, c.pos[i] - c.shift[i]), i, {dst})
    IN  IF c.shift[i] = 0 THEN d ELSE Cells!pos_add(d, i, c.shift[i])

LoopCopy(c, S, new, dst) == FoldSet(LAMBDA i, e : CopiedCell(c, e, i, dst), new, S)

\* within a stream both share the cells; another stream is overwritten, its
\* meta data at once and its keys by the next update
seq_cp(k, src, dst, p0, p1) ==
    LET s0 == seq_to_stream(k, src)
        s1 == seq_to_stream(k, dst)
        c  == k.cells[s0]
    IN  IF s0 = s1
        THEN IF src = dst THEN k
             ELSE [k EXCEPT !.cells[s0] = LoopShare(c, Within(c, src, p0, p1), dst)]
        ELSE [k EXCEPT !.copies = Append(@, [src |-> s0, dst |-> s1, clean |-> TRUE]),
                       !.cells[s1] = LoopCopy(c, {i \in DOMAIN c.pos : src \in c.seq[i]},
                                              Cells!resize(Cells!size(k.cells[s1])), dst),
                       !.heads[s1] = k.heads[s0],
                       !.div[s1] = k.div[s0]]

\* only the stream of s is looked at
seq_keep(k, s) ==
    LET st  == seq_to_stream(k, s)
        new == LoopKeep(k.cells[st], DOMAIN k.cells[st].pos, s)
    IN  [k EXCEPT !.cells[st] = new, !.heads[st] = Rewound(@, k.cells[st], new)]

seq_add(k, s, p0, p1, shift) ==
    LET st    == seq_to_stream(k, s)
        c     == k.cells[st]
        new   == LoopAdd(c, Within(c, s, p0, p1), shift)
        freed == Freed(c, new)
    IN  IF shift = 0 \/ Max({p0, 0}) = p1 THEN k
        ELSE [k EXCEPT !.cells[st] = new,
                       !.heads[st] = IF freed = {} THEN 0 ELSE Min(freed)]

seq_div(k, s, p0, p1, d) ==
    LET st == seq_to_stream(k, s)
        c  == k.cells[st]
    IN  IF d = 1 \/ Max({p0, 0}) = p1 THEN k
        ELSE [k EXCEPT !.cells[st] = LoopDiv(c, Within(c, s, p0, p1), d),
                       !.div[st] = @ \cup Within(c, s, p0, p1)]

-----------------------------------------------------------------------------
(***************************************************************************)
(* Micro batches.  A micro batch is a function from the streams it has     *)
(* tokens for to their tokens, the same number for each; a token is its    *)
(* sequences and its position.  Slots are a function from the same streams *)
(* to as many cells, or the empty function if there is no room.            *)
(***************************************************************************)
NoSlot == [j \in {} |-> 0]

\* fault: a cell is taken if any of its sequences does not see it any more
can_use_AnySequence(swa, c, i) ==
    \/ Cells!is_empty(c, i)
    \/ \E s \in c.seq[i] : is_masked_swa(swa, c.pos[i], Cells!seq_pos_max(c, s) + 1)

\* empty, or held by one sequence whose next token does not see it
can_use(swa, c, i) ==
    \/ Cells!is_empty(c, i)
    \/ \E s \in SeqIds : /\ c.seq[i] = {s}
                         /\ is_masked_swa(swa, c.pos[i], Cells!seq_pos_max(c, s) + 1)

\* the first n usable cells, from the head on and round the end of the cache
SlotIn(swa, c, head, n) ==
    LET from  == IF head > Cardinality(c.used) + 2 * n THEN 0 ELSE head
        at(j) == (from + j) % Cells!size(c)
        free  == {j \in 0 .. Cells!size(c) - 1 : can_use(swa, c, at(j))}
    IN  IF Cardinality(free) < n THEN NoSlot ELSE [m \in 1 .. n |-> at(Nth(free, m))]

find_slot(k, ub) ==
    LET slot == [st \in DOMAIN ub |-> SlotIn(k.swa, k.cells[st], k.heads[st], Len(ub[st]))]
    IN  IF \E st \in DOMAIN ub : slot[st] = NoSlot THEN NoSlot ELSE slot

\* a token takes cell i, whatever was in it
Put(c, i, tok) ==
    LET d == IF Cells!is_empty(c, i) THEN c ELSE Cells!rm(c, i)
    IN  Cells!seq_add(Cells!pos_set(d, i, tok.pos), i, tok.seqs)

LoopPut(c, idxs, toks) == FoldSet(LAMBDA j, e : Put(e, idxs[j], toks[j]), c, DOMAIN toks)

Emplace(k, slots, ub) ==
    [k EXCEPT !.cells = [st \in DOMAIN k.cells |->
        IF st \in DOMAIN ub THEN LoopPut(k.cells[st], slots[st], ub[st]) ELSE k.cells[st]]]

\* the largest position of s that the micro batch overwrites
seq_pos_max_rm(k, slots, s) ==
    LET st == seq_to_stream(k, s)
    IN  Max({-1} \cup {k.cells[st].pos[i] :
              i \in {j \in DOMAIN k.cells[st].pos : /\ st \in DOMAIN slots
                                                    /\ j \in Range(slots[st])
                                                    /\ s \in k.cells[st].seq[j]}})

\* whatever lies before an overwritten position goes with it
Purge(k, s, pos) ==
    IF pos # -1 /\ seq_pos_min(k, s) <= pos
    THEN seq_rm(k, s, seq_pos_min(k, s), pos + 1)
    ELSE k

LoopPurge(k, pos) == FoldSet(LAMBDA s, e : Purge(e, s, pos[s]), k, DOMAIN pos)

\* fault: what lies before an overwritten position stays
apply_ubatch_NoPurge(k, slots, ub) ==
    [Emplace(k, slots, ub) EXCEPT
        !.heads = [st \in DOMAIN k.heads |-> IF st \in DOMAIN slots THEN slots[st][Len(slots[st])] + 1
                                             ELSE @[st]]]

apply_ubatch(k, slots, ub) ==
    LET max_rm == [s \in SeqIds |-> seq_pos_max_rm(k, slots, s)]
    IN  [LoopPurge(Emplace(k, slots, ub), max_rm) EXCEPT
            !.heads = [st \in DOMAIN k.heads |-> IF st \in DOMAIN slots THEN slots[st][Len(slots[st])] + 1
                                                 ELSE @[st]]]

-----------------------------------------------------------------------------
(***************************************************************************)
(* prepare finds the cells for all micro batches by emplacing them one     *)
(* after the other, and takes them back in the opposite order.  What is    *)
(* taken back are the cells of the slots: not the ones that were purged.   *)
(* The head of the n-th stream of a micro batch is set to the old head of  *)
(* stream n.                                                               *)
(***************************************************************************)
PlanIn(a, ub, slots) ==
    IF slots = NoSlot THEN [a EXCEPT !.ok = FALSE]
    ELSE [k |-> apply_ubatch(a.k, slots, ub), ok |-> TRUE,
          states |-> Append(a.states,
                            [slots |-> slots, heads |-> a.k.heads,
                             cells |-> [st \in DOMAIN ub |-> Cells!cp(a.k.cells[st], slots[st])]])]

Plan(a, ub) == IF a.ok THEN PlanIn(a, ub, find_slot(a.k, ub)) ELSE a

TakeBack(k, old) ==
    [k EXCEPT
        !.cells = [st \in DOMAIN k.cells |->
                     IF st \in DOMAIN old.slots
                     THEN Cells!set(k.cells[st], old.slots[st], old.cells[st])
                     ELSE k.cells[st]],
        !.heads = [st \in DOMAIN k.heads |->
                     IF st \in DOMAIN old.slots
                     THEN old.heads[Cardinality({t \in DOMAIN old.slots : t < st})]
                     ELSE k.heads[st]]]

\* fault: all micro batches are planned for the cache as it is
prepare_Forgetful(k, ubs) ==
    LET slots == [n \in DOMAIN ubs |-> find_slot(k, ubs[n])]
    IN  [k |-> k, ok |-> \A n \in DOMAIN ubs : slots[n] # NoSlot, slots |-> slots]

TakeAllBack(a) ==
    LET N == Len(a.states)
        back[n \in 0 .. N] ==
            IF n = 0 THEN a.k ELSE TakeBack(back[n-1], a.states[N + 1 - n])
    IN  [k |-> back[N], ok |-> a.ok, slots |-> [n \in 1 .. N |-> a.states[n].slots]]

prepare(k, ubs) ==
    LET plan[n \in 0 .. Len(ubs)] ==
            IF n = 0 THEN [k |-> k, ok |-> TRUE, states |-> << >>] ELSE Plan(plan[n-1], ubs[n])
    IN  TakeAllBack(plan[Len(ubs)])

\* the graph of a micro batch writes its keys; of one that fails nothing is known
Write(k, slots, ub, sound) ==
    [k EXCEPT !.keys = [st \in DOMAIN k.keys |-> [i \in DOMAIN k.keys[st] |->
        IF st \in DOMAIN ub /\ i \in Range(slots[st])
        THEN LET tok == ub[st][CHOOSE j \in DOMAIN ub[st] : slots[st][j] = i]
             IN  [rope |-> tok.pos, sound |-> sound]
        ELSE k.keys[st][i]]],
              !.div = [st \in DOMAIN k.div |->
                         IF st \in DOMAIN ub THEN @[st] \ Range(slots[st]) ELSE @[st]]]

-----------------------------------------------------------------------------
(***************************************************************************)
(* The pending update: first the stream copies, then the keys of all cells *)
(* are rotated by their shift.                                             *)
(***************************************************************************)
Copied(k) ==
    LET copy(keys, c) == [keys EXCEPT ![c.dst] = [i \in DOMAIN keys[c.src] |->
                                  [keys[c.src][i] EXCEPT !.sound = @ /\ c.clean]]]
        done[n \in 0 .. Len(k.copies)] ==
            IF n = 0 THEN k.keys ELSE copy(done[n-1], k.copies[n])
    IN  done[Len(k.copies)]

get_has_shift(k) == \E st \in DOMAIN k.cells : k.cells[st].has_shift

\* fault: the shift is applied and stays pending
update_KeepsShift(k) ==
    [k EXCEPT !.copies = << >>,
              !.keys = [st \in DOMAIN k.keys |-> [i \in DOMAIN k.keys[st] |->
                          [Copied(k)[st][i] EXCEPT !.rope = @ + k.cells[st].shift[i]]]]]

update(k) ==
    [k EXCEPT !.copies = << >>,
              !.cells = [st \in DOMAIN k.cells |->
                           IF get_has_shift(k) THEN Cells!reset_shift(k.cells[st])
                           ELSE k.cells[st]],
              !.keys = [st \in DOMAIN k.keys |-> [i \in DOMAIN k.keys[st] |->
                          [Copied(k)[st][i] EXCEPT !.rope = @ + k.cells[st].shift[i]]]]]

Updated(k) == k.copies = << >> /\ ~get_has_shift(k)

\* the key of an empty cell is never read, unless a pending copy moves it
Forget(k) ==
    IF k.copies # << >> THEN k
    ELSE [k EXCEPT !.keys = [st \in DOMAIN k.keys |-> [i \in DOMAIN k.keys[st] |->
                               IF i \in k.cells[st].used THEN @[st][i] ELSE NoKey]],
                   !.div = [st \in DOMAIN k.div |-> @[st] \cap k.cells[st].used]]

-----------------------------------------------------------------------------
(***************************************************************************)
(* The state of one sequence: its cells in order, each with its position   *)
(* and its key.  Neither method performs the pending update first: what is *)
(* saved while one is pending, and a copy that is pending for the stream   *)
(* into which a state is loaded, are not to be trusted.                    *)
(***************************************************************************)
state_write(k, s) ==
    LET st   == seq_to_stream(k, s)
        c    == k.cells[st]
        held == {i \in DOMAIN c.pos : s \in c.seq[i]}
    IN  [j \in 1 .. Cardinality(held) |->
           LET i == Nth(held, j)
           IN  [pos |-> c.pos[i], div |-> i \in k.div[st],
                key |-> [k.keys[st][i] EXCEPT !.sound = @ /\ Updated(k)]]]

\* the keys of a state are loaded into the cells slot of a stream
Loaded(k, st, slot, state) ==
    LET at(i) == CHOOSE j \in DOMAIN state : slot[j] = i
    IN  [k EXCEPT !.keys[st] = [i \in DOMAIN @ |->
                      IF i \in Range(slot) THEN state[at(i)].key ELSE @[i]],
                  !.div[st] = (@ \ Range(slot))
                                \cup {slot[j] : j \in {n \in DOMAIN state : state[n].div}},
                  !.copies = [n \in DOMAIN k.copies |->
                      [k.copies[n] EXCEPT !.clean = @ /\ st \notin {k.copies[n].src, k.copies[n].dst}]]]

\* an empty state leaves the sequence as it is; without room it is removed
state_read(k, s, state) ==
    LET st    == seq_to_stream(k, s)
        gone  == seq_rm(k, s, -1, -1)
        ub    == [t \in {st} |-> [j \in DOMAIN state |-> [seqs |-> {s}, pos |-> state[j].pos]]]
        slots == find_slot(gone, ub)
    IN  IF state = << >> THEN [k |-> k, ok |-> TRUE]
        ELSE IF slots = NoSlot THEN [k |-> gone, ok |-> FALSE]
        ELSE [k |-> Loaded(apply_ubatch(gone, slots, ub), st, slots[st], state), ok |-> TRUE]
=============================================================================
