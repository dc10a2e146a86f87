------------------------------- MODULE KvCells -------------------------------
(***************************************************************************)
(* The meta data of the cells of a KV cache (llama-kv-cells.h, class       *)
(* llama_kv_cells).  A cell holds the key and value of one token and may   *)
(* belong to several sequences.  What is true of a cell is kept twice: in  *)
(* the cell itself (pos, seq) and in indices that are maintained one       *)
(* change at a time (used, and per sequence the positions it holds, each   *)
(* with the number of its cells).                                          *)
(*                                                                         *)
(* Every method is an operator from cells to cells.  Its asserts are       *)
(* preconditions that its callers in KvCache meet.  The two-dimensional    *)
(* positions of M-RoPE (ext) are left out.                                 *)
(***************************************************************************)
EXTENDS Integers, FiniteSets, FiniteSetsExt

CONSTANT SeqIds     \* the ids of the sequences, 0 .. n_seq_max - 1

NoCells == [p \in {} |-> 0]

\* resize(n) and with it reset()
resize(n) ==
    [pos |-> [i \in 0 .. n-1 |-> -1], shift |-> [i \in 0 .. n-1 |-> 0],
     seq |-> [i \in 0 .. n-1 |-> {}], used |-> {},
     seq_pos |-> [s \in SeqIds |-> NoCells], has_shift |-> FALSE]

size(c) == Cardinality(DOMAIN c.pos)

is_empty(c, i) == c.pos[i] = -1

\* a negative p0 stands for the first position, a negative p1 for no end
pos_in(c, i, p0, p1) ==
    /\ c.pos[i] >= 0
    /\ c.pos[i] >= p0
    /\ p1 < 0 \/ c.pos[i] < p1

-----------------------------------------------------------------------------
(***************************************************************************)
(* The number of cells of a sequence at each of its positions, a std::map, *)
(* and one cell more or less at position p; and that for the sequences S.  *)
(***************************************************************************)
Inc(count, p) ==
    [q \in DOMAIN count \cup {p} |->
        IF q # p THEN count[q] ELSE IF p \in DOMAIN count THEN count[p] + 1 ELSE 1]

Dec(count, p) ==
    [q \in {r \in DOMAIN count : r # p \/ count[r] # 1} |->
        IF q # p THEN count[q] ELSE count[p] - 1]

seq_pos_inc(sp, S, p) == [s \in SeqIds |-> IF s \in S THEN Inc(sp[s], p) ELSE sp[s]]

seq_pos_dec(sp, S, p) == [s \in SeqIds |-> IF s \in S THEN Dec(sp[s], p) ELSE sp[s]]

seq_pos_min(c, s) ==
    IF DOMAIN c.seq_pos[s] = {} THEN -1 ELSE Min(DOMAIN c.seq_pos[s])

seq_pos_max(c, s) ==
    IF DOMAIN c.seq_pos[s] = {} THEN -1 ELSE Max(DOMAIN c.seq_pos[s])

-----------------------------------------------------------------------------
\* a cell that no sequence holds any more
Emptied(c, i) ==
    [c EXCEPT !.pos[i] = -1, !.shift[i] = 0, !.seq[i] = {}, !.used = @ \ {i}]

rm(c, i) ==
    [Emptied(c, i) EXCEPT !.seq_pos = seq_pos_dec(@, c.seq[i], c.pos[i])]

\* fault: an emptied cell stays in the set of used cells
seq_rm_StaysUsed(c, i, s) ==
    LET d == [c EXCEPT !.seq[i] = @ \ {s}, !.seq_pos = seq_pos_dec(@, {s}, c.pos[i])]
    IN  IF d.seq[i] = {} THEN [Emptied(d, i) EXCEPT !.used = c.used] ELSE d

seq_rm(c, i, s) ==
    LET d == [c EXCEPT !.seq[i] = @ \ {s}, !.seq_pos = seq_pos_dec(@, {s}, c.pos[i])]
    IN  IF d.seq[i] = {} THEN Emptied(d, i) ELSE d

seq_keep(c, i, s) ==
    IF s \in c.seq[i]
    THEN [c EXCEPT !.seq[i] = {s},
                   !.seq_pos = seq_pos_inc(seq_pos_dec(@, c.seq[i], c.pos[i]), {s}, c.pos[i])]
    ELSE IF c.seq[i] # {} THEN rm(c, i) ELSE c

\* one call for each of the sequences S
seq_add(c, i, S) ==
    [c EXCEPT !.seq[i] = @ \cup S, !.seq_pos = seq_pos_inc(@, S, c.pos[i])]

pos_set(c, i, p) ==
    [c EXCEPT !.pos[i] = p, !.used = @ \cup {i}]

\* a cell that is moved below position 0 is emptied
pos_add(c, i, d) ==
    LET p   == c.pos[i] + d
        out == [c EXCEPT !.seq_pos = seq_pos_dec(@, c.seq[i], c.pos[i]), !.has_shift = TRUE]
    IN  IF p < 0
        THEN Emptied(out, i)
        ELSE [out EXCEPT !.pos[i] = p, !.shift[i] = @ + d,
                         !.seq_pos = seq_pos_inc(@, c.seq[i], p)]

pos_div(c, i, d) ==
    LET p == c.pos[i] \div d
    IN  [c EXCEPT !.pos[i] = p, !.shift[i] = @ + (c.pos[i] - p), !.has_shift = TRUE,
                  !.seq_pos = seq_pos_inc(seq_pos_dec(@, c.seq[i], c.pos[i]), c.seq[i], p)]

reset_shift(c) ==
    [c EXCEPT !.shift = [i \in DOMAIN c.shift |-> 0], !.has_shift = FALSE]

-----------------------------------------------------------------------------
(***************************************************************************)
(* cp saves the cells idxs, one after the other, and set writes them back. *)
(* Neither saves a shift: both assert that there is none.                  *)
(***************************************************************************)
cp(c, idxs) ==
    [j \in DOMAIN idxs |-> [pos |-> c.pos[idxs[j]], seq |-> c.seq[idxs[j]]]]

SetCell(c, i, cell) ==
    LET sp == IF is_empty(c, i) THEN c.seq_pos ELSE seq_pos_dec(c.seq_pos, c.seq[i], c.pos[i])
    IN  [c EXCEPT !.pos[i] = cell.pos, !.seq[i] = cell.seq,
                  !.used = IF cell.pos = -1 THEN @ \ {i} ELSE @ \cup {i},
                  !.seq_pos = IF cell.pos = -1 THEN sp ELSE seq_pos_inc(sp, cell.seq, cell.pos)]

set(c, idxs, saved) ==
    FoldSet(LAMBDA j, d : SetCell(d, idxs[j], saved[j]), c, DOMAIN idxs)

-----------------------------------------------------------------------------
(***************************************************************************)
(* The indices agree with the cells: used are the cells with a position,   *)
(* which are the ones some sequence holds, and the positions of a sequence *)
(* are those of its cells, each counted as often as it occurs.             *)
(***************************************************************************)
Consistent(c) ==
    /\ c.used = {i \in DOMAIN c.pos : ~is_empty(c, i)}
    /\ \A i \in DOMAIN c.pos : is_empty(c, i) <=> c.seq[i] = {}
    /\ \A s \in SeqIds :
         LET held == {i \in DOMAIN c.pos : s \in c.seq[i]}
         IN  c.seq_pos[s] = [p \in {c.pos[i] : i \in held} |->
                                Cardinality({i \in held : c.pos[i] = p})]
    /\ \A i \in DOMAIN c.pos : c.shift[i] # 0 => ~is_empty(c, i) /\ c.has_shift
=============================================================================
