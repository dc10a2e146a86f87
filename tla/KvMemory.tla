------------------------------ MODULE KvMemory ------------------------------
(***************************************************************************)
(* The memory of a llama_context (llama-context.cpp, llama-batch.cpp,      *)
(* llama-kv-cache-iswa.cpp): one KV cache, or for a model with sliding     *)
(* window attention two of them, one for the layers without a window and a *)
(* smaller one for the layers with it.  One thread calls it: it decodes    *)
(* batches, which are split into micro batches and planned before the      *)
(* first of them is computed, and removes, copies, shifts, saves and loads *)
(* sequences.                                                              *)
(***************************************************************************)
EXTENDS Integers, FiniteSets, Sequences, FiniteSetsExt, Functions

CONSTANTS
    NSeqMax,    \* n_seq_max, the number of sequences
    SwaPad,     \* what the size of a cache with a window is a multiple of (256)
    NSwa,       \* n_swa, the size of the window
    NUbatch,    \* n_ubatch, the tokens of a micro batch
    MaxPos,     \* the largest position (bound of the model)
    Layouts,    \* the memories: streams, cells of a stream, type of window,
                \* whether the cache with the window is as large as the other,
                \* and the calls other than decode (bound of the model)
    Batches,    \* the batches that are decoded, sequences of sets of sequences
    Ranges      \* the ranges <<p0, p1>> of positions that callers name

ASSUME KvAssumption ==
    /\ {NSeqMax, SwaPad, NSwa, NUbatch} \subseteq Nat \ {0}
    /\ MaxPos \in Nat
    /\ Layouts \subseteq [streams : {1, NSeqMax}, kv_size : Nat \ {0},
                          swa : {"none", "standard", "chunked"}, swa_full : BOOLEAN,
                          max_calls : Nat]
    /\ \A b \in Batches : b \in Seq((SUBSET (0 .. NSeqMax-1)) \ {{}}) /\ b # << >>
    /\ Ranges \subseteq (Int \X Int)

SeqIds == 0 .. NSeqMax - 1

KV == INSTANCE KvCache

VARIABLES
    kv,         \* the caches, "base" and perhaps "swa"
    todo,       \* the micro batches of the batch in hand, with their slots
    calls,      \* the calls other than decode that are left
    file,       \* a saved state of a sequence, per cache (and, as history,
                \* whether that sequence was spoiled), or the empty sequence
    spoiled     \* history: sequences that lost tokens in one cache only

kvVars == <<kv, todo, calls, file, spoiled>>

\* the cells of a stream with a window: room for the windows and a micro batch
size_swa(l) ==
    LET n == Min({l.kv_size, NSwa * (IF l.streams = 1 THEN NSeqMax ELSE 1) + NUbatch})
    IN  IF l.swa_full THEN l.kv_size ELSE ((n + SwaPad - 1) \div SwaPad) * SwaPad

NoWindow == [type |-> "none", n |-> 0]

\* llama_model::create_memory
KvInit ==
    \E l \in Layouts :
        /\ kv = [c \in IF l.swa = "none" THEN {"base"} ELSE {"base", "swa"} |->
                    IF c = "base" THEN KV!llama_kv_cache(l.streams, l.kv_size, NoWindow)
                    ELSE KV!llama_kv_cache(l.streams, size_swa(l), [type |-> l.swa, n |-> NSwa])]
        /\ todo = << >>
        /\ calls = l.max_calls
        /\ file = << >>
        /\ spoiled = {}

unified == KV!n_stream(kv["base"]) = 1

\* the cache that is asked for the positions of a sequence
Asked == IF "swa" \in DOMAIN kv THEN kv["swa"] ELSE kv["base"]

get_can_shift ==
    \A c \in DOMAIN kv : Cardinality(DOMAIN kv[c].keys[0]) = Cardinality(DOMAIN kv["base"].keys[0])

-----------------------------------------------------------------------------
(***************************************************************************)
(* Batches.  The caller gives a token the position that follows what it    *)
(* decoded of the sequence, all of which the base cache holds, and shares  *)
(* a token only among sequences with the same next position.  A batch is   *)
(* refused if sequences that share a token differ in memory or if the      *)
(* positions of a sequence do not go on without a gap.                     *)
(***************************************************************************)
Positioned(b) ==
    LET pos[n \in DOMAIN b] ==
            LET s    == Min(b[n])
                prev == {m \in 1 .. n-1 : s \in b[m]}
            IN  IF prev = {} THEN KV!seq_pos_max(kv["base"], s) + 1 ELSE pos[Max(prev)] + 1
    IN  [n \in DOMAIN b |-> [seqs |-> b[n], pos |-> pos[n]]]

\* what callers share
Shared(toks) ==
    \A tok \in Range(toks) : \A s, t \in tok.seqs :
        KV!seq_pos_max(kv["base"], s) = KV!seq_pos_max(kv["base"], t)

Accepted(toks) ==
    /\ \A tok \in Range(toks) : \A s \in tok.seqs :
         /\ KV!seq_pos_min(Asked, s) = KV!seq_pos_min(Asked, Min(tok.seqs))
         /\ KV!seq_pos_max(Asked, s) = KV!seq_pos_max(Asked, Min(tok.seqs))
    /\ \A s \in UNION {tok.seqs : tok \in Range(toks)} :
         LET new == {tok.pos : tok \in {t \in Range(toks) : s \in t.seqs}}
         IN  /\ KV!seq_pos_max(Asked, s) # -1 => Min(new) = KV!seq_pos_max(Asked, s) + 1
             /\ Max(new) - Min(new) + 1 <= Cardinality(new)

\* one micro batch after the other takes the next tokens
split_simple(toks) ==
    [n \in 1 .. (Len(toks) + NUbatch - 1) \div NUbatch |->
        [st \in {0} |-> SubSeq(toks, (n - 1) * NUbatch + 1, Min({n * NUbatch, Len(toks)}))]]

\* the sets of sequences of the next micro batch: disjoint, and for streams
\* of their own (sequential) with ids that follow one another
WithSet(toks, left, sequential, sets, n) ==
    IF /\ n \in left
       /\ Len(sets) <= NUbatch
       /\ \A S \in Range(sets) : S \cap toks[n].seqs = {}
       /\ sequential => sets = << >> \/ Min(toks[n].seqs) = Min(sets[Len(sets)]) + 1
    THEN Append(sets, toks[n].seqs)
    ELSE sets

SeqSets(toks, left, sequential) ==
    LET sets[n \in 0 .. Len(toks)] ==
            IF n = 0 THEN << >> ELSE WithSet(toks, left, sequential, sets[n-1], n)
    IN  sets[Len(toks)]

\* every set of sequences gives the same number of tokens, its next ones
SplitNext(toks, sequential, a) ==
    LET sets     == SeqSets(toks, a.left, sequential)
        of(k)    == {i \in a.left : toks[i].seqs = sets[k]}
        n        == Min({Cardinality(of(k)) : k \in DOMAIN sets}
                        \cup {Max({1, NUbatch \div Len(sets)})})
        tok(k,j) == toks[KV!Nth(of(k), j)]
        ub       == IF unified
                    THEN [st \in {0} |-> [j \in 1 .. n * Len(sets) |->
                                            tok((j - 1) \div n + 1, ((j - 1) % n) + 1)]]
                    ELSE [st \in {Min(S) : S \in Range(sets)} |->
                            [j \in 1 .. n |-> tok(CHOOSE k \in DOMAIN sets : Min(sets[k]) = st, j)]]
    IN  [left |-> a.left \ UNION {{KV!Nth(of(k), j) : j \in 1 .. n} : k \in DOMAIN sets},
         ubs  |-> Append(a.ubs, ub)]

SplitOn(toks, sequential, a) == IF a.left = {} THEN a ELSE SplitNext(toks, sequential, a)

split_equal(toks, sequential) ==
    LET split[n \in 0 .. Len(toks)] ==
            IF n = 0 THEN [left |-> DOMAIN toks, ubs |-> << >>]
            ELSE SplitOn(toks, sequential, split[n-1])
    IN  split[Len(toks)].ubs

\* the tokens cannot be split if streams of their own share one
Splittable(toks) == unified \/ \A tok \in Range(toks) : Cardinality(tok.seqs) = 1

-----------------------------------------------------------------------------
(***************************************************************************)
(* llama_context::decode.  The pending updates are performed, then every   *)
(* cache is asked for cells for all micro batches; two caches get a second *)
(* chance with another split.  A plan that fails leaves the caches as      *)
(* prepare left them.                                                      *)
(***************************************************************************)
memory_update(m) == [c \in DOMAIN m |-> KV!update(m[c])]

\* the caches are asked in turn, the second one only if the first has room
Attempt(m, ubs) ==
    LET asked == IF KV!prepare(m["base"], ubs).ok THEN DOMAIN m ELSE {"base"}
        p     == [c \in asked |-> KV!prepare(m[c], ubs)]
        ok    == \A c \in asked : p[c].ok
    IN  [m |-> [c \in DOMAIN m |-> IF c \in asked THEN p[c].k ELSE m[c]],
         ok |-> ok,
         todo |-> IF ok THEN [n \in 1 .. Len(ubs) |->
                                [ub |-> ubs[n], slots |-> [c \in DOMAIN m |-> p[c].slots[n]]]]
                  ELSE << >>]

SecondChance(toks, a) ==
    IF a.ok \/ ~unified \/ "swa" \notin DOMAIN a.m THEN a
    ELSE Attempt(a.m, split_equal(toks, FALSE))

init_batch(m, toks) ==
    IF Splittable(toks)
    THEN SecondChance(toks, Attempt(m, IF unified THEN split_simple(toks) ELSE split_equal(toks, TRUE)))
    ELSE [m |-> m, ok |-> FALSE, todo |-> << >>]

\* the positions that sequence s holds in a cache
Held(k, s) == LET c == KV!CellsOf(k, s) IN {c.pos[i] : i \in {j \in DOMAIN c.pos : s \in c.seq[j]}}

Lost(m, n) == {s \in SeqIds : \E c \in DOMAIN m : Held(m[c], s) # Held(n[c], s)}

decode(b) ==
    /\ todo = << >>
    /\ \E toks \in {Positioned(b)} :
         /\ Shared(toks) /\ Accepted(toks)
         /\ \A tok \in Range(toks) : tok.pos \in 0 .. MaxPos
         /\ \E r \in {init_batch(memory_update(kv), toks)} :
              /\ kv' = [c \in DOMAIN kv |-> KV!Forget(r.m[c])]
              /\ todo' = r.todo
              /\ spoiled' = spoiled \cup Lost(kv, r.m)
    /\ UNCHANGED <<calls, file>>

\* process_ubatch: the slots are taken in every cache and the graph computes
process_ubatch ==
    LET ub == Head(todo).ub
        sl == Head(todo).slots
    IN  /\ todo # << >>
        /\ kv' = [c \in DOMAIN kv |->
                    KV!Forget(KV!Write(KV!apply_ubatch(kv[c], sl[c], ub), sl[c], ub, TRUE))]
        /\ todo' = Tail(todo)
        /\ UNCHANGED <<calls, file, spoiled>>

\* the graph fails or is aborted: the positions of the micro batch are removed
\* from the first sequence of each of its tokens, the rest of the batch is left
UbatchFails ==
    LET ub   == Head(todo).ub
        sl   == Head(todo).slots
        toks == UNION {Range(ub[st]) : st \in DOMAIN ub}
        lead == {Min(tok.seqs) : tok \in toks}
        from == [s \in lead |-> Min({tok.pos : tok \in {t \in toks : Min(t.seqs) = s}})]
    IN  /\ todo # << >>
        /\ kv' = [c \in DOMAIN kv |->
                    KV!Forget(KV!LoopTruncate(
                        KV!Write(KV!apply_ubatch(kv[c], sl[c], ub), sl[c], ub, FALSE), from))]
        /\ todo' = << >>
        /\ UNCHANGED <<calls, file, spoiled>>

-----------------------------------------------------------------------------
(***************************************************************************)
(* The operations on sequences, on every cache.                            *)
(***************************************************************************)
KvCall ==
    /\ todo = << >>
    /\ calls > 0
    /\ calls' = calls - 1

Each(Op(_)) ==
    /\ KvCall
    /\ kv' = [c \in DOMAIN kv |-> KV!Forget(Op(kv[c]))]
    /\ UNCHANGED <<todo, file>>

memory_clear(data) ==
    /\ Each(LAMBDA k : KV!clear(k, data))
    /\ spoiled' = {}

memory_seq_rm(s, p0, p1) ==
    /\ Each(LAMBDA k : KV!seq_rm(k, s, p0, p1))
    /\ spoiled' = IF p0 <= 0 /\ p1 < 0 THEN (IF s = -1 THEN {} ELSE spoiled \ {s}) ELSE spoiled

\* within a stream callers copy into an empty sequence, so that no cell is
\* given to it twice (the assert of seq_add), and between streams only whole
\* sequences
memory_seq_cp(src, dst, p0, p1) ==
    /\ src # dst
    /\ unified => \A c \in DOMAIN kv : Held(kv[c], dst) = {}
    /\ ~unified => p0 <= 0 /\ p1 < 0
    /\ Each(LAMBDA k : KV!seq_cp(k, src, dst, p0, p1))
    /\ spoiled' = IF src \in spoiled THEN spoiled \cup {dst} ELSE spoiled

memory_seq_keep(s) ==
    /\ Each(LAMBDA k : KV!seq_keep(k, s))
    /\ UNCHANGED spoiled

\* the other sequences whose cells move as well
Sharers(s, p0, p1) ==
    {t \in SeqIds \ {s} : \E c \in DOMAIN kv :
        \E i \in KV!Within(KV!CellsOf(kv[c], s), s, p0, p1) : t \in KV!CellsOf(kv[c], s).seq[i]}

\* callers shift if the memory can, the end of a sequence, and down only into
\* a gap
memory_seq_add(s, p0, p1, shift) ==
    /\ get_can_shift
    /\ p1 < 0 /\ Held(kv["base"], s) # {}
    /\ shift < 0 => \A p \in Held(kv["base"], s) : p >= p0 \/ p < p0 + shift
    /\ Max(Held(kv["base"], s)) + shift <= MaxPos
    /\ Each(LAMBDA k : KV!seq_add(k, s, p0, p1, shift))
    /\ spoiled' = spoiled \cup Sharers(s, p0, p1)

\* callers divide the positions of a whole sequence
memory_seq_div(s, p0, p1, d) ==
    /\ get_can_shift
    /\ p0 <= 0 /\ p1 < 0 /\ Held(kv["base"], s) # {}
    /\ Each(LAMBDA k : KV!seq_div(k, s, p0, p1, d))
    /\ spoiled' = spoiled \cup Sharers(s, p0, p1)

state_seq_get_data(s) ==
    /\ KvCall
    /\ file = << >>
    /\ file' = [state |-> [c \in DOMAIN kv |-> KV!state_write(kv[c], s)], spoiled |-> s \in spoiled]
    /\ UNCHANGED <<kv, todo, spoiled>>

\* an exception of the first cache keeps the second one from being read; a
\* cache whose part of the state is empty keeps what it has of the sequence
state_seq_set_data(s) ==
    /\ KvCall
    /\ file # << >>
    /\ \E r \in {[c \in DOMAIN kv |-> KV!state_read(kv[c], s, file.state[c])]} :
         /\ kv' = [c \in DOMAIN kv |->
                     KV!Forget(IF r["base"].ok \/ c = "base" THEN r[c].k ELSE kv[c])]
         /\ spoiled' = IF /\ \A c \in DOMAIN kv : r[c].ok
                          /\ \A c, d \in DOMAIN kv : file.state[c] = << >> => file.state[d] = << >>
                          /\ ~file.spoiled
                       THEN spoiled ELSE spoiled \cup {s}
    /\ file' = << >>
    /\ UNCHANGED todo

KvNext ==
    \/ \E b \in Batches : decode(b)
    \/ process_ubatch
    \/ UbatchFails
    \/ \E data \in BOOLEAN : memory_clear(data)
    \/ \E s \in SeqIds \cup {-1}, r \in Ranges : memory_seq_rm(s, r[1], r[2])
    \/ \E s, t \in SeqIds, r \in Ranges : memory_seq_cp(s, t, r[1], r[2])
    \/ \E s \in SeqIds : memory_seq_keep(s)
    \/ \E s \in SeqIds, r \in Ranges, n \in {-1, 1} : memory_seq_add(s, r[1], r[2], n)
    \/ \E s \in SeqIds, r \in Ranges : memory_seq_div(s, r[1], r[2], 2)
    \/ \E s \in SeqIds : state_seq_get_data(s)
    \/ \E s \in SeqIds : state_seq_set_data(s)

KvSpec == KvInit /\ [][KvNext]_kvVars

-----------------------------------------------------------------------------
(***************************************************************************)
(* The indices of every stream of every cache agree with its cells, also   *)
(* after a plan was taken back (llama_kv_cells, prepare).                  *)
(***************************************************************************)
CellsConsistent ==
    \A c \in DOMAIN kv : \A st \in DOMAIN kv[c].cells : KV!Cells!Consistent(kv[c].cells[st])

KeyMatches(k, st, i) ==
    KV!Copied(k)[st][i].rope + k.cells[st].shift[i] = k.cells[st].pos[i]

(***************************************************************************)
(* The shift of a cell is what its position moved by since its key was     *)
(* rotated: once the pending update is performed, every key is rotated to  *)
(* the position of its cell (llama_kv_cells::shift).  The exception are    *)
(* cells whose position was divided: pos_div stores the shift with the     *)
(* opposite sign of pos_add's.                                             *)
(***************************************************************************)
KeysMatchPositions ==
    \A c \in DOMAIN kv : \A st \in DOMAIN kv[c].cells : \A i \in kv[c].cells[st].used :
        KV!Copied(kv[c])[st][i].sound /\ i \notin kv[c].div[st] => KeyMatches(kv[c], st, i)

(***************************************************************************)
(* The cells planned for a micro batch are still free, or out of the window *)
(* of the only sequence that holds them, when its turn comes, and no two of *)
(* its tokens share one (prepare, apply_ubatch).                           *)
(***************************************************************************)
PlannedSlotsFree ==
    todo # << >> =>
        \A c \in DOMAIN kv : LET slots == Head(todo).slots[c] IN \A st \in DOMAIN slots :
            /\ IsInjective(slots[st])
            /\ \A i \in Range(slots[st]) : KV!can_use(kv[c].swa, kv[c].cells[st], i)

(***************************************************************************)
(* The base cache is a superset of the one with the window, and what that  *)
(* one holds of a sequence are its last positions, without a gap           *)
(* (llama_kv_cache_iswa::seq_pos_min, apply_ubatch); but for sequences that *)
(* a failed plan or a failed load has left with gaps.                      *)
(***************************************************************************)
WindowIsTail ==
    "swa" \in DOMAIN kv =>
        \A s \in SeqIds \ spoiled :
            LET all == Held(kv["base"], s)
                win == Held(kv["swa"], s)
            IN  \E m \in 0 .. MaxPos + 1 : win = {p \in all : p >= m}

\* the positions of s that its next token sees
Visible(k, s) ==
    {p \in Held(k, s) : ~KV!is_masked_swa(k.swa, p, KV!seq_pos_max(k, s) + 1)}

KeepsVisible(c) == \A s \in SeqIds : Visible(kv[c], s) \subseteq Held(kv'[c], s)

(***************************************************************************)
(* Nothing is taken from a sequence that its next token would see, when a  *)
(* micro batch takes its cells, also if it then fails, and when a batch is *)
(* planned (find_slot, apply_ubatch; prepare: "restore the cells to their  *)
(* original state").  The exception is a batch of several micro batches, or *)
(* one that finds no room, in a cache with a window: planning a later micro *)
(* batch purges cells outside of its slot, which are not restored, although *)
(* the first micro batch still sees them.                                  *)
(***************************************************************************)
VisibleIsKept ==
    [][calls' = calls =>
         \A c \in DOMAIN kv :
            KeepsVisible(c) \/ (c = "swa" /\ todo = << >> /\ Len(todo') # 1)]_kvVars
=============================================================================
