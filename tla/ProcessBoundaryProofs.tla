------------------------ MODULE ProcessBoundaryProofs ------------------------
(***************************************************************************)
(* What is beyond the Java process: the socket to another process          *)
(* (SocketFraming), the native libraries (NativeBridge), and what the      *)
(* native llama server keeps of the texts it works on (KvMemory).          *)
(*                                                                         *)
(* SocketFraming for any number of messages of any length: what a reader   *)
(* hands on is what a writer was given, unless two writes were mixed or    *)
(* the client got a header in parts.                                       *)
(*                                                                         *)
(* NativeBridge for any number of threads, bridges and libraries: a native *)
(* method is missing only because of the loader's one flag, never because  *)
(* of a race.                                                              *)
(*                                                                         *)
(* KvMemory for any number of sequences, sizes of caches, windows, micro   *)
(* batches and batches: the indices of the cells agree with them, and      *)
(* after the next update the keys are rotated to the positions of their    *)
(* cells.  The three share neither state nor steps.                        *)
(***************************************************************************)
EXTENDS SocketFraming, NativeBridge, KvMemory, FiniteSetTheorems, SequenceTheorems,
        WellFoundedInduction, TLAPS

-----------------------------------------------------------------------------
(***************************************************************************)
(* Induction over a finite set.                                            *)
(***************************************************************************)
LEMMA KvSetInduction ==
    ASSUME NEW S, IsFiniteSet(S), NEW Good,
           \A T \in SUBSET S : (\A x \in T : T \ {x} \in Good) => T \in Good
    PROVE  \A T \in SUBSET S : T \in Good
<1> DEFINE Bad == {T \in SUBSET S : T \notin Good}
<1>1. ASSUME Bad # {} PROVE FALSE
  <2>1. Bad \subseteq FiniteSubsetsOf(S)
    BY FS_Subset DEF FiniteSubsetsOf
  <2>2. PICK T \in Bad : \A U \in Bad : ~(<<U, T>> \in StrictSubsetOrdering(S))
    <3> HIDE DEF Bad
    <3> QED BY <1>1, <2>1, FS_StrictSubsetOrderingWellFounded, WFMin, Zenon
  <2>3. PICK x \in T : T \ {x} \notin Good
    OBVIOUS
  <2>4. T \ {x} \in Bad
    BY <2>3
  <2>5. <<T \ {x}, T>> \in StrictSubsetOrdering(S)
    BY <2>3 DEF StrictSubsetOrdering
  <2> QED BY <2>2, <2>4, <2>5
<1> QED BY <1>1

\* two functions that satisfy the same recursive equation of a fold are equal
LEMMA KvFoldUnique ==
    ASSUME NEW S, IsFiniteSet(S), NEW f, NEW V,
           f[{}] = V[{}],
           \A T \in SUBSET S : T # {} =>
              \E x \in T : f[T \ {x}] = V[T \ {x}] => f[T] = V[T]
    PROVE  f[S] = V[S]
<1> DEFINE Good == {T \in SUBSET S : f[T] = V[T]}
<1>1. {} \in Good
  OBVIOUS
<1>2. ASSUME NEW T \in SUBSET S, \A x \in T : T \ {x} \in Good PROVE T \in Good
  <2>1. CASE T = {}
    BY <1>1, <2>1
  <2>2. CASE T # {}
    <3>1. PICK x \in T : f[T \ {x}] = V[T \ {x}] => f[T] = V[T]
      BY <2>2
    <3>2. T \ {x} \in Good
      BY <1>2, <3>1
    <3> QED BY <3>1, <3>2
  <2> QED BY <2>1, <2>2
<1> HIDE DEF Good
<1>3. \A T \in SUBSET S : T \in Good
  BY <1>2, KvSetInduction, Zenon
<1> QED BY <1>3 DEF Good

-----------------------------------------------------------------------------
(***************************************************************************)
(* The index of the positions of a sequence, computed from its cells H.    *)
(***************************************************************************)
LEMMA KvCells_Cardinality == \A S : KV!Cells!Cardinality(S) = Cardinality(S)
BY DEF KV!Cells!Cardinality, Cardinality

\* the caches count with the Cardinality of FiniteSets
LEMMA KvCache_Cardinality == \A S : KV!Cardinality(S) = Cardinality(S)
BY DEF KV!Cardinality, Cardinality

Tally(pos, H) == [p \in {pos[i] : i \in H} |-> Cardinality({i \in H : pos[i] = p})]

\* one cell more at p: the tally of a sequence is the incremented one
LEMMA KvTallyAdd ==
    ASSUME NEW pos, NEW H, IsFiniteSet(H), NEW i, i \notin H
    PROVE  Tally(pos, H \cup {i}) = KV!Cells!Inc(Tally(pos, H), pos[i])
<1> DEFINE G     == H \cup {i}
           at(p) == {j \in H : pos[j] = p}
<1>1. \A p : IsFiniteSet(at(p)) /\ Cardinality(at(p)) \in Nat
  BY FS_Subset, FS_CardinalityType
<1>2. \A p : p # pos[i] => {j \in G : pos[j] = p} = at(p)
  OBVIOUS
<1>3. Cardinality({j \in G : pos[j] = pos[i]}) = Cardinality(at(pos[i])) + 1
  <2>1. {j \in G : pos[j] = pos[i]} = at(pos[i]) \cup {i}
    OBVIOUS
  <2> HIDE DEF at
  <2>2. i \notin at(pos[i])
    BY DEF at
  <2> QED BY <1>1, <2>1, <2>2, FS_AddElement, FS_CardinalityType
<1>4. pos[i] \notin {pos[j] : j \in H} => Cardinality(at(pos[i])) = 0
  BY FS_EmptySet
<1>5. {pos[j] : j \in G} = {pos[j] : j \in H} \cup {pos[i]}
  OBVIOUS
<1> DEFINE A == Tally(pos, G)
           B == KV!Cells!Inc(Tally(pos, H), pos[i])
<1>6. DOMAIN A = DOMAIN B
  BY <1>5 DEF Tally, KV!Cells!Inc
<1>7. ASSUME NEW p \in DOMAIN A PROVE A[p] = B[p]
  <2>1. CASE p # pos[i]
    BY <1>2, <1>5, <2>1 DEF Tally, KV!Cells!Inc
  <2>2. CASE p = pos[i] /\ p \in {pos[j] : j \in H}
    BY <1>3, <2>2 DEF Tally, KV!Cells!Inc
  <2>3. CASE p = pos[i] /\ p \notin {pos[j] : j \in H}
    BY <1>3, <1>4, <2>3 DEF Tally, KV!Cells!Inc
  <2> QED BY <2>1, <2>2, <2>3
<1>8. A = [p \in DOMAIN A |-> A[p]] /\ B = [p \in DOMAIN B |-> B[p]]
  BY DEF Tally, KV!Cells!Inc
<1> QED BY <1>6, <1>7, <1>8

\* one cell less at p: the tally of a sequence is the decremented one
LEMMA KvTallyRemove ==
    ASSUME NEW pos, NEW H, IsFiniteSet(H), NEW i \in H
    PROVE  Tally(pos, H \ {i}) = KV!Cells!Dec(Tally(pos, H), pos[i])
<1> DEFINE G     == H \ {i}
           at(p) == {j \in H : pos[j] = p}
<1>1. \A p : IsFiniteSet(at(p)) /\ Cardinality(at(p)) \in Nat
  BY FS_Subset, FS_CardinalityType
<1>2. \A p : p # pos[i] => {j \in G : pos[j] = p} = at(p)
  OBVIOUS
<1>3. Cardinality({j \in G : pos[j] = pos[i]}) = Cardinality(at(pos[i])) - 1
  <2>1. {j \in G : pos[j] = pos[i]} = at(pos[i]) \ {i}
    OBVIOUS
  <2>2. i \in at(pos[i])
    OBVIOUS
  <2> HIDE DEF at
  <2> QED BY <1>1, <2>1, <2>2, FS_RemoveElement
<1>4. Cardinality(at(pos[i])) = 1 <=> pos[i] \notin {pos[j] : j \in G}
  <2>1. {j \in G : pos[j] = pos[i]} = {} <=> pos[i] \notin {pos[j] : j \in G}
    OBVIOUS
  <2>2. IsFiniteSet({j \in G : pos[j] = pos[i]})
    BY FS_Subset
  <2>3. Cardinality({j \in G : pos[j] = pos[i]}) = 0 <=> {j \in G : pos[j] = pos[i]} = {}
    BY <2>2, FS_EmptySet
  <2> QED BY <1>1, <1>3, <2>1, <2>3
<1>5. {pos[j] : j \in G} = {p \in {pos[j] : j \in H} : p # pos[i] \/ Cardinality(at(p)) # 1}
  BY <1>4
<1>6. pos[i] \in {pos[j] : j \in H}
  OBVIOUS
<1> QED BY <1>2, <1>3, <1>5, <1>6 DEF Tally, KV!Cells!Dec

\* a tally depends only on the cells of its sequence and their positions
LEMMA KvTallySame ==
    ASSUME NEW pos, NEW pos2, NEW H, \A i \in H : pos[i] = pos2[i]
    PROVE  Tally(pos, H) = Tally(pos2, H)
<1>1. {pos[i] : i \in H} = {pos2[i] : i \in H}
  OBVIOUS
<1>2. \A p : {i \in H : pos[i] = p} = {i \in H : pos2[i] = p}
  OBVIOUS
<1> QED BY <1>1, <1>2 DEF Tally

KvIndex(pos, seq) == [s \in SeqIds |-> Tally(pos, {i \in DOMAIN pos : s \in seq[i]})]

\* the sequences S leave or enter the cell i, of cells I
KvLeft(I, seq, i, S, new) ==
    /\ IsFiniteSet(I) /\ i \in I /\ S \subseteq seq[i]
    /\ new[i] = seq[i] \ S /\ \A j \in I \ {i} : new[j] = seq[j]

KvEntered(I, seq, i, S, new) ==
    /\ IsFiniteSet(I) /\ i \in I /\ S \cap seq[i] = {}
    /\ new[i] = seq[i] \cup S /\ \A j \in I \ {i} : new[j] = seq[j]

\* seq_pos_dec on the indices follows the cell that leaves sequences
LEMMA KvIndexDec ==
    ASSUME NEW I, NEW pos, DOMAIN pos = I, NEW seq, NEW i, NEW S, NEW new, KvLeft(I, seq, i, S, new)
    PROVE  KV!Cells!seq_pos_dec(KvIndex(pos, seq), S, pos[i]) = KvIndex(pos, new)
<1> USE DEF KvLeft
<1> DEFINE held(s) == {j \in I : s \in seq[j]}
           left(s) == {j \in I : s \in new[j]}
<1>1. ASSUME NEW s \in SeqIds
      PROVE  Tally(pos, left(s)) = IF s \in S THEN KV!Cells!Dec(Tally(pos, held(s)), pos[i])
                                   ELSE Tally(pos, held(s))
  <2>1. CASE s \in S
    <3>1. left(s) = held(s) \ {i} /\ i \in held(s)
      BY <2>1
    <3>2. IsFiniteSet(held(s))
      BY FS_Subset
    <3> HIDE DEF held, left
    <3> QED BY <2>1, <3>1, <3>2, KvTallyRemove
  <2>2. CASE s \notin S
    <3>1. left(s) = held(s)
      BY <2>2
    <3> HIDE DEF held, left
    <3> QED BY <2>2, <3>1
  <2> QED BY <2>1, <2>2
<1> QED BY <1>1 DEF KvIndex, KV!Cells!seq_pos_dec

\* seq_pos_inc on the indices follows the cell that joins sequences
LEMMA KvIndexInc ==
    ASSUME NEW I, NEW pos, DOMAIN pos = I, NEW seq, NEW i, NEW S, NEW new, KvEntered(I, seq, i, S, new)
    PROVE  KV!Cells!seq_pos_inc(KvIndex(pos, seq), S, pos[i]) = KvIndex(pos, new)
<1> USE DEF KvEntered
<1> DEFINE held(s) == {j \in I : s \in seq[j]}
           with(s) == {j \in I : s \in new[j]}
<1>1. ASSUME NEW s \in SeqIds
      PROVE  Tally(pos, with(s)) = IF s \in S THEN KV!Cells!Inc(Tally(pos, held(s)), pos[i])
                                   ELSE Tally(pos, held(s))
  <2>1. CASE s \in S
    <3>1. with(s) = held(s) \cup {i} /\ i \notin held(s)
      BY <2>1
    <3>2. IsFiniteSet(held(s))
      BY FS_Subset
    <3> HIDE DEF held, with
    <3> QED BY <2>1, <3>1, <3>2, KvTallyAdd
  <2>2. CASE s \notin S
    <3>1. with(s) = held(s)
      BY <2>2
    <3> HIDE DEF held, with
    <3> QED BY <2>2, <3>1
  <2> QED BY <2>1, <2>2
<1> QED BY <1>1 DEF KvIndex, KV!Cells!seq_pos_inc

\* the position of a cell that no sequence holds does not count in the indices
LEMMA KvIndexSame ==
    ASSUME NEW pos, NEW pos2, DOMAIN pos2 = DOMAIN pos, NEW seq,
           \A j \in DOMAIN pos : seq[j] # {} => pos2[j] = pos[j]
    PROVE  KvIndex(pos2, seq) = KvIndex(pos, seq)
<1>1. ASSUME NEW s PROVE Tally(pos2, {j \in DOMAIN pos : s \in seq[j]})
                           = Tally(pos, {j \in DOMAIN pos : s \in seq[j]})
  <2>1. \A j \in {k \in DOMAIN pos : s \in seq[k]} : pos2[j] = pos[j]
    OBVIOUS
  <2> QED BY <2>1, KvTallySame
<1> QED BY <1>1 DEF KvIndex

-----------------------------------------------------------------------------
(***************************************************************************)
(* Cells whose indices are those of their positions and sequences, and     *)
(* what every method makes of them.                                        *)
(***************************************************************************)
CellsFor(pos, shift, seq, has_shift) ==
    [pos |-> pos, shift |-> shift, seq |-> seq, used |-> {i \in DOMAIN pos : pos[i] # -1},
     seq_pos |-> KvIndex(pos, seq), has_shift |-> has_shift]

KvData(I, pos, shift, seq, has_shift) ==
    /\ IsFiniteSet(I)
    /\ pos \in [I -> Int] /\ shift \in [I -> Int] /\ seq \in [I -> SUBSET SeqIds]
    /\ has_shift \in BOOLEAN

\* the function f with value v at i
KvAt(f, i, v) == [f EXCEPT ![i] = v]

KvFields(pos, shift, seq, used, seq_pos, has_shift) ==
    [pos : {pos}, shift : {shift}, seq : {seq}, used : {used}, seq_pos : {seq_pos},
     has_shift : {has_shift}]

KvRecord(pos, shift, seq, used, seq_pos, has_shift) ==
    [pos |-> pos, shift |-> shift, seq |-> seq, used |-> used, seq_pos |-> seq_pos,
     has_shift |-> has_shift]

\* cells are the record of their fields
LEMMA KvFieldsRecord ==
    \A pos, shift, seq, used, sp, hs, c :
        c \in KvFields(pos, shift, seq, used, sp, hs) <=> c = KvRecord(pos, shift, seq, used, sp, hs)
BY DEF KvFields, KvRecord

\* the fields of the cells that CellsFor builds
LEMMA KvCellsFields ==
    ASSUME NEW pos, NEW shift, NEW seq, NEW hs
    PROVE  CellsFor(pos, shift, seq, hs)
             \in KvFields(pos, shift, seq, {i \in DOMAIN pos : pos[i] # -1}, KvIndex(pos, seq), hs)
BY DEF CellsFor, KvFields

\* a record with the fields of CellsFor is CellsFor
LEMMA KvFieldsCells ==
    ASSUME NEW pos, NEW shift, NEW seq, NEW hs, NEW used, used = {i \in DOMAIN pos : pos[i] # -1},
           NEW sp, sp = KvIndex(pos, seq), NEW c \in KvFields(pos, shift, seq, used, sp, hs)
    PROVE  c = CellsFor(pos, shift, seq, hs)
BY DEF CellsFor, KvFields

\* apart from cell i the set of used cells is right
KvUsedBut(I, pos, i, used) == used \subseteq I /\ \A j \in I \ {i} : j \in used <=> pos[j] # -1

\* a cell that no sequence holds any more loses position and shift
LEMMA KvEmptied ==
    ASSUME NEW I, NEW pos, NEW shift, NEW seq, NEW hs, KvData(I, pos, shift, seq, hs),
           NEW i \in I, NEW used, KvUsedBut(I, pos, i, used),
           NEW seq2, KvData(I, pos, shift, seq2, hs), KvLeft(I, seq, i, seq[i], seq2)
    PROVE  KV!Cells!Emptied(KvRecord(pos, shift, seq, used, KvIndex(pos, seq2), hs), i)
             = CellsFor(KvAt(pos, i, -1), KvAt(shift, i, 0), seq2, hs)
<1>0. PICK c : c = KvRecord(pos, shift, seq, used, KvIndex(pos, seq2), hs)
  OBVIOUS
<1> DEFINE pos2   == KvAt(pos, i, -1)
           shift2 == KvAt(shift, i, 0)
<1>1. KvIndex(pos2, seq2) = KvIndex(pos, seq2)
  <2>1. DOMAIN pos2 = DOMAIN pos /\ \A j \in DOMAIN pos : seq2[j] # {} => pos2[j] = pos[j]
    BY DEF KvAt, KvData, KvLeft
  <2> QED BY <2>1, KvIndexSame
<1>2. used \ {i} = {j \in DOMAIN pos2 : pos2[j] # -1}
  BY DEF KvAt, KvData, KvUsedBut
<1>3. KV!Cells!Emptied(c, i) \in KvFields(pos2, shift2, seq2, used \ {i}, KvIndex(pos, seq2), hs)
  <2>1. KvAt(seq, i, {}) = seq2
    BY DEF KvAt, KvData, KvLeft
  <2>2. c \in KvFields(pos, shift, seq, used, KvIndex(pos, seq2), hs)
    BY <1>0, KvFieldsRecord
  <2> QED BY <2>1, <2>2 DEF KV!Cells!Emptied, KvFields, KvAt
<1> HIDE DEF pos2, shift2
<1>4. KV!Cells!Emptied(c, i) = CellsFor(pos2, shift2, seq2, hs)
  BY <1>1, <1>2, <1>3, KvFieldsCells
<1> QED BY <1>0, <1>4 DEF pos2, shift2

\* a cell that its last sequence leaves is emptied
KvLeaves(pos, shift, seq, hs, i, s) ==
    IF seq[i] = {s}
    THEN CellsFor(KvAt(pos, i, -1), KvAt(shift, i, 0), KvAt(seq, i, {}), hs)
    ELSE CellsFor(pos, shift, KvAt(seq, i, seq[i] \ {s}), hs)

\* llama_kv_cells::seq_rm on cells that agree
LEMMA KvCells_seq_rm ==
    ASSUME NEW I, NEW pos, NEW shift, NEW seq, NEW hs, KvData(I, pos, shift, seq, hs),
           NEW i \in I, NEW s \in seq[i]
    PROVE  KV!Cells!seq_rm(CellsFor(pos, shift, seq, hs), i, s) = KvLeaves(pos, shift, seq, hs, i, s)
<1>1. PICK new : new = KvAt(seq, i, seq[i] \ {s})
  OBVIOUS
<1>2. PICK used : used = {j \in I : pos[j] # -1}
  OBVIOUS
<1>3. PICK c : c = CellsFor(pos, shift, seq, hs)
  OBVIOUS
<1>4. c \in KvFields(pos, shift, seq, used, KvIndex(pos, seq), hs)
  BY <1>2, <1>3, KvCellsFields DEF KvAt, KvData
<1>5. KV!Cells!seq_pos_dec(KvIndex(pos, seq), {s}, pos[i]) = KvIndex(pos, new)
  <2>1. PICK S : S = {s}
    OBVIOUS
  <2>2. DOMAIN pos = I
    BY DEF KvAt, KvData
  <2>3. KvLeft(I, seq, i, S, new)
    BY <1>1, <2>1 DEF KvAt, KvData, KvLeft
  <2>4. KV!Cells!seq_pos_dec(KvIndex(pos, seq), S, pos[i]) = KvIndex(pos, new)
    BY <2>2, <2>3, KvIndexDec
  <2> QED BY <2>1, <2>4
<1>6. PICK d : d = [c EXCEPT !.seq[i] = @ \ {s},
                             !.seq_pos = KV!Cells!seq_pos_dec(@, {s}, c.pos[i])]
  OBVIOUS
<1>7. d \in KvFields(pos, shift, new, used, KvIndex(pos, new), hs)
  BY <1>1, <1>4, <1>5, <1>6 DEF KvFields, KvAt, KvData
<1>8. new \in [I -> SUBSET SeqIds] /\ d.seq = new
  BY <1>1, <1>7 DEF KvAt, KvData, KvFields
<1>9. CASE seq[i] = {s}
  <2>1. new = KvAt(seq, i, {}) /\ new[i] = {} /\ KvLeft(I, new, i, new[i], new)
    BY <1>1, <1>9 DEF KvAt, KvData, KvLeft
  <2>2. KvData(I, pos, shift, new, hs)
    BY <1>8 DEF KvAt, KvData
  <2>3. KV!Cells!Emptied(d, i) = CellsFor(KvAt(pos, i, -1), KvAt(shift, i, 0), new, hs)
    <3>1. KvUsedBut(I, pos, i, used)
      BY <1>2 DEF KvUsedBut
    <3>2. KvLeft(I, new, i, new[i], new)
      BY <2>1
    <3>3. d = KvRecord(pos, shift, new, used, KvIndex(pos, new), hs)
      BY <1>7, KvFieldsRecord
    <3> QED BY <2>2, <3>1, <3>2, <3>3, KvEmptied
  <2> QED BY <1>3, <1>6, <1>8, <1>9, <2>1, <2>3 DEF KV!Cells!seq_rm, KvLeaves
<1>10. CASE seq[i] # {s}
  <2>1. new[i] # {}
    BY <1>1, <1>10 DEF KvAt, KvData
  <2>2. d = CellsFor(pos, shift, new, hs)
    BY <1>2, <1>7, KvFieldsCells DEF KvAt, KvData
  <2> QED BY <1>1, <1>3, <1>6, <1>8, <1>10, <2>1, <2>2 DEF KV!Cells!seq_rm, KvLeaves
<1> QED BY <1>9, <1>10

\* llama_kv_cells::rm on cells that agree
LEMMA KvCells_rm ==
    ASSUME NEW I, NEW pos, NEW shift, NEW seq, NEW hs, KvData(I, pos, shift, seq, hs), NEW i \in I
    PROVE  KV!Cells!rm(CellsFor(pos, shift, seq, hs), i)
             = CellsFor(KvAt(pos, i, -1), KvAt(shift, i, 0), KvAt(seq, i, {}), hs)
<1> DEFINE pos2   == KvAt(pos, i, -1)
           shift2 == KvAt(shift, i, 0)
           seq2   == KvAt(seq, i, {})
           used   == {j \in I : pos[j] # -1}
<1>1. PICK c : c = CellsFor(pos, shift, seq, hs)
  OBVIOUS
<1>2. c \in KvFields(pos, shift, seq, used, KvIndex(pos, seq), hs)
  BY <1>1, KvCellsFields DEF KvAt, KvData
<1>3. KV!Cells!seq_pos_dec(KvIndex(pos, seq), seq[i], pos[i]) = KvIndex(pos, seq2)
  <2>1. DOMAIN pos = I
    BY DEF KvAt, KvData
  <2>2. KvLeft(I, seq, i, seq[i], seq2)
    BY DEF KvAt, KvData, KvLeft
  <2> HIDE DEF seq2
  <2> QED BY <2>1, <2>2, KvIndexDec
<1>4. KvIndex(pos2, seq2) = KvIndex(pos, seq2)
  BY KvIndexSame DEF KvAt, KvData
<1>5. used \ {i} = {j \in DOMAIN pos2 : pos2[j] # -1}
  BY DEF KvAt, KvData
<1>6. KV!Cells!rm(c, i) \in KvFields(pos2, shift2, seq2, used \ {i}, KvIndex(pos, seq2), hs)
  <2> HIDE DEF used
  <2> QED BY <1>2, <1>3 DEF KV!Cells!rm, KV!Cells!Emptied, KvFields, KvAt, KvData
<1> HIDE DEF pos2, shift2, seq2, used
<1>7. KV!Cells!rm(c, i) = CellsFor(pos2, shift2, seq2, hs)
  BY <1>4, <1>5, <1>6, KvFieldsCells
<1> QED BY <1>1, <1>7 DEF pos2, shift2, seq2

\* llama_kv_cells::seq_add on cells that agree
LEMMA KvCells_seq_add ==
    ASSUME NEW I, NEW pos, NEW shift, NEW seq, NEW hs, KvData(I, pos, shift, seq, hs),
           NEW i \in I, NEW S, S \cap seq[i] = {}
    PROVE  KV!Cells!seq_add(CellsFor(pos, shift, seq, hs), i, S)
             = CellsFor(pos, shift, KvAt(seq, i, seq[i] \cup S), hs)
<1> DEFINE new  == KvAt(seq, i, seq[i] \cup S)
           used == {j \in I : pos[j] # -1}
<1>1. PICK c : c = CellsFor(pos, shift, seq, hs)
  OBVIOUS
<1>2. c \in KvFields(pos, shift, seq, used, KvIndex(pos, seq), hs)
  BY <1>1, KvCellsFields DEF KvAt, KvData
<1>3. KV!Cells!seq_pos_inc(KvIndex(pos, seq), S, pos[i]) = KvIndex(pos, new)
  <2>1. DOMAIN pos = I
    BY DEF KvAt, KvData
  <2>2. KvEntered(I, seq, i, S, new)
    BY DEF KvAt, KvData, KvEntered
  <2> HIDE DEF new
  <2> QED BY <2>1, <2>2, KvIndexInc
<1>4. KV!Cells!seq_add(c, i, S) \in KvFields(pos, shift, new, used, KvIndex(pos, new), hs)
  <2> HIDE DEF used
  <2> QED BY <1>2, <1>3 DEF KV!Cells!seq_add, KvFields, KvAt, KvData
<1>5. used = {j \in DOMAIN pos : pos[j] # -1}
  BY DEF KvAt, KvData
<1> HIDE DEF new, used
<1>6. KV!Cells!seq_add(c, i, S) = CellsFor(pos, shift, new, hs)
  BY <1>4, <1>5, KvFieldsCells
<1> QED BY <1>1, <1>6 DEF new

\* llama_kv_cells::pos_set on cells that agree
LEMMA KvCells_pos_set ==
    ASSUME NEW I, NEW pos, NEW shift, NEW seq, NEW hs, KvData(I, pos, shift, seq, hs),
           NEW i \in I, seq[i] = {}, NEW p \in Int, p # -1
    PROVE  KV!Cells!pos_set(CellsFor(pos, shift, seq, hs), i, p)
             = CellsFor(KvAt(pos, i, p), shift, seq, hs)
<1> DEFINE new  == KvAt(pos, i, p)
           used == {j \in I : pos[j] # -1}
<1>1. PICK c : c = CellsFor(pos, shift, seq, hs)
  OBVIOUS
<1>2. c \in KvFields(pos, shift, seq, used, KvIndex(pos, seq), hs)
  BY <1>1, KvCellsFields DEF KvAt, KvData
<1>3. KvIndex(new, seq) = KvIndex(pos, seq)
  BY KvIndexSame DEF KvAt, KvData
<1>4. used \cup {i} = {j \in DOMAIN new : new[j] # -1}
  BY DEF KvAt, KvData
<1> HIDE DEF used
<1>5. KV!Cells!pos_set(c, i, p) \in KvFields(new, shift, seq, used \cup {i}, KvIndex(pos, seq), hs)
  BY <1>2 DEF KV!Cells!pos_set, KvFields, KvAt, KvData
<1> HIDE DEF new
<1>6. KV!Cells!pos_set(c, i, p) = CellsFor(new, shift, seq, hs)
  BY <1>3, <1>4, <1>5, KvFieldsCells
<1> QED BY <1>1, <1>6 DEF new

\* all sequences of a cell leave it, the sequences S come in at position p
LEMMA KvIndexMove ==
    ASSUME NEW I, NEW pos, NEW shift, NEW seq, NEW hs, KvData(I, pos, shift, seq, hs), NEW i \in I,
           NEW p \in Int, NEW S \in SUBSET SeqIds, NEW pos2, NEW seq2, DOMAIN pos2 = I, DOMAIN seq2 = I,
           pos2[i] = p /\ (\A j \in I \ {i} : pos2[j] = pos[j]),
           seq2[i] = S /\ (\A j \in I \ {i} : seq2[j] = seq[j])
    PROVE  KV!Cells!seq_pos_inc(KV!Cells!seq_pos_dec(KvIndex(pos, seq), seq[i], pos[i]), S, p)
             = KvIndex(pos2, seq2)
<1>0. PICK none : none = KvAt(seq, i, {})
  OBVIOUS
<1>1. DOMAIN pos = I
  BY DEF KvAt, KvData
<1>2. KvLeft(I, seq, i, seq[i], none)
  BY <1>0 DEF KvAt, KvData, KvLeft
<1>3. KvEntered(I, none, i, S, seq2)
  BY <1>0 DEF KvAt, KvData, KvEntered
<1>4. \A j \in I : none[j] # {} => pos2[j] = pos[j]
  BY <1>0 DEF KvAt, KvData
<1>5. KV!Cells!seq_pos_dec(KvIndex(pos, seq), seq[i], pos[i]) = KvIndex(pos, none)
  BY <1>1, <1>2, KvIndexDec
<1>6. KvIndex(pos2, none) = KvIndex(pos, none)
  BY <1>1, <1>4, KvIndexSame
<1>7. KV!Cells!seq_pos_inc(KvIndex(pos2, none), S, pos2[i]) = KvIndex(pos2, seq2)
  BY <1>3, KvIndexInc
<1> QED BY <1>5, <1>6, <1>7

\* llama_kv_cells::seq_keep on cells that agree
LEMMA KvCells_seq_keep ==
    ASSUME NEW I, NEW pos, NEW shift, NEW seq, NEW hs, KvData(I, pos, shift, seq, hs),
           NEW i \in I, NEW s \in seq[i]
    PROVE  KV!Cells!seq_keep(CellsFor(pos, shift, seq, hs), i, s)
             = CellsFor(pos, shift, KvAt(seq, i, {s}), hs)
<1> DEFINE new  == KvAt(seq, i, {s})
           used == {j \in I : pos[j] # -1}
<1>1. PICK c : c = CellsFor(pos, shift, seq, hs)
  OBVIOUS
<1>2. c \in KvFields(pos, shift, seq, used, KvIndex(pos, seq), hs)
  BY <1>1, KvCellsFields DEF KvAt, KvData
<1>3. KV!Cells!seq_pos_inc(KV!Cells!seq_pos_dec(KvIndex(pos, seq), seq[i], pos[i]), {s}, pos[i])
        = KvIndex(pos, new)
  <2>1. PICK S : S = {s}
    OBVIOUS
  <2>2. /\ S \in SUBSET SeqIds /\ pos[i] \in Int /\ DOMAIN new = I /\ DOMAIN pos = I
        /\ new[i] = S /\ (\A j \in I \ {i} : new[j] = seq[j])
        /\ pos[i] = pos[i] /\ (\A j \in I \ {i} : pos[j] = pos[j])
    BY <2>1 DEF KvAt, KvData
  <2> HIDE DEF new
  <2>3. KV!Cells!seq_pos_inc(KV!Cells!seq_pos_dec(KvIndex(pos, seq), seq[i], pos[i]), S, pos[i])
          = KvIndex(pos, new)
    BY <2>2, KvIndexMove
  <2> QED BY <2>1, <2>3
<1>4. used = {j \in DOMAIN pos : pos[j] # -1} /\ c.seq = seq
  BY <1>2 DEF KvAt, KvData, KvFields
<1> HIDE DEF used
<1>5. KV!Cells!seq_keep(c, i, s)
        = [c EXCEPT !.seq[i] = {s},
                    !.seq_pos = KV!Cells!seq_pos_inc(KV!Cells!seq_pos_dec(@, c.seq[i], c.pos[i]), {s}, c.pos[i])]
  BY <1>4 DEF KV!Cells!seq_keep
<1>6. KV!Cells!seq_keep(c, i, s) \in KvFields(pos, shift, new, used, KvIndex(pos, new), hs)
  BY <1>2, <1>3, <1>5 DEF KvFields, KvAt, KvData
<1> HIDE DEF new
<1>7. KV!Cells!seq_keep(c, i, s) = CellsFor(pos, shift, new, hs)
  BY <1>4, <1>6, KvFieldsCells
<1> QED BY <1>1, <1>7 DEF new

\* the position and the shift of cell i, moved by d
KvMoved(pos, shift, i, d, p, sh) == d \in Int /\ p = pos[i] + d /\ sh = shift[i] + d

\* has_shift, once a position was changed
KvYes == TRUE
KvNo == FALSE

KvZero(I) == [i \in I |-> 0]

\* a cell that is moved below position 0 is emptied
KvSlid(pos, shift, seq, i, p, sh) ==
    IF p \in Nat THEN CellsFor(KvAt(pos, i, p), KvAt(shift, i, sh), seq, KvYes)
    ELSE CellsFor(KvAt(pos, i, -1), KvAt(shift, i, 0), KvAt(seq, i, {}), KvYes)

\* llama_kv_cells::pos_add on cells that agree
LEMMA KvCells_pos_add ==
    ASSUME NEW I, NEW pos, NEW shift, NEW seq, NEW hs, KvData(I, pos, shift, seq, hs),
           NEW i \in I, NEW used, KvUsedBut(I, pos, i, used), i \in used,
           NEW d, NEW p, NEW sh, KvMoved(pos, shift, i, d, p, sh)
    PROVE  KV!Cells!pos_add(KvRecord(pos, shift, seq, used, KvIndex(pos, seq), hs), i, d)
             = KvSlid(pos, shift, seq, i, p, sh)
<1>0. PICK c : c = KvRecord(pos, shift, seq, used, KvIndex(pos, seq), hs)
  OBVIOUS
<1>1. /\ c \in KvFields(pos, shift, seq, used, KvIndex(pos, seq), hs)
      /\ c.pos = pos /\ c.seq = seq
  BY <1>0, KvFieldsRecord DEF KvRecord
<1>2. PICK out : out = [c EXCEPT !.seq_pos = KV!Cells!seq_pos_dec(@, c.seq[i], c.pos[i]),
                                 !.has_shift = TRUE]
  OBVIOUS
<1>3. PICK sp : sp = KV!Cells!seq_pos_dec(KvIndex(pos, seq), seq[i], pos[i])
  OBVIOUS
<1>4. PICK yes : yes = TRUE /\ yes = KvYes
  BY DEF KvYes
<1>9. /\ d \in Int /\ pos[i] \in Int /\ p = pos[i] + d /\ shift[i] \in Int /\ sh = shift[i] + d
      /\ p \in Int /\ sh \in Int /\ (p < 0 <=> p \notin Nat)
  BY DEF KvMoved, KvData
<1>5. out \in KvFields(pos, shift, seq, used, sp, yes)
  BY <1>1, <1>2, <1>3, <1>4 DEF KvFields
<1>6. KvData(I, pos, shift, seq, yes)
  BY <1>4 DEF KvAt, KvData
<1>7. CASE p \notin Nat
  <2>1. PICK none : none = KvAt(seq, i, {})
    OBVIOUS
  <2>2. sp = KvIndex(pos, none)
    <3>1. DOMAIN pos = I
      BY DEF KvAt, KvData
    <3>2. KvLeft(I, seq, i, seq[i], none)
      BY <2>1 DEF KvAt, KvData, KvLeft
    <3> QED BY <1>3, <3>1, <3>2, KvIndexDec
  <2>3. KvData(I, pos, shift, none, yes) /\ KvLeft(I, seq, i, seq[i], none)
    BY <1>6, <2>1 DEF KvAt, KvData, KvLeft
  <2>4. KV!Cells!Emptied(out, i)
          = CellsFor(KvAt(pos, i, -1), KvAt(shift, i, 0), none, yes)
    <3>1. out = KvRecord(pos, shift, seq, used, KvIndex(pos, none), yes)
      BY <1>5, <2>2, KvFieldsRecord
    <3> QED BY <1>6, <2>3, <3>1, KvEmptied
  <2> QED BY <1>0, <1>1, <1>2, <1>4, <1>7, <1>9, <2>1, <2>4 DEF KV!Cells!pos_add, KvSlid
<1>8. CASE p \in Nat
  <2>2. PICK pos2 : pos2 = KvAt(pos, i, p)
    OBVIOUS
  <2>3. PICK shift2 : shift2 = KvAt(shift, i, sh)
    OBVIOUS
  <2>5. KV!Cells!seq_pos_inc(sp, seq[i], p) = KvIndex(pos2, seq)
    <3>1. pos2[i] = p /\ (\A j \in I \ {i} : pos2[j] = pos[j]) /\ DOMAIN pos2 = I
      BY <2>2 DEF KvAt, KvData
    <3>2. seq[i] = seq[i] /\ (\A j \in I \ {i} : seq[j] = seq[j]) /\ DOMAIN seq = I
      BY DEF KvAt, KvData
    <3>3. seq[i] \in SUBSET SeqIds
      BY DEF KvAt, KvData
    <3> QED BY <1>3, <1>9, <3>1, <3>2, <3>3, KvIndexMove
  <2>6. used = {j \in DOMAIN pos2 : pos2[j] # -1}
    BY <1>8, <2>2 DEF KvAt, KvData, KvUsedBut
  <2>7. KV!Cells!pos_add(c, i, d) = [out EXCEPT !.pos[i] = p, !.shift[i] = @ + d,
                                          !.seq_pos = KV!Cells!seq_pos_inc(@, seq[i], p)]
    BY <1>1, <1>2, <1>8, <1>9 DEF KV!Cells!pos_add
  <2>8. KV!Cells!pos_add(c, i, d) \in KvFields(pos2, shift2, seq, used, KvIndex(pos2, seq), yes)
    BY <1>5, <1>9, <2>2, <2>3, <2>5, <2>7 DEF KvFields, KvAt, KvData
  <2>9. KV!Cells!pos_add(c, i, d) = CellsFor(pos2, shift2, seq, yes)
    BY <2>6, <2>8, KvFieldsCells
  <2> QED BY <1>0, <1>4, <1>8, <2>2, <2>3, <2>9 DEF KvSlid
<1> QED BY <1>7, <1>8

KvDivided(pos, shift, i, d, p, sh) == p = pos[i] \div d /\ sh = shift[i] + (pos[i] - p)

\* llama_kv_cells::pos_div on cells that agree
LEMMA KvCells_pos_div ==
    ASSUME NEW I, NEW pos, NEW shift, NEW seq, NEW hs, KvData(I, pos, shift, seq, hs),
           NEW i \in I, pos[i] \in Nat, NEW d \in Nat \ {0},
           NEW p, NEW sh, KvDivided(pos, shift, i, d, p, sh)
    PROVE  KV!Cells!pos_div(CellsFor(pos, shift, seq, hs), i, d)
             = CellsFor(KvAt(pos, i, p), KvAt(shift, i, sh), seq, KvYes)
<1>1. PICK yes : yes = TRUE /\ yes = KvYes
  BY DEF KvYes
<1>2. PICK pos2 : pos2 = KvAt(pos, i, p)
  OBVIOUS
<1>3. PICK shift2 : shift2 = KvAt(shift, i, sh)
  OBVIOUS
<1>4. PICK used : used = {j \in I : pos[j] # -1}
  OBVIOUS
<1>5. PICK c : c = CellsFor(pos, shift, seq, hs)
  OBVIOUS
<1>6. c \in KvFields(pos, shift, seq, used, KvIndex(pos, seq), hs) /\ c.pos = pos /\ c.seq = seq
  BY <1>4, <1>5, KvCellsFields DEF KvAt, KvData, CellsFor
<1>7. p \in Nat /\ p = pos[i] \div d /\ sh = shift[i] + (pos[i] - p)
  BY DEF KvDivided
<1>8. KV!Cells!seq_pos_inc(KV!Cells!seq_pos_dec(KvIndex(pos, seq), seq[i], pos[i]), seq[i], p)
        = KvIndex(pos2, seq)
  <2>1. pos2[i] = p /\ (\A j \in I \ {i} : pos2[j] = pos[j]) /\ DOMAIN pos2 = I
    BY <1>2 DEF KvAt, KvData
  <2>2. seq[i] = seq[i] /\ (\A j \in I \ {i} : seq[j] = seq[j]) /\ DOMAIN seq = I
    BY DEF KvAt, KvData
  <2>3. seq[i] \in SUBSET SeqIds
    BY DEF KvAt, KvData
  <2>4. p \in Int
    BY <1>7
  <2> QED BY <2>1, <2>2, <2>3, <2>4, KvIndexMove
<1>9. used = {j \in DOMAIN pos2 : pos2[j] # -1}
  BY <1>2, <1>4, <1>7 DEF KvAt, KvData
<1>10. KV!Cells!pos_div(c, i, d)
         = [c EXCEPT !.pos[i] = p, !.shift[i] = @ + (pos[i] - p), !.has_shift = TRUE,
              !.seq_pos = KV!Cells!seq_pos_inc(KV!Cells!seq_pos_dec(@, seq[i], pos[i]), seq[i], p)]
  BY <1>6, <1>7 DEF KV!Cells!pos_div
<1>11. KV!Cells!pos_div(c, i, d) \in KvFields(pos2, shift2, seq, used, KvIndex(pos2, seq), yes)
  BY <1>1, <1>2, <1>3, <1>6, <1>7, <1>8, <1>10 DEF KvFields, KvAt, KvData
<1>12. KV!Cells!pos_div(c, i, d) = CellsFor(pos2, shift2, seq, yes)
  BY <1>9, <1>11, KvFieldsCells
<1> QED BY <1>1, <1>2, <1>3, <1>5, <1>12

\* one cell of llama_kv_cells::set on cells that agree
LEMMA KvCells_SetCell ==
    ASSUME NEW I, NEW pos, NEW shift, NEW seq, NEW hs, KvData(I, pos, shift, seq, hs),
           NEW i \in I, pos[i] = -1 => seq[i] = {},
           NEW p \in Int, NEW S \in SUBSET SeqIds, p = -1 => S = {}
    PROVE  KV!Cells!SetCell(CellsFor(pos, shift, seq, hs), i, [pos |-> p, seq |-> S])
             = CellsFor(KvAt(pos, i, p), shift, KvAt(seq, i, S), hs)
<1>1. PICK pos2 : pos2 = KvAt(pos, i, p)
  OBVIOUS
<1>2. PICK seq2 : seq2 = KvAt(seq, i, S)
  OBVIOUS
<1>3. PICK none : none = KvAt(seq, i, {})
  OBVIOUS
<1>4. PICK used : used = {j \in I : pos[j] # -1}
  OBVIOUS
<1>5. PICK c : c = CellsFor(pos, shift, seq, hs)
  OBVIOUS
<1>6. c \in KvFields(pos, shift, seq, used, KvIndex(pos, seq), hs) /\ c.pos = pos /\ c.seq = seq
        /\ c.seq_pos = KvIndex(pos, seq)
  BY <1>4, <1>5, KvCellsFields DEF KvAt, KvData, CellsFor
<1>7. PICK sp : sp = IF KV!Cells!is_empty(c, i) THEN c.seq_pos
                     ELSE KV!Cells!seq_pos_dec(c.seq_pos, c.seq[i], c.pos[i])
  OBVIOUS
<1>8. sp = KV!Cells!seq_pos_dec(KvIndex(pos, seq), seq[i], pos[i])
  <2>1. CASE pos[i] = -1
    BY <1>6, <1>7, <2>1 DEF KV!Cells!is_empty, KV!Cells!seq_pos_dec, KvIndex
  <2>2. CASE pos[i] # -1
    BY <1>6, <1>7, <2>2 DEF KV!Cells!is_empty
  <2> QED BY <2>1, <2>2
<1>9. KvIndex(pos2, seq2) = IF p = -1 THEN sp ELSE KV!Cells!seq_pos_inc(sp, S, p)
  <2>1. KV!Cells!seq_pos_inc(sp, S, p) = KvIndex(pos2, seq2)
    <3>1. pos2[i] = p /\ (\A j \in I \ {i} : pos2[j] = pos[j]) /\ DOMAIN pos2 = I
      BY <1>1 DEF KvAt, KvData
    <3>2. seq2[i] = S /\ (\A j \in I \ {i} : seq2[j] = seq[j]) /\ DOMAIN seq2 = I
      BY <1>2 DEF KvAt, KvData
    <3> QED BY <1>8, <3>1, <3>2, KvIndexMove
  <2>2. p = -1 => KV!Cells!seq_pos_inc(sp, S, p) = sp
    BY <1>8 DEF KV!Cells!seq_pos_inc, KV!Cells!seq_pos_dec
  <2> QED BY <2>1, <2>2
<1>10. PICK u2 : u2 = IF p = -1 THEN used \ {i} ELSE used \cup {i}
  OBVIOUS
<1>11. u2 = {j \in DOMAIN pos2 : pos2[j] # -1}
  BY <1>1, <1>4, <1>10 DEF KvAt, KvData
<1>12. PICK d : d = KV!Cells!SetCell(c, i, [pos |-> p, seq |-> S])
  OBVIOUS
<1>13. d = [c EXCEPT !.pos[i] = p, !.seq[i] = S, !.used = u2, !.seq_pos = KvIndex(pos2, seq2)]
  <2>1. c.used = used
    BY <1>6 DEF KvFields
  <2> QED BY <1>7, <1>9, <1>10, <1>12, <2>1 DEF KV!Cells!SetCell
<1>14. d \in KvFields(pos2, shift, seq2, u2, KvIndex(pos2, seq2), hs)
  BY <1>1, <1>2, <1>6, <1>13 DEF KvFields, KvAt, KvData
<1>15. d = CellsFor(pos2, shift, seq2, hs)
  BY <1>11, <1>14, KvFieldsCells
<1> QED BY <1>1, <1>2, <1>5, <1>12, <1>15

\* a token of apply_ubatch on cells that agree
LEMMA KvCache_Put ==
    ASSUME NEW I, NEW pos, NEW shift, NEW seq, NEW hs, KvData(I, pos, shift, seq, hs),
           NEW i \in I, pos[i] = -1 => seq[i] = {} /\ shift[i] = 0,
           NEW tok \in [seqs : SUBSET SeqIds, pos : Nat]
    PROVE  KV!Put(CellsFor(pos, shift, seq, hs), i, tok)
             = CellsFor(KvAt(pos, i, tok.pos), KvAt(shift, i, 0),
                        KvAt(seq, i, tok.seqs), hs)
<1>1. PICK pos1 : pos1 = IF pos[i] = -1 THEN pos ELSE KvAt(pos, i, -1)
  OBVIOUS
<1>2. PICK shift1 : shift1 = KvAt(shift, i, 0)
  OBVIOUS
<1>3. PICK seq1 : seq1 = KvAt(seq, i, {})
  OBVIOUS
<1>4. PICK c : c = CellsFor(pos, shift, seq, hs)
  OBVIOUS
<1>5. c.pos = pos
  BY <1>4 DEF CellsFor
<1>6. PICK d : d = IF KV!Cells!is_empty(c, i) THEN c ELSE KV!Cells!rm(c, i)
  OBVIOUS
<1>7. d = CellsFor(pos1, shift1, seq1, hs)
  <2>1. CASE pos[i] = -1
    <3>1. shift1 = shift /\ seq1 = seq /\ pos1 = pos
      BY <1>1, <1>2, <1>3, <2>1 DEF KvAt, KvData
    <3> QED BY <1>4, <1>5, <1>6, <2>1, <3>1 DEF KV!Cells!is_empty
  <2>2. CASE pos[i] # -1
    <3>1. KV!Cells!rm(c, i)
            = CellsFor(KvAt(pos, i, -1), KvAt(shift, i, 0), KvAt(seq, i, {}), hs)
      BY <1>4, KvCells_rm
    <3>2. pos1 = KvAt(pos, i, -1)
      BY <1>1, <2>2
    <3> QED BY <1>2, <1>3, <1>5, <1>6, <2>2, <3>1, <3>2 DEF KV!Cells!is_empty
  <2> QED BY <2>1, <2>2
<1>8. KvData(I, pos1, shift1, seq1, hs) /\ seq1[i] = {}
  BY <1>1, <1>2, <1>3 DEF KvAt, KvData
<1>9. PICK p : p = tok.pos
  OBVIOUS
<1>10. PICK S : S = tok.seqs
  OBVIOUS
<1>11. p \in Int /\ p # -1 /\ S \in SUBSET SeqIds /\ S \cap seq1[i] = {}
  BY <1>8, <1>9, <1>10
<1>12. PICK pos2 : pos2 = KvAt(pos1, i, p)
  OBVIOUS
<1>13. KV!Cells!pos_set(d, i, p) = CellsFor(pos2, shift1, seq1, hs)
  <2>1. KV!Cells!pos_set(d, i, p) = CellsFor(KvAt(pos1, i, p), shift1, seq1, hs)
    BY <1>7, <1>8, <1>11, KvCells_pos_set
  <2> QED BY <1>12, <2>1
<1>14. KvData(I, pos2, shift1, seq1, hs)
  BY <1>8, <1>11, <1>12 DEF KvAt, KvData
<1>15. KV!Cells!seq_add(CellsFor(pos2, shift1, seq1, hs), i, S)
         = CellsFor(pos2, shift1, KvAt(seq1, i, seq1[i] \cup S), hs)
  BY <1>11, <1>14, KvCells_seq_add
<1>16. KvAt(seq1, i, seq1[i] \cup S) = KvAt(seq, i, S) /\ pos2 = KvAt(pos, i, p)
  BY <1>1, <1>3, <1>8, <1>12 DEF KvAt, KvData
<1> QED BY <1>2, <1>4, <1>6, <1>9, <1>10, <1>13, <1>15, <1>16 DEF KV!Put

KvShifts(sh, hs) == IF sh = 0 THEN hs ELSE KvYes

\* a cell that seq_cp copies into another stream
LEMMA KvCache_CopiedCell ==
    ASSUME NEW I, NEW pos, NEW shift, NEW seq, NEW hs, KvData(I, pos, shift, seq, hs),
           NEW i \in I, pos[i] = -1, seq[i] = {}, shift[i] = 0,
           NEW dst \in SeqIds, NEW src, src.pos[i] \in Nat, src.shift[i] \in Int
    PROVE  KV!CopiedCell(src, CellsFor(pos, shift, seq, hs), i, dst)
             = CellsFor(KvAt(pos, i, src.pos[i]), KvAt(shift, i, src.shift[i]),
                        KvAt(seq, i, {dst}), KvShifts(src.shift[i], hs))
<1>1. PICK p, sh, q : p = src.pos[i] /\ sh = src.shift[i] /\ q = p - sh
  OBVIOUS
<1>2. p \in Nat /\ sh \in Int /\ q \in Int /\ q + sh = p
  BY <1>1
<1>3. PICK pos1 : pos1 = KvAt(pos, i, q)
  OBVIOUS
<1>4. PICK seq1 : seq1 = KvAt(seq, i, {dst})
  OBVIOUS
<1>5. PICK c : c = CellsFor(pos, shift, seq, hs)
  OBVIOUS
<1>6. PICK used : used = {j \in I : pos[j] # -1}
  OBVIOUS
<1>7. c \in KvFields(pos, shift, seq, used, KvIndex(pos, seq), hs)
  BY <1>5, <1>6, KvCellsFields DEF KvAt, KvData
<1>8. PICK u1 : u1 = used \cup {i}
  OBVIOUS
<1>9. PICK d : d = KV!Cells!seq_add(KV!Cells!pos_set(c, i, q), i, {dst})
  OBVIOUS
<1>10. KvData(I, pos1, shift, seq1, hs)
  BY <1>2, <1>3, <1>4 DEF KvAt, KvData
<1>11. d \in KvFields(pos1, shift, seq1, u1, KvIndex(pos1, seq1), hs)
  <2>1. PICK e : e = KV!Cells!pos_set(c, i, q)
    OBVIOUS
  <2>2. e \in KvFields(pos1, shift, seq, u1, KvIndex(pos, seq), hs)
    BY <1>3, <1>7, <1>8, <2>1 DEF KV!Cells!pos_set, KvFields, KvAt, KvData
  <2>3. PICK S : S = {dst}
    OBVIOUS
  <2>4. KvIndex(pos1, seq) = KvIndex(pos, seq)
    <3>1. DOMAIN pos1 = DOMAIN pos /\ \A j \in DOMAIN pos : seq[j] # {} => pos1[j] = pos[j]
      BY <1>3 DEF KvAt, KvData
    <3> QED BY <3>1, KvIndexSame
  <2>5. KV!Cells!seq_pos_inc(KvIndex(pos1, seq), S, pos1[i]) = KvIndex(pos1, seq1)
    <3>1. DOMAIN pos1 = I
      BY <1>3 DEF KvAt, KvData
    <3>2. KvEntered(I, seq, i, S, seq1)
      BY <1>4, <2>3 DEF KvAt, KvData, KvEntered
    <3> QED BY <3>1, <3>2, KvIndexInc
  <2>6. e.pos = pos1 /\ KvAt(seq, i, seq[i] \cup S) = seq1
    BY <1>4, <2>2, <2>3 DEF KvFields, KvAt, KvData
  <2>7. d = [e EXCEPT !.seq[i] = @ \cup S, !.seq_pos = KV!Cells!seq_pos_inc(@, S, pos1[i])]
    BY <1>9, <2>1, <2>3, <2>6 DEF KV!Cells!seq_add
  <2> QED BY <2>2, <2>4, <2>5, <2>6, <2>7 DEF KvFields, KvAt
<1>12. CASE sh = 0
  <2>1. u1 = {j \in DOMAIN pos1 : pos1[j] # -1}
    BY <1>2, <1>3, <1>6, <1>8, <1>12 DEF KvAt, KvData
  <2>2. d = CellsFor(pos1, shift, seq1, hs)
    BY <1>11, <2>1, KvFieldsCells
  <2>3. pos1 = KvAt(pos, i, p) /\ shift = KvAt(shift, i, sh)
    BY <1>2, <1>3, <1>12 DEF KvAt, KvData
  <2> QED BY <1>1, <1>4, <1>5, <1>9, <1>12, <2>2, <2>3 DEF KV!CopiedCell, KvShifts
<1>13. CASE sh # 0
  <2>1. KvMoved(pos1, shift, i, sh, p, sh)
    BY <1>2, <1>3 DEF KvAt, KvData, KvMoved
  <2>2. KvUsedBut(I, pos1, i, u1) /\ i \in u1
    BY <1>3, <1>6, <1>8 DEF KvAt, KvData, KvUsedBut
  <2>3. KV!Cells!pos_add(d, i, sh) = CellsFor(KvAt(pos1, i, p), KvAt(shift, i, sh), seq1, KvYes)
    <3>1. d = KvRecord(pos1, shift, seq1, u1, KvIndex(pos1, seq1), hs)
      BY <1>11, KvFieldsRecord
    <3>2. KV!Cells!pos_add(d, i, sh) = KvSlid(pos1, shift, seq1, i, p, sh)
      BY <1>10, <2>1, <2>2, <3>1, KvCells_pos_add
    <3> QED BY <1>2, <3>2 DEF KvSlid
  <2>4. KvAt(pos1, i, p) = KvAt(pos, i, p)
    BY <1>3 DEF KvAt, KvData
  <2>5. KV!CopiedCell(src, c, i, dst) = KV!Cells!pos_add(d, i, sh)
    BY <1>1, <1>9, <1>13 DEF KV!CopiedCell
  <2> QED BY <1>1, <1>4, <1>5, <1>13, <2>3, <2>4, <2>5 DEF KvShifts
<1> QED BY <1>12, <1>13

\* llama_kv_cells::resize makes cells that agree
LEMMA KvCells_resize ==
    ASSUME NEW n \in Nat
    PROVE  /\ KvData(0 .. n-1, [i \in 0 .. n-1 |-> -1], [i \in 0 .. n-1 |-> 0], [i \in 0 .. n-1 |-> {}], FALSE)
           /\ KV!Cells!resize(n) = CellsFor([i \in 0 .. n-1 |-> -1], [i \in 0 .. n-1 |-> 0],
                                           [i \in 0 .. n-1 |-> {}], FALSE)
<1>1. IsFiniteSet(0 .. n-1)
  BY FS_Interval
<1>2. PICK pos, shift, seq : /\ pos = [i \in 0 .. n-1 |-> -1] /\ shift = [i \in 0 .. n-1 |-> 0]
                             /\ seq = [i \in 0 .. n-1 |-> {}]
  OBVIOUS
<1>3. KvIndex(pos, seq) = [s \in SeqIds |-> KV!Cells!NoCells]
  <2>1. \A s : {i \in DOMAIN pos : s \in seq[i]} = {}
    BY <1>2
  <2>2. Tally(pos, {}) = KV!Cells!NoCells
    BY DEF Tally, KV!Cells!NoCells
  <2> QED BY <2>1, <2>2 DEF KvIndex
<1>4. {i \in DOMAIN pos : pos[i] # -1} = {}
  BY <1>2
<1>5. KvData(0 .. n-1, pos, shift, seq, FALSE)
  BY <1>1, <1>2 DEF KvAt, KvData
<1>6. KV!Cells!resize(n) = CellsFor(pos, shift, seq, FALSE)
  BY <1>2, <1>3, <1>4 DEF KV!Cells!resize, CellsFor
<1> QED BY <1>2, <1>5, <1>6

\* llama_kv_cells::reset_shift on cells that agree
LEMMA KvCells_reset_shift ==
    ASSUME NEW I, NEW pos, NEW shift, NEW seq, NEW hs, KvData(I, pos, shift, seq, hs)
    PROVE  KV!Cells!reset_shift(CellsFor(pos, shift, seq, hs)) = CellsFor(pos, KvZero(I), seq, KvNo)
<1>1. PICK used : used = {j \in I : pos[j] # -1}
  OBVIOUS
<1>2. PICK c : c = CellsFor(pos, shift, seq, hs)
  OBVIOUS
<1>3. c \in KvFields(pos, shift, seq, used, KvIndex(pos, seq), hs)
  BY <1>1, <1>2, KvCellsFields DEF KvAt, KvData
<1>4. used = {j \in DOMAIN pos : pos[j] # -1}
  BY <1>1 DEF KvAt, KvData
<1>5. PICK shift2, no : shift2 = [i \in I |-> 0] /\ no = FALSE /\ shift2 = KvZero(I) /\ no = KvNo
  BY DEF KvZero, KvNo
<1>6. KV!Cells!reset_shift(c) \in KvFields(pos, shift2, seq, used, KvIndex(pos, seq), no)
  BY <1>3, <1>5 DEF KV!Cells!reset_shift, KvFields, KvAt, KvData
<1>7. KV!Cells!reset_shift(c) = CellsFor(pos, shift2, seq, no)
  BY <1>4, <1>6, KvFieldsCells
<1> QED BY <1>2, <1>5, <1>7


-----------------------------------------------------------------------------
(***************************************************************************)
(* Loops over cells.  The function old, with the values of new on T.       *)
(***************************************************************************)
KvMix(T, new, old) == [i \in DOMAIN old |-> IF i \in T THEN new[i] ELSE old[i]]

\* one more value of new
LEMMA KvMixAt ==
    ASSUME NEW T, NEW x \in T, NEW new, NEW old, x \in DOMAIN old
    PROVE  KvAt(KvMix(T \ {x}, new, old), x, new[x]) = KvMix(T, new, old)
BY DEF KvMix, KvAt

\* no value of new
LEMMA KvMixNone ==
    ASSUME NEW new, NEW old, NEW D, NEW R, old \in [D -> R]
    PROVE  KvMix({}, new, old) = old
BY DEF KvMix

\* a mix of functions over the cells is one
LEMMA KvMixData ==
    ASSUME NEW I, NEW pos, NEW shift, NEW seq, NEW hs, KvData(I, pos, shift, seq, hs),
           NEW pos2, NEW shift2, NEW seq2, NEW hs2, KvData(I, pos2, shift2, seq2, hs2), NEW T, NEW hs3 \in BOOLEAN
    PROVE  KvData(I, KvMix(T, pos2, pos), KvMix(T, shift2, shift), KvMix(T, seq2, seq), hs3)
BY DEF KvMix, KvData

\* the cells after the loop has changed the cells T
KvLoop(T, pos2, shift2, seq2, pos, shift, seq, hs) ==
    CellsFor(KvMix(T, pos2, pos), KvMix(T, shift2, shift), KvMix(T, seq2, seq), hs)

\* has_shift, after the positions of the cells T were changed
KvShifted(T, hs) == IF T = {} THEN hs ELSE KvYes

\* whether cells are shifted is true or false
LEMMA KvShiftedType ==
    ASSUME NEW hs \in BOOLEAN
    PROVE  \A T : KvShifted(T, hs) \in BOOLEAN
BY DEF KvShifted, KvYes

KvInAll(S, s, seq) == s # -1 => \A i \in S : s \in seq[i]

KvInNone(S, s, seq) == \A i \in S : s \notin seq[i]

KvPlaced(S, pos) == \A i \in S : pos[i] \in Nat

\* what the loops make of each cell
KvShareTo(I, dst, seq, seq2) ==
    /\ seq2 = [i \in I |-> seq[i] \cup {dst}]

\* the loop of seq_cp within a stream, cell by cell
LEMMA KvLoop_seq_add ==
    ASSUME NEW I, NEW pos, NEW shift, NEW seq, NEW hs, KvData(I, pos, shift, seq, hs),
           NEW S \in SUBSET I, NEW dst \in SeqIds, KvInNone(S, dst, seq),
           NEW seq2, KvShareTo(I, dst, seq, seq2)
    PROVE  KV!LoopShare(CellsFor(pos, shift, seq, hs), S, dst)
             = CellsFor(pos, shift, KvMix(S, seq2, seq), hs)
<1> USE DEF KvShareTo, KvInNone
<1>1. PICK V : V = [T \in SUBSET S |-> CellsFor(pos, shift, KvMix(T, seq2, seq), hs)]
  OBVIOUS
<1>2. PICK c : c = CellsFor(pos, shift, seq, hs)
  OBVIOUS
<1>3. V[{}] = c
  BY <1>1, <1>2, KvMixNone DEF KvData
<1>4. ASSUME NEW T \in SUBSET S, NEW x \in T
      PROVE  V[T] = KV!Cells!seq_add(V[T \ {x}], x, {dst})
  <2>1. PICK Q : Q = KvMix(T \ {x}, seq2, seq)
    OBVIOUS
  <2>2. x \in I /\ DOMAIN seq = I /\ seq2[x] = seq[x] \cup {dst} /\ Q[x] = seq[x]
    BY <2>1 DEF KvData, KvMix
  <2>3. KvAt(Q, x, seq2[x]) = KvMix(T, seq2, seq)
    BY <2>1, <2>2, KvMixAt
  <2>4. KvData(I, pos, shift, Q, hs)
    BY <2>1 DEF KvData, KvMix
  <2>5. PICK D : D = {dst}
    OBVIOUS
  <2>6. KV!Cells!seq_add(CellsFor(pos, shift, Q, hs), x, D)
          = CellsFor(pos, shift, KvAt(Q, x, Q[x] \cup D), hs)
    <3>1. D \cap Q[x] = {}
      BY <2>2, <2>5
    <3> QED BY <2>2, <2>4, <3>1, KvCells_seq_add
  <2> QED BY <1>1, <2>1, <2>2, <2>3, <2>5, <2>6
<1> DEFINE Eq(g) == [T \in SUBSET S |->
             IF T = {} THEN c
             ELSE KV!Cells!seq_add(g[T \ {CHOOSE x \in T : TRUE}], CHOOSE x \in T : TRUE, {dst})]
<1>5. V = Eq(V)
  <2>1. \A T \in SUBSET S : T # {} => (CHOOSE x \in T : TRUE) \in T
    OBVIOUS
  <2>2. DOMAIN V = SUBSET S /\ V = [T \in DOMAIN V |-> V[T]]
    BY <1>1
  <2> QED BY <1>3, <1>4, <2>1, <2>2
<1>6. PICK f : f = CHOOSE g : g = Eq(g)
  OBVIOUS
<1>7. f = Eq(f)
  <2> HIDE DEF Eq
  <2> QED BY <1>5, <1>6, Zenon
<1>8. f[S] = V[S]
  <2>1. IsFiniteSet(S)
    BY FS_Subset DEF KvData
  <2>2. ASSUME NEW T \in SUBSET S, T # {}
        PROVE  \E x \in T : f[T \ {x}] = V[T \ {x}] => f[T] = V[T]
    <3>1. PICK x : x = CHOOSE y \in T : TRUE
      OBVIOUS
    <3>2. x \in T
      BY <2>2, <3>1
    <3>3. f[T] = KV!Cells!seq_add(f[T \ {x}], x, {dst})
      BY <1>7, <2>2, <3>1
    <3> QED BY <1>4, <3>2, <3>3
  <2>3. f[{}] = V[{}]
    BY <1>3, <1>7
  <2> QED BY <2>1, <2>2, <2>3, KvFoldUnique
<1>9. KV!LoopShare(c, S, dst) = f[S]
  BY <1>6, Zenon DEF KV!LoopShare, KV!FoldSet, KV!MapThenFoldSet
<1> QED BY <1>1, <1>2, <1>8, <1>9

KvRmTo(I, s, pos, shift, seq, pos2, shift2, seq2) ==
    /\ pos2 = [i \in I |-> IF s = -1 \/ seq[i] = {s} THEN -1 ELSE pos[i]]
    /\ shift2 = [i \in I |-> IF s = -1 \/ seq[i] = {s} THEN 0 ELSE shift[i]]
    /\ seq2 = [i \in I |-> IF s = -1 THEN {} ELSE seq[i] \ {s}]

\* the loop of seq_rm, cell by cell
LEMMA KvLoop_seq_rm ==
    ASSUME NEW I, NEW pos, NEW shift, NEW seq, NEW hs, KvData(I, pos, shift, seq, hs),
           NEW S \in SUBSET I, NEW s, KvInAll(S, s, seq),
           NEW pos2, NEW shift2, NEW seq2, KvRmTo(I, s, pos, shift, seq, pos2, shift2, seq2)
    PROVE  KV!LoopRm(CellsFor(pos, shift, seq, hs), S, s)
             = KvLoop(S, pos2, shift2, seq2, pos, shift, seq, hs)
<1> USE DEF KvRmTo, KvInAll
<1>1. PICK V : V = [T \in SUBSET S |-> KvLoop(T, pos2, shift2, seq2, pos, shift, seq, hs)]
  OBVIOUS
<1>2. PICK c : c = CellsFor(pos, shift, seq, hs)
  OBVIOUS
<1>3. V[{}] = c
  <2>1. V[{}] = KvLoop({}, pos2, shift2, seq2, pos, shift, seq, hs)
    BY <1>1
  <2> QED BY <1>2, <2>1, KvMixNone DEF KvLoop, KvData
<1>4. ASSUME NEW T \in SUBSET S, NEW x \in T
      PROVE  V[T] = IF s = -1 THEN KV!Cells!rm(V[T \ {x}], x) ELSE KV!Cells!seq_rm(V[T \ {x}], x, s)
  <2>1. PICK P, Sh, Q : /\ P = KvMix(T \ {x}, pos2, pos) /\ Sh = KvMix(T \ {x}, shift2, shift)
                        /\ Q = KvMix(T \ {x}, seq2, seq)
    OBVIOUS
  <2>2. /\ V[T \ {x}] = CellsFor(P, Sh, Q, hs)
        /\ V[T] = CellsFor(KvMix(T, pos2, pos), KvMix(T, shift2, shift), KvMix(T, seq2, seq), hs)
    BY <1>1, <2>1 DEF KvLoop
  <2>3. /\ DOMAIN pos = I /\ DOMAIN shift = I /\ DOMAIN seq = I /\ hs \in BOOLEAN /\ x \in I
    BY DEF KvData
  <2>4. /\ P[x] = pos[x] /\ KvAt(P, x, pos2[x]) = KvMix(T, pos2, pos)
        /\ Sh[x] = shift[x] /\ KvAt(Sh, x, shift2[x]) = KvMix(T, shift2, shift)
        /\ Q[x] = seq[x] /\ KvAt(Q, x, seq2[x]) = KvMix(T, seq2, seq)
    <3>1. P[x] = pos[x] /\ Sh[x] = shift[x] /\ Q[x] = seq[x]
      BY <2>1, <2>3 DEF KvMix
    <3>2. \A new, old : x \in DOMAIN old =>
             KvAt(KvMix(T \ {x}, new, old), x, new[x]) = KvMix(T, new, old)
      BY KvMixAt
    <3> QED BY <2>1, <2>3, <3>1, <3>2
  <2>5. KvData(I, P, Sh, Q, hs)
    <3>1. KvData(I, pos2, shift2, seq2, hs)
      BY DEF KvData
    <3> QED BY <2>1, <2>3, <3>1, KvMixData
  <2>6. CASE s = -1
    <3>1. pos2[x] = -1 /\ shift2[x] = 0 /\ seq2[x] = {}
      BY <2>3, <2>6
    <3>2. KV!Cells!rm(CellsFor(P, Sh, Q, hs), x)
            = CellsFor(KvAt(P, x, -1), KvAt(Sh, x, 0), KvAt(Q, x, {}), hs)
      BY <2>3, <2>5, KvCells_rm
    <3> QED BY <2>2, <2>4, <2>6, <3>1, <3>2
  <2>7. CASE s # -1 
    <3>1. KV!Cells!seq_rm(CellsFor(P, Sh, Q, hs), x, s) = KvLeaves(P, Sh, Q, hs, x, s)
      <4>1. s \in Q[x]
        BY <2>4, <2>7
      <4> QED BY <2>3, <2>5, <4>1, KvCells_seq_rm
    <3>2. CASE seq[x] = {s}
      <4>1. pos2[x] = -1 /\ shift2[x] = 0 /\ seq2[x] = {}
        BY <2>3, <2>7, <3>2
      <4> QED BY <2>2, <2>4, <2>7, <3>1, <3>2, <4>1 DEF KvLeaves
    <3>3. CASE seq[x] # {s}
      <4>1. pos2[x] = pos[x] /\ shift2[x] = shift[x] /\ seq2[x] = seq[x] \ {s}
        BY <2>3, <2>7, <3>3
      <4>2. P = KvAt(P, x, P[x]) /\ Sh = KvAt(Sh, x, Sh[x])
        BY <2>3, <2>5 DEF KvAt, KvData
      <4> QED BY <2>2, <2>4, <2>7, <3>1, <3>3, <4>1, <4>2 DEF KvLeaves
    <3> QED BY <3>2, <3>3
  <2> QED BY <2>6, <2>7
<1> DEFINE Eq(g) == [T \in SUBSET S |->
             IF T = {} THEN c
             ELSE IF s = -1 THEN KV!Cells!rm(g[T \ {CHOOSE x \in T : TRUE}], CHOOSE x \in T : TRUE) ELSE KV!Cells!seq_rm(g[T \ {CHOOSE x \in T : TRUE}], CHOOSE x \in T : TRUE, s)]
<1>5. V = Eq(V)
  <2>1. \A T \in SUBSET S : T # {} => (CHOOSE x \in T : TRUE) \in T
    OBVIOUS
  <2>2. DOMAIN V = SUBSET S /\ V = [T \in DOMAIN V |-> V[T]]
    BY <1>1
  <2> QED BY <1>3, <1>4, <2>1, <2>2
<1>6. PICK f : f = CHOOSE g : g = Eq(g)
  OBVIOUS
<1>7. f = Eq(f)
  <2> HIDE DEF Eq
  <2> QED BY <1>5, <1>6, Zenon
<1>8. f[S] = V[S]
  <2>1. IsFiniteSet(S)
    BY FS_Subset DEF KvData
  <2>2. ASSUME NEW T \in SUBSET S, T # {}
        PROVE  \E x \in T : f[T \ {x}] = V[T \ {x}] => f[T] = V[T]
    <3>1. PICK x : x = CHOOSE y \in T : TRUE
      OBVIOUS
    <3>2. x \in T
      BY <2>2, <3>1
    <3>3. f[T] = IF s = -1 THEN KV!Cells!rm(f[T \ {x}], x) ELSE KV!Cells!seq_rm(f[T \ {x}], x, s)
      BY <1>7, <2>2, <3>1
    <3> QED BY <1>4, <3>2, <3>3
  <2>3. f[{}] = V[{}]
    BY <1>3, <1>7
  <2> QED BY <2>1, <2>2, <2>3, KvFoldUnique
<1>9. KV!LoopRm(c, S, s) = f[S]
  BY <1>6, Zenon DEF KV!LoopRm, KV!FoldSet, KV!MapThenFoldSet
<1> QED BY <1>1, <1>2, <1>8, <1>9

KvVacant(I, pos, shift, seq) == \A i \in I : seq[i] = {} => pos[i] = -1 /\ shift[i] = 0

KvKeepTo(I, s, pos, shift, seq, pos2, shift2, seq2) ==
    /\ pos2 = [i \in I |-> IF s \in seq[i] THEN pos[i] ELSE -1]
    /\ shift2 = [i \in I |-> IF s \in seq[i] THEN shift[i] ELSE 0]
    /\ seq2 = [i \in I |-> IF s \in seq[i] THEN {s} ELSE {}]

\* the loop of seq_keep, cell by cell
LEMMA KvLoop_seq_keep ==
    ASSUME NEW I, NEW pos, NEW shift, NEW seq, NEW hs, KvData(I, pos, shift, seq, hs),
           NEW s \in SeqIds, KvVacant(I, pos, shift, seq),
           NEW pos2, NEW shift2, NEW seq2, KvKeepTo(I, s, pos, shift, seq, pos2, shift2, seq2)
    PROVE  KV!LoopKeep(CellsFor(pos, shift, seq, hs), I, s)
             = KvLoop(I, pos2, shift2, seq2, pos, shift, seq, hs)
<1> USE DEF KvKeepTo, KvVacant
<1>1. PICK V : V = [T \in SUBSET I |-> KvLoop(T, pos2, shift2, seq2, pos, shift, seq, hs)]
  OBVIOUS
<1>2. PICK c : c = CellsFor(pos, shift, seq, hs)
  OBVIOUS
<1>3. V[{}] = c
  <2>1. V[{}] = KvLoop({}, pos2, shift2, seq2, pos, shift, seq, hs)
    BY <1>1
  <2> QED BY <1>2, <2>1, KvMixNone DEF KvLoop, KvData
<1>4. ASSUME NEW T \in SUBSET I, NEW x \in T
      PROVE  V[T] = KV!Cells!seq_keep(V[T \ {x}], x, s)
  <2>1. PICK P, Sh, Q : /\ P = KvMix(T \ {x}, pos2, pos) /\ Sh = KvMix(T \ {x}, shift2, shift)
                        /\ Q = KvMix(T \ {x}, seq2, seq)
    OBVIOUS
  <2>2. PICK h0, h1 : h0 = hs /\ h1 = hs
    OBVIOUS
  <2>3. /\ V[T \ {x}] = CellsFor(P, Sh, Q, h0)
        /\ V[T] = CellsFor(KvMix(T, pos2, pos), KvMix(T, shift2, shift), KvMix(T, seq2, seq), h1)
    BY <1>1, <2>1, <2>2 DEF KvLoop
  <2>4. /\ DOMAIN pos = I /\ DOMAIN shift = I /\ DOMAIN seq = I /\ h0 \in BOOLEAN /\ h1 \in BOOLEAN
        /\ x \in I
    <3>1. hs \in BOOLEAN
      BY DEF KvData
    <3> QED BY <2>2, <3>1, KvShiftedType DEF KvData, KvYes
  <2>5. /\ P[x] = pos[x] /\ KvAt(P, x, pos2[x]) = KvMix(T, pos2, pos)
        /\ Sh[x] = shift[x] /\ KvAt(Sh, x, shift2[x]) = KvMix(T, shift2, shift)
        /\ Q[x] = seq[x] /\ KvAt(Q, x, seq2[x]) = KvMix(T, seq2, seq)
    <3>1. P[x] = pos[x] /\ Sh[x] = shift[x] /\ Q[x] = seq[x]
      BY <2>1, <2>4 DEF KvMix
    <3>2. \A new, old : x \in DOMAIN old =>
             KvAt(KvMix(T \ {x}, new, old), x, new[x]) = KvMix(T, new, old)
      BY KvMixAt
    <3> QED BY <2>1, <2>4, <3>1, <3>2
  <2>6. KvData(I, P, Sh, Q, h0)
    <3>1. KvData(I, pos2, shift2, seq2, hs)
      BY DEF KvData
    <3> QED BY <2>1, <2>4, <3>1, KvMixData
  <2>7. PICK c0 : c0 = CellsFor(P, Sh, Q, h0)
    OBVIOUS
  <2>8. c0.seq = Q
    BY <2>7 DEF CellsFor
  <2>9. CASE s \in seq[x]
    <3>1. KV!Cells!seq_keep(CellsFor(P, Sh, Q, h0), x, s) = CellsFor(P, Sh, KvAt(Q, x, {s}), h0)
      <4>1. s \in Q[x]
        BY <2>5, <2>9
      <4> QED BY <2>4, <2>6, <4>1, KvCells_seq_keep
    <3>2. P = KvAt(P, x, P[x]) /\ Sh = KvAt(Sh, x, Sh[x])
      BY <2>4, <2>6 DEF KvAt, KvData
    <3>3. pos2[x] = pos[x] /\ shift2[x] = shift[x] /\ seq2[x] = {s}
      BY <2>4, <2>9
    <3> QED BY <2>2, <2>3, <2>5, <3>1, <3>2, <3>3
  <2>10. CASE s \notin seq[x]
    <3>1. pos2[x] = -1 /\ shift2[x] = 0 /\ seq2[x] = {}
      BY <2>4, <2>10
    <3>2. CASE seq[x] = {}
      <4>1. KV!Cells!seq_keep(c0, x, s) = c0
        BY <2>5, <2>8, <3>2 DEF KV!Cells!seq_keep
      <4>2. P = KvAt(P, x, P[x]) /\ Sh = KvAt(Sh, x, Sh[x]) /\ Q = KvAt(Q, x, Q[x])
        BY <2>4, <2>6 DEF KvAt, KvData
      <4>3. P[x] = pos2[x] /\ Sh[x] = shift2[x] /\ Q[x] = seq2[x]
        BY <2>4, <2>5, <3>1, <3>2
      <4> QED BY <2>2, <2>3, <2>5, <2>7, <4>1, <4>2, <4>3
    <3>3. CASE seq[x] # {}
      <4>1. KV!Cells!seq_keep(c0, x, s) = KV!Cells!rm(c0, x)
        BY <2>5, <2>8, <2>10, <3>3 DEF KV!Cells!seq_keep
      <4>2. KV!Cells!rm(CellsFor(P, Sh, Q, h0), x)
              = CellsFor(KvAt(P, x, -1), KvAt(Sh, x, 0), KvAt(Q, x, {}), h0)
        BY <2>4, <2>6, KvCells_rm
      <4> QED BY <2>2, <2>3, <2>5, <2>7, <3>1, <4>1, <4>2
    <3> QED BY <3>2, <3>3
  <2> QED BY <2>9, <2>10
<1> DEFINE Eq(g) == [T \in SUBSET I |->
             IF T = {} THEN c
             ELSE KV!Cells!seq_keep(g[T \ {CHOOSE x \in T : TRUE}], CHOOSE x \in T : TRUE, s)]
<1>5. V = Eq(V)
  <2>1. \A T \in SUBSET I : T # {} => (CHOOSE x \in T : TRUE) \in T
    OBVIOUS
  <2>2. DOMAIN V = SUBSET I /\ V = [T \in DOMAIN V |-> V[T]]
    BY <1>1
  <2> QED BY <1>3, <1>4, <2>1, <2>2
<1>6. PICK f : f = CHOOSE g : g = Eq(g)
  OBVIOUS
<1>7. f = Eq(f)
  <2> HIDE DEF Eq
  <2> QED BY <1>5, <1>6, Zenon
<1>8. f[I] = V[I]
  <2>1. IsFiniteSet(I)
    BY DEF KvData
  <2>2. ASSUME NEW T \in SUBSET I, T # {}
        PROVE  \E x \in T : f[T \ {x}] = V[T \ {x}] => f[T] = V[T]
    <3>1. PICK x : x = CHOOSE y \in T : TRUE
      OBVIOUS
    <3>2. x \in T
      BY <2>2, <3>1
    <3>3. f[T] = KV!Cells!seq_keep(f[T \ {x}], x, s)
      BY <1>7, <2>2, <3>1
    <3> QED BY <1>4, <3>2, <3>3
  <2>3. f[{}] = V[{}]
    BY <1>3, <1>7
  <2> QED BY <2>1, <2>2, <2>3, KvFoldUnique
<1>9. KV!LoopKeep(c, I, s) = f[I]
  BY <1>6, Zenon DEF KV!LoopKeep, KV!FoldSet, KV!MapThenFoldSet
<1> QED BY <1>1, <1>2, <1>8, <1>9

KvAddTo(I, e, pos, shift, seq, pos2, shift2, seq2) ==
    /\ pos2 = [i \in I |-> IF pos[i] + e >= 0 THEN pos[i] + e ELSE -1]
    /\ shift2 = [i \in I |-> IF pos[i] + e >= 0 THEN shift[i] + e ELSE 0]
    /\ seq2 = [i \in I |-> IF pos[i] + e >= 0 THEN seq[i] ELSE {}]

\* the loop of seq_add, cell by cell
LEMMA KvLoop_pos_add ==
    ASSUME NEW I, NEW pos, NEW shift, NEW seq, NEW hs, KvData(I, pos, shift, seq, hs),
           NEW S \in SUBSET I, NEW e \in Int, KvPlaced(S, pos),
           NEW pos2, NEW shift2, NEW seq2, KvAddTo(I, e, pos, shift, seq, pos2, shift2, seq2)
    PROVE  KV!LoopAdd(CellsFor(pos, shift, seq, hs), S, e)
             = KvLoop(S, pos2, shift2, seq2, pos, shift, seq, KvShifted(S, hs))
<1> USE DEF KvAddTo, KvPlaced
<1>1. PICK V : V = [T \in SUBSET S |-> KvLoop(T, pos2, shift2, seq2, pos, shift, seq, KvShifted(T, hs))]
  OBVIOUS
<1>2. PICK c : c = CellsFor(pos, shift, seq, hs)
  OBVIOUS
<1>3. V[{}] = c
  <2>1. V[{}] = KvLoop({}, pos2, shift2, seq2, pos, shift, seq, hs)
    BY <1>1 DEF KvShifted
  <2> QED BY <1>2, <2>1, KvMixNone DEF KvLoop, KvData
<1>4. ASSUME NEW T \in SUBSET S, NEW x \in T
      PROVE  V[T] = KV!Cells!pos_add(V[T \ {x}], x, e)
  <2>1. PICK P, Sh, Q : /\ P = KvMix(T \ {x}, pos2, pos) /\ Sh = KvMix(T \ {x}, shift2, shift)
                        /\ Q = KvMix(T \ {x}, seq2, seq)
    OBVIOUS
  <2>2. PICK h0, h1 : h0 = KvShifted(T \ {x}, hs) /\ h1 = KvYes
    OBVIOUS
  <2>3. /\ V[T \ {x}] = CellsFor(P, Sh, Q, h0)
        /\ V[T] = CellsFor(KvMix(T, pos2, pos), KvMix(T, shift2, shift), KvMix(T, seq2, seq), h1)
    <3>1. V[T] = KvLoop(T, pos2, shift2, seq2, pos, shift, seq, KvShifted(T, hs))
      BY <1>1
    <3>2. V[T \ {x}] = KvLoop(T \ {x}, pos2, shift2, seq2, pos, shift, seq, h0)
      BY <1>1, <2>2
    <3>3. KvShifted(T, hs) = h1
      BY <2>2 DEF KvShifted
    <3> QED BY <2>1, <3>1, <3>2, <3>3 DEF KvLoop
  <2>4. /\ DOMAIN pos = I /\ DOMAIN shift = I /\ DOMAIN seq = I /\ h0 \in BOOLEAN /\ h1 \in BOOLEAN
        /\ x \in I
    <3>1. hs \in BOOLEAN
      BY DEF KvData
    <3> QED BY <2>2, <3>1, KvShiftedType DEF KvData, KvYes
  <2>5. /\ P[x] = pos[x] /\ KvAt(P, x, pos2[x]) = KvMix(T, pos2, pos)
        /\ Sh[x] = shift[x] /\ KvAt(Sh, x, shift2[x]) = KvMix(T, shift2, shift)
        /\ Q[x] = seq[x] /\ KvAt(Q, x, seq2[x]) = KvMix(T, seq2, seq)
    <3>1. P[x] = pos[x] /\ Sh[x] = shift[x] /\ Q[x] = seq[x]
      BY <2>1, <2>4 DEF KvMix
    <3>2. \A new, old : x \in DOMAIN old =>
             KvAt(KvMix(T \ {x}, new, old), x, new[x]) = KvMix(T, new, old)
      BY KvMixAt
    <3> QED BY <2>1, <2>4, <3>1, <3>2
  <2>6. KvData(I, P, Sh, Q, h0)
    <3>1. KvData(I, pos2, shift2, seq2, hs)
      BY DEF KvData
    <3> QED BY <2>1, <2>4, <3>1, KvMixData
  <2>7. PICK p, sh : p = pos[x] + e /\ sh = shift[x] + e
    OBVIOUS
  <2>8. PICK used : used = {j \in DOMAIN P : P[j] # -1}
    OBVIOUS
  <2>9. CellsFor(P, Sh, Q, h0) = KvRecord(P, Sh, Q, used, KvIndex(P, Q), h0)
    BY <2>8 DEF CellsFor, KvRecord
  <2>10. KvMoved(P, Sh, x, e, p, sh)
    BY <2>5, <2>7 DEF KvMoved
  <2>11. KvUsedBut(I, P, x, used) /\ x \in used
    BY <2>4, <2>5, <2>6, <2>8 DEF KvUsedBut, KvData
  <2>12. KV!Cells!pos_add(KvRecord(P, Sh, Q, used, KvIndex(P, Q), h0), x, e) = KvSlid(P, Sh, Q, x, p, sh)
    BY <2>4, <2>6, <2>10, <2>11, KvCells_pos_add
  <2>13. CASE p \in Nat
    <3>1. pos2[x] = p /\ shift2[x] = sh /\ seq2[x] = seq[x]
      BY <2>4, <2>7, <2>13
    <3>2. Q = KvAt(Q, x, Q[x])
      BY <2>4, <2>6 DEF KvAt, KvData
    <3>3. KvSlid(P, Sh, Q, x, p, sh) = CellsFor(KvAt(P, x, p), KvAt(Sh, x, sh), Q, h1)
      BY <2>2, <2>13 DEF KvSlid
    <3> QED BY <2>3, <2>5, <2>9, <2>12, <3>1, <3>2, <3>3
  <2>14. CASE p \notin Nat
    <3>1. pos2[x] = -1 /\ shift2[x] = 0 /\ seq2[x] = {}
      BY <2>4, <2>7, <2>14
    <3>2. KvSlid(P, Sh, Q, x, p, sh) = CellsFor(KvAt(P, x, -1), KvAt(Sh, x, 0), KvAt(Q, x, {}), h1)
      BY <2>2, <2>14 DEF KvSlid
    <3> QED BY <2>3, <2>5, <2>9, <2>12, <3>1, <3>2
  <2> QED BY <2>13, <2>14
<1> DEFINE Eq(g) == [T \in SUBSET S |->
             IF T = {} THEN c
             ELSE KV!Cells!pos_add(g[T \ {CHOOSE x \in T : TRUE}], CHOOSE x \in T : TRUE, e)]
<1>5. V = Eq(V)
  <2>1. \A T \in SUBSET S : T # {} => (CHOOSE x \in T : TRUE) \in T
    OBVIOUS
  <2>2. DOMAIN V = SUBSET S /\ V = [T \in DOMAIN V |-> V[T]]
    BY <1>1
  <2> QED BY <1>3, <1>4, <2>1, <2>2
<1>6. PICK f : f = CHOOSE g : g = Eq(g)
  OBVIOUS
<1>7. f = Eq(f)
  <2> HIDE DEF Eq
  <2> QED BY <1>5, <1>6, Zenon
<1>8. f[S] = V[S]
  <2>1. IsFiniteSet(S)
    BY FS_Subset DEF KvData
  <2>2. ASSUME NEW T \in SUBSET S, T # {}
        PROVE  \E x \in T : f[T \ {x}] = V[T \ {x}] => f[T] = V[T]
    <3>1. PICK x : x = CHOOSE y \in T : TRUE
      OBVIOUS
    <3>2. x \in T
      BY <2>2, <3>1
    <3>3. f[T] = KV!Cells!pos_add(f[T \ {x}], x, e)
      BY <1>7, <2>2, <3>1
    <3> QED BY <1>4, <3>2, <3>3
  <2>3. f[{}] = V[{}]
    BY <1>3, <1>7
  <2> QED BY <2>1, <2>2, <2>3, KvFoldUnique
<1>9. KV!LoopAdd(c, S, e) = f[S]
  BY <1>6, Zenon DEF KV!LoopAdd, KV!FoldSet, KV!MapThenFoldSet
<1> QED BY <1>1, <1>2, <1>8, <1>9

KvDivTo(I, e, pos, shift, pos2, shift2) ==
    /\ pos2 = [i \in I |-> IF pos[i] >= 0 THEN pos[i] \div e ELSE -1]
    /\ shift2 = [i \in I |-> shift[i] + (pos[i] - pos2[i])]

\* the loop of seq_div, cell by cell
LEMMA KvLoop_pos_div ==
    ASSUME NEW I, NEW pos, NEW shift, NEW seq, NEW hs, KvData(I, pos, shift, seq, hs),
           NEW S \in SUBSET I, NEW e \in Nat \ {0}, KvPlaced(S, pos),
           NEW pos2, NEW shift2, KvDivTo(I, e, pos, shift, pos2, shift2)
    PROVE  KV!LoopDiv(CellsFor(pos, shift, seq, hs), S, e)
             = KvLoop(S, pos2, shift2, seq, pos, shift, seq, KvShifted(S, hs))
<1> USE DEF KvDivTo, KvPlaced
<1>1. PICK V : V = [T \in SUBSET S |-> KvLoop(T, pos2, shift2, seq, pos, shift, seq, KvShifted(T, hs))]
  OBVIOUS
<1>2. PICK c : c = CellsFor(pos, shift, seq, hs)
  OBVIOUS
<1>3. V[{}] = c
  <2>1. V[{}] = KvLoop({}, pos2, shift2, seq, pos, shift, seq, hs)
    BY <1>1 DEF KvShifted
  <2> QED BY <1>2, <2>1, KvMixNone DEF KvLoop, KvData
<1>4. ASSUME NEW T \in SUBSET S, NEW x \in T
      PROVE  V[T] = KV!Cells!pos_div(V[T \ {x}], x, e)
  <2>1. PICK P, Sh, Q : /\ P = KvMix(T \ {x}, pos2, pos) /\ Sh = KvMix(T \ {x}, shift2, shift)
                        /\ Q = KvMix(T \ {x}, seq, seq)
    OBVIOUS
  <2>2. PICK h0, h1 : h0 = KvShifted(T \ {x}, hs) /\ h1 = KvYes
    OBVIOUS
  <2>3. /\ V[T \ {x}] = CellsFor(P, Sh, Q, h0)
        /\ V[T] = CellsFor(KvMix(T, pos2, pos), KvMix(T, shift2, shift), KvMix(T, seq, seq), h1)
    <3>1. V[T] = KvLoop(T, pos2, shift2, seq, pos, shift, seq, KvShifted(T, hs))
      BY <1>1
    <3>2. V[T \ {x}] = KvLoop(T \ {x}, pos2, shift2, seq, pos, shift, seq, h0)
      BY <1>1, <2>2
    <3>3. KvShifted(T, hs) = h1
      BY <2>2 DEF KvShifted
    <3> QED BY <2>1, <3>1, <3>2, <3>3 DEF KvLoop
  <2>4. /\ DOMAIN pos = I /\ DOMAIN shift = I /\ DOMAIN seq = I /\ h0 \in BOOLEAN /\ h1 \in BOOLEAN
        /\ x \in I
    <3>1. hs \in BOOLEAN
      BY DEF KvData
    <3> QED BY <2>2, <3>1, KvShiftedType DEF KvData, KvYes
  <2>5. /\ P[x] = pos[x] /\ KvAt(P, x, pos2[x]) = KvMix(T, pos2, pos)
        /\ Sh[x] = shift[x] /\ KvAt(Sh, x, shift2[x]) = KvMix(T, shift2, shift)
        /\ Q[x] = seq[x] /\ KvAt(Q, x, seq[x]) = KvMix(T, seq, seq)
    <3>1. P[x] = pos[x] /\ Sh[x] = shift[x] /\ Q[x] = seq[x]
      BY <2>1, <2>4 DEF KvMix
    <3>2. \A new, old : x \in DOMAIN old =>
             KvAt(KvMix(T \ {x}, new, old), x, new[x]) = KvMix(T, new, old)
      BY KvMixAt
    <3> QED BY <2>1, <2>4, <3>1, <3>2
  <2>6. KvData(I, P, Sh, Q, h0)
    <3>1. KvData(I, pos2, shift2, seq, hs)
      <4>1. \A i \in I : pos2[i] \in Int
        BY DEF KvData
      <4>2. \A i \in I : shift2[i] \in Int
        BY <4>1 DEF KvData
      <4> QED BY <4>1, <4>2 DEF KvData
    <3> QED BY <2>1, <2>4, <3>1, KvMixData
  <2>7. PICK p, sh : p = pos[x] \div e /\ sh = shift[x] + (pos[x] - p)
    OBVIOUS
  <2>8. pos2[x] = p /\ shift2[x] = sh /\ P[x] \in Nat
    BY <2>4, <2>5, <2>7
  <2>9. KV!Cells!pos_div(CellsFor(P, Sh, Q, h0), x, e) = CellsFor(KvAt(P, x, p), KvAt(Sh, x, sh), Q, KvYes)
    <3>1. KvDivided(P, Sh, x, e, p, sh)
      BY <2>5, <2>7 DEF KvDivided
    <3> QED BY <2>4, <2>6, <2>8, <3>1, KvCells_pos_div
  <2>10. Q = KvAt(Q, x, Q[x])
    BY <2>4, <2>6 DEF KvAt, KvData
  <2> QED BY <2>2, <2>3, <2>5, <2>8, <2>9, <2>10
<1> DEFINE Eq(g) == [T \in SUBSET S |->
             IF T = {} THEN c
             ELSE KV!Cells!pos_div(g[T \ {CHOOSE x \in T : TRUE}], CHOOSE x \in T : TRUE, e)]
<1>5. V = Eq(V)
  <2>1. \A T \in SUBSET S : T # {} => (CHOOSE x \in T : TRUE) \in T
    OBVIOUS
  <2>2. DOMAIN V = SUBSET S /\ V = [T \in DOMAIN V |-> V[T]]
    BY <1>1
  <2> QED BY <1>3, <1>4, <2>1, <2>2
<1>6. PICK f : f = CHOOSE g : g = Eq(g)
  OBVIOUS
<1>7. f = Eq(f)
  <2> HIDE DEF Eq
  <2> QED BY <1>5, <1>6, Zenon
<1>8. f[S] = V[S]
  <2>1. IsFiniteSet(S)
    BY FS_Subset DEF KvData
  <2>2. ASSUME NEW T \in SUBSET S, T # {}
        PROVE  \E x \in T : f[T \ {x}] = V[T \ {x}] => f[T] = V[T]
    <3>1. PICK x : x = CHOOSE y \in T : TRUE
      OBVIOUS
    <3>2. x \in T
      BY <2>2, <3>1
    <3>3. f[T] = KV!Cells!pos_div(f[T \ {x}], x, e)
      BY <1>7, <2>2, <3>1
    <3> QED BY <1>4, <3>2, <3>3
  <2>3. f[{}] = V[{}]
    BY <1>3, <1>7
  <2> QED BY <2>1, <2>2, <2>3, KvFoldUnique
<1>9. KV!LoopDiv(c, S, e) = f[S]
  BY <1>6, Zenon DEF KV!LoopDiv, KV!FoldSet, KV!MapThenFoldSet
<1> QED BY <1>1, <1>2, <1>8, <1>9

\* a blank stream takes over the cells S of another
KvCopying(I, pos, shift, seq, S, src) ==
    /\ S \in SUBSET I
    /\ \A i \in I : pos[i] = -1 /\ seq[i] = {} /\ shift[i] = 0
    /\ \A i \in S : src.pos[i] \in Nat /\ src.shift[i] \in Int

KvCopyTo(I, S, dst, src, pos2, shift2, seq2) ==
    /\ pos2 = [i \in I |-> IF i \in S THEN src.pos[i] ELSE -1]
    /\ shift2 = [i \in I |-> IF i \in S THEN src.shift[i] ELSE 0]
    /\ seq2 = [i \in I |-> {dst}]

\* the cells whose keys wait for a shift
KvWaiting(S, src) == {i \in S : src.shift[i] # 0}

\* the loop of seq_cp between streams, cell by cell
LEMMA KvLoop_copy ==
    ASSUME NEW I, NEW pos, NEW shift, NEW seq, NEW hs, KvData(I, pos, shift, seq, hs),
           NEW S, NEW dst \in SeqIds, NEW src, KvCopying(I, pos, shift, seq, S, src),
           NEW pos2, NEW shift2, NEW seq2, KvCopyTo(I, S, dst, src, pos2, shift2, seq2)
    PROVE  KV!LoopCopy(src, S, CellsFor(pos, shift, seq, hs), dst)
             = KvLoop(S, pos2, shift2, seq2, pos, shift, seq, KvShifted(KvWaiting(S, src), hs))
<1> USE DEF KvWaiting, KvCopyTo
<1>0. S \in SUBSET I
  BY DEF KvCopying
<1>1. PICK V : V = [T \in SUBSET S |-> KvLoop(T, pos2, shift2, seq2, pos, shift, seq, KvShifted({i \in T : src.shift[i] # 0}, hs))]
  OBVIOUS
<1>2. PICK c : c = CellsFor(pos, shift, seq, hs)
  OBVIOUS
<1>3. V[{}] = c
  <2>1. V[{}] = KvLoop({}, pos2, shift2, seq2, pos, shift, seq, hs)
    <3>1. V[{}] = KvLoop({}, pos2, shift2, seq2, pos, shift, seq, KvShifted({i \in {} : src.shift[i] # 0}, hs))
      BY <1>1
    <3>2. KvShifted({i \in {} : src.shift[i] # 0}, hs) = hs
      BY DEF KvShifted
    <3> QED BY <3>1, <3>2
  <2> QED BY <1>2, <2>1, KvMixNone DEF KvLoop, KvData
<1>4. ASSUME NEW T \in SUBSET S, NEW x \in T
      PROVE  V[T] = KV!CopiedCell(src, V[T \ {x}], x, dst)
  <2>1. PICK P, Sh, Q : /\ P = KvMix(T \ {x}, pos2, pos) /\ Sh = KvMix(T \ {x}, shift2, shift)
                        /\ Q = KvMix(T \ {x}, seq2, seq)
    OBVIOUS
  <2>2. PICK h0, h1 : h0 = KvShifted({i \in T \ {x} : src.shift[i] # 0}, hs) /\ h1 = KvShifted({i \in T : src.shift[i] # 0}, hs)
    OBVIOUS
  <2>3. /\ V[T \ {x}] = CellsFor(P, Sh, Q, h0)
        /\ V[T] = CellsFor(KvMix(T, pos2, pos), KvMix(T, shift2, shift), KvMix(T, seq2, seq), h1)
    BY <1>1, <2>1, <2>2 DEF KvLoop
  <2>4. /\ DOMAIN pos = I /\ DOMAIN shift = I /\ DOMAIN seq = I /\ h0 \in BOOLEAN /\ h1 \in BOOLEAN
        /\ x \in I
    <3>1. hs \in BOOLEAN
      BY DEF KvData
    <3> QED BY <1>0, <2>2, <3>1, KvShiftedType DEF KvData, KvYes
  <2>5. /\ P[x] = pos[x] /\ KvAt(P, x, pos2[x]) = KvMix(T, pos2, pos)
        /\ Sh[x] = shift[x] /\ KvAt(Sh, x, shift2[x]) = KvMix(T, shift2, shift)
        /\ Q[x] = seq[x] /\ KvAt(Q, x, seq2[x]) = KvMix(T, seq2, seq)
    <3>1. P[x] = pos[x] /\ Sh[x] = shift[x] /\ Q[x] = seq[x]
      BY <2>1, <2>4 DEF KvMix
    <3>2. \A new, old : x \in DOMAIN old =>
             KvAt(KvMix(T \ {x}, new, old), x, new[x]) = KvMix(T, new, old)
      BY KvMixAt
    <3> QED BY <2>1, <2>4, <3>1, <3>2
  <2>6. KvData(I, P, Sh, Q, h0)
    <3>1. KvData(I, pos2, shift2, seq2, hs)
      <4>1. \A i \in I : pos2[i] \in Int /\ shift2[i] \in Int /\ seq2[i] \in SUBSET SeqIds
        BY DEF KvCopying
      <4> QED BY <4>1 DEF KvData
    <3> QED BY <2>1, <2>4, <3>1, KvMixData
  <2>7. KV!CopiedCell(src, CellsFor(P, Sh, Q, h0), x, dst)
          = CellsFor(KvAt(P, x, src.pos[x]), KvAt(Sh, x, src.shift[x]), KvAt(Q, x, {dst}),
                     KvShifts(src.shift[x], h0))
    <3>1. P[x] = -1 /\ Q[x] = {} /\ Sh[x] = 0 /\ src.pos[x] \in Nat /\ src.shift[x] \in Int
      BY <2>4, <2>5 DEF KvCopying
    <3> QED BY <2>4, <2>6, <3>1, KvCache_CopiedCell
  <2>8. KvShifts(src.shift[x], h0) = h1
    <3>1. CASE src.shift[x] = 0
      <4>1. {i \in T \ {x} : src.shift[i] # 0} = {i \in T : src.shift[i] # 0}
        BY <3>1
      <4>2. h0 = h1
        BY <2>2, <4>1
      <4> QED BY <3>1, <4>2 DEF KvShifts
    <3>2. CASE src.shift[x] # 0
      <4>1. x \in {i \in T : src.shift[i] # 0}
        BY <3>2
      <4>2. h1 = KvYes
        BY <2>2, <4>1 DEF KvShifted
      <4> QED BY <3>2, <4>2 DEF KvShifts
    <3> QED BY <3>1, <3>2
  <2>9. pos2[x] = src.pos[x] /\ shift2[x] = src.shift[x] /\ seq2[x] = {dst}
    BY <2>4
  <2> QED BY <2>3, <2>5, <2>7, <2>8, <2>9
<1> DEFINE Eq(g) == [T \in SUBSET S |->
             IF T = {} THEN c
             ELSE KV!CopiedCell(src, g[T \ {CHOOSE x \in T : TRUE}], CHOOSE x \in T : TRUE, dst)]
<1>5. V = Eq(V)
  <2>1. \A T \in SUBSET S : T # {} => (CHOOSE x \in T : TRUE) \in T
    OBVIOUS
  <2>2. DOMAIN V = SUBSET S /\ V = [T \in DOMAIN V |-> V[T]]
    BY <1>1
  <2> QED BY <1>3, <1>4, <2>1, <2>2
<1>6. PICK f : f = CHOOSE g : g = Eq(g)
  OBVIOUS
<1>7. f = Eq(f)
  <2> HIDE DEF Eq
  <2> QED BY <1>5, <1>6, Zenon
<1>8. f[S] = V[S]
  <2>1. IsFiniteSet(S)
    BY <1>0, FS_Subset DEF KvData
  <2>2. ASSUME NEW T \in SUBSET S, T # {}
        PROVE  \E x \in T : f[T \ {x}] = V[T \ {x}] => f[T] = V[T]
    <3>1. PICK x : x = CHOOSE y \in T : TRUE
      OBVIOUS
    <3>2. x \in T
      BY <2>2, <3>1
    <3>3. f[T] = KV!CopiedCell(src, f[T \ {x}], x, dst)
      BY <1>7, <2>2, <3>1
    <3> QED BY <1>4, <3>2, <3>3
  <2>3. f[{}] = V[{}]
    BY <1>3, <1>7
  <2> QED BY <2>1, <2>2, <2>3, KvFoldUnique
<1>9. KV!LoopCopy(src, S, c, dst) = f[S]
  BY <1>6, Zenon DEF KV!LoopCopy, KV!FoldSet, KV!MapThenFoldSet
<1> QED BY <1>1, <1>2, <1>8, <1>9

\* J numbers different cells of I
KvInto(I, J, idxs) ==
    /\ IsFiniteSet(J)
    /\ \A j \in J : idxs[j] \in I
    /\ \A j, k \in J : idxs[j] = idxs[k] => j = k

\* saved cells, and functions that hold them
KvSaved(I, J, idxs, saved, pos2, seq2) ==
    /\ pos2 \in [I -> Int] /\ seq2 \in [I -> SUBSET SeqIds]
    /\ \A j \in J : /\ saved[j] \in [pos : Int, seq : SUBSET SeqIds]
                    /\ saved[j].pos = -1 => saved[j].seq = {}
                    /\ pos2[idxs[j]] = saved[j].pos /\ seq2[idxs[j]] = saved[j].seq

\* tokens, and functions that hold what they make of their cells
KvTokens(I, J, idxs, toks, pos2, shift2, seq2) ==
    /\ pos2 \in [I -> Int] /\ shift2 \in [I -> Int] /\ seq2 \in [I -> SUBSET SeqIds]
    /\ \A j \in J : /\ toks[j] \in [seqs : SUBSET SeqIds, pos : Nat]
                    /\ pos2[idxs[j]] = toks[j].pos /\ seq2[idxs[j]] = toks[j].seqs
                    /\ shift2[idxs[j]] = 0

\* an empty cell holds nothing
KvEmpties(I, pos, shift, seq) == \A i \in I : pos[i] = -1 => seq[i] = {} /\ shift[i] = 0

\* the loop of llama_kv_cells::set, cell by cell
LEMMA KvLoop_set ==
    ASSUME NEW I, NEW pos, NEW shift, NEW seq, NEW hs, KvData(I, pos, shift, seq, hs),
           NEW idxs, NEW J, KvInto(I, J, idxs),
           NEW saved, DOMAIN idxs = J, KvEmpties(I, pos, shift, seq),
           NEW pos2, NEW seq2, KvSaved(I, J, idxs, saved, pos2, seq2)
    PROVE  KV!Cells!set(CellsFor(pos, shift, seq, hs), idxs, saved)
             = CellsFor(KvMix({idxs[j] : j \in J}, pos2, pos), shift, KvMix({idxs[j] : j \in J}, seq2, seq), hs)
<1>1. PICK V : V = [T \in SUBSET J |-> CellsFor(KvMix({idxs[j] : j \in T}, pos2, pos), shift, KvMix({idxs[j] : j \in T}, seq2, seq), hs)]
  OBVIOUS
<1>2. PICK c : c = CellsFor(pos, shift, seq, hs)
  OBVIOUS
<1>3. V[{}] = c
  <2>1. {idxs[j] : j \in {}} = {}
    OBVIOUS
  <2>2. V[{}] = CellsFor(KvMix({}, pos2, pos), shift, KvMix({}, seq2, seq), hs)
    BY <1>1, <2>1
  <2> QED BY <1>2, <2>2, KvMixNone DEF KvData
<1>4. ASSUME NEW T \in SUBSET J, NEW x \in T
      PROVE  V[T] = KV!Cells!SetCell(V[T \ {x}], idxs[x], saved[x])
  <2>1. PICK ip, im : ip = {idxs[j] : j \in T \ {x}} /\ im = {idxs[j] : j \in T}
    OBVIOUS
  <2>2. PICK P, Q : P = KvMix(ip, pos2, pos) /\ Q = KvMix(ip, seq2, seq)
    OBVIOUS
  <2>3. /\ V[T \ {x}] = CellsFor(P, shift, Q, hs)
        /\ V[T] = CellsFor(KvMix(im, pos2, pos), shift, KvMix(im, seq2, seq), hs)
    BY <1>1, <2>1, <2>2
  <2>4. PICK y : y = idxs[x]
    OBVIOUS
  <2>5. y \in im /\ ip = im \ {y} /\ y \in I /\ DOMAIN pos = I /\ DOMAIN shift = I /\ DOMAIN seq = I
    BY <2>1, <2>4 DEF KvData, KvInto
  <2>6. P[y] = pos[y] /\ Q[y] = seq[y]
    BY <2>2, <2>5 DEF KvMix
  <2>7. /\ KvAt(P, y, pos2[y]) = KvMix(im, pos2, pos)
        /\ KvAt(Q, y, seq2[y]) = KvMix(im, seq2, seq)
    <3>1. \A new, old : y \in DOMAIN old =>
             KvAt(KvMix(im \ {y}, new, old), y, new[y]) = KvMix(im, new, old)
      BY <2>5, KvMixAt
    <3> QED BY <2>2, <2>5, <3>1
  <2>8. KvData(I, P, shift, Q, hs)
    <3>1. \A i \in I : pos2[i] \in Int /\ seq2[i] \in SUBSET SeqIds
      BY DEF KvSaved
    <3> QED BY <2>2, <3>1 DEF KvData, KvMix
  <2>9. PICK p, Z : p = saved[x].pos /\ Z = saved[x].seq
    OBVIOUS
  <2>10. /\ saved[x] = [pos |-> p, seq |-> Z] /\ p \in Int /\ Z \in SUBSET SeqIds /\ (p = -1 => Z = {})
         /\ pos2[y] = p /\ seq2[y] = Z /\ (P[y] = -1 => Q[y] = {})
    BY <2>4, <2>5, <2>6, <2>9 DEF KvSaved, KvEmpties
  <2>11. KV!Cells!SetCell(CellsFor(P, shift, Q, hs), y, [pos |-> p, seq |-> Z])
           = CellsFor(KvAt(P, y, p), shift, KvAt(Q, y, Z), hs)
    BY <2>5, <2>8, <2>10, KvCells_SetCell
  <2> QED BY <2>3, <2>4, <2>7, <2>10, <2>11
<1> DEFINE Eq(g) == [T \in SUBSET J |->
             IF T = {} THEN c
             ELSE KV!Cells!SetCell(g[T \ {CHOOSE x \in T : TRUE}], idxs[CHOOSE x \in T : TRUE], saved[CHOOSE x \in T : TRUE])]
<1>5. V = Eq(V)
  <2>1. \A T \in SUBSET J : T # {} => (CHOOSE x \in T : TRUE) \in T
    OBVIOUS
  <2>2. DOMAIN V = SUBSET J /\ V = [T \in DOMAIN V |-> V[T]]
    BY <1>1
  <2> QED BY <1>3, <1>4, <2>1, <2>2
<1>6. PICK f : f = CHOOSE g : g = Eq(g)
  OBVIOUS
<1>7. f = Eq(f)
  <2> HIDE DEF Eq
  <2> QED BY <1>5, <1>6, Zenon
<1>8. f[J] = V[J]
  <2>1. IsFiniteSet(J)
    BY DEF KvInto
  <2>2. ASSUME NEW T \in SUBSET J, T # {}
        PROVE  \E x \in T : f[T \ {x}] = V[T \ {x}] => f[T] = V[T]
    <3>1. PICK x : x = CHOOSE y \in T : TRUE
      OBVIOUS
    <3>2. x \in T
      BY <2>2, <3>1
    <3>3. f[T] = KV!Cells!SetCell(f[T \ {x}], idxs[x], saved[x])
      BY <1>7, <2>2, <3>1
    <3> QED BY <1>4, <3>2, <3>3
  <2>3. f[{}] = V[{}]
    BY <1>3, <1>7
  <2> QED BY <2>1, <2>2, <2>3, KvFoldUnique
<1>9. KV!Cells!set(c, idxs, saved) = f[J]
  BY <1>6, Zenon DEF KV!Cells!set, KV!Cells!FoldSet, KV!Cells!MapThenFoldSet
<1> QED BY <1>1, <1>2, <1>8, <1>9

\* the loop of apply_ubatch, token by token
LEMMA KvLoop_put ==
    ASSUME NEW I, NEW pos, NEW shift, NEW seq, NEW hs, KvData(I, pos, shift, seq, hs),
           NEW idxs, NEW J, KvInto(I, J, idxs),
           NEW toks, DOMAIN toks = J, KvEmpties(I, pos, shift, seq),
           NEW pos2, NEW shift2, NEW seq2, KvTokens(I, J, idxs, toks, pos2, shift2, seq2)
    PROVE  KV!LoopPut(CellsFor(pos, shift, seq, hs), idxs, toks)
             = KvLoop({idxs[j] : j \in J}, pos2, shift2, seq2, pos, shift, seq, hs)
<1>1. PICK V : V = [T \in SUBSET J |-> KvLoop({idxs[j] : j \in T}, pos2, shift2, seq2, pos, shift, seq, hs)]
  OBVIOUS
<1>2. PICK c : c = CellsFor(pos, shift, seq, hs)
  OBVIOUS
<1>3. V[{}] = c
  <2>1. {idxs[j] : j \in {}} = {}
    OBVIOUS
  <2>2. V[{}] = KvLoop({}, pos2, shift2, seq2, pos, shift, seq, hs)
    BY <1>1, <2>1
  <2> QED BY <1>2, <2>2, KvMixNone DEF KvLoop, KvData
<1>4. ASSUME NEW T \in SUBSET J, NEW x \in T
      PROVE  V[T] = KV!Put(V[T \ {x}], idxs[x], toks[x])
  <2>1. PICK ip, im : ip = {idxs[j] : j \in T \ {x}} /\ im = {idxs[j] : j \in T}
    OBVIOUS
  <2>2. PICK P, Sh, Q : P = KvMix(ip, pos2, pos) /\ Sh = KvMix(ip, shift2, shift) /\ Q = KvMix(ip, seq2, seq)
    OBVIOUS
  <2>3. /\ V[T \ {x}] = CellsFor(P, Sh, Q, hs)
        /\ V[T] = CellsFor(KvMix(im, pos2, pos), KvMix(im, shift2, shift), KvMix(im, seq2, seq), hs)
    BY <1>1, <2>1, <2>2 DEF KvLoop
  <2>4. PICK y : y = idxs[x]
    OBVIOUS
  <2>5. y \in im /\ ip = im \ {y} /\ y \in I /\ DOMAIN pos = I /\ DOMAIN shift = I /\ DOMAIN seq = I
    BY <2>1, <2>4 DEF KvData, KvInto
  <2>6. P[y] = pos[y] /\ Sh[y] = shift[y] /\ Q[y] = seq[y]
    BY <2>2, <2>5 DEF KvMix
  <2>7. /\ KvAt(P, y, pos2[y]) = KvMix(im, pos2, pos)
        /\ KvAt(Sh, y, shift2[y]) = KvMix(im, shift2, shift)
        /\ KvAt(Q, y, seq2[y]) = KvMix(im, seq2, seq)
    <3>1. \A new, old : y \in DOMAIN old =>
             KvAt(KvMix(im \ {y}, new, old), y, new[y]) = KvMix(im, new, old)
      BY <2>5, KvMixAt
    <3> QED BY <2>2, <2>5, <3>1
  <2>8. KvData(I, P, Sh, Q, hs)
    <3>1. \A i \in I : pos2[i] \in Int /\ shift2[i] \in Int /\ seq2[i] \in SUBSET SeqIds
      BY DEF KvTokens
    <3> QED BY <2>2, <3>1 DEF KvData, KvMix
  <2>9. PICK tok : tok = toks[x]
    OBVIOUS
  <2>10. /\ tok \in [seqs : SUBSET SeqIds, pos : Nat] /\ (P[y] = -1 => Q[y] = {} /\ Sh[y] = 0)
         /\ pos2[y] = tok.pos /\ seq2[y] = tok.seqs /\ shift2[y] = 0
    BY <2>4, <2>5, <2>6, <2>9 DEF KvTokens, KvEmpties
  <2>11. KV!Put(CellsFor(P, Sh, Q, hs), y, tok)
           = CellsFor(KvAt(P, y, tok.pos), KvAt(Sh, y, 0), KvAt(Q, y, tok.seqs), hs)
    BY <2>5, <2>8, <2>10, KvCache_Put
  <2> QED BY <2>3, <2>4, <2>7, <2>9, <2>10, <2>11
<1> DEFINE Eq(g) == [T \in SUBSET J |->
             IF T = {} THEN c
             ELSE KV!Put(g[T \ {CHOOSE x \in T : TRUE}], idxs[CHOOSE x \in T : TRUE], toks[CHOOSE x \in T : TRUE])]
<1>5. V = Eq(V)
  <2>1. \A T \in SUBSET J : T # {} => (CHOOSE x \in T : TRUE) \in T
    OBVIOUS
  <2>2. DOMAIN V = SUBSET J /\ V = [T \in DOMAIN V |-> V[T]]
    BY <1>1
  <2> QED BY <1>3, <1>4, <2>1, <2>2
<1>6. PICK f : f = CHOOSE g : g = Eq(g)
  OBVIOUS
<1>7. f = Eq(f)
  <2> HIDE DEF Eq
  <2> QED BY <1>5, <1>6, Zenon
<1>8. f[J] = V[J]
  <2>1. IsFiniteSet(J)
    BY DEF KvInto
  <2>2. ASSUME NEW T \in SUBSET J, T # {}
        PROVE  \E x \in T : f[T \ {x}] = V[T \ {x}] => f[T] = V[T]
    <3>1. PICK x : x = CHOOSE y \in T : TRUE
      OBVIOUS
    <3>2. x \in T
      BY <2>2, <3>1
    <3>3. f[T] = KV!Put(f[T \ {x}], idxs[x], toks[x])
      BY <1>7, <2>2, <3>1
    <3> QED BY <1>4, <3>2, <3>3
  <2>3. f[{}] = V[{}]
    BY <1>3, <1>7
  <2> QED BY <2>1, <2>2, <2>3, KvFoldUnique
<1>9. KV!LoopPut(c, idxs, toks) = f[J]
  BY <1>6, Zenon DEF KV!LoopPut, KV!FoldSet, KV!MapThenFoldSet
<1> QED BY <1>1, <1>2, <1>8, <1>9


-----------------------------------------------------------------------------
(***************************************************************************)
(* Cells in which everything agrees: what a cell holds, and the indices.   *)
(***************************************************************************)
KvCellsHold(I, pos, shift, seq, hs) ==
    /\ KvData(I, pos, shift, seq, hs)
    /\ \A i \in I : /\ pos[i] >= -1
                    /\ pos[i] = -1 <=> seq[i] = {}
                    /\ shift[i] # 0 => pos[i] # -1 /\ hs

KvCellsOK(I, c) ==
    /\ KvCellsHold(I, c.pos, c.shift, c.seq, c.has_shift)
    /\ c = CellsFor(c.pos, c.shift, c.seq, c.has_shift)

\* what is left of the cells I has moved as far as its shift says
KvKept(I, c, d) ==
    \A i \in I : d.pos[i] # -1 =>
        c.pos[i] # -1 /\ d.pos[i] - d.shift[i] = c.pos[i] - c.shift[i]

\* the cells idxs have taken new positions, the others of I are as they were
KvTaken(I, J, idxs, new, c, d) ==
    /\ \A j \in J : d.pos[idxs[j]] = new[j].pos /\ d.shift[idxs[j]] = 0
    /\ \A i \in I : (\A j \in J : idxs[j] # i) =>
          d.pos[i] = c.pos[i] /\ d.shift[i] = c.shift[i]

\* the fields of what CellsFor builds
LEMMA KvCellsForFields ==
    ASSUME NEW pos, NEW shift, NEW seq, NEW hs, NEW c, c = CellsFor(pos, shift, seq, hs)
    PROVE  c.pos = pos /\ c.shift = shift /\ c.seq = seq /\ c.has_shift = hs
BY DEF CellsFor

\* what CellsFor builds of cells that hold what they should, agrees
LEMMA KvCellsForOK ==
    ASSUME NEW I, NEW pos, NEW shift, NEW seq, NEW hs, KvCellsHold(I, pos, shift, seq, hs),
           NEW c, c = CellsFor(pos, shift, seq, hs)
    PROVE  KvCellsOK(I, c)
<1>1. c.pos = pos /\ c.shift = shift /\ c.seq = seq /\ c.has_shift = hs
  BY KvCellsForFields
<1> QED BY <1>1 DEF KvCellsOK

\* cells in which everything agrees are consistent
LEMMA KvCellsOKConsistent ==
    ASSUME NEW I, NEW c, KvCellsOK(I, c)
    PROVE  KV!Cells!Consistent(c)
<1>1. PICK pos, shift, seq, hs : pos = c.pos /\ shift = c.shift /\ seq = c.seq /\ hs = c.has_shift
  OBVIOUS
<1>2. /\ KvData(I, pos, shift, seq, hs) /\ c = CellsFor(pos, shift, seq, hs)
      /\ \A i \in I : pos[i] = -1 <=> seq[i] = {}
      /\ \A i \in I : shift[i] # 0 => pos[i] # -1 /\ c.has_shift
  BY <1>1 DEF KvCellsOK, KvCellsHold
<1>3. DOMAIN pos = I
  BY <1>2 DEF KvData
<1>4. c.used = {i \in DOMAIN pos : pos[i] # -1} /\ c.seq_pos = KvIndex(pos, seq)
  BY <1>2 DEF CellsFor
<1>5. ASSUME NEW s \in SeqIds
      PROVE  c.seq_pos[s] = [p \in {c.pos[i] : i \in {i \in DOMAIN c.pos : s \in c.seq[i]}} |->
                   KV!Cells!Cardinality({i \in {i \in DOMAIN c.pos : s \in c.seq[i]} : c.pos[i] = p})]
  <2>1. PICK H : H = {i \in DOMAIN pos : s \in seq[i]}
    OBVIOUS
  <2>2. c.seq_pos[s] = Tally(pos, H)
    BY <1>4, <2>1 DEF KvIndex
  <2>3. \A p : Cardinality({i \in H : pos[i] = p}) = KV!Cells!Cardinality({i \in H : pos[i] = p})
    BY KvCells_Cardinality
  <2>4. c.seq_pos[s] = [p \in {pos[i] : i \in H} |-> KV!Cells!Cardinality({i \in H : pos[i] = p})]
    BY <2>2, <2>3 DEF Tally
  <2> QED BY <1>1, <2>1, <2>4
<1> QED BY <1>1, <1>2, <1>3, <1>4, <1>5 DEF KV!Cells!Consistent, KV!Cells!is_empty

\* cells agree after the loop of seq_rm
LEMMA KvOK_LoopRm ==
    ASSUME NEW I, NEW c, KvCellsOK(I, c),
           NEW S \in SUBSET I, NEW s, KvInAll(S, s, c.seq)
    PROVE  /\ KvCellsOK(I, KV!LoopRm(c, S, s)) /\ KV!LoopRm(c, S, s).has_shift = c.has_shift
           /\ KvKept(I, c, KV!LoopRm(c, S, s))
<1>1. PICK pos, shift, seq, hs : pos = c.pos /\ shift = c.shift /\ seq = c.seq /\ hs = c.has_shift
  OBVIOUS
<1>2. KvCellsHold(I, pos, shift, seq, hs) /\ c = CellsFor(pos, shift, seq, hs)
  BY <1>1 DEF KvCellsOK
<1>3. KvData(I, pos, shift, seq, hs) /\ DOMAIN pos = I /\ DOMAIN shift = I /\ DOMAIN seq = I
  BY <1>2 DEF KvCellsHold, KvData
<1>4. PICK pos2, shift2, seq2 : KvRmTo(I, s, pos, shift, seq, pos2, shift2, seq2)
  BY DEF KvRmTo
<1>5. KvInAll(S, s, seq)
  BY <1>1, <1>2, <1>3 DEF KvInAll, KvCellsHold
<1>6. PICK d, hs2 : d = KV!LoopRm(c, S, s) /\ hs2 = hs
  OBVIOUS
<1>7. d = KvLoop(S, pos2, shift2, seq2, pos, shift, seq, hs2)
  BY <1>2, <1>3, <1>4, <1>5, <1>6, KvLoop_seq_rm
<1>8. PICK P, Sh, Q : /\ P = KvMix(S, pos2, pos)
                      /\ Sh = KvMix(S, shift2, shift)
                      /\ Q = KvMix(S, seq2, seq)
  OBVIOUS
<1>9. d = CellsFor(P, Sh, Q, hs2)
  BY <1>7, <1>8 DEF KvLoop
<1>10. KvCellsHold(I, P, Sh, Q, hs2) /\ KvKept(I, c, d)
  <2>1. ASSUME NEW i \in I
        PROVE  /\ P[i] = (IF i \in S /\ (s = -1 \/ seq[i] = {s}) THEN -1 ELSE pos[i])
               /\ Sh[i] = (IF i \in S /\ (s = -1 \/ seq[i] = {s}) THEN 0 ELSE shift[i])
               /\ Q[i] = (IF i \in S THEN IF s = -1 THEN {} ELSE seq[i] \ {s} ELSE seq[i])
    BY <1>3, <1>4, <1>8 DEF KvMix, KvRmTo
  <2>2. DOMAIN P = I /\ DOMAIN Sh = I /\ DOMAIN Q = I
    BY <1>3, <1>8 DEF KvMix
  <2>3. hs2 \in BOOLEAN /\ IsFiniteSet(I)
    BY <1>3, <1>6 DEF KvData
  <2>4. ASSUME NEW i \in I
        PROVE  /\ pos[i] \in Int /\ shift[i] \in Int /\ seq[i] \in SUBSET SeqIds
               /\ pos[i] >= -1 /\ (pos[i] = -1 <=> seq[i] = {}) /\ (shift[i] # 0 => pos[i] # -1 /\ hs)
    BY <1>2, <1>3 DEF KvCellsHold, KvData
  <2>5. ASSUME NEW i \in I
        PROVE  /\ P[i] \in Int /\ Sh[i] \in Int /\ Q[i] \in SUBSET SeqIds
               /\ P[i] >= -1 /\ (P[i] = -1 <=> Q[i] = {}) /\ (Sh[i] # 0 => P[i] # -1 /\ hs2)
    <3>1. hs => hs2
      BY <1>6
    <3>2. i \in S /\ s # -1 => s \in seq[i]
      BY <1>5 DEF KvInAll
    <3>3. PICK p, z, q : p = P[i] /\ z = Sh[i] /\ q = Q[i]
      OBVIOUS
    <3>4. CASE i \in S /\ (s = -1 \/ seq[i] = {s})
      <4>1. p = -1 /\ z = 0 /\ q = {}
        BY <2>1, <3>3, <3>4
      <4> QED BY <3>3, <4>1
    <3>5. CASE i \in S /\ s # -1 /\ seq[i] # {s}
      <4>1. p = pos[i] /\ z = shift[i] /\ q = seq[i] \ {s}
        BY <2>1, <3>3, <3>5
      <4>2. q # {} /\ seq[i] # {} /\ q \in SUBSET SeqIds
        BY <2>4, <3>2, <3>5, <4>1
      <4> QED BY <2>4, <3>1, <3>3, <4>1, <4>2
    <3>6. CASE i \notin S
      <4>1. p = pos[i] /\ z = shift[i] /\ q = seq[i]
        BY <2>1, <3>3, <3>6
      <4> QED BY <2>4, <3>1, <3>3, <4>1
    <3> QED BY <3>4, <3>5, <3>6
  <2>6. P = [i \in I |-> P[i]] /\ Sh = [i \in I |-> Sh[i]] /\ Q = [i \in I |-> Q[i]]
    BY <1>3, <1>8 DEF KvMix
  <2>7. KvKept(I, c, d)
    <3>1. d.pos = P /\ d.shift = Sh
      BY <1>9, KvCellsForFields
    <3>2. \A i \in I : P[i] # -1 => pos[i] # -1 /\ P[i] - Sh[i] = pos[i] - shift[i]
      <4>1. \A i \in I : P[i] # -1 => P[i] = pos[i] /\ Sh[i] = shift[i]
        BY <2>1
      <4> QED BY <4>1
    <3> QED BY <1>1, <3>1, <3>2 DEF KvKept
  <2> QED BY <2>3, <2>5, <2>6, <2>7 DEF KvCellsHold, KvData
<1> QED BY <1>1, <1>6, <1>9, <1>10, KvCellsForOK, KvCellsForFields

\* cells agree after the loop of seq_cp within a stream
LEMMA KvOK_LoopShare ==
    ASSUME NEW I, NEW c, KvCellsOK(I, c),
           NEW S \in SUBSET I, NEW s \in SeqIds, KvInNone(S, s, c.seq), KvPlaced(S, c.pos)
    PROVE  /\ KvCellsOK(I, KV!LoopShare(c, S, s)) /\ KV!LoopShare(c, S, s).has_shift = c.has_shift
           /\ KvKept(I, c, KV!LoopShare(c, S, s))
<1>1. PICK pos, shift, seq, hs : pos = c.pos /\ shift = c.shift /\ seq = c.seq /\ hs = c.has_shift
  OBVIOUS
<1>2. KvCellsHold(I, pos, shift, seq, hs) /\ c = CellsFor(pos, shift, seq, hs)
  BY <1>1 DEF KvCellsOK
<1>3. KvData(I, pos, shift, seq, hs) /\ DOMAIN pos = I /\ DOMAIN shift = I /\ DOMAIN seq = I
  BY <1>2 DEF KvCellsHold, KvData
<1>4. PICK seq2 : KvShareTo(I, s, seq, seq2)
  BY DEF KvShareTo
<1>5. KvInNone(S, s, seq) /\ KvPlaced(S, pos)
  BY <1>1, <1>2, <1>3 DEF KvInNone, KvPlaced, KvCellsHold
<1>6. PICK d, hs2 : d = KV!LoopShare(c, S, s) /\ hs2 = hs
  OBVIOUS
<1>7. d = CellsFor(pos, shift, KvMix(S, seq2, seq), hs2)
  BY <1>2, <1>3, <1>4, <1>5, <1>6, KvLoop_seq_add
<1>8. PICK P, Sh, Q : /\ P = pos
                      /\ Sh = shift
                      /\ Q = KvMix(S, seq2, seq)
  OBVIOUS
<1>9. d = CellsFor(P, Sh, Q, hs2)
  BY <1>7, <1>8 DEF KvLoop
<1>10. KvCellsHold(I, P, Sh, Q, hs2) /\ KvKept(I, c, d)
  <2>1. ASSUME NEW i \in I
        PROVE  /\ P[i] = pos[i]
               /\ Sh[i] = shift[i]
               /\ Q[i] = (IF i \in S THEN seq[i] \cup {s} ELSE seq[i])
    BY <1>3, <1>4, <1>8 DEF KvMix, KvShareTo
  <2>2. DOMAIN P = I /\ DOMAIN Sh = I /\ DOMAIN Q = I
    BY <1>3, <1>8 DEF KvMix
  <2>3. hs2 \in BOOLEAN /\ IsFiniteSet(I)
    BY <1>3, <1>6 DEF KvData
  <2>4. ASSUME NEW i \in I
        PROVE  /\ pos[i] \in Int /\ shift[i] \in Int /\ seq[i] \in SUBSET SeqIds
               /\ pos[i] >= -1 /\ (pos[i] = -1 <=> seq[i] = {}) /\ (shift[i] # 0 => pos[i] # -1 /\ hs)
    BY <1>2, <1>3 DEF KvCellsHold, KvData
  <2>5. ASSUME NEW i \in I
        PROVE  /\ P[i] \in Int /\ Sh[i] \in Int /\ Q[i] \in SUBSET SeqIds
               /\ P[i] >= -1 /\ (P[i] = -1 <=> Q[i] = {}) /\ (Sh[i] # 0 => P[i] # -1 /\ hs2)
    <3>1. hs => hs2
      BY <1>6
    <3>2. i \in S => pos[i] \in Nat
      BY <1>5 DEF KvPlaced
    <3>3. PICK p, z, q : p = P[i] /\ z = Sh[i] /\ q = Q[i]
      OBVIOUS
    <3>4. p = pos[i] /\ z = shift[i] /\ (i \notin S => q = seq[i]) /\ (i \in S => q = seq[i] \cup {s})
      BY <2>1, <3>3
    <3> QED BY <2>4, <3>1, <3>2, <3>3, <3>4
  <2>6. P = [i \in I |-> P[i]] /\ Sh = [i \in I |-> Sh[i]] /\ Q = [i \in I |-> Q[i]]
    BY <1>3, <1>8 DEF KvMix, KvData
  <2>7. KvKept(I, c, d)
    <3>1. d.pos = P /\ d.shift = Sh
      BY <1>9, KvCellsForFields
    <3>2. \A i \in I : P[i] # -1 => pos[i] # -1 /\ P[i] - Sh[i] = pos[i] - shift[i]
      <4>1. \A i \in I : P[i] # -1 => P[i] = pos[i] /\ Sh[i] = shift[i]
        BY <2>1
      <4> QED BY <4>1
    <3> QED BY <1>1, <3>1, <3>2 DEF KvKept
  <2> QED BY <2>3, <2>5, <2>6, <2>7 DEF KvCellsHold, KvData
<1> QED BY <1>1, <1>6, <1>9, <1>10, KvCellsForOK, KvCellsForFields

\* cells agree after the loop of seq_keep
LEMMA KvOK_LoopKeep ==
    ASSUME NEW I, NEW c, KvCellsOK(I, c),
           NEW s \in SeqIds
    PROVE  /\ KvCellsOK(I, KV!LoopKeep(c, I, s)) /\ KV!LoopKeep(c, I, s).has_shift = c.has_shift
           /\ KvKept(I, c, KV!LoopKeep(c, I, s))
<1>1. PICK pos, shift, seq, hs : pos = c.pos /\ shift = c.shift /\ seq = c.seq /\ hs = c.has_shift
  OBVIOUS
<1>2. KvCellsHold(I, pos, shift, seq, hs) /\ c = CellsFor(pos, shift, seq, hs)
  BY <1>1 DEF KvCellsOK
<1>3. KvData(I, pos, shift, seq, hs) /\ DOMAIN pos = I /\ DOMAIN shift = I /\ DOMAIN seq = I
  BY <1>2 DEF KvCellsHold, KvData
<1>4. PICK pos2, shift2, seq2 : KvKeepTo(I, s, pos, shift, seq, pos2, shift2, seq2)
  BY DEF KvKeepTo
<1>5. KvVacant(I, pos, shift, seq)
  BY <1>1, <1>2, <1>3 DEF KvVacant, KvCellsHold
<1>6. PICK d, hs2 : d = KV!LoopKeep(c, I, s) /\ hs2 = hs
  OBVIOUS
<1>7. d = KvLoop(I, pos2, shift2, seq2, pos, shift, seq, hs2)
  BY <1>2, <1>3, <1>4, <1>5, <1>6, KvLoop_seq_keep
<1>8. PICK P, Sh, Q : /\ P = KvMix(I, pos2, pos)
                      /\ Sh = KvMix(I, shift2, shift)
                      /\ Q = KvMix(I, seq2, seq)
  OBVIOUS
<1>9. d = CellsFor(P, Sh, Q, hs2)
  BY <1>7, <1>8 DEF KvLoop
<1>10. KvCellsHold(I, P, Sh, Q, hs2) /\ KvKept(I, c, d)
  <2>1. ASSUME NEW i \in I
        PROVE  /\ P[i] = (IF s \in seq[i] THEN pos[i] ELSE -1)
               /\ Sh[i] = (IF s \in seq[i] THEN shift[i] ELSE 0)
               /\ Q[i] = (IF s \in seq[i] THEN {s} ELSE {})
    BY <1>3, <1>4, <1>8 DEF KvMix, KvKeepTo
  <2>2. DOMAIN P = I /\ DOMAIN Sh = I /\ DOMAIN Q = I
    BY <1>3, <1>8 DEF KvMix
  <2>3. hs2 \in BOOLEAN /\ IsFiniteSet(I)
    BY <1>3, <1>6 DEF KvData
  <2>4. ASSUME NEW i \in I
        PROVE  /\ pos[i] \in Int /\ shift[i] \in Int /\ seq[i] \in SUBSET SeqIds
               /\ pos[i] >= -1 /\ (pos[i] = -1 <=> seq[i] = {}) /\ (shift[i] # 0 => pos[i] # -1 /\ hs)
    BY <1>2, <1>3 DEF KvCellsHold, KvData
  <2>5. ASSUME NEW i \in I
        PROVE  /\ P[i] \in Int /\ Sh[i] \in Int /\ Q[i] \in SUBSET SeqIds
               /\ P[i] >= -1 /\ (P[i] = -1 <=> Q[i] = {}) /\ (Sh[i] # 0 => P[i] # -1 /\ hs2)
    BY <1>6, <2>1, <2>4
  <2>6. P = [i \in I |-> P[i]] /\ Sh = [i \in I |-> Sh[i]] /\ Q = [i \in I |-> Q[i]]
    BY <1>3, <1>8 DEF KvMix
  <2>7. KvKept(I, c, d)
    <3>1. d.pos = P /\ d.shift = Sh
      BY <1>9, KvCellsForFields
    <3>2. \A i \in I : P[i] # -1 => pos[i] # -1 /\ P[i] - Sh[i] = pos[i] - shift[i]
      BY <2>1, <2>4
    <3> QED BY <1>1, <3>1, <3>2 DEF KvKept
  <2> QED BY <2>3, <2>5, <2>6, <2>7 DEF KvCellsHold, KvData
<1> QED BY <1>1, <1>6, <1>9, <1>10, KvCellsForOK, KvCellsForFields

\* cells agree after the loop of seq_add
LEMMA KvOK_LoopAdd ==
    ASSUME NEW I, NEW c, KvCellsOK(I, c),
           NEW S \in SUBSET I, NEW e \in Int, KvPlaced(S, c.pos)
    PROVE  /\ KvCellsOK(I, KV!LoopAdd(c, S, e))
           /\ KvKept(I, c, KV!LoopAdd(c, S, e))
<1>1. PICK pos, shift, seq, hs : pos = c.pos /\ shift = c.shift /\ seq = c.seq /\ hs = c.has_shift
  OBVIOUS
<1>2. KvCellsHold(I, pos, shift, seq, hs) /\ c = CellsFor(pos, shift, seq, hs)
  BY <1>1 DEF KvCellsOK
<1>3. KvData(I, pos, shift, seq, hs) /\ DOMAIN pos = I /\ DOMAIN shift = I /\ DOMAIN seq = I
  BY <1>2 DEF KvCellsHold, KvData
<1>4. PICK pos2, shift2, seq2 : KvAddTo(I, e, pos, shift, seq, pos2, shift2, seq2)
  BY DEF KvAddTo
<1>5. KvPlaced(S, pos)
  BY <1>1, <1>2, <1>3 DEF KvPlaced, KvCellsHold
<1>6. PICK d, hs2 : d = KV!LoopAdd(c, S, e) /\ hs2 = KvShifted(S, hs)
  OBVIOUS
<1>7. d = KvLoop(S, pos2, shift2, seq2, pos, shift, seq, hs2)
  BY <1>2, <1>3, <1>4, <1>5, <1>6, KvLoop_pos_add
<1>8. PICK P, Sh, Q : /\ P = KvMix(S, pos2, pos)
                      /\ Sh = KvMix(S, shift2, shift)
                      /\ Q = KvMix(S, seq2, seq)
  OBVIOUS
<1>9. d = CellsFor(P, Sh, Q, hs2)
  BY <1>7, <1>8 DEF KvLoop
<1>10. KvCellsHold(I, P, Sh, Q, hs2) /\ KvKept(I, c, d)
  <2>1. ASSUME NEW i \in I
        PROVE  /\ P[i] = (IF i \in S THEN IF pos[i] + e >= 0 THEN pos[i] + e ELSE -1 ELSE pos[i])
               /\ Sh[i] = (IF i \in S THEN IF pos[i] + e >= 0 THEN shift[i] + e ELSE 0 ELSE shift[i])
               /\ Q[i] = (IF i \in S THEN IF pos[i] + e >= 0 THEN seq[i] ELSE {} ELSE seq[i])
    BY <1>3, <1>4, <1>8 DEF KvMix, KvAddTo
  <2>2. DOMAIN P = I /\ DOMAIN Sh = I /\ DOMAIN Q = I
    BY <1>3, <1>8 DEF KvMix
  <2>3. hs2 \in BOOLEAN /\ IsFiniteSet(I)
    BY <1>3, <1>6, KvShiftedType DEF KvData
  <2>4. ASSUME NEW i \in I
        PROVE  /\ pos[i] \in Int /\ shift[i] \in Int /\ seq[i] \in SUBSET SeqIds
               /\ pos[i] >= -1 /\ (pos[i] = -1 <=> seq[i] = {}) /\ (shift[i] # 0 => pos[i] # -1 /\ hs)
    BY <1>2, <1>3 DEF KvCellsHold, KvData
  <2>5. ASSUME NEW i \in I
        PROVE  /\ P[i] \in Int /\ Sh[i] \in Int /\ Q[i] \in SUBSET SeqIds
               /\ P[i] >= -1 /\ (P[i] = -1 <=> Q[i] = {}) /\ (Sh[i] # 0 => P[i] # -1 /\ hs2)
    <3>1. i \in S => hs2
      BY <1>6 DEF KvShifted, KvYes
    <3>2. hs => hs2
      BY <1>6 DEF KvShifted, KvYes
    <3>3. i \in S => pos[i] \in Nat
      BY <1>5 DEF KvPlaced
    <3> QED BY <2>1, <2>4, <3>1, <3>2, <3>3
  <2>6. P = [i \in I |-> P[i]] /\ Sh = [i \in I |-> Sh[i]] /\ Q = [i \in I |-> Q[i]]
    BY <1>3, <1>8 DEF KvMix
  <2>7. KvKept(I, c, d)
    <3>1. d.pos = P /\ d.shift = Sh
      BY <1>9, KvCellsForFields
    <3>2. \A i \in I : P[i] # -1 => pos[i] # -1 /\ P[i] - Sh[i] = pos[i] - shift[i]
      <4>1. \A i \in I \ S : P[i] = pos[i] /\ Sh[i] = shift[i]
        BY <2>1
      <4>2. \A i \in S : P[i] # -1 => P[i] = pos[i] + e /\ Sh[i] = shift[i] + e
        BY <2>1
      <4>3. \A i \in S : pos[i] \in Nat
        BY <1>5 DEF KvPlaced
      <4>4. \A i \in I : pos[i] \in Int /\ shift[i] \in Int
        BY <2>4
      <4> QED BY <4>1, <4>2, <4>3, <4>4
    <3> QED BY <1>1, <3>1, <3>2 DEF KvKept
  <2> QED BY <2>3, <2>5, <2>6, <2>7 DEF KvCellsHold, KvData
<1> QED BY <1>1, <1>6, <1>9, <1>10, KvCellsForOK, KvCellsForFields

\* cells agree after the loop of seq_div
LEMMA KvOK_LoopDiv ==
    ASSUME NEW I, NEW c, KvCellsOK(I, c),
           NEW S \in SUBSET I, NEW e \in Nat \ {0}, KvPlaced(S, c.pos)
    PROVE  /\ KvCellsOK(I, KV!LoopDiv(c, S, e))
           /\ KvKept(I \ S, c, KV!LoopDiv(c, S, e))
<1>1. PICK pos, shift, seq, hs : pos = c.pos /\ shift = c.shift /\ seq = c.seq /\ hs = c.has_shift
  OBVIOUS
<1>2. KvCellsHold(I, pos, shift, seq, hs) /\ c = CellsFor(pos, shift, seq, hs)
  BY <1>1 DEF KvCellsOK
<1>3. KvData(I, pos, shift, seq, hs) /\ DOMAIN pos = I /\ DOMAIN shift = I /\ DOMAIN seq = I
  BY <1>2 DEF KvCellsHold, KvData
<1>4. PICK pos2, shift2 : KvDivTo(I, e, pos, shift, pos2, shift2)
  BY DEF KvDivTo
<1>5. KvPlaced(S, pos)
  BY <1>1, <1>2, <1>3 DEF KvPlaced, KvCellsHold
<1>6. PICK d, hs2 : d = KV!LoopDiv(c, S, e) /\ hs2 = KvShifted(S, hs)
  OBVIOUS
<1>7. d = KvLoop(S, pos2, shift2, seq, pos, shift, seq, hs2)
  BY <1>2, <1>3, <1>4, <1>5, <1>6, KvLoop_pos_div
<1>8. PICK P, Sh, Q : /\ P = KvMix(S, pos2, pos)
                      /\ Sh = KvMix(S, shift2, shift)
                      /\ Q = KvMix(S, seq, seq)
  OBVIOUS
<1>9. d = CellsFor(P, Sh, Q, hs2)
  BY <1>7, <1>8 DEF KvLoop
<1>10. KvCellsHold(I, P, Sh, Q, hs2) /\ KvKept(I \ S, c, d)
  <2>1. ASSUME NEW i \in I
        PROVE  /\ P[i] = (IF i \in S THEN IF pos[i] >= 0 THEN pos[i] \div e ELSE -1 ELSE pos[i])
               /\ Sh[i] = (IF i \in S THEN shift[i] + (pos[i] - (IF pos[i] >= 0 THEN pos[i] \div e ELSE -1)) ELSE shift[i])
               /\ Q[i] = seq[i]
    BY <1>3, <1>4, <1>8 DEF KvMix, KvDivTo
  <2>2. DOMAIN P = I /\ DOMAIN Sh = I /\ DOMAIN Q = I
    BY <1>3, <1>8 DEF KvMix
  <2>3. hs2 \in BOOLEAN /\ IsFiniteSet(I)
    BY <1>3, <1>6, KvShiftedType DEF KvData
  <2>4. ASSUME NEW i \in I
        PROVE  /\ pos[i] \in Int /\ shift[i] \in Int /\ seq[i] \in SUBSET SeqIds
               /\ pos[i] >= -1 /\ (pos[i] = -1 <=> seq[i] = {}) /\ (shift[i] # 0 => pos[i] # -1 /\ hs)
    BY <1>2, <1>3 DEF KvCellsHold, KvData
  <2>5. ASSUME NEW i \in I
        PROVE  /\ P[i] \in Int /\ Sh[i] \in Int /\ Q[i] \in SUBSET SeqIds
               /\ P[i] >= -1 /\ (P[i] = -1 <=> Q[i] = {}) /\ (Sh[i] # 0 => P[i] # -1 /\ hs2)
    <3>1. i \in S => hs2
      BY <1>6 DEF KvShifted, KvYes
    <3>2. hs => hs2
      BY <1>6 DEF KvShifted, KvYes
    <3>3. i \in S => pos[i] \in Nat
      BY <1>5 DEF KvPlaced
    <3>4. i \in S => pos[i] \div e \in Nat
      BY <3>3
    <3> QED BY <2>1, <2>4, <3>1, <3>2, <3>3, <3>4
  <2>6. P = [i \in I |-> P[i]] /\ Sh = [i \in I |-> Sh[i]] /\ Q = [i \in I |-> Q[i]]
    BY <1>3, <1>8 DEF KvMix
  <2>7. KvKept(I \ S, c, d)
    <3>1. d.pos = P /\ d.shift = Sh
      BY <1>9, KvCellsForFields
    <3>2. \A i \in I \ S : P[i] # -1 => pos[i] # -1 /\ P[i] - Sh[i] = pos[i] - shift[i]
      BY <2>1, <2>4
    <3> QED BY <1>1, <3>1, <3>2 DEF KvKept
  <2> QED BY <2>3, <2>5, <2>6, <2>7 DEF KvCellsHold, KvData
<1> QED BY <1>1, <1>6, <1>9, <1>10, KvCellsForOK, KvCellsForFields

\* new cells agree and are not shifted
LEMMA KvOK_resize ==
    ASSUME NEW n \in Nat
    PROVE  KvCellsOK(0 .. n-1, KV!Cells!resize(n)) /\ ~KV!Cells!resize(n).has_shift
<1>1. PICK pos, shift, seq, no : /\ pos = [i \in 0 .. n-1 |-> -1] /\ shift = [i \in 0 .. n-1 |-> 0]
                                 /\ seq = [i \in 0 .. n-1 |-> {}] /\ no = FALSE
  OBVIOUS
<1>2. KvData(0 .. n-1, pos, shift, seq, no) /\ KV!Cells!resize(n) = CellsFor(pos, shift, seq, no)
  BY <1>1, KvCells_resize
<1>3. KvCellsHold(0 .. n-1, pos, shift, seq, no)
  BY <1>1, <1>2 DEF KvCellsHold
<1> QED BY <1>1, <1>2, <1>3, KvCellsForOK, KvCellsForFields

\* cells agree after reset_shift and are not shifted
LEMMA KvOK_reset_shift ==
    ASSUME NEW I, NEW c, KvCellsOK(I, c)
    PROVE  KvCellsOK(I, KV!Cells!reset_shift(c)) /\ ~KV!Cells!reset_shift(c).has_shift
<1>1. PICK pos, shift, seq, hs : pos = c.pos /\ shift = c.shift /\ seq = c.seq /\ hs = c.has_shift
  OBVIOUS
<1>2. KvCellsHold(I, pos, shift, seq, hs) /\ c = CellsFor(pos, shift, seq, hs)
  BY <1>1 DEF KvCellsOK
<1>3. PICK shift2, no : /\ shift2 = KvZero(I) /\ no = KvNo
                      /\ shift2 = [i \in I |-> 0] /\ no = FALSE
  BY DEF KvZero, KvNo
<1>4. KvData(I, pos, shift, seq, hs)
  BY <1>2 DEF KvCellsHold
<1>5. KV!Cells!reset_shift(c) = CellsFor(pos, shift2, seq, no)
  BY <1>2, <1>3, <1>4, KvCells_reset_shift
<1>6. KvCellsHold(I, pos, shift2, seq, no)
  <2>1. no \in BOOLEAN
    BY <1>3
  <2>2. shift2 \in [I -> Int] /\ \A i \in I : shift2[i] = 0
    BY <1>3
  <2> QED BY <1>2, <2>1, <2>2 DEF KvCellsHold, KvData
<1> QED BY <1>3, <1>5, <1>6, KvCellsForOK, KvCellsForFields

\* cells agree after the loop of seq_cp between streams
LEMMA KvOK_LoopCopy ==
    ASSUME NEW n \in Nat, NEW src, KvCellsOK(0 .. n-1, src), NEW S \in SUBSET (0 .. n-1),
           KvPlaced(S, src.pos), NEW dst \in SeqIds
    PROVE  /\ KvCellsOK(0 .. n-1, KV!LoopCopy(src, S, KV!Cells!resize(n), dst))
           /\ KvKept(0 .. n-1, src, KV!LoopCopy(src, S, KV!Cells!resize(n), dst))
<1>0. PICK I : I = 0 .. n-1
  OBVIOUS
<1>1. PICK pos, shift, seq, no : /\ pos = [i \in I |-> -1] /\ shift = [i \in I |-> 0]
                                 /\ seq = [i \in I |-> {}] /\ no = FALSE
  OBVIOUS
<1>2. /\ KvData(I, pos, shift, seq, no) /\ KV!Cells!resize(n) = CellsFor(pos, shift, seq, no)
      /\ DOMAIN pos = I /\ DOMAIN shift = I /\ DOMAIN seq = I
  BY <1>0, <1>1, KvCells_resize
<1>3. PICK spos, sshift : spos = src.pos /\ sshift = src.shift
  OBVIOUS
<1>4. \A i \in I : spos[i] \in Int /\ sshift[i] \in Int
  BY <1>0, <1>3 DEF KvCellsOK, KvCellsHold, KvData
<1>5. KvCopying(I, pos, shift, seq, S, src)
  <2>1. \A i \in S : src.pos[i] \in Nat /\ src.shift[i] \in Int
    BY <1>0, <1>3, <1>4 DEF KvPlaced
  <2> QED BY <1>0, <1>1, <2>1 DEF KvCopying
<1>6. PICK pos2, shift2, seq2 : KvCopyTo(I, S, dst, src, pos2, shift2, seq2)
  BY DEF KvCopyTo
<1>7. PICK d, hs2 : /\ d = KV!LoopCopy(src, S, KV!Cells!resize(n), dst)
                    /\ hs2 = KvShifted(KvWaiting(S, src), no)
  OBVIOUS
<1>8. d = KvLoop(S, pos2, shift2, seq2, pos, shift, seq, hs2)
  <2>2. KvData(I, pos, shift, seq, no)
    BY <1>2
  <2>3. KV!LoopCopy(src, S, CellsFor(pos, shift, seq, no), dst)
          = KvLoop(S, pos2, shift2, seq2, pos, shift, seq, KvShifted(KvWaiting(S, src), no))
    BY <1>5, <1>6, <2>2, KvLoop_copy
  <2> QED BY <1>2, <1>7, <2>3
<1>9. PICK P, Sh, Q : P = KvMix(S, pos2, pos) /\ Sh = KvMix(S, shift2, shift) /\ Q = KvMix(S, seq2, seq)
  OBVIOUS
<1>10. d = CellsFor(P, Sh, Q, hs2)
  BY <1>8, <1>9 DEF KvLoop
<1>11. KvCellsHold(I, P, Sh, Q, hs2) /\ KvKept(I, src, d)
  <2>1. ASSUME NEW i \in I
        PROVE  /\ P[i] = (IF i \in S THEN spos[i] ELSE -1)
               /\ Sh[i] = (IF i \in S THEN sshift[i] ELSE 0)
               /\ Q[i] = (IF i \in S THEN {dst} ELSE {})
    BY <1>1, <1>2, <1>3, <1>6, <1>9 DEF KvMix, KvCopyTo
  <2>2. hs2 \in BOOLEAN /\ IsFiniteSet(I)
    BY <1>1, <1>2, <1>7, KvShiftedType DEF KvData
  <2>3. ASSUME NEW i \in I
        PROVE  /\ P[i] \in Int /\ Sh[i] \in Int /\ Q[i] \in SUBSET SeqIds
               /\ P[i] >= -1 /\ (P[i] = -1 <=> Q[i] = {}) /\ (Sh[i] # 0 => P[i] # -1 /\ hs2)
    <3>1. i \in S => spos[i] \in Nat
      BY <1>3 DEF KvPlaced
    <3>2. i \in S /\ sshift[i] # 0 => hs2
      BY <1>3, <1>7 DEF KvShifted, KvYes, KvWaiting
    <3> QED BY <1>4, <2>1, <3>1, <3>2
  <2>4. P = [i \in I |-> P[i]] /\ Sh = [i \in I |-> Sh[i]] /\ Q = [i \in I |-> Q[i]]
    BY <1>2, <1>9 DEF KvMix
  <2>5. KvKept(I, src, d)
    <3>1. d.pos = P /\ d.shift = Sh
      BY <1>10, KvCellsForFields
    <3>2. \A i \in I : P[i] # -1 => i \in S /\ P[i] = spos[i] /\ Sh[i] = sshift[i]
      BY <2>1
    <3>3. \A i \in S : spos[i] # -1
      BY <1>3 DEF KvPlaced
    <3> QED BY <1>3, <3>1, <3>2, <3>3 DEF KvKept
  <2> QED BY <2>2, <2>3, <2>4, <2>5 DEF KvCellsHold, KvData
<1> QED BY <1>0, <1>7, <1>10, <1>11, KvCellsForOK

\* the inverse of a numbering
KvNumberOf(J, idxs, i) == CHOOSE j \in J : idxs[j] = i

\* the number of a chosen cell
LEMMA KvNumbered ==
    ASSUME NEW I, NEW J, NEW idxs, KvInto(I, J, idxs)
    PROVE  \A j \in J : KvNumberOf(J, idxs, idxs[j]) = j
<1> TAKE j \in J
<1>1. PICK k : k = KvNumberOf(J, idxs, idxs[j])
  OBVIOUS
<1>2. k \in J /\ idxs[k] = idxs[j]
  BY <1>1 DEF KvNumberOf
<1> QED BY <1>1, <1>2 DEF KvInto

\* what cp saves, and takes back
KvSavedOK(J, saved) ==
    \A j \in J : /\ saved[j] \in [pos : Int, seq : SUBSET SeqIds] /\ saved[j].pos >= -1
                 /\ saved[j].pos = -1 <=> saved[j].seq = {}

\* what llama_kv_cells::cp saves are cells that agree
LEMMA KvOK_cp ==
    ASSUME NEW I, NEW c, KvCellsOK(I, c), NEW J, NEW idxs, DOMAIN idxs = J, KvInto(I, J, idxs)
    PROVE  KvSavedOK(J, KV!Cells!cp(c, idxs))
<1>1. PICK pos, seq : pos = c.pos /\ seq = c.seq
  OBVIOUS
<1>2. \A i \in I : /\ pos[i] \in Int /\ pos[i] >= -1 /\ seq[i] \in SUBSET SeqIds
                   /\ pos[i] = -1 <=> seq[i] = {}
  BY <1>1 DEF KvCellsOK, KvCellsHold, KvData
<1>3. ASSUME NEW j \in J
      PROVE  /\ idxs[j] \in I
             /\ KV!Cells!cp(c, idxs)[j] = [pos |-> pos[idxs[j]], seq |-> seq[idxs[j]]]
  BY <1>1 DEF KV!Cells!cp, KvInto
<1>4. ASSUME NEW j \in J, NEW r, r = KV!Cells!cp(c, idxs)[j]
      PROVE  r \in [pos : Int, seq : SUBSET SeqIds] /\ r.pos >= -1 /\ (r.pos = -1 <=> r.seq = {})
  <2>1. PICK i : i = idxs[j]
    OBVIOUS
  <2>2. i \in I /\ r = [pos |-> pos[i], seq |-> seq[i]]
    BY <1>3, <1>4, <2>1
  <2> QED BY <1>2, <2>2
<1> QED BY <1>4 DEF KvSavedOK

\* cells agree after saved ones were set
LEMMA KvOK_set ==
    ASSUME NEW I, NEW c, KvCellsOK(I, c), ~c.has_shift,
           NEW J, NEW idxs, DOMAIN idxs = J, KvInto(I, J, idxs), NEW saved, KvSavedOK(J, saved)
    PROVE  /\ KvCellsOK(I, KV!Cells!set(c, idxs, saved)) /\ ~KV!Cells!set(c, idxs, saved).has_shift
           /\ KvTaken(I, J, idxs, saved, c, KV!Cells!set(c, idxs, saved))
<1>1. PICK pos, shift, seq, hs : pos = c.pos /\ shift = c.shift /\ seq = c.seq /\ hs = c.has_shift
  OBVIOUS
<1>2. KvCellsHold(I, pos, shift, seq, hs) /\ c = CellsFor(pos, shift, seq, hs)
  BY <1>1 DEF KvCellsOK
<1>3. KvData(I, pos, shift, seq, hs) /\ DOMAIN pos = I /\ DOMAIN shift = I /\ DOMAIN seq = I
  BY <1>2 DEF KvCellsHold, KvData
<1>4. PICK im : im = {idxs[j] : j \in J}
  OBVIOUS
<1>5. PICK pos2 : pos2 = [i \in I |-> IF i \in im THEN saved[KvNumberOf(J, idxs, i)].pos ELSE 0]
  OBVIOUS
<1>6. PICK seq2 : seq2 = [i \in I |-> IF i \in im THEN saved[KvNumberOf(J, idxs, i)].seq ELSE {}]
  OBVIOUS
<1>7. KvSaved(I, J, idxs, saved, pos2, seq2)
  <2>1. ASSUME NEW j \in J
        PROVE  pos2[idxs[j]] = saved[j].pos /\ seq2[idxs[j]] = saved[j].seq
    <3>1. idxs[j] \in I /\ idxs[j] \in im
      BY <1>4 DEF KvInto
    <3>2. KvNumberOf(J, idxs, idxs[j]) = j
      BY KvNumbered
    <3> QED BY <1>5, <1>6, <3>1, <3>2
  <2>2. ASSUME NEW i \in I PROVE pos2[i] \in Int /\ seq2[i] \in SUBSET SeqIds
    <3>1. CASE i \in im
      <4>1. PICK j \in J : i = idxs[j]
        BY <1>4, <3>1
      <4>2. saved[j] \in [pos : Int, seq : SUBSET SeqIds]
        BY DEF KvSavedOK
      <4>3. pos2[i] = saved[j].pos /\ seq2[i] = saved[j].seq
        BY <2>1, <4>1
      <4> QED BY <4>2, <4>3
    <3>2. CASE i \notin im
      BY <1>5, <1>6, <3>2
    <3> QED BY <3>1, <3>2
  <2> QED BY <1>5, <1>6, <2>1, <2>2 DEF KvSaved, KvSavedOK
<1>8. KvEmpties(I, pos, shift, seq)
  BY <1>2 DEF KvEmpties, KvCellsHold
<1>9. PICK d : d = KV!Cells!set(c, idxs, saved)
  OBVIOUS
<1>10. PICK P, Q : P = KvMix({idxs[j] : j \in J}, pos2, pos) /\ Q = KvMix({idxs[j] : j \in J}, seq2, seq)
  OBVIOUS
<1>11. d = CellsFor(P, shift, Q, hs)
  BY <1>2, <1>3, <1>7, <1>8, <1>9, <1>10, KvLoop_set
<1>12. KvCellsHold(I, P, shift, Q, hs) /\ KvTaken(I, J, idxs, saved, c, d)
  <2>1. ASSUME NEW i \in I
        PROVE  /\ P[i] = (IF i \in im THEN pos2[i] ELSE pos[i])
               /\ Q[i] = (IF i \in im THEN seq2[i] ELSE seq[i])
    BY <1>3, <1>4, <1>10 DEF KvMix
  <2>2. ASSUME NEW i \in I
        PROVE  /\ P[i] \in Int /\ P[i] >= -1 /\ Q[i] \in SUBSET SeqIds
               /\ P[i] = -1 <=> Q[i] = {}
    <3>1. CASE i \in im
      <4>1. PICK j \in J : i = idxs[j]
        BY <1>4, <3>1
      <4>2. P[i] = saved[j].pos /\ Q[i] = saved[j].seq
        BY <1>7, <2>1, <3>1, <4>1 DEF KvSaved
      <4>3. /\ saved[j] \in [pos : Int, seq : SUBSET SeqIds] /\ saved[j].pos >= -1
            /\ saved[j].pos = -1 <=> saved[j].seq = {}
        BY DEF KvSavedOK
      <4> QED BY <4>2, <4>3
    <3>2. CASE i \notin im
      BY <1>2, <1>3, <2>1, <3>2 DEF KvCellsHold, KvData
    <3> QED BY <3>1, <3>2
  <2>3. \A i \in I : shift[i] = 0
    BY <1>1, <1>2 DEF KvCellsHold
  <2>4. P = [i \in I |-> P[i]] /\ Q = [i \in I |-> Q[i]]
    BY <1>3, <1>10 DEF KvMix
  <2>5. KvTaken(I, J, idxs, saved, c, d)
    <3>1. d.pos = P /\ d.shift = shift
      BY <1>11, KvCellsForFields
    <3>2. \A j \in J : idxs[j] \in I /\ idxs[j] \in im
      BY <1>4 DEF KvInto
    <3>3. \A j \in J : P[idxs[j]] = saved[j].pos /\ shift[idxs[j]] = 0
      BY <1>7, <2>1, <2>3, <3>2 DEF KvSaved
    <3>4. \A i \in I : (\A j \in J : idxs[j] # i) => P[i] = pos[i]
      BY <1>4, <2>1
    <3> QED BY <1>1, <3>1, <3>3, <3>4 DEF KvTaken
  <2> QED BY <1>3, <2>2, <2>3, <2>4, <2>5 DEF KvCellsHold, KvData
<1> QED BY <1>1, <1>9, <1>11, <1>12, KvCellsForOK, KvCellsForFields

KvToken == [seqs : (SUBSET SeqIds) \ {{}}, pos : Nat]

\* cells agree after the tokens of a micro batch took theirs
LEMMA KvOK_LoopPut ==
    ASSUME NEW I, NEW c, KvCellsOK(I, c), NEW J, NEW idxs, KvInto(I, J, idxs),
           NEW toks, DOMAIN toks = J, \A j \in J : toks[j] \in KvToken
    PROVE  /\ KvCellsOK(I, KV!LoopPut(c, idxs, toks))
           /\ KV!LoopPut(c, idxs, toks).has_shift = c.has_shift
           /\ KvTaken(I, J, idxs, toks, c, KV!LoopPut(c, idxs, toks))
<1>1. PICK pos, shift, seq, hs : pos = c.pos /\ shift = c.shift /\ seq = c.seq /\ hs = c.has_shift
  OBVIOUS
<1>2. KvCellsHold(I, pos, shift, seq, hs) /\ c = CellsFor(pos, shift, seq, hs)
  BY <1>1 DEF KvCellsOK
<1>3. KvData(I, pos, shift, seq, hs) /\ DOMAIN pos = I /\ DOMAIN shift = I /\ DOMAIN seq = I
  BY <1>2 DEF KvCellsHold, KvData
<1>4. PICK im : im = {idxs[j] : j \in J}
  OBVIOUS
<1>5. PICK pos2 : pos2 = [i \in I |-> IF i \in im THEN toks[KvNumberOf(J, idxs, i)].pos ELSE 0]
  OBVIOUS
<1>6. PICK seq2 : seq2 = [i \in I |-> IF i \in im THEN toks[KvNumberOf(J, idxs, i)].seqs ELSE {}]
  OBVIOUS
<1>7. PICK shift2 : shift2 = [i \in I |-> 0]
  OBVIOUS
<1>8. KvTokens(I, J, idxs, toks, pos2, shift2, seq2)
  <2>1. ASSUME NEW j \in J
        PROVE  /\ toks[j] \in [seqs : SUBSET SeqIds, pos : Nat]
               /\ pos2[idxs[j]] = toks[j].pos /\ seq2[idxs[j]] = toks[j].seqs /\ shift2[idxs[j]] = 0
    <3>1. idxs[j] \in I /\ idxs[j] \in im
      BY <1>4 DEF KvInto
    <3>2. KvNumberOf(J, idxs, idxs[j]) = j
      BY KvNumbered
    <3> QED BY <1>5, <1>6, <1>7, <3>1, <3>2 DEF KvToken
  <2>2. ASSUME NEW i \in I PROVE pos2[i] \in Int /\ seq2[i] \in SUBSET SeqIds
    <3>1. CASE i \in im
      <4>1. PICK j \in J : i = idxs[j]
        BY <1>4, <3>1
      <4> QED BY <2>1, <4>1 DEF KvToken
    <3>2. CASE i \notin im
      BY <1>5, <1>6, <3>2
    <3> QED BY <3>1, <3>2
  <2> QED BY <1>5, <1>6, <1>7, <2>1, <2>2 DEF KvTokens
<1>9. KvEmpties(I, pos, shift, seq)
  BY <1>2 DEF KvEmpties, KvCellsHold
<1>10. PICK d : d = KV!LoopPut(c, idxs, toks)
  OBVIOUS
<1>11. PICK P, Sh, Q : /\ P = KvMix({idxs[j] : j \in J}, pos2, pos)
                       /\ Sh = KvMix({idxs[j] : j \in J}, shift2, shift)
                       /\ Q = KvMix({idxs[j] : j \in J}, seq2, seq)
  OBVIOUS
<1>12. d = CellsFor(P, Sh, Q, hs)
  <2>1. d = KvLoop({idxs[j] : j \in J}, pos2, shift2, seq2, pos, shift, seq, hs)
    BY <1>2, <1>3, <1>8, <1>9, <1>10, KvLoop_put
  <2> QED BY <1>11, <2>1 DEF KvLoop
<1>13. KvCellsHold(I, P, Sh, Q, hs) /\ KvTaken(I, J, idxs, toks, c, d)
  <2>1. ASSUME NEW i \in I
        PROVE  /\ P[i] = (IF i \in im THEN pos2[i] ELSE pos[i])
               /\ Sh[i] = (IF i \in im THEN 0 ELSE shift[i])
               /\ Q[i] = (IF i \in im THEN seq2[i] ELSE seq[i])
    BY <1>3, <1>4, <1>7, <1>11 DEF KvMix
  <2>2. ASSUME NEW i \in I
        PROVE  /\ P[i] \in Int /\ P[i] >= -1 /\ Q[i] \in SUBSET SeqIds /\ Sh[i] \in Int
               /\ P[i] = -1 <=> Q[i] = {}
               /\ Sh[i] # 0 => P[i] # -1 /\ hs
    <3>1. CASE i \in im
      <4>1. PICK j \in J : i = idxs[j]
        BY <1>4, <3>1
      <4>2. P[i] = toks[j].pos /\ Q[i] = toks[j].seqs /\ Sh[i] = 0
        BY <1>8, <2>1, <3>1, <4>1 DEF KvTokens
      <4>3. P[i] \in Nat /\ Q[i] \in SUBSET SeqIds /\ Q[i] # {}
        BY <4>2 DEF KvToken
      <4> QED BY <4>2, <4>3
    <3>2. CASE i \notin im
      BY <1>2, <1>3, <2>1, <3>2 DEF KvCellsHold, KvData
    <3> QED BY <3>1, <3>2
  <2>4. P = [i \in I |-> P[i]] /\ Sh = [i \in I |-> Sh[i]] /\ Q = [i \in I |-> Q[i]]
    BY <1>3, <1>11 DEF KvMix
  <2>5. KvTaken(I, J, idxs, toks, c, d)
    <3>1. d.pos = P /\ d.shift = Sh
      BY <1>12, KvCellsForFields
    <3>2. \A j \in J : idxs[j] \in I /\ idxs[j] \in im
      BY <1>4 DEF KvInto
    <3>3. \A j \in J : P[idxs[j]] = toks[j].pos /\ Sh[idxs[j]] = 0
      BY <1>8, <2>1, <3>2 DEF KvTokens
    <3>4. \A i \in I : (\A j \in J : idxs[j] # i) => P[i] = pos[i] /\ Sh[i] = shift[i]
      BY <1>4, <2>1
    <3> QED BY <1>1, <3>1, <3>3, <3>4 DEF KvTaken
  <2> QED BY <1>3, <2>2, <2>4, <2>5 DEF KvCellsHold, KvData
<1> QED BY <1>1, <1>10, <1>12, <1>13, KvCellsForOK, KvCellsForFields

-----------------------------------------------------------------------------
(***************************************************************************)
(* Least and greatest elements, and the m-th smallest number of a set.     *)
(***************************************************************************)
LEMMA KvLeast ==
    ASSUME NEW S \in SUBSET Int, IsFiniteSet(S), S # {}
    PROVE  /\ \E x \in S : \A y \in S : x <= y
           /\ \E x \in S : \A y \in S : x >= y
<1>1. PICK Good : Good = {T \in SUBSET S : T # {} => /\ \E x \in T : \A y \in T : x <= y
                                                     /\ \E x \in T : \A y \in T : x >= y}
  OBVIOUS
<1>2. ASSUME NEW T \in SUBSET S, \A x \in T : T \ {x} \in Good
      PROVE  T \in Good
  <2>1. SUFFICES ASSUME T # {}
                 PROVE  /\ \E x \in T : \A y \in T : x <= y
                        /\ \E x \in T : \A y \in T : x >= y
    BY <1>1
  <2>2. PICK z \in T : TRUE
    BY <2>1
  <2>3. T \ {z} \in Good
    BY <1>2
  <2>4. CASE T \ {z} = {}
    <3>1. \A y \in T : y = z
      BY <2>4
    <3>2. z \in Int
      BY <2>2
    <3> QED BY <3>1, <3>2
  <2>5. CASE T \ {z} # {}
    <3>1. PICK a \in T \ {z} : \A y \in T \ {z} : a <= y
      BY <1>1, <2>3, <2>5
    <3>2. PICK b \in T \ {z} : \A y \in T \ {z} : b >= y
      BY <1>1, <2>3, <2>5
    <3>3. a \in Int /\ b \in Int /\ z \in Int
      BY <2>2
    <3>4. \E x \in T : \A y \in T : x <= y
      <4>1. CASE a <= z
        BY <3>1, <3>3, <4>1
      <4>2. CASE z < a
        <5>1. \A y \in T : z <= y
          <6> TAKE y \in T
          <6>1. CASE y = z
            BY <3>3, <6>1
          <6>2. CASE y # z
            BY <3>1, <3>3, <4>2, <6>2
          <6> QED BY <6>1, <6>2
        <5> QED BY <5>1
      <4> QED BY <3>3, <4>1, <4>2
    <3>5. \E x \in T : \A y \in T : x >= y
      <4>1. CASE b >= z
        BY <3>2, <3>3, <4>1
      <4>2. CASE z > b
        <5>1. \A y \in T : z >= y
          <6> TAKE y \in T
          <6>1. CASE y = z
            BY <3>3, <6>1
          <6>2. CASE y # z
            BY <3>2, <3>3, <4>2, <6>2
          <6> QED BY <6>1, <6>2
        <5> QED BY <5>1
      <4> QED BY <3>3, <4>1, <4>2
    <3> QED BY <3>4, <3>5
  <2> QED BY <2>4, <2>5
<1>3. S \in Good
  BY <1>2, KvSetInduction, Zenon
<1> QED BY <1>1, <1>3

\* Min of a finite set of integers is its least element
LEMMA KvMin ==
    ASSUME NEW S \in SUBSET Int, IsFiniteSet(S), S # {}
    PROVE  /\ KV!Min(S) \in S /\ Min(S) \in S
           /\ \A y \in S : Min(S) <= y
<1>1. PICK x \in S : \A y \in S : x <= y
  BY KvLeast
<1> QED BY <1>1 DEF KV!Min, Min

\* Max of a finite set of integers is its greatest element
LEMMA KvMax ==
    ASSUME NEW S \in SUBSET Int, IsFiniteSet(S), S # {}
    PROVE  Max(S) \in S /\ \A y \in S : Max(S) >= y
<1>1. PICK x \in S : \A y \in S : x >= y
  BY KvLeast
<1> QED BY <1>1 DEF Max

KvRank(S, x) == Cardinality({y \in S : y <= x})

\* a finite set of n integers has an m-th smallest one
LEMMA KvNthExists ==
    ASSUME NEW S \in SUBSET Int, IsFiniteSet(S), NEW m \in 1 .. Cardinality(S)
    PROVE  \E x \in S : KvRank(S, x) = m
<1>1. PICK Good : Good = {T \in SUBSET S : \A l \in 1 .. Cardinality(T) :
                                              \E x \in T : KvRank(T, x) = l}
  OBVIOUS
<1>2. ASSUME NEW T \in SUBSET S, \A x \in T : T \ {x} \in Good
      PROVE  T \in Good
  <2>1. SUFFICES ASSUME NEW l \in 1 .. Cardinality(T)
                 PROVE  \E x \in T : KvRank(T, x) = l
    BY <1>1
  <2>2. IsFiniteSet(T) /\ Cardinality(T) \in Nat /\ T \in SUBSET Int
    BY FS_Subset, FS_CardinalityType
  <2>3. T # {}
    BY <2>2, FS_EmptySet
  <2>4. PICK z \in T : \A y \in T : z >= y
    BY <2>2, <2>3, KvLeast
  <2>5. T \ {z} \in Good /\ Cardinality(T \ {z}) = Cardinality(T) - 1
    BY <1>2, <2>2, FS_RemoveElement
  <2>6. CASE l = Cardinality(T)
    <3>1. {y \in T : y <= z} = T
      BY <2>2, <2>4
    <3> QED BY <2>6, <3>1 DEF KvRank
  <2>7. CASE l # Cardinality(T)
    <3>1. l \in 1 .. Cardinality(T \ {z})
      BY <2>2, <2>5, <2>7
    <3>2. PICK x \in T \ {z} : KvRank(T \ {z}, x) = l
      BY <1>1, <2>5, <3>1
    <3>3. {y \in T : y <= x} = {y \in T \ {z} : y <= x}
      BY <2>2, <2>4
    <3> QED BY <3>2, <3>3 DEF KvRank
  <2> QED BY <2>6, <2>7
<1>3. S \in Good
  BY <1>2, KvSetInduction, Zenon
<1> QED BY <1>1, <1>3

\* Nth gives the m-th smallest element, and different ones for different m
LEMMA KvNth ==
    ASSUME NEW S \in SUBSET Int, IsFiniteSet(S), NEW m \in 1 .. Cardinality(S)
    PROVE  KV!Nth(S, m) \in S /\ KvRank(S, KV!Nth(S, m)) = m
<1>1. PICK x \in S : KvRank(S, x) = m
  BY KvNthExists
<1>2. \A y \in S : KV!Cardinality({z \in S : z <= y}) = KvRank(S, y)
  BY KvCache_Cardinality DEF KvRank
<1> QED BY <1>1, <1>2 DEF KV!Nth

\* two offsets within the size of the cache lead to different cells
LEMMA KvRoundTheEnd ==
    ASSUME NEW N \in Nat \ {0}, NEW a \in Nat,
           NEW i \in 0 .. N-1, NEW j \in 0 .. N-1, (a + i) % N = (a + j) % N
    PROVE  i = j
<1>0. ASSUME NEW x \in Nat
      PROVE  x % N \in 0 .. N-1 /\ x \div N \in Int /\ x = N * (x \div N) + (x % N)
  OBVIOUS
<1>1. PICK q, r : q = (a + i) \div N /\ r = (a + i) % N
  OBVIOUS
<1>2. PICK p : p = (a + j) \div N
  OBVIOUS
<1>7. a + i \in Nat /\ a + j \in Nat
  OBVIOUS
<1>8. q \in Int /\ r \in 0 .. N-1 /\ a + i = N * q + r
  BY <1>0, <1>1, <1>7
<1>9. p \in Int /\ a + j = N * p + r
  BY <1>0, <1>1, <1>2, <1>7
<1>3. i - j = N * (q - p)
  BY <1>8, <1>9
<1>4. CASE q = p
  BY <1>3, <1>4, <1>8, <1>9
<1>5. CASE q > p
  <2>1. N * (q - p) >= N
    BY <1>5, <1>8, <1>9
  <2> QED BY <1>3, <2>1
<1>6. CASE q < p
  <2>1. N * (p - q) >= N
    BY <1>6, <1>8, <1>9
  <2>2. j - i = N * (p - q)
    BY <1>3, <1>8, <1>9
  <2> QED BY <2>1, <2>2
<1> QED BY <1>4, <1>5, <1>6, <1>8, <1>9

-----------------------------------------------------------------------------
(***************************************************************************)
(* A cache whose streams are D with n cells each, in all of which          *)
(* everything agrees, and which are not shifted if it is quiet.            *)
(***************************************************************************)
KvShape(k) ==
    k \in [cells : {k.cells}, heads : {k.heads}, copies : {k.copies}, keys : {k.keys},
           div : {k.div}, swa : {k.swa}]

KvStreams(D, n, quiet, cells) ==
    /\ DOMAIN cells = D
    /\ \A st \in D : KvCellsOK(0 .. n-1, cells[st]) /\ (quiet => ~cells[st].has_shift)

KvCacheOK(D, n, quiet, k) ==
    /\ KvShape(k)
    /\ KvStreams(D, n, quiet, k.cells)
    /\ k.heads \in [D -> Nat]

\* streams that the sequences may have
KvLayout(D) == D = {0} \/ D = SeqIds

\* the stream of a sequence is one of the cache's
LEMMA KvStream ==
    ASSUME NEW D, KvLayout(D), NEW n, NEW q, NEW k, KvCacheOK(D, n, q, k), NEW s \in SeqIds
    PROVE  KV!seq_to_stream(k, s) \in D
<1>1. CASE D = {0}
  <2>1. KV!n_stream(k) = 1
    BY <1>1, FS_Singleton, KvCache_Cardinality DEF KV!n_stream, KvCacheOK, KvStreams
  <2> QED BY <1>1, <2>1 DEF KV!seq_to_stream
<1>2. CASE D = SeqIds
  <2>1. 0 \in SeqIds
    BY KvAssumption DEF SeqIds
  <2> QED BY <1>2, <2>1 DEF KV!seq_to_stream
<1> QED BY <1>1, <1>2 DEF KvLayout

\* the number of cells of a stream
LEMMA KvSize ==
    ASSUME NEW n \in Nat, NEW c, KvCellsOK(0 .. n-1, c)
    PROVE  KV!Cells!size(c) = n /\ DOMAIN c.pos = 0 .. n-1
<1>1. DOMAIN c.pos = 0 .. n-1
  BY DEF KvCellsOK, KvCellsHold, KvData
<1>2. Cardinality(0 .. n-1) = n
  BY FS_Interval
<1> QED BY <1>1, <1>2, KvCells_Cardinality DEF KV!Cells!size

\* one stream of the cells is replaced
LEMMA KvStreamsAt ==
    ASSUME NEW D, NEW n, NEW q, NEW cells, KvStreams(D, n, q, cells),
           NEW t, NEW c, KvCellsOK(0 .. n-1, c), q => ~c.has_shift
    PROVE  KvStreams(D, n, q, KvAt(cells, t, c))
<1>1. PICK new : new = KvAt(cells, t, c)
  OBVIOUS
<1>2. DOMAIN new = D /\ \A st \in D : new[st] = IF st = t THEN c ELSE cells[st]
  BY <1>1 DEF KvAt, KvStreams
<1> QED BY <1>1, <1>2 DEF KvStreams

\* a head that seq_rm rewinds is still a cell or past the last one
LEMMA KvRewound ==
    ASSUME NEW n \in Nat, NEW old, KvCellsOK(0 .. n-1, old), NEW new, NEW head \in Nat
    PROVE  KV!Rewound(head, old, new) \in Nat
<1>1. PICK F : F = KV!Freed(old, new)
  OBVIOUS
<1>2. F \subseteq 0 .. n-1
  BY <1>1, KvSize DEF KV!Freed
<1>3. CASE F = {}
  BY <1>1, <1>3 DEF KV!Rewound
<1>4. CASE F # {}
  <2>0. IsFiniteSet(0 .. n-1)
    BY DEF KvCellsOK, KvCellsHold, KvData
  <2>1. IsFiniteSet(F)
    BY <1>2, <2>0, FS_Subset
  <2>2. PICK G : G = {head} \cup F
    OBVIOUS
  <2>3. IsFiniteSet(G)
    BY <2>1, <2>2, FS_Singleton, FS_Union
  <2>4. G \in SUBSET Int /\ G # {} /\ G \subseteq Nat
    BY <1>2, <2>2
  <2>5. KV!Min(G) \in G
    BY <2>3, <2>4, KvMin
  <2> QED BY <1>1, <1>4, <2>2, <2>4, <2>5 DEF KV!Rewound
<1> QED BY <1>3, <1>4

-----------------------------------------------------------------------------
(***************************************************************************)
(* The operations on sequences.                                            *)
(***************************************************************************)
LEMMA KvWithin ==
    ASSUME NEW I, NEW c, KvCellsOK(I, c), NEW s, NEW p0, NEW p1
    PROVE  /\ KV!Within(c, s, p0, p1) \in SUBSET I
           /\ KvInAll(KV!Within(c, s, p0, p1), s, c.seq)
           /\ KvPlaced(KV!Within(c, s, p0, p1), c.pos)
<1>1. DOMAIN c.pos = I /\ \A i \in I : c.pos[i] \in Int
  BY DEF KvCellsOK, KvCellsHold, KvData
<1>2. PICK W : W = KV!Within(c, s, p0, p1)
  OBVIOUS
<1>3. \A i \in W : i \in I /\ (s = -1 \/ s \in c.seq[i]) /\ c.pos[i] >= 0
  BY <1>1, <1>2 DEF KV!Within, KV!Cells!pos_in
<1> QED BY <1>1, <1>2, <1>3 DEF KvInAll, KvPlaced

\* a cache with other cells and heads
LEMMA KvCacheOf ==
    ASSUME NEW D, NEW n, NEW q, NEW r, KvShape(r), NEW C, r.cells = C, KvStreams(D, n, q, C),
           NEW H, r.heads = H, H \in [D -> Nat]
    PROVE  KvCacheOK(D, n, q, r)
BY DEF KvCacheOK

\* the keys are as they were, and what is left of the cells still fits them
KvKeeps(D, n, k, r) ==
    /\ r.keys = k.keys /\ r.copies = k.copies /\ r.div = k.div
    /\ \A st \in D : KvKept(0 .. n-1, k.cells[st], r.cells[st])

\* cells as they were
LEMMA KvKeptSame ==
    ASSUME NEW I, NEW c
    PROVE  KvKept(I, c, c)
BY DEF KvKept

\* a cache with the same keys and cells
LEMMA KvKeepsSame ==
    ASSUME NEW D, NEW n, NEW k, NEW r, r.keys = k.keys, r.copies = k.copies, r.div = k.div,
           r.cells = k.cells
    PROVE  KvKeeps(D, n, k, r)
BY KvKeptSame DEF KvKeeps

\* one operation after the other
LEMMA KvKeepsBoth ==
    ASSUME NEW D, NEW n, NEW k, NEW r, NEW e, KvKeeps(D, n, k, e), KvKeeps(D, n, e, r)
    PROVE  KvKeeps(D, n, k, r)
<1>1. ASSUME NEW st \in D PROVE KvKept(0 .. n-1, k.cells[st], r.cells[st])
  <2>1. KvKept(0 .. n-1, k.cells[st], e.cells[st]) /\ KvKept(0 .. n-1, e.cells[st], r.cells[st])
    BY DEF KvKeeps
  <2>2. PICK I, a, b, c : I = 0 .. n-1 /\ a = k.cells[st] /\ b = e.cells[st] /\ c = r.cells[st]
    OBVIOUS
  <2>3. KvKept(I, a, b) /\ KvKept(I, b, c)
    BY <2>1, <2>2
  <2>4. KvKept(I, a, c)
    BY <2>3 DEF KvKept
  <2> QED BY <2>2, <2>4
<1> QED BY <1>1 DEF KvKeeps

\* one stream of the cells is replaced
LEMMA KvKeepsAt ==
    ASSUME NEW D, NEW n, NEW q, NEW k, KvCacheOK(D, n, q, k), NEW r,
           r.keys = k.keys, r.copies = k.copies, r.div = k.div,
           NEW t, NEW c, r.cells = KvAt(k.cells, t, c), KvKept(0 .. n-1, k.cells[t], c)
    PROVE  KvKeeps(D, n, k, r)
<1>1. \A st \in D : r.cells[st] = IF st = t THEN c ELSE k.cells[st]
  BY DEF KvAt, KvCacheOK, KvStreams
<1>2. \A st \in D : KvKept(0 .. n-1, k.cells[st], r.cells[st])
  BY <1>1, KvKeptSame
<1> QED BY <1>2 DEF KvKeeps

\* clear keeps a cache whose cells agree
LEMMA KvOK_clear ==
    ASSUME NEW D, NEW n \in Nat, NEW q, NEW k, KvCacheOK(D, n, q, k), NEW data
    PROVE  KvCacheOK(D, n, q, KV!clear(k, data))
<1>1. PICK r : r = KV!clear(k, data)
  OBVIOUS
<1>2. PICK C, H : /\ C = [st \in DOMAIN k.cells |-> KV!Cells!resize(KV!Cells!size(k.cells[st]))]
                  /\ H = [st \in DOMAIN k.heads |-> 0]
  OBVIOUS
<1>3. KvShape(r) /\ r.cells = C /\ r.heads = H
  BY <1>1, <1>2 DEF KvCacheOK, KvShape, KV!clear
<1>4. KvStreams(D, n, q, C)
  BY <1>2, KvSize, KvOK_resize DEF KvCacheOK, KvStreams
<1>5. H \in [D -> Nat]
  BY <1>2 DEF KvCacheOK
<1> QED BY <1>1, <1>3, <1>4, <1>5, KvCacheOf

\* seq_rm keeps a cache whose cells agree, for any range
LEMMA KvOK_seq_rm ==
    ASSUME NEW D, NEW n \in Nat, NEW q, NEW k, KvCacheOK(D, n, q, k), NEW s, NEW p0, NEW p1
    PROVE  /\ KvCacheOK(D, n, q, KV!seq_rm(k, s, p0, p1))
           /\ KvKeeps(D, n, k, KV!seq_rm(k, s, p0, p1))
<1>1. PICK r : r = KV!seq_rm(k, s, p0, p1)
  OBVIOUS
<1>2. PICK C : C = [st \in DOMAIN k.cells |->
                      IF s = -1 \/ st = KV!seq_to_stream(k, s)
                      THEN KV!LoopRm(k.cells[st], KV!Within(k.cells[st], s, p0, p1), s)
                      ELSE k.cells[st]]
  OBVIOUS
<1>3. PICK H : H = [st \in DOMAIN k.heads |-> KV!Rewound(k.heads[st], k.cells[st], C[st])]
  OBVIOUS
<1>4. /\ KvShape(r) /\ r.cells = C /\ r.heads = H
      /\ r.keys = k.keys /\ r.copies = k.copies /\ r.div = k.div
  <2>1. r = [k EXCEPT !.cells = C, !.heads = H]
    BY <1>1, <1>2, <1>3 DEF KV!seq_rm
  <2> QED BY <2>1 DEF KvCacheOK, KvShape
<1>5. KvStreams(D, n, q, k.cells) /\ DOMAIN k.heads = D /\ k.heads \in [D -> Nat]
  BY DEF KvCacheOK
<1>6. KvStreams(D, n, q, C) /\ \A st \in D : KvKept(0 .. n-1, k.cells[st], C[st])
  <2>1. ASSUME NEW st \in D
        PROVE  /\ KvCellsOK(0 .. n-1, C[st]) /\ (q => ~C[st].has_shift)
               /\ KvKept(0 .. n-1, k.cells[st], C[st])
    <3>1. PICK c : c = k.cells[st]
      OBVIOUS
    <3>2. PICK W : W = KV!Within(c, s, p0, p1)
      OBVIOUS
    <3>3. KvCellsOK(0 .. n-1, c) /\ (q => ~c.has_shift)
      BY <1>5, <3>1 DEF KvStreams
    <3>4. /\ KvCellsOK(0 .. n-1, KV!LoopRm(c, W, s)) /\ KV!LoopRm(c, W, s).has_shift = c.has_shift
          /\ KvKept(0 .. n-1, c, KV!LoopRm(c, W, s))
      BY <3>2, <3>3, KvWithin, KvOK_LoopRm
    <3>5. C[st] = c \/ C[st] = KV!LoopRm(c, W, s)
      BY <1>2, <1>5, <3>1, <3>2 DEF KvStreams
    <3> QED BY <3>1, <3>3, <3>4, <3>5, KvKeptSame
  <2> QED BY <1>2, <1>5, <2>1 DEF KvStreams
<1>7. H \in [D -> Nat]
  <2>1. \A st \in D : KvCellsOK(0 .. n-1, k.cells[st]) /\ k.heads[st] \in Nat
    BY <1>5 DEF KvStreams
  <2>2. \A st \in D : KV!Rewound(k.heads[st], k.cells[st], C[st]) \in Nat
    BY <2>1, KvRewound
  <2> QED BY <1>3, <1>5, <2>2
<1>8. KvKeeps(D, n, k, r)
  BY <1>4, <1>6 DEF KvKeeps
<1> QED BY <1>1, <1>4, <1>6, <1>7, <1>8, KvCacheOf

\* a cache in which one stream and its head are replaced, whatever becomes of the rest
LEMMA KvCacheAt ==
    ASSUME NEW D, NEW n, NEW q, NEW k, KvCacheOK(D, n, q, k), NEW r, KvShape(r), NEW t,
           NEW c, KvCellsOK(0 .. n-1, c), q => ~c.has_shift, r.cells = KvAt(k.cells, t, c),
           NEW h \in Nat, r.heads = KvAt(k.heads, t, h) \/ r.heads = k.heads
    PROVE  KvCacheOK(D, n, q, r)
<1>1. KvStreams(D, n, q, KvAt(k.cells, t, c))
  BY KvStreamsAt DEF KvCacheOK
<1>2. r.heads \in [D -> Nat]
  BY DEF KvCacheOK, KvAt
<1> QED BY <1>1, <1>2 DEF KvCacheOK

\* the stream s1 becomes a copy of s0, its keys with the next update
KvCopies(D, n, k, s0, s1, r) ==
    /\ r.keys = k.keys
    /\ r.copies = Append(k.copies, [src |-> s0, dst |-> s1, clean |-> KvYes])
    /\ r.div = KvAt(k.div, s1, k.div[s0])
    /\ \A st \in D \ {s1} : r.cells[st] = k.cells[st]
    /\ KvKept(0 .. n-1, k.cells[s0], r.cells[s1])

\* seq_cp keeps a cache whose cells agree, if within a stream the target is empty
LEMMA KvOK_seq_cp ==
    ASSUME NEW D, KvLayout(D), NEW n \in Nat, NEW k, KvCacheOK(D, n, KvNo, k),
           NEW src \in SeqIds, NEW dst \in SeqIds, NEW p0, NEW p1,
           KV!seq_to_stream(k, src) = KV!seq_to_stream(k, dst)
             => KvInNone(0 .. n-1, dst, k.cells[KV!seq_to_stream(k, dst)].seq)
    PROVE  /\ KvCacheOK(D, n, KvNo, KV!seq_cp(k, src, dst, p0, p1))
           /\ IF KV!seq_to_stream(k, src) = KV!seq_to_stream(k, dst)
              THEN KvKeeps(D, n, k, KV!seq_cp(k, src, dst, p0, p1))
              ELSE KvCopies(D, n, k, KV!seq_to_stream(k, src), KV!seq_to_stream(k, dst),
                            KV!seq_cp(k, src, dst, p0, p1))
<1>1. PICK r, no : r = KV!seq_cp(k, src, dst, p0, p1) /\ no = KvNo
  OBVIOUS
<1>2. PICK s0 \in D, s1 \in D : s0 = KV!seq_to_stream(k, src) /\ s1 = KV!seq_to_stream(k, dst)
  BY KvStream
<1>3. PICK c : c = k.cells[s0]
  OBVIOUS
<1>4. /\ KvCellsOK(0 .. n-1, c) /\ KvCellsOK(0 .. n-1, k.cells[s1])
      /\ k.heads[s0] \in Nat /\ KvShape(k)
  BY <1>2, <1>3 DEF KvCacheOK, KvStreams
<1>5. CASE s0 = s1 /\ src = dst
  BY <1>1, <1>2, <1>5, KvKeepsSame DEF KV!seq_cp
<1>6. CASE s0 = s1 /\ src # dst
  <2>1. PICK W, e : W = KV!Within(c, src, p0, p1) /\ e = KV!LoopShare(c, W, dst)
    OBVIOUS
  <2>2. r = [k EXCEPT !.cells[s0] = e]
    BY <1>1, <1>2, <1>3, <1>6, <2>1 DEF KV!seq_cp
  <2>3. /\ KvShape(r) /\ r.cells = KvAt(k.cells, s0, e) /\ r.heads = k.heads
        /\ r.keys = k.keys /\ r.copies = k.copies /\ r.div = k.div
    BY <1>4, <2>2 DEF KvShape, KvAt
  <2>4. KvCellsOK(0 .. n-1, e) /\ KvKept(0 .. n-1, c, e)
    <3>1. W \in SUBSET (0 .. n-1) /\ KvPlaced(W, c.pos)
      BY <1>4, <2>1, KvWithin
    <3>2. KvInNone(W, dst, c.seq)
      BY <1>2, <1>3, <1>6, <3>1 DEF KvInNone
    <3> QED BY <1>4, <2>1, <3>1, <3>2, KvOK_LoopShare
  <2>5. KvCacheOK(D, n, no, r)
    BY <1>1, <1>4, <2>3, <2>4, KvCacheAt DEF KvNo
  <2>6. KvKeeps(D, n, k, r)
    BY <1>3, <2>3, <2>4, KvKeepsAt
  <2> QED BY <1>1, <1>2, <1>6, <2>5, <2>6
<1>7. CASE s0 # s1
  <2>1. PICK W, e : /\ W = {i \in DOMAIN c.pos : src \in c.seq[i]}
                    /\ e = KV!LoopCopy(c, W, KV!Cells!resize(KV!Cells!size(k.cells[s1])), dst)
    OBVIOUS
  <2>2. r = [k EXCEPT !.copies = Append(@, [src |-> s0, dst |-> s1, clean |-> TRUE]),
                      !.cells[s1] = e, !.heads[s1] = k.heads[s0], !.div[s1] = k.div[s0]]
    BY <1>1, <1>2, <1>3, <1>7, <2>1 DEF KV!seq_cp
  <2>3. /\ KvShape(r) /\ r.cells = KvAt(k.cells, s1, e) /\ r.heads = KvAt(k.heads, s1, k.heads[s0])
        /\ r.keys = k.keys /\ r.div = KvAt(k.div, s1, k.div[s0])
        /\ r.copies = Append(k.copies, [src |-> s0, dst |-> s1, clean |-> KvYes])
    BY <1>4, <2>2 DEF KvShape, KvAt, KvYes
  <2>4. KvCellsOK(0 .. n-1, e) /\ KvKept(0 .. n-1, c, e)
    <3>1. DOMAIN c.pos = 0 .. n-1 /\ KV!Cells!size(k.cells[s1]) = n
      BY <1>4, KvSize
    <3>2. W \in SUBSET (0 .. n-1)
      BY <2>1, <3>1
    <3>3. \A i \in 0 .. n-1 : c.pos[i] \in Int /\ c.pos[i] >= -1 /\ (c.pos[i] = -1 <=> c.seq[i] = {})
      BY <1>4 DEF KvCellsOK, KvCellsHold, KvData
    <3>4. KvPlaced(W, c.pos)
      BY <2>1, <3>1, <3>3 DEF KvPlaced
    <3> QED BY <1>4, <2>1, <3>1, <3>2, <3>4, KvOK_LoopCopy
  <2>5. KvCacheOK(D, n, no, r)
    BY <1>1, <1>4, <2>3, <2>4, KvCacheAt DEF KvNo
  <2>6. KvCopies(D, n, k, s0, s1, r)
    <3>1. \A st \in D : r.cells[st] = IF st = s1 THEN e ELSE k.cells[st]
      BY <2>3 DEF KvAt, KvCacheOK, KvStreams
    <3> QED BY <1>2, <1>3, <2>3, <2>4, <3>1 DEF KvCopies
  <2> QED BY <1>1, <1>2, <1>7, <2>5, <2>6
<1> QED BY <1>1, <1>5, <1>6, <1>7

\* seq_keep keeps a cache whose cells agree
LEMMA KvOK_seq_keep ==
    ASSUME NEW D, KvLayout(D), NEW n \in Nat, NEW k, KvCacheOK(D, n, KvNo, k), NEW s \in SeqIds
    PROVE  /\ KvCacheOK(D, n, KvNo, KV!seq_keep(k, s))
           /\ KvKeeps(D, n, k, KV!seq_keep(k, s))
<1>1. PICK r, no : r = KV!seq_keep(k, s) /\ no = KvNo
  OBVIOUS
<1>2. PICK t \in D : t = KV!seq_to_stream(k, s)
  BY KvStream
<1>3. PICK c, h : c = k.cells[t] /\ h = k.heads[t]
  OBVIOUS
<1>4. KvCellsOK(0 .. n-1, c) /\ h \in Nat /\ KvShape(k)
  BY <1>2, <1>3 DEF KvCacheOK, KvStreams
<1>5. PICK e : e = KV!LoopKeep(c, DOMAIN c.pos, s)
  OBVIOUS
<1>6. KvCellsOK(0 .. n-1, e) /\ KvKept(0 .. n-1, c, e)
  <2>1. DOMAIN c.pos = 0 .. n-1
    BY <1>4, KvSize
  <2> QED BY <1>4, <1>5, <2>1, KvOK_LoopKeep
<1>7. PICK g : g = KV!Rewound(h, c, e)
  OBVIOUS
<1>8. g \in Nat
  BY <1>4, <1>7, KvRewound
<1>9. r = [k EXCEPT !.cells[t] = e, !.heads[t] = KV!Rewound(@, c, e)]
  BY <1>1, <1>2, <1>3, <1>5 DEF KV!seq_keep
<1>10. /\ KvShape(r) /\ r.cells = KvAt(k.cells, t, e) /\ r.heads = KvAt(k.heads, t, g)
       /\ r.keys = k.keys /\ r.copies = k.copies /\ r.div = k.div
  BY <1>2, <1>3, <1>4, <1>7, <1>9 DEF KvShape, KvAt
<1>11. KvCacheOK(D, n, no, r)
  BY <1>1, <1>6, <1>8, <1>10, KvCacheAt DEF KvNo
<1>12. KvKeeps(D, n, k, r)
  BY <1>3, <1>6, <1>10, KvKeepsAt
<1> QED BY <1>1, <1>11, <1>12

\* seq_add keeps a cache whose cells agree, for any shift
LEMMA KvOK_seq_add ==
    ASSUME NEW D, KvLayout(D), NEW n \in Nat, NEW k, KvCacheOK(D, n, KvNo, k), NEW s \in SeqIds,
           NEW p0, NEW p1, NEW shift \in Int
    PROVE  /\ KvCacheOK(D, n, KvNo, KV!seq_add(k, s, p0, p1, shift))
           /\ KvKeeps(D, n, k, KV!seq_add(k, s, p0, p1, shift))
<1>1. PICK r, no : r = KV!seq_add(k, s, p0, p1, shift) /\ no = KvNo
  OBVIOUS
<1>2. PICK t \in D : t = KV!seq_to_stream(k, s)
  BY KvStream
<1>3. PICK c, W : c = k.cells[t] /\ W = KV!Within(c, s, p0, p1)
  OBVIOUS
<1>4. KvCellsOK(0 .. n-1, c) /\ KvShape(k)
  BY <1>2, <1>3 DEF KvCacheOK, KvStreams
<1>5. PICK e : e = KV!LoopAdd(c, W, shift)
  OBVIOUS
<1>6. KvCellsOK(0 .. n-1, e) /\ KvKept(0 .. n-1, c, e)
  BY <1>3, <1>4, <1>5, KvWithin, KvOK_LoopAdd
<1>7. PICK F : F = KV!Freed(c, e)
  OBVIOUS
<1>8. PICK g : g = IF F = {} THEN 0 ELSE KV!Min(F)
  OBVIOUS
<1>9. g \in Nat
  <2>0. IsFiniteSet(0 .. n-1)
    BY <1>4 DEF KvCellsOK, KvCellsHold, KvData
  <2>1. F \in SUBSET (0 .. n-1)
    BY <1>4, <1>7, KvSize DEF KV!Freed
  <2>2. IsFiniteSet(F)
    BY <2>0, <2>1, FS_Subset
  <2>4. F \in SUBSET Int /\ F \subseteq Nat
    BY <2>1
  <2>3. F # {} => KV!Min(F) \in F
    BY <2>2, <2>4, KvMin
  <2> QED BY <1>8, <2>3, <2>4
<1>10. r = k \/ r = [k EXCEPT !.cells[t] = e, !.heads[t] = g]
  BY <1>1, <1>2, <1>3, <1>5, <1>7, <1>8 DEF KV!seq_add
<1>11. CASE r = [k EXCEPT !.cells[t] = e, !.heads[t] = g]
  <2>1. /\ KvShape(r) /\ r.cells = KvAt(k.cells, t, e) /\ r.heads = KvAt(k.heads, t, g)
        /\ r.keys = k.keys /\ r.copies = k.copies /\ r.div = k.div
    BY <1>4, <1>11 DEF KvShape, KvAt
  <2>2. KvCacheOK(D, n, no, r)
    BY <1>1, <1>6, <1>9, <2>1, KvCacheAt DEF KvNo
  <2>3. KvKeeps(D, n, k, r)
    BY <1>3, <1>6, <2>1, KvKeepsAt
  <2> QED BY <1>1, <2>2, <2>3
<1> QED BY <1>1, <1>10, <1>11, KvKeepsSame

\* cells whose position was divided are kept apart
KvDivides(D, n, k, r) ==
    /\ r.keys = k.keys /\ r.copies = k.copies
    /\ DOMAIN r.div = DOMAIN k.div
    /\ \A st \in D : /\ k.div[st] \subseteq r.div[st]
                     /\ KvKept((0 .. n-1) \ r.div[st], k.cells[st], r.cells[st])

\* seq_div keeps a cache whose cells agree, for any divisor
LEMMA KvOK_seq_div ==
    ASSUME NEW D, KvLayout(D), NEW n \in Nat, NEW k, KvCacheOK(D, n, KvNo, k), NEW s \in SeqIds,
           NEW p0, NEW p1, NEW d \in Nat \ {0}
    PROVE  /\ KvCacheOK(D, n, KvNo, KV!seq_div(k, s, p0, p1, d))
           /\ DOMAIN k.div = D => KvDivides(D, n, k, KV!seq_div(k, s, p0, p1, d))
<1>1. PICK r, no : r = KV!seq_div(k, s, p0, p1, d) /\ no = KvNo
  OBVIOUS
<1>2. PICK t \in D : t = KV!seq_to_stream(k, s)
  BY KvStream
<1>3. PICK c, W : c = k.cells[t] /\ W = KV!Within(c, s, p0, p1)
  OBVIOUS
<1>4. KvCellsOK(0 .. n-1, c) /\ KvShape(k)
  BY <1>2, <1>3 DEF KvCacheOK, KvStreams
<1>5. PICK e : e = KV!LoopDiv(c, W, d)
  OBVIOUS
<1>6. KvCellsOK(0 .. n-1, e) /\ KvKept((0 .. n-1) \ W, c, e)
  BY <1>3, <1>4, <1>5, KvWithin, KvOK_LoopDiv
<1>10. r = k \/ r = [k EXCEPT !.cells[t] = e, !.div[t] = @ \cup W]
  BY <1>1, <1>2, <1>3, <1>5 DEF KV!seq_div
<1>11. CASE r = [k EXCEPT !.cells[t] = e, !.div[t] = @ \cup W]
  <2>1. /\ KvShape(r) /\ r.cells = KvAt(k.cells, t, e) /\ r.heads = k.heads
        /\ r.keys = k.keys /\ r.copies = k.copies /\ r.div = KvAt(k.div, t, k.div[t] \cup W)
    BY <1>4, <1>11 DEF KvShape, KvAt
  <2>2. KvCacheOK(D, n, no, r)
    <3>1. PICK h \in Nat : h = 0
      OBVIOUS
    <3> QED BY <1>1, <1>6, <2>1, <3>1, KvCacheAt DEF KvNo
  <2>3. DOMAIN k.div = D =>
          \A st \in D : /\ r.cells[st] = IF st = t THEN e ELSE k.cells[st]
                       /\ r.div[st] = IF st = t THEN k.div[t] \cup W ELSE k.div[st]
    BY <2>1 DEF KvAt, KvCacheOK, KvStreams
  <2>4. ASSUME DOMAIN k.div = D, NEW st \in D
        PROVE  KvKept((0 .. n-1) \ r.div[st], k.cells[st], r.cells[st])
    <3>1. CASE st = t
      <4>1. r.div[st] = k.div[t] \cup W /\ r.cells[st] = e /\ k.cells[st] = c
        BY <1>3, <2>3, <2>4, <3>1
      <4> QED BY <1>6, <4>1 DEF KvKept
    <3>2. CASE st # t
      BY <2>3, <2>4, <3>2, KvKeptSame
    <3> QED BY <3>1, <3>2
  <2>5. DOMAIN k.div = D => DOMAIN r.div = DOMAIN k.div /\ \A st \in D : k.div[st] \subseteq r.div[st]
    BY <2>1, <2>3 DEF KvAt
  <2>6. DOMAIN k.div = D => KvDivides(D, n, k, r)
    BY <2>1, <2>4, <2>5 DEF KvDivides
  <2> QED BY <1>1, <2>2, <2>6
<1>12. CASE r = k
  <2>1. \A st \in D : KvKept((0 .. n-1) \ k.div[st], k.cells[st], k.cells[st])
    BY KvKeptSame
  <2> QED BY <1>1, <1>12, <2>1 DEF KvDivides
<1> QED BY <1>1, <1>10, <1>11, <1>12

-----------------------------------------------------------------------------
(***************************************************************************)
(* A fold over a finite set exists: it can be computed for the sets of at  *)
(* most m elements, for one m after the other.                             *)
(***************************************************************************)
KvSmall(S, m) == {T \in SUBSET S : Cardinality(T) <= m}

KvFirst(T) == CHOOSE x \in T : TRUE

\* taking the first element away gives a smaller set
LEMMA KvSmaller ==
    ASSUME NEW S, IsFiniteSet(S), NEW m \in Nat
    PROVE  /\ KvSmall(S, m) \subseteq KvSmall(S, m+1)
           /\ {} \in KvSmall(S, m)
           /\ \A T \in KvSmall(S, m+1) : T # {} => T \ {KvFirst(T)} \in KvSmall(S, m)
           /\ \A T \in KvSmall(S, m) : T # {} => T \ {KvFirst(T)} \in KvSmall(S, m)
<1>1. \A T \in SUBSET S : IsFiniteSet(T) /\ Cardinality(T) \in Nat
  BY FS_Subset, FS_CardinalityType
<1>2. \A T \in SUBSET S : T # {} => /\ KvFirst(T) \in T /\ T \ {KvFirst(T)} \in SUBSET S
                                    /\ Cardinality(T \ {KvFirst(T)}) = Cardinality(T) - 1
  BY <1>1, FS_RemoveElement DEF KvFirst
<1> QED BY <1>1, <1>2, FS_EmptySet DEF KvSmall

\* a set of numbers that is not empty has a least one
LEMMA KvLeastNat ==
    ASSUME NEW S \in SUBSET Nat, S # {}
    PROVE  \E m \in S : \A l \in S : m <= l
<1>1. PICK R : R = OpToRel(<, Nat)
  OBVIOUS
<1>2. IsWellFoundedOn(R, Nat)
  BY <1>1, NatLessThanWellFounded
<1>3. PICK m \in S : \A l \in S : ~(<<l, m>> \in R)
  BY <1>2, WFMin, Zenon
<1>4. \A l \in S : ~(l < m)
  BY <1>1, <1>3 DEF OpToRel
<1> QED BY <1>4

\* f folds from base on, for the sets of the domain F
KvTruncates(k, from, F, f) ==
    /\ DOMAIN f = F
    /\ \A T \in F : f[T] = IF T = {} THEN k
                           ELSE KV!seq_rm(f[T \ {KvFirst(T)}], KvFirst(T), from[KvFirst(T)], -1)

KvPurges(k, pos, F, f) ==
    /\ DOMAIN f = F
    /\ \A T \in F : f[T] = IF T = {} THEN k
                           ELSE KV!Purge(f[T \ {KvFirst(T)}], KvFirst(T), pos[KvFirst(T)])

\* the fold over the sequences of a failed micro batch is defined
LEMMA KvTruncatesExists ==
    ASSUME NEW S, IsFiniteSet(S), NEW k, NEW from
    PROVE  \A m \in Nat : \E f : KvTruncates(k, from, KvSmall(S, m), f)
<1>1. PICK Bad : Bad = {m \in Nat : ~ \E f : KvTruncates(k, from, KvSmall(S, m), f)}
  OBVIOUS
<1>2. SUFFICES ASSUME Bad # {} PROVE FALSE
  BY <1>1
<1>3. PICK m \in Bad : \A l \in Bad : m <= l
  BY <1>1, <1>2, KvLeastNat
<1>4. CASE m = 0
  <2>1. PICK f : f = [T \in KvSmall(S, 0) |-> k]
    OBVIOUS
  <2>2. \A T \in KvSmall(S, 0) : T = {}
    BY FS_Subset, FS_EmptySet, FS_CardinalityType DEF KvSmall
  <2>3. KvTruncates(k, from, KvSmall(S, 0), f)
    BY <2>1, <2>2 DEF KvTruncates
  <2> QED BY <1>1, <1>4, <2>3
<1>5. CASE m # 0
  <2>1. PICK l \in Nat : m = l + 1
    <3>1. m - 1 \in Nat /\ m = (m - 1) + 1
      BY <1>1, <1>5
    <3> QED BY <3>1
  <2>2. l \notin Bad
    BY <1>1, <1>3, <2>1
  <2>3. PICK f : KvTruncates(k, from, KvSmall(S, l), f)
    BY <1>1, <2>2
  <2>4. PICK g : g = [T \in KvSmall(S, m) |->
                        IF T = {} THEN k
                        ELSE KV!seq_rm(f[T \ {KvFirst(T)}], KvFirst(T), from[KvFirst(T)], -1)]
    OBVIOUS
  <2>5. \A T \in KvSmall(S, l) : g[T] = f[T]
    BY <2>1, <2>3, <2>4, KvSmaller DEF KvTruncates
  <2>6. \A T \in KvSmall(S, m) : T # {} => g[T \ {KvFirst(T)}] = f[T \ {KvFirst(T)}]
    BY <2>1, <2>5, KvSmaller
  <2>7. KvTruncates(k, from, KvSmall(S, m), g)
    BY <2>4, <2>6 DEF KvTruncates
  <2> QED BY <1>1, <2>7
<1> QED BY <1>4, <1>5

\* the fold over the purged sequences is defined
LEMMA KvPurgesExists ==
    ASSUME NEW S, IsFiniteSet(S), NEW k, NEW pos
    PROVE  \A m \in Nat : \E f : KvPurges(k, pos, KvSmall(S, m), f)
<1>1. PICK Bad : Bad = {m \in Nat : ~ \E f : KvPurges(k, pos, KvSmall(S, m), f)}
  OBVIOUS
<1>2. SUFFICES ASSUME Bad # {} PROVE FALSE
  BY <1>1
<1>3. PICK m \in Bad : \A l \in Bad : m <= l
  BY <1>1, <1>2, KvLeastNat
<1>4. CASE m = 0
  <2>1. PICK f : f = [T \in KvSmall(S, 0) |-> k]
    OBVIOUS
  <2>2. \A T \in KvSmall(S, 0) : T = {}
    BY FS_Subset, FS_EmptySet, FS_CardinalityType DEF KvSmall
  <2>3. KvPurges(k, pos, KvSmall(S, 0), f)
    BY <2>1, <2>2 DEF KvPurges
  <2> QED BY <1>1, <1>4, <2>3
<1>5. CASE m # 0
  <2>1. PICK l \in Nat : m = l + 1
    <3>1. m - 1 \in Nat /\ m = (m - 1) + 1
      BY <1>1, <1>5
    <3> QED BY <3>1
  <2>2. l \notin Bad
    BY <1>1, <1>3, <2>1
  <2>3. PICK f : KvPurges(k, pos, KvSmall(S, l), f)
    BY <1>1, <2>2
  <2>4. PICK g : g = [T \in KvSmall(S, m) |->
                        IF T = {} THEN k
                        ELSE KV!Purge(f[T \ {KvFirst(T)}], KvFirst(T), pos[KvFirst(T)])]
    OBVIOUS
  <2>5. \A T \in KvSmall(S, l) : g[T] = f[T]
    BY <2>1, <2>3, <2>4, KvSmaller DEF KvPurges
  <2>6. \A T \in KvSmall(S, m) : T # {} => g[T \ {KvFirst(T)}] = f[T \ {KvFirst(T)}]
    BY <2>1, <2>5, KvSmaller
  <2>7. KvPurges(k, pos, KvSmall(S, m), g)
    BY <2>4, <2>6 DEF KvPurges
  <2> QED BY <1>1, <2>7
<1> QED BY <1>4, <1>5

\* all subsets of a finite set are small enough
LEMMA KvAllSmall ==
    ASSUME NEW S, IsFiniteSet(S)
    PROVE  KvSmall(S, Cardinality(S)) = SUBSET S /\ Cardinality(S) \in Nat
<1>1. \A T \in SUBSET S : Cardinality(T) <= Cardinality(S)
  BY FS_Subset
<1> QED BY <1>1, FS_CardinalityType DEF KvSmall

\* a cache's cells agree after the positions of a failed micro batch are removed
LEMMA KvOK_LoopTruncate ==
    ASSUME NEW D, NEW n \in Nat, NEW q, NEW k, KvCacheOK(D, n, q, k), NEW from, IsFiniteSet(DOMAIN from)
    PROVE  /\ KvCacheOK(D, n, q, KV!LoopTruncate(k, from))
           /\ KvKeeps(D, n, k, KV!LoopTruncate(k, from))
<1>1. PICK S : S = DOMAIN from
  OBVIOUS
<1>0. IsFiniteSet(S)
  BY <1>1
<1> DEFINE Eq(g) == [T \in SUBSET S |->
             IF T = {} THEN k
             ELSE KV!seq_rm(g[T \ {CHOOSE x \in T : TRUE}], CHOOSE x \in T : TRUE,
                            from[CHOOSE x \in T : TRUE], -1)]
<1>2. PICK V : V = Eq(V)
  <2>1. PICK f : KvTruncates(k, from, SUBSET S, f)
    <3>1. KvSmall(S, Cardinality(S)) = SUBSET S /\ Cardinality(S) \in Nat
      BY <1>0, KvAllSmall
    <3>2. \A m \in Nat : \E f : KvTruncates(k, from, KvSmall(S, m), f)
      BY <1>0, KvTruncatesExists
    <3> QED BY <3>1, <3>2
  <2>2. PICK V : V = [T \in SUBSET S |-> f[T]]
    OBVIOUS
  <2>3. \A T \in SUBSET S : T # {} => T \ {CHOOSE x \in T : TRUE} \in SUBSET S
    OBVIOUS
  <2>4. V = Eq(V)
    BY <2>1, <2>2, <2>3 DEF KvTruncates, KvFirst
  <2> QED BY <2>4
<1>3. PICK f : f = CHOOSE g : g = Eq(g)
  OBVIOUS
<1>4. f = Eq(f)
  <2> HIDE DEF Eq
  <2> QED BY <1>2, <1>3, Zenon
<1>5. PICK Good : Good = {T \in SUBSET S : KvCacheOK(D, n, q, f[T]) /\ KvKeeps(D, n, k, f[T])}
  OBVIOUS
<1>6. ASSUME NEW T \in SUBSET S, \A x \in T : T \ {x} \in Good
      PROVE  T \in Good
  <2>1. CASE T = {}
    BY <1>4, <1>5, <2>1, KvKeepsSame
  <2>2. CASE T # {}
    <3>1. PICK x \in T : x = CHOOSE y \in T : TRUE
      BY <2>2
    <3>2. f[T] = KV!seq_rm(f[T \ {x}], x, from[x], -1)
      BY <1>4, <2>2, <3>1
    <3>3. KvCacheOK(D, n, q, f[T \ {x}]) /\ KvKeeps(D, n, k, f[T \ {x}])
      BY <1>5, <1>6
    <3>4. KvCacheOK(D, n, q, f[T]) /\ KvKeeps(D, n, f[T \ {x}], f[T])
      BY <3>2, <3>3, KvOK_seq_rm
    <3>5. KvKeeps(D, n, k, f[T])
      BY <3>3, <3>4, KvKeepsBoth
    <3> QED BY <1>5, <3>4, <3>5
  <2> QED BY <2>1, <2>2
<1>7. S \in Good
  <2>1. \A T \in SUBSET S : T \in Good
    BY <1>0, <1>6, KvSetInduction, Zenon
  <2> QED BY <2>1
<1>8. KV!LoopTruncate(k, from) = f[S]
  BY <1>1, <1>3, Zenon DEF KV!LoopTruncate, KV!FoldSet, KV!MapThenFoldSet
<1> QED BY <1>5, <1>7, <1>8

\* a cache's cells agree after the purge of one sequence
LEMMA KvOK_Purge ==
    ASSUME NEW D, NEW n \in Nat, NEW q, NEW k, KvCacheOK(D, n, q, k), NEW s, NEW pos
    PROVE  /\ KvCacheOK(D, n, q, KV!Purge(k, s, pos))
           /\ KvKeeps(D, n, k, KV!Purge(k, s, pos))
<1>1. KV!Purge(k, s, pos) = k \/ KV!Purge(k, s, pos) = KV!seq_rm(k, s, KV!seq_pos_min(k, s), pos + 1)
  BY DEF KV!Purge
<1> QED BY <1>1, KvOK_seq_rm, KvKeepsSame

\* a cache's cells agree after the purge of apply_ubatch
LEMMA KvOK_LoopPurge ==
    ASSUME NEW D, NEW n \in Nat, NEW q, NEW k, KvCacheOK(D, n, q, k), NEW pos, IsFiniteSet(DOMAIN pos)
    PROVE  /\ KvCacheOK(D, n, q, KV!LoopPurge(k, pos))
           /\ KvKeeps(D, n, k, KV!LoopPurge(k, pos))
<1>1. PICK S : S = DOMAIN pos
  OBVIOUS
<1>0. IsFiniteSet(S)
  BY <1>1
<1> DEFINE Eq(g) == [T \in SUBSET S |->
             IF T = {} THEN k
             ELSE KV!Purge(g[T \ {CHOOSE x \in T : TRUE}], CHOOSE x \in T : TRUE,
                           pos[CHOOSE x \in T : TRUE])]
<1>2. PICK V : V = Eq(V)
  <2>1. PICK f : KvPurges(k, pos, SUBSET S, f)
    <3>1. KvSmall(S, Cardinality(S)) = SUBSET S /\ Cardinality(S) \in Nat
      BY <1>0, KvAllSmall
    <3>2. \A m \in Nat : \E f : KvPurges(k, pos, KvSmall(S, m), f)
      BY <1>0, KvPurgesExists
    <3> QED BY <3>1, <3>2
  <2>2. PICK V : V = [T \in SUBSET S |-> f[T]]
    OBVIOUS
  <2>3. \A T \in SUBSET S : T # {} => T \ {CHOOSE x \in T : TRUE} \in SUBSET S
    OBVIOUS
  <2>4. V = Eq(V)
    BY <2>1, <2>2, <2>3 DEF KvPurges, KvFirst
  <2> QED BY <2>4
<1>3. PICK f : f = CHOOSE g : g = Eq(g)
  OBVIOUS
<1>4. f = Eq(f)
  <2> HIDE DEF Eq
  <2> QED BY <1>2, <1>3, Zenon
<1>5. PICK Good : Good = {T \in SUBSET S : KvCacheOK(D, n, q, f[T]) /\ KvKeeps(D, n, k, f[T])}
  OBVIOUS
<1>6. ASSUME NEW T \in SUBSET S, \A x \in T : T \ {x} \in Good
      PROVE  T \in Good
  <2>1. CASE T = {}
    BY <1>4, <1>5, <2>1, KvKeepsSame
  <2>2. CASE T # {}
    <3>1. PICK x \in T : x = CHOOSE y \in T : TRUE
      BY <2>2
    <3>2. f[T] = KV!Purge(f[T \ {x}], x, pos[x])
      BY <1>4, <2>2, <3>1
    <3>3. KvCacheOK(D, n, q, f[T \ {x}]) /\ KvKeeps(D, n, k, f[T \ {x}])
      BY <1>5, <1>6
    <3>4. KvCacheOK(D, n, q, f[T]) /\ KvKeeps(D, n, f[T \ {x}], f[T])
      BY <3>2, <3>3, KvOK_Purge
    <3>5. KvKeeps(D, n, k, f[T])
      BY <3>3, <3>4, KvKeepsBoth
    <3> QED BY <1>5, <3>4, <3>5
  <2> QED BY <2>1, <2>2
<1>7. S \in Good
  <2>1. \A T \in SUBSET S : T \in Good
    BY <1>0, <1>6, KvSetInduction, Zenon
  <2> QED BY <2>1
<1>8. KV!LoopPurge(k, pos) = f[S]
  BY <1>1, <1>3, Zenon DEF KV!LoopPurge, KV!FoldSet, KV!MapThenFoldSet
<1> QED BY <1>5, <1>7, <1>8

-----------------------------------------------------------------------------
(***************************************************************************)
(* Micro batches and their slots.                                          *)
(***************************************************************************)
KvUbatch(D, ub) ==
    /\ DOMAIN ub \subseteq D
    /\ \A st \in DOMAIN ub : ub[st] \in Seq(KvToken) /\ ub[st] # << >>

\* as many cells as tokens, all different
KvCellsFound(n, m, slot) == slot \in [1 .. m -> 0 .. n-1] /\ KvInto(0 .. n-1, 1 .. m, slot)

KvSlots(n, ub, slots) ==
    /\ DOMAIN slots = DOMAIN ub
    /\ \A st \in DOMAIN ub : KvCellsFound(n, Len(ub[st]), slots[st])

\* the cells that are found for a stream exist and are all different
LEMMA KvOK_SlotIn ==
    ASSUME NEW n \in Nat, NEW c, KvCellsOK(0 .. n-1, c), NEW swa, NEW head \in Nat, NEW m \in Nat \ {0},
           KV!SlotIn(swa, c, head, m) # KV!NoSlot
    PROVE  KvCellsFound(n, m, KV!SlotIn(swa, c, head, m))
<1>1. PICK slot : slot = KV!SlotIn(swa, c, head, m)
  OBVIOUS
<1>2. PICK from : from = IF head > KV!Cardinality(c.used) + 2 * m THEN 0 ELSE head
  OBVIOUS
<1>3. from \in Nat
  BY <1>2
<1>4. PICK free : free = {j \in 0 .. n-1 : KV!can_use(swa, c, (from + j) % n)}
  OBVIOUS
<1>5. KV!Cells!size(c) = n
  BY KvSize
<1>6. slot = IF KV!Cardinality(free) < m THEN KV!NoSlot
             ELSE [x \in 1 .. m |-> (from + KV!Nth(free, x)) % n]
  BY <1>1, <1>2, <1>4, <1>5 DEF KV!SlotIn
<1>7. IsFiniteSet(0 .. n-1)
  BY DEF KvCellsOK, KvCellsHold, KvData
<1>8. IsFiniteSet(free)
  BY <1>4, <1>7, FS_Subset
<1>9. free \in SUBSET Int /\ free \subseteq 0 .. n-1
  BY <1>4
<1>10. PICK l \in Nat : l = Cardinality(free)
  BY <1>8, FS_CardinalityType
<1>11. l >= m /\ slot = [x \in 1 .. m |-> (from + KV!Nth(free, x)) % n]
  BY <1>1, <1>6, <1>10, KvCache_Cardinality
<1>12. \A x \in 1 .. m : KV!Nth(free, x) \in free /\ KvRank(free, KV!Nth(free, x)) = x
  <2> TAKE x \in 1 .. m
  <2>1. x \in 1 .. Cardinality(free)
    BY <1>10, <1>11
  <2> QED BY <1>8, <1>9, <2>1, KvNth
<1>13. n \in Nat \ {0}
  <2>1. 1 \in 1 .. m
    OBVIOUS
  <2>2. PICK x : x = KV!Nth(free, 1)
    OBVIOUS
  <2>3. x \in free
    BY <1>12, <2>1, <2>2
  <2> QED BY <1>9, <2>3
<1>14. \A x \in 1 .. m : slot[x] \in 0 .. n-1
  <2> TAKE x \in 1 .. m
  <2>1. PICK j \in 0 .. n-1 : j = KV!Nth(free, x)
    BY <1>9, <1>12
  <2>2. slot[x] = (from + j) % n /\ from + j \in Nat
    BY <1>3, <1>11, <2>1
  <2> QED BY <1>13, <2>2
<1>15. \A x, y \in 1 .. m : slot[x] = slot[y] => x = y
  <2> TAKE x, y \in 1 .. m
  <2>1. PICK i \in 0 .. n-1, j \in 0 .. n-1 : i = KV!Nth(free, x) /\ j = KV!Nth(free, y)
    BY <1>9, <1>12
  <2>2. slot[x] = (from + i) % n /\ slot[y] = (from + j) % n
    BY <1>11, <2>1
  <2>3. slot[x] = slot[y] => i = j
    BY <1>3, <1>13, <2>2, KvRoundTheEnd
  <2>4. i = j => x = y
    BY <1>12, <2>1
  <2> QED BY <2>3, <2>4
<1>16. IsFiniteSet(1 .. m)
  BY FS_Interval
<1> QED BY <1>1, <1>11, <1>14, <1>15, <1>16 DEF KvCellsFound, KvInto

\* the tokens of a stream, counted
LEMMA KvTokens_Len ==
    ASSUME NEW toks \in Seq(KvToken), toks # << >>
    PROVE  /\ Len(toks) \in Nat \ {0} /\ DOMAIN toks = 1 .. Len(toks)
           /\ \A j \in 1 .. Len(toks) : toks[j] \in KvToken
OBVIOUS

\* find_slot gives every token a cell of its own, or nothing
LEMMA KvOK_find_slot ==
    ASSUME NEW D, NEW n \in Nat, NEW q, NEW k, KvCacheOK(D, n, q, k), NEW ub, KvUbatch(D, ub),
           KV!find_slot(k, ub) # KV!NoSlot
    PROVE  KvSlots(n, ub, KV!find_slot(k, ub))
<1>1. PICK slots : slots = KV!find_slot(k, ub)
  OBVIOUS
<1>2. PICK slot : slot = [st \in DOMAIN ub |-> KV!SlotIn(k.swa, k.cells[st], k.heads[st], Len(ub[st]))]
  OBVIOUS
<1>3. slots = slot /\ \A st \in DOMAIN ub : slot[st] # KV!NoSlot
  BY <1>1, <1>2 DEF KV!find_slot
<1>4. ASSUME NEW st \in DOMAIN ub PROVE KvCellsFound(n, Len(ub[st]), slot[st])
  <2>1. st \in D /\ Len(ub[st]) \in Nat \ {0}
    BY KvTokens_Len DEF KvUbatch
  <2>2. KvCellsOK(0 .. n-1, k.cells[st]) /\ k.heads[st] \in Nat
    BY <2>1 DEF KvCacheOK, KvStreams
  <2>3. slot[st] = KV!SlotIn(k.swa, k.cells[st], k.heads[st], Len(ub[st]))
    BY <1>2
  <2> QED BY <1>3, <2>1, <2>2, <2>3, KvOK_SlotIn
<1> QED BY <1>1, <1>2, <1>3, <1>4 DEF KvSlots

\* in the streams of ub the cells slots have taken what is in new
KvTakes(D, n, ub, slots, new, k, r) ==
    /\ r.keys = k.keys /\ r.copies = k.copies /\ r.div = k.div
    /\ \A st \in DOMAIN ub :
          KvTaken(0 .. n-1, 1 .. Len(ub[st]), slots[st], new[st], k.cells[st], r.cells[st])
    /\ \A st \in D \ DOMAIN ub : r.cells[st] = k.cells[st]

\* the tokens of ub have taken the cells slots, then some cells were removed
KvApplies(D, n, ub, slots, k, r) ==
    \E e : KvTakes(D, n, ub, slots, ub, k, e) /\ KvKeeps(D, n, e, r)

\* apply_ubatch keeps a cache whose cells agree
LEMMA KvOK_apply_ubatch ==
    ASSUME NEW D, NEW n \in Nat, NEW q, NEW k, KvCacheOK(D, n, q, k), NEW ub, KvUbatch(D, ub),
           NEW slots, KvSlots(n, ub, slots)
    PROVE  /\ KvCacheOK(D, n, q, KV!apply_ubatch(k, slots, ub))
           /\ KvApplies(D, n, ub, slots, k, KV!apply_ubatch(k, slots, ub))
<1>1. PICK r : r = KV!apply_ubatch(k, slots, ub)
  OBVIOUS
<1>2. PICK e : e = KV!Emplace(k, slots, ub)
  OBVIOUS
<1>3. KvCacheOK(D, n, q, e) /\ KvTakes(D, n, ub, slots, ub, k, e)
  <2>1. PICK C : C = [st \in DOMAIN k.cells |->
                        IF st \in DOMAIN ub THEN KV!LoopPut(k.cells[st], slots[st], ub[st]) ELSE k.cells[st]]
    OBVIOUS
  <2>2. /\ KvShape(e) /\ e.cells = C /\ e.heads = k.heads
        /\ e.keys = k.keys /\ e.copies = k.copies /\ e.div = k.div
    BY <1>2, <2>1 DEF KvCacheOK, KvShape, KV!Emplace
  <2>3. ASSUME NEW st \in D
        PROVE  /\ KvCellsOK(0 .. n-1, C[st]) /\ (q => ~C[st].has_shift)
               /\ st \in DOMAIN ub => KvTaken(0 .. n-1, 1 .. Len(ub[st]), slots[st], ub[st], k.cells[st], C[st])
               /\ st \notin DOMAIN ub => C[st] = k.cells[st]
    <3>1. PICK c : c = k.cells[st]
      OBVIOUS
    <3>2. KvCellsOK(0 .. n-1, c) /\ (q => ~c.has_shift) /\ DOMAIN k.cells = D
      BY <3>1 DEF KvCacheOK, KvStreams
    <3>3. CASE st \in DOMAIN ub
      <4>1. PICK toks, idxs : toks = ub[st] /\ idxs = slots[st]
        OBVIOUS
      <4>2. toks \in Seq(KvToken) /\ toks # << >>
        BY <3>3, <4>1 DEF KvUbatch
      <4>3. KvInto(0 .. n-1, 1 .. Len(toks), idxs)
        BY <3>3, <4>1 DEF KvSlots, KvCellsFound
      <4>4. /\ KvCellsOK(0 .. n-1, KV!LoopPut(c, idxs, toks)) /\ KV!LoopPut(c, idxs, toks).has_shift = c.has_shift
            /\ KvTaken(0 .. n-1, 1 .. Len(toks), idxs, toks, c, KV!LoopPut(c, idxs, toks))
        BY <3>2, <4>2, <4>3, KvTokens_Len, KvOK_LoopPut
      <4>5. C[st] = KV!LoopPut(c, idxs, toks)
        BY <2>1, <3>1, <3>2, <3>3, <4>1
      <4> QED BY <3>1, <3>2, <3>3, <4>1, <4>4, <4>5
    <3>4. CASE st \notin DOMAIN ub
      BY <2>1, <3>1, <3>2, <3>4
    <3> QED BY <3>3, <3>4
  <2>4. KvStreams(D, n, q, C)
    BY <2>1, <2>3 DEF KvCacheOK, KvStreams
  <2>5. KvTakes(D, n, ub, slots, ub, k, e)
    <3>1. DOMAIN ub \subseteq D
      BY DEF KvUbatch
    <3> QED BY <2>2, <2>3, <3>1 DEF KvTakes
  <2> QED BY <2>2, <2>4, <2>5 DEF KvCacheOK
<1>4. PICK max_rm : max_rm = [s \in SeqIds |-> KV!seq_pos_max_rm(k, slots, s)]
  OBVIOUS
<1>5. PICK p : p = KV!LoopPurge(e, max_rm)
  OBVIOUS
<1>6. KvCacheOK(D, n, q, p) /\ KvKeeps(D, n, e, p)
  <2>1. IsFiniteSet(SeqIds)
    BY KvAssumption, FS_Interval DEF SeqIds
  <2>2. IsFiniteSet(DOMAIN max_rm)
    BY <1>4, <2>1
  <2> QED BY <1>3, <1>5, <2>2, KvOK_LoopPurge
<1>7. PICK H : H = [st \in DOMAIN k.heads |-> IF st \in DOMAIN slots THEN slots[st][Len(slots[st])] + 1
                                              ELSE p.heads[st]]
  OBVIOUS
<1>8. r = [p EXCEPT !.heads = H]
  BY <1>1, <1>2, <1>4, <1>5, <1>7 DEF KV!apply_ubatch
<1>9. H \in [D -> Nat]
  <2>1. DOMAIN k.heads = D /\ p.heads \in [D -> Nat]
    BY <1>6 DEF KvCacheOK
  <2>2. ASSUME NEW st \in DOMAIN ub PROVE slots[st][Len(slots[st])] + 1 \in Nat
    <3>1. PICK m \in Nat \ {0} : m = Len(ub[st])
      BY KvTokens_Len DEF KvUbatch
    <3>2. slots[st] \in [1 .. m -> 0 .. n-1]
      BY <3>1 DEF KvSlots, KvCellsFound
    <3>3. slots[st] \in Seq(0 .. n-1) /\ Len(slots[st]) = m
      BY <3>2
    <3>4. slots[st][m] \in 0 .. n-1
      BY <3>2
    <3> QED BY <3>3, <3>4
  <2>3. DOMAIN slots = DOMAIN ub
    BY DEF KvSlots
  <2> QED BY <1>7, <2>1, <2>2, <2>3
<1>10. /\ KvShape(r) /\ r.cells = p.cells /\ r.heads = H
       /\ r.keys = p.keys /\ r.copies = p.copies /\ r.div = p.div
  BY <1>6, <1>8 DEF KvCacheOK, KvShape
<1>11. KvKeeps(D, n, p, r)
  BY <1>10, KvKeepsSame
<1>12. KvApplies(D, n, ub, slots, k, r)
  BY <1>3, <1>6, <1>11, KvKeepsBoth DEF KvApplies
<1> QED BY <1>1, <1>6, <1>9, <1>10, <1>12 DEF KvCacheOK

-----------------------------------------------------------------------------
(***************************************************************************)
(* Plans: what is planned is taken back.                                   *)
(***************************************************************************)
KvPlanned(D, n, ub, old) ==
    /\ KvUbatch(D, ub)
    /\ KvSlots(n, ub, old.slots)
    /\ old.heads \in [D -> Nat]
    /\ \A st \in DOMAIN ub : KvSavedOK(1 .. Len(ub[st]), old.cells[st])

\* old heads are looked up by the number of streams before
LEMMA KvStreamsBefore ==
    ASSUME NEW D, KvLayout(D), NEW S \in SUBSET D, NEW st \in D
    PROVE  KV!Cardinality({t \in S : t < st}) \in D
<1>1. PICK T : T = {t \in S : t < st}
  OBVIOUS
<1>0. \A t \in T : t \in D /\ t < st
  BY <1>1
<1>2. CASE D = {0}
  <2>1. T = {}
    BY <1>0, <1>2
  <2> QED BY <1>1, <1>2, <2>1, FS_EmptySet, KvCache_Cardinality
<1>3. CASE D = SeqIds
  <2>1. NSeqMax \in Nat /\ st \in 0 .. NSeqMax-1
    BY <1>3, KvAssumption DEF SeqIds
  <2>2. T \subseteq 0 .. st-1
    <3>1. \A t \in T : t \in 0 .. NSeqMax-1 /\ t < st
      BY <1>0, <1>3 DEF SeqIds
    <3> QED BY <2>1, <3>1
  <2>3. IsFiniteSet(0 .. st-1) /\ Cardinality(0 .. st-1) = st
    BY <2>1, FS_Interval
  <2>4. IsFiniteSet(T) /\ Cardinality(T) <= Cardinality(0 .. st-1)
    BY <2>2, <2>3, FS_Subset
  <2>5. Cardinality(T) \in Nat
    BY <2>4, FS_CardinalityType
  <2>6. Cardinality(T) \in 0 .. NSeqMax-1
    BY <2>1, <2>3, <2>4, <2>5
  <2> QED BY <1>1, <1>3, <2>6, KvCache_Cardinality DEF SeqIds
<1> QED BY <1>2, <1>3 DEF KvLayout

\* taking one micro batch back keeps a cache whose cells agree
LEMMA KvOK_TakeBack ==
    ASSUME NEW D, KvLayout(D), NEW n \in Nat, NEW k, KvCacheOK(D, n, KvYes, k),
           NEW ub, NEW old, KvPlanned(D, n, ub, old)
    PROVE  /\ KvCacheOK(D, n, KvYes, KV!TakeBack(k, old))
           /\ KvTakes(D, n, ub, old.slots, old.cells, k, KV!TakeBack(k, old))
<1>1. PICK r, yes : r = KV!TakeBack(k, old) /\ yes = KvYes
  OBVIOUS
<1>2. PICK C : C = [st \in DOMAIN k.cells |->
                      IF st \in DOMAIN old.slots
                      THEN KV!Cells!set(k.cells[st], old.slots[st], old.cells[st])
                      ELSE k.cells[st]]
  OBVIOUS
<1>3. PICK H : H = [st \in DOMAIN k.heads |->
                      IF st \in DOMAIN old.slots
                      THEN old.heads[KV!Cardinality({t \in DOMAIN old.slots : t < st})]
                      ELSE k.heads[st]]
  OBVIOUS
<1>4. DOMAIN old.slots = DOMAIN ub /\ DOMAIN ub \subseteq D
  BY DEF KvPlanned, KvSlots, KvUbatch
<1>5. /\ KvShape(r) /\ r.cells = C /\ r.heads = H
      /\ r.keys = k.keys /\ r.copies = k.copies /\ r.div = k.div
  <2>1. r = [k EXCEPT !.cells = C, !.heads = H]
    BY <1>1, <1>2, <1>3 DEF KV!TakeBack
  <2> QED BY <2>1 DEF KvCacheOK, KvShape
<1>6. KvStreams(D, n, yes, C) /\ KvTakes(D, n, ub, old.slots, old.cells, k, r)
  <2>1. ASSUME NEW st \in D
        PROVE  /\ KvCellsOK(0 .. n-1, C[st]) /\ ~C[st].has_shift
               /\ st \in DOMAIN ub => KvTaken(0 .. n-1, 1 .. Len(ub[st]), old.slots[st], old.cells[st],
                                              k.cells[st], C[st])
               /\ st \notin DOMAIN ub => C[st] = k.cells[st]
    <3>1. PICK c : c = k.cells[st]
      OBVIOUS
    <3>2. KvCellsOK(0 .. n-1, c) /\ ~c.has_shift /\ DOMAIN k.cells = D
      BY <3>1 DEF KvCacheOK, KvStreams, KvYes
    <3>3. CASE st \in DOMAIN ub
      <4>1. PICK m \in Nat \ {0} : m = Len(ub[st])
        BY <3>3, KvTokens_Len DEF KvPlanned, KvUbatch
      <4>2. PICK idxs, saved, J : idxs = old.slots[st] /\ saved = old.cells[st] /\ J = 1 .. m
        OBVIOUS
      <4>3. KvInto(0 .. n-1, J, idxs) /\ DOMAIN idxs = J
        BY <3>3, <4>1, <4>2 DEF KvPlanned, KvSlots, KvCellsFound
      <4>4. KvSavedOK(J, saved)
        BY <3>3, <4>1, <4>2 DEF KvPlanned
      <4>5. /\ KvCellsOK(0 .. n-1, KV!Cells!set(c, idxs, saved)) /\ ~KV!Cells!set(c, idxs, saved).has_shift
            /\ KvTaken(0 .. n-1, J, idxs, saved, c, KV!Cells!set(c, idxs, saved))
        BY <3>2, <4>3, <4>4, KvOK_set
      <4>6. C[st] = KV!Cells!set(c, idxs, saved)
        BY <1>2, <1>4, <3>1, <3>2, <3>3, <4>2
      <4> QED BY <3>1, <3>3, <4>1, <4>2, <4>5, <4>6
    <3>4. CASE st \notin DOMAIN ub
      BY <1>2, <1>4, <3>1, <3>2, <3>4
    <3> QED BY <3>3, <3>4
  <2>2. KvTakes(D, n, ub, old.slots, old.cells, k, r)
    BY <1>4, <1>5, <2>1 DEF KvTakes
  <2> QED BY <1>1, <1>2, <2>1, <2>2 DEF KvCacheOK, KvStreams
<1>7. H \in [D -> Nat]
  <2>1. ASSUME NEW st \in D
        PROVE  old.heads[KV!Cardinality({t \in DOMAIN old.slots : t < st})] \in Nat
    <3>1. KV!Cardinality({t \in DOMAIN old.slots : t < st}) \in D
      BY <1>4, KvStreamsBefore
    <3> QED BY <3>1 DEF KvPlanned
  <2> QED BY <1>3, <2>1 DEF KvCacheOK
<1>8. KvCacheOK(D, n, yes, r)
  BY <1>5, <1>6, <1>7, KvCacheOf
<1> QED BY <1>1, <1>6, <1>8

\* a plan for ub has led from the cache x to y, and old is what was saved of x
KvUndoable(D, n, ub, old, x, y) ==
    /\ KvCacheOK(D, n, KvYes, x)
    /\ KvApplies(D, n, ub, old.slots, x, y)
    /\ \A st \in DOMAIN ub : \A j \in 1 .. Len(ub[st]) :
          old.cells[st][j].pos = x.cells[st].pos[old.slots[st][j]]

\* nothing waits for a shift in a quiet cache
LEMMA KvQuietShift ==
    ASSUME NEW D, NEW n, NEW k, KvCacheOK(D, n, KvYes, k), NEW st \in D
    PROVE  \A i \in 0 .. n-1 : k.cells[st].shift[i] = 0
<1>1. KvCellsOK(0 .. n-1, k.cells[st]) /\ ~k.cells[st].has_shift
  BY DEF KvCacheOK, KvStreams, KvYes
<1> QED BY <1>1 DEF KvCellsOK, KvCellsHold

\* a micro batch whose cells are given back has kept all keys
LEMMA KvUndone ==
    ASSUME NEW D, NEW n, NEW ub, NEW old, KvPlanned(D, n, ub, old), NEW x, NEW y,
           KvUndoable(D, n, ub, old, x, y), NEW z, KvKeeps(D, n, y, z),
           NEW w, KvTakes(D, n, ub, old.slots, old.cells, z, w)
    PROVE  KvKeeps(D, n, x, w)
<1>1. PICK e : KvTakes(D, n, ub, old.slots, ub, x, e) /\ KvKeeps(D, n, e, y)
  BY DEF KvUndoable, KvApplies
<1>2. w.keys = x.keys /\ w.copies = x.copies /\ w.div = x.div
  BY <1>1 DEF KvTakes, KvKeeps
<1>3. KvKeeps(D, n, e, z)
  BY <1>1, KvKeepsBoth
<1>4. ASSUME NEW st \in D PROVE KvKept(0 .. n-1, x.cells[st], w.cells[st])
  <2>1. PICK I, J : I = 0 .. n-1 /\ J = 1 .. Len(ub[st])
    OBVIOUS
  <2>2. PICK a, b, c, d : a = x.cells[st] /\ b = e.cells[st] /\ c = z.cells[st] /\ d = w.cells[st]
    OBVIOUS
  <2>3. KvKept(I, b, c)
    BY <1>3, <2>1, <2>2 DEF KvKeeps
  <2>4. CASE st \in DOMAIN ub
    <3>1. PICK idxs, saved, toks : idxs = old.slots[st] /\ saved = old.cells[st] /\ toks = ub[st]
      OBVIOUS
    <3>2. KvTaken(I, J, idxs, toks, a, b)
      BY <1>1, <2>1, <2>2, <2>4, <3>1 DEF KvTakes
    <3>3. KvTaken(I, J, idxs, saved, c, d)
      BY <2>1, <2>2, <2>4, <3>1 DEF KvTakes
    <3>4. \A j \in J : saved[j].pos = a.pos[idxs[j]] /\ a.shift[idxs[j]] = 0
      <4>1. \A j \in J : idxs[j] \in I
        BY <2>1, <2>4, <3>1 DEF KvPlanned, KvSlots, KvCellsFound, KvInto
      <4>2. \A i \in I : a.shift[i] = 0
        BY <2>1, <2>2, KvQuietShift DEF KvUndoable
      <4>3. \A j \in J : saved[j].pos = a.pos[idxs[j]]
        BY <2>1, <2>2, <2>4, <3>1 DEF KvUndoable
      <4> QED BY <4>1, <4>2, <4>3
    <3>5. ASSUME NEW i \in I, d.pos[i] # -1
          PROVE  a.pos[i] # -1 /\ d.pos[i] - d.shift[i] = a.pos[i] - a.shift[i]
      <4>1. CASE \A j \in J : idxs[j] # i
        <5>1. d.pos[i] = c.pos[i] /\ d.shift[i] = c.shift[i] /\ b.pos[i] = a.pos[i] /\ b.shift[i] = a.shift[i]
          BY <3>2, <3>3, <4>1 DEF KvTaken
        <5>2. b.pos[i] # -1 /\ c.pos[i] - c.shift[i] = b.pos[i] - b.shift[i]
          BY <2>3, <3>5, <5>1 DEF KvKept
        <5> QED BY <5>1, <5>2
      <4>2. CASE \E j \in J : idxs[j] = i
        <5>1. PICK j \in J : idxs[j] = i
          BY <4>2
        <5>2. d.pos[i] = saved[j].pos /\ d.shift[i] = 0
          BY <3>3, <5>1 DEF KvTaken
        <5>3. d.pos[i] = a.pos[i] /\ a.shift[i] = 0
          BY <3>4, <5>1, <5>2
        <5> QED BY <3>5, <5>2, <5>3
      <4> QED BY <4>1, <4>2
    <3> QED BY <2>1, <2>2, <3>5 DEF KvKept
  <2>5. CASE st \notin DOMAIN ub
    <3>1. b = a /\ d = c
      BY <1>1, <2>2, <2>5 DEF KvTakes
    <3> QED BY <2>1, <2>2, <2>3, <3>1
  <2> QED BY <2>4, <2>5
<1> QED BY <1>2, <1>4 DEF KvKeeps

\* h are the caches that the plans a.states have led through, from k on
KvChain(D, n, ubs, k, a, h) ==
    /\ h[0] = k /\ h[Len(a.states)] = a.k
    /\ \A i \in 1 .. Len(a.states) : KvUndoable(D, n, ubs[i], a.states[i], h[i-1], h[i])

\* after the first m micro batches were planned, if there was room for them
KvPlanOK(D, n, ubs, k, m, a) ==
    /\ a \in [k : {a.k}, ok : BOOLEAN, states : {a.states}]
    /\ KvCacheOK(D, n, KvYes, a.k)
    /\ \E X : a.states \in Seq(X)
    /\ Len(a.states) <= m /\ (a.ok => Len(a.states) = m)
    /\ \A i \in 1 .. Len(a.states) : KvPlanned(D, n, ubs[i], a.states[i])
    /\ \E h : KvChain(D, n, ubs, k, a, h)

\* planning one more micro batch keeps what planning needs
LEMMA KvOK_Plan ==
    ASSUME NEW D, NEW n \in Nat, NEW ubs, NEW k, NEW m \in Nat, NEW a, KvPlanOK(D, n, ubs, k, m, a),
           KvUbatch(D, ubs[m+1])
    PROVE  KvPlanOK(D, n, ubs, k, m+1, KV!Plan(a, ubs[m+1]))
<1>1. PICK r, ub : r = KV!Plan(a, ubs[m+1]) /\ ub = ubs[m+1]
  OBVIOUS
<1>2. PICK X : a.states \in Seq(X)
  BY DEF KvPlanOK
<1>3. Len(a.states) \in Nat /\ a.ok \in BOOLEAN
  BY <1>2 DEF KvPlanOK
<1>4. CASE ~a.ok
  <2>1. r = a
    BY <1>1, <1>4 DEF KV!Plan
  <2> QED BY <1>1, <1>3, <1>4, <2>1 DEF KvPlanOK
<1>5. CASE a.ok /\ KV!find_slot(a.k, ub) = KV!NoSlot
  <2>1. r = [a EXCEPT !.ok = FALSE]
    BY <1>1, <1>5 DEF KV!Plan, KV!PlanIn
  <2>2. r.k = a.k /\ r.ok = FALSE /\ r.states = a.states
        /\ r \in [k : {r.k}, ok : BOOLEAN, states : {r.states}]
    BY <2>1 DEF KvPlanOK
  <2>3. \E h : KvChain(D, n, ubs, k, r, h)
    BY <2>2 DEF KvPlanOK, KvChain
  <2> QED BY <1>1, <1>3, <2>2, <2>3 DEF KvPlanOK
<1>6. CASE a.ok /\ KV!find_slot(a.k, ub) # KV!NoSlot
  <2>1. PICK slots : slots = KV!find_slot(a.k, ub)
    OBVIOUS
  <2>2. KvCacheOK(D, n, KvYes, a.k)
    BY DEF KvPlanOK
  <2>3. KvSlots(n, ub, slots)
    BY <1>1, <1>6, <2>1, <2>2, KvOK_find_slot
  <2>4. PICK new : new = [slots |-> slots, heads |-> a.k.heads,
                          cells |-> [st \in DOMAIN ub |-> KV!Cells!cp(a.k.cells[st], slots[st])]]
    OBVIOUS
  <2>5. PICK k2 : k2 = KV!apply_ubatch(a.k, slots, ub)
    OBVIOUS
  <2>6. r = [k |-> k2, ok |-> TRUE, states |-> Append(a.states, new)]
    BY <1>1, <1>6, <2>1, <2>4, <2>5 DEF KV!Plan, KV!PlanIn
  <2>7. KvCacheOK(D, n, KvYes, k2) /\ KvApplies(D, n, ub, slots, a.k, k2)
    BY <1>1, <2>2, <2>3, <2>5, KvOK_apply_ubatch
  <2>8. KvPlanned(D, n, ub, new)
    <3>1. ASSUME NEW st \in DOMAIN ub PROVE KvSavedOK(1 .. Len(ub[st]), new.cells[st])
      <4>1. PICK c, idxs, J : c = a.k.cells[st] /\ idxs = slots[st] /\ J = 1 .. Len(ub[st])
        OBVIOUS
      <4>2. KvCellsOK(0 .. n-1, c)
        BY <1>1, <2>2, <4>1 DEF KvCacheOK, KvStreams, KvUbatch
      <4>3. KvInto(0 .. n-1, J, idxs) /\ DOMAIN idxs = J
        BY <2>3, <4>1 DEF KvSlots, KvCellsFound
      <4>4. KvSavedOK(J, KV!Cells!cp(c, idxs))
        BY <4>2, <4>3, KvOK_cp
      <4> QED BY <2>4, <4>1, <4>4
    <3>2. new.slots = slots /\ new.heads = a.k.heads
      BY <2>4
    <3> QED BY <1>1, <2>2, <2>3, <3>1, <3>2 DEF KvPlanned, KvCacheOK
  <2>9. PICK l \in Nat : l = Len(a.states)
    BY <1>3
  <2>10. l = m
    BY <1>6, <2>9 DEF KvPlanOK
  <2>11. PICK w : w = Append(a.states, new)
    OBVIOUS
  <2>12. /\ w \in Seq(X \cup {new}) /\ Len(w) = m+1 /\ w[m+1] = new
         /\ \A i \in 1 .. m : w[i] = a.states[i]
    <3>1. PICK s, Y : s = a.states /\ Y = X \cup {new}
      OBVIOUS
    <3>2. s \in Seq(Y) /\ new \in Y /\ Len(s) = m
      <4>1. s \in Seq(X) /\ Len(s) = m
        BY <1>2, <2>9, <2>10, <3>1
      <4>2. X \subseteq Y /\ new \in Y
        BY <3>1
      <4>3. \A i \in 1 .. m : s[i] \in Y
        BY <4>1, <4>2
      <4>4. s \in [1 .. m -> Y]
        BY <4>1, <4>3
      <4> QED BY <4>1, <4>2, <4>4
    <3>3. /\ Append(s, new) \in Seq(Y) /\ Len(Append(s, new)) = m+1 /\ Append(s, new)[m+1] = new
          /\ \A i \in 1 .. m : Append(s, new)[i] = s[i]
      BY <3>2
    <3> QED BY <2>11, <3>1, <3>3
  <2>13. ASSUME NEW i \in 1 .. m+1 PROVE KvPlanned(D, n, ubs[i], w[i])
    <3>1. CASE i = m+1
      BY <1>1, <2>8, <2>12, <3>1
    <3>2. CASE i \in 1 .. m
      BY <2>9, <2>10, <2>12, <3>2 DEF KvPlanOK
    <3> QED BY <3>1, <3>2
  <2>14. r.k = k2 /\ r.ok = TRUE /\ r.states = w /\ r \in [k : {r.k}, ok : BOOLEAN, states : {r.states}]
    BY <2>6, <2>11
  <2>15. \E Y : r.states \in Seq(Y)
    BY <2>12, <2>14
  <2>16. KvUndoable(D, n, ub, new, a.k, k2)
    <3>1. \A st \in DOMAIN ub : DOMAIN slots[st] = 1 .. Len(ub[st])
      BY <2>3 DEF KvSlots, KvCellsFound
    <3>2. ASSUME NEW st \in DOMAIN ub, NEW j \in 1 .. Len(ub[st])
          PROVE  new.cells[st][j].pos = a.k.cells[st].pos[slots[st][j]]
      <4>1. new.cells[st] = KV!Cells!cp(a.k.cells[st], slots[st])
        BY <2>4, <3>2
      <4>2. j \in DOMAIN slots[st]
        BY <3>1, <3>2
      <4>3. PICK c, idxs : c = a.k.cells[st] /\ idxs = slots[st]
        OBVIOUS
      <4>4. KV!Cells!cp(c, idxs)[j] = [pos |-> c.pos[idxs[j]], seq |-> c.seq[idxs[j]]]
        BY <4>2, <4>3 DEF KV!Cells!cp
      <4>5. new.cells[st][j].pos = c.pos[idxs[j]]
        BY <4>1, <4>3, <4>4
      <4> QED BY <4>3, <4>5
    <3>3. new.slots = slots
      BY <2>4
    <3> QED BY <2>2, <2>7, <3>2, <3>3 DEF KvUndoable
  <2>17. PICK g : KvChain(D, n, ubs, k, a, g)
    BY DEF KvPlanOK
  <2>18. PICK h : h = [i \in 0 .. m+1 |-> IF i = m+1 THEN k2 ELSE g[i]]
    OBVIOUS
  <2>19. KvChain(D, n, ubs, k, r, h)
    <3>1. h[m+1] = k2 /\ \A i \in 0 .. m : h[i] = g[i]
      BY <2>18
    <3>2. g[0] = k /\ g[m] = a.k /\ \A i \in 1 .. m : KvUndoable(D, n, ubs[i], a.states[i], g[i-1], g[i])
      BY <2>9, <2>10, <2>17 DEF KvChain
    <3>3. ASSUME NEW i \in 1 .. m+1 PROVE KvUndoable(D, n, ubs[i], w[i], h[i-1], h[i])
      <4>1. CASE i = m+1
        <5>1. h[i] = k2 /\ h[i-1] = a.k /\ w[i] = new /\ ubs[i] = ub
          BY <1>1, <2>12, <3>1, <3>2, <4>1
        <5> QED BY <2>16, <5>1
      <4>2. CASE i \in 1 .. m
        <5>1. h[i] = g[i] /\ h[i-1] = g[i-1] /\ w[i] = a.states[i]
          BY <2>12, <3>1, <4>2
        <5> QED BY <3>2, <4>2, <5>1
      <4> QED BY <4>1, <4>2
    <3>4. h[0] = k
      BY <3>1, <3>2
    <3> QED BY <2>12, <2>14, <3>1, <3>3, <3>4 DEF KvChain
  <2> QED BY <1>1, <2>7, <2>12, <2>13, <2>14, <2>15, <2>19 DEF KvPlanOK
<1> QED BY <1>3, <1>4, <1>5, <1>6

-----------------------------------------------------------------------------
(***************************************************************************)
(* The functions that prepare and TakeAllBack define by recursion.         *)
(***************************************************************************)
KvPlans(a, ubs, N, f) ==
    f = [j \in 0 .. N |-> IF j = 0 THEN a ELSE KV!Plan(f[j-1], ubs[j])]

\* the recursion of prepare's first loop is defined
LEMMA KvPlanExists ==
    ASSUME NEW a, NEW ubs
    PROVE  \A N \in Nat : \E f : KvPlans(a, ubs, N, f)
<1>1. PICK Bad : Bad = {N \in Nat : ~ \E f : KvPlans(a, ubs, N, f)}
  OBVIOUS
<1>2. SUFFICES ASSUME Bad # {} PROVE FALSE
  BY <1>1
<1>3. PICK N \in Bad : \A l \in Bad : N <= l
  BY <1>1, <1>2, KvLeastNat
<1>4. CASE N = 0
  <2>1. PICK g : g = [j \in 0 .. 0 |-> a]
    OBVIOUS
  <2>2. KvPlans(a, ubs, 0, g)
    BY <2>1 DEF KvPlans
  <2> QED BY <1>1, <1>4, <2>2
<1>5. CASE N # 0
  <2>1. N - 1 \in Nat /\ N \in Nat /\ N - 1 \notin Bad
    BY <1>1, <1>3, <1>5
  <2>2. PICK f : KvPlans(a, ubs, N-1, f)
    BY <1>1, <2>1
  <2>3. PICK g : g = [j \in 0 .. N |-> IF j = 0 THEN a ELSE KV!Plan(f[j-1], ubs[j])]
    OBVIOUS
  <2>4. \A j \in 0 .. N-1 : g[j] = f[j]
    BY <2>1, <2>2, <2>3 DEF KvPlans
  <2>5. \A j \in 0 .. N : j # 0 => j-1 \in 0 .. N-1
    BY <2>1
  <2>6. KvPlans(a, ubs, N, g)
    BY <2>3, <2>4, <2>5 DEF KvPlans
  <2> QED BY <1>1, <2>1, <2>6
<1> QED BY <1>4, <1>5

KvBacks(k, states, M, N, f) ==
    f = [j \in 0 .. N |-> IF j = 0 THEN k ELSE KV!TakeBack(f[j-1], states[M + 1 - j])]

\* the recursion of prepare's second loop is defined
LEMMA KvBackExists ==
    ASSUME NEW k, NEW states, NEW M
    PROVE  \A N \in Nat : \E f : KvBacks(k, states, M, N, f)
<1>1. PICK Bad : Bad = {N \in Nat : ~ \E f : KvBacks(k, states, M, N, f)}
  OBVIOUS
<1>2. SUFFICES ASSUME Bad # {} PROVE FALSE
  BY <1>1
<1>3. PICK N \in Bad : \A l \in Bad : N <= l
  BY <1>1, <1>2, KvLeastNat
<1>4. CASE N = 0
  <2>1. PICK g : g = [j \in 0 .. 0 |-> k]
    OBVIOUS
  <2>2. KvBacks(k, states, M, 0, g)
    BY <2>1 DEF KvBacks
  <2> QED BY <1>1, <1>4, <2>2
<1>5. CASE N # 0
  <2>1. N - 1 \in Nat /\ N \in Nat /\ N - 1 \notin Bad
    BY <1>1, <1>3, <1>5
  <2>2. PICK f : KvBacks(k, states, M, N-1, f)
    BY <1>1, <2>1
  <2>3. PICK g : g = [j \in 0 .. N |-> IF j = 0 THEN k ELSE KV!TakeBack(f[j-1], states[M + 1 - j])]
    OBVIOUS
  <2>4. \A j \in 0 .. N-1 : g[j] = f[j]
    BY <2>1, <2>2, <2>3 DEF KvBacks
  <2>5. \A j \in 0 .. N : j # 0 => j-1 \in 0 .. N-1
    BY <2>1
  <2>6. KvBacks(k, states, M, N, g)
    BY <2>3, <2>4, <2>5 DEF KvBacks
  <2> QED BY <1>1, <2>1, <2>6
<1> QED BY <1>4, <1>5

\* taking all micro batches back keeps a cache whose cells agree
LEMMA KvOK_TakeAllBack ==
    ASSUME NEW D, KvLayout(D), NEW n \in Nat, NEW ubs, NEW k, NEW m \in Nat, NEW a,
           KvPlanOK(D, n, ubs, k, m, a)
    PROVE  /\ KvCacheOK(D, n, KvYes, KV!TakeAllBack(a).k)
           /\ KvKeeps(D, n, k, KV!TakeAllBack(a).k)
           /\ KV!TakeAllBack(a).ok \in BOOLEAN
           /\ KV!TakeAllBack(a).ok => \A i \in 1 .. m : KvSlots(n, ubs[i], KV!TakeAllBack(a).slots[i])
<1>1. PICK r : r = KV!TakeAllBack(a)
  OBVIOUS
<1>2. PICK states, N : states = a.states /\ N = Len(a.states)
  OBVIOUS
<1>3. N \in Nat /\ (a.ok => N = m) /\ a.ok \in BOOLEAN
  <2>1. PICK X : a.states \in Seq(X)
    BY DEF KvPlanOK
  <2> QED BY <1>2, <2>1 DEF KvPlanOK
<1>4. \A i \in 1 .. N : KvPlanned(D, n, ubs[i], states[i])
  BY <1>2 DEF KvPlanOK
<1>5. KvCacheOK(D, n, KvYes, a.k)
  BY DEF KvPlanOK
<1> DEFINE Eq(g) == [j \in 0 .. N |-> IF j = 0 THEN a.k ELSE KV!TakeBack(g[j-1], states[N + 1 - j])]
<1>6. \E g : g = Eq(g)
  <2>1. PICK x : x = a.k
    OBVIOUS
  <2>2. PICK g : KvBacks(x, states, N, N, g)
    BY <1>3, KvBackExists
  <2>3. g = Eq(g)
    BY <2>1, <2>2 DEF KvBacks
  <2> QED BY <2>3
<1>7. PICK f : f = CHOOSE g : g = Eq(g)
  OBVIOUS
<1>8. f = Eq(f)
  <2> HIDE DEF Eq
  <2> QED BY <1>6, <1>7, Zenon
<1>9. r = [k |-> f[N], ok |-> a.ok, slots |-> [i \in 1 .. N |-> a.states[i].slots]]
  BY <1>1, <1>2, <1>7, Zenon DEF KV!TakeAllBack
<1>13. PICK h : /\ h[0] = k /\ h[N] = a.k
                /\ \A i \in 1 .. N : KvUndoable(D, n, ubs[i], states[i], h[i-1], h[i])
  BY <1>2 DEF KvPlanOK, KvChain
<1>10. \A j \in 0 .. N : KvCacheOK(D, n, KvYes, f[j]) /\ KvKeeps(D, n, h[N-j], f[j])
  <2>1. PICK Bad : Bad = {j \in 0 .. N : ~(KvCacheOK(D, n, KvYes, f[j]) /\ KvKeeps(D, n, h[N-j], f[j]))}
    OBVIOUS
  <2>2. SUFFICES ASSUME Bad # {} PROVE FALSE
    BY <2>1
  <2>3. PICK j \in Bad : \A l \in Bad : j <= l
    BY <2>1, <2>2, KvLeastNat
  <2>4. CASE j = 0
    <3>1. f[0] = a.k /\ h[N-0] = a.k
      BY <1>3, <1>8, <1>13
    <3> QED BY <1>5, <2>1, <2>4, <3>1, KvKeepsSame
  <2>5. CASE j # 0
    <3>1. j \in 0 .. N /\ j - 1 \in 0 .. N /\ N + 1 - j \in 1 .. N /\ j - 1 \notin Bad
      BY <1>3, <2>1, <2>3, <2>5
    <3>2. KvCacheOK(D, n, KvYes, f[j-1]) /\ KvKeeps(D, n, h[N-(j-1)], f[j-1])
      BY <2>1, <3>1
    <3>3. f[j] = KV!TakeBack(f[j-1], states[N + 1 - j])
      BY <1>8, <2>5, <3>1
    <3>4. PICK i \in 1 .. N : i = N + 1 - j /\ i = N - (j-1) /\ i - 1 = N - j
      BY <1>3, <3>1
    <3>5. KvPlanned(D, n, ubs[i], states[i]) /\ f[j] = KV!TakeBack(f[j-1], states[i])
      BY <1>4, <3>3, <3>4
    <3>6. /\ KvCacheOK(D, n, KvYes, f[j])
          /\ KvTakes(D, n, ubs[i], states[i].slots, states[i].cells, f[j-1], f[j])
      BY <3>2, <3>5, KvOK_TakeBack
    <3>7. KvUndoable(D, n, ubs[i], states[i], h[N-j], h[N-(j-1)])
      BY <1>13, <3>4
    <3>8. KvKeeps(D, n, h[N-j], f[j])
      BY <3>2, <3>5, <3>6, <3>7, KvUndone
    <3> QED BY <2>1, <3>6, <3>8
  <2> QED BY <2>4, <2>5
<1>11. KvCacheOK(D, n, KvYes, r.k) /\ r.ok = a.ok /\ KvKeeps(D, n, k, r.k)
  <2>1. N \in 0 .. N /\ h[N-N] = k
    BY <1>3, <1>13
  <2> QED BY <1>9, <1>10, <2>1
<1>12. ASSUME a.ok, NEW i \in 1 .. m PROVE KvSlots(n, ubs[i], r.slots[i])
  <2>1. r.slots[i] = states[i].slots
    BY <1>2, <1>3, <1>9, <1>12
  <2> QED BY <1>3, <1>4, <1>12, <2>1 DEF KvPlanned
<1> QED BY <1>1, <1>3, <1>11, <1>12

\* what prepare is asked for
KvUbatches(D, ubs) == Len(ubs) \in Nat /\ \A m \in 1 .. Len(ubs) : KvUbatch(D, ubs[m])

\* prepare keeps a cache whose cells agree, and its slots fit the micro batches
LEMMA KvOK_prepare ==
    ASSUME NEW D, KvLayout(D), NEW n \in Nat, NEW k, KvCacheOK(D, n, KvYes, k),
           NEW ubs, KvUbatches(D, ubs)
    PROVE  /\ KvCacheOK(D, n, KvYes, KV!prepare(k, ubs).k)
           /\ KvKeeps(D, n, k, KV!prepare(k, ubs).k)
           /\ KV!prepare(k, ubs).ok \in BOOLEAN
           /\ KV!prepare(k, ubs).ok =>
                \A i \in 1 .. Len(ubs) : KvSlots(n, ubs[i], KV!prepare(k, ubs).slots[i])
<1>1. PICK a, N : a = [k |-> k, ok |-> TRUE, states |-> << >>] /\ N = Len(ubs)
  OBVIOUS
<1>2. N \in Nat /\ \A m \in 1 .. N : KvUbatch(D, ubs[m])
  BY <1>1 DEF KvUbatches
<1> DEFINE Eq(g) == [j \in 0 .. N |-> IF j = 0 THEN a ELSE KV!Plan(g[j-1], ubs[j])]
<1>3. \E g : g = Eq(g)
  <2>1. PICK g : KvPlans(a, ubs, N, g)
    BY <1>2, KvPlanExists
  <2>2. g = Eq(g)
    BY <2>1 DEF KvPlans
  <2> QED BY <2>2
<1>4. PICK f : f = CHOOSE g : g = Eq(g)
  OBVIOUS
<1>5. f = Eq(f)
  <2> HIDE DEF Eq
  <2> QED BY <1>3, <1>4, Zenon
<1>6. KV!prepare(k, ubs) = KV!TakeAllBack(f[N])
  BY <1>1, <1>4, Zenon DEF KV!prepare
<1>7. \A j \in 0 .. N : KvPlanOK(D, n, ubs, k, j, f[j])
  <2>1. PICK Bad : Bad = {j \in 0 .. N : ~KvPlanOK(D, n, ubs, k, j, f[j])}
    OBVIOUS
  <2>2. SUFFICES ASSUME Bad # {} PROVE FALSE
    BY <2>1
  <2>3. PICK j \in Bad : \A l \in Bad : j <= l
    BY <2>1, <2>2, KvLeastNat
  <2>4. CASE j = 0
    <3>1. f[0] = a
      BY <1>2, <1>5
    <3>2. a.k = k /\ a.ok = TRUE /\ a.states = << >> /\ a \in [k : {a.k}, ok : BOOLEAN, states : {a.states}]
      BY <1>1
    <3>3. PICK X : X = {}
      OBVIOUS
    <3>4. a.states \in Seq(X) /\ Len(a.states) = 0
      BY <3>2
    <3>6. PICK h : h = [i \in 0 .. 0 |-> k]
      OBVIOUS
    <3>7. KvChain(D, n, ubs, k, a, h)
      <4>1. h[0] = k /\ Len(a.states) = 0
        BY <3>4, <3>6
      <4> QED BY <3>2, <4>1 DEF KvChain
    <3>5. KvPlanOK(D, n, ubs, k, 0, a)
      BY <3>2, <3>4, <3>7 DEF KvPlanOK
    <3> QED BY <2>1, <2>4, <3>1, <3>5
  <2>5. CASE j # 0
    <3>1. PICK l \in 0 .. N : j = l + 1 /\ l \notin Bad /\ j \in 0 .. N /\ j - 1 = l
      <4>1. j - 1 \in 0 .. N /\ j = (j - 1) + 1 /\ j - 1 \notin Bad /\ j \in 0 .. N
        BY <1>2, <2>1, <2>3, <2>5
      <4> QED BY <4>1
    <3>2. KvPlanOK(D, n, ubs, k, l, f[l])
      BY <2>1, <3>1
    <3>3. f[j] = KV!Plan(f[l], ubs[l+1])
      BY <1>5, <2>5, <3>1
    <3>4. KvUbatch(D, ubs[l+1])
      BY <1>2, <3>1
    <3>5. KvPlanOK(D, n, ubs, k, l+1, f[j])
      BY <3>2, <3>3, <3>4, KvOK_Plan
    <3> QED BY <2>1, <3>1, <3>5
  <2> QED BY <2>4, <2>5
<1>8. KvPlanOK(D, n, ubs, k, N, f[N])
  BY <1>2, <1>7
<1> QED BY <1>1, <1>2, <1>6, <1>8, KvOK_TakeAllBack

-----------------------------------------------------------------------------
(***************************************************************************)
(* Keys, the pending update, and saved states.                             *)
(***************************************************************************)
LEMMA KvCacheSame ==
    ASSUME NEW D, NEW n, NEW q, NEW k, KvCacheOK(D, n, q, k),
           NEW r, KvShape(r), r.cells = k.cells, r.heads = k.heads
    PROVE  KvCacheOK(D, n, q, r)
BY DEF KvCacheOK

\* writing keys leaves the cells alone
LEMMA KvOK_Write ==
    ASSUME NEW D, NEW n, NEW q, NEW k, KvCacheOK(D, n, q, k), NEW slots, NEW ub, NEW sound
    PROVE  KvCacheOK(D, n, q, KV!Write(k, slots, ub, sound))
<1>1. PICK r : r = KV!Write(k, slots, ub, sound)
  OBVIOUS
<1>2. PICK K, V : r = [k EXCEPT !.keys = K, !.div = V]
  BY <1>1, Zenon DEF KV!Write
<1>3. KvShape(r) /\ r.cells = k.cells /\ r.heads = k.heads
  BY <1>2 DEF KvCacheOK, KvShape
<1> QED BY <1>1, <1>3, KvCacheSame

\* forgetting unused keys leaves the cells alone
LEMMA KvOK_Forget ==
    ASSUME NEW D, NEW n, NEW q, NEW k, KvCacheOK(D, n, q, k)
    PROVE  KvCacheOK(D, n, q, KV!Forget(k))
<1>1. PICK r : r = KV!Forget(k)
  OBVIOUS
<1>2. r = k \/ \E K, V : r = [k EXCEPT !.keys = K, !.div = V]
  BY <1>1 DEF KV!Forget
<1>3. CASE r = k
  BY <1>1, <1>3
<1>4. CASE \E K, V : r = [k EXCEPT !.keys = K, !.div = V]
  <2>1. PICK K, V : r = [k EXCEPT !.keys = K, !.div = V]
    BY <1>4
  <2>2. KvShape(r) /\ r.cells = k.cells /\ r.heads = k.heads
    BY <2>1 DEF KvCacheOK, KvShape
  <2> QED BY <1>1, <2>2, KvCacheSame
<1> QED BY <1>2, <1>3, <1>4

\* update keeps a cache whose cells agree and leaves it without shifts
LEMMA KvOK_update ==
    ASSUME NEW D, NEW n, NEW q, NEW k, KvCacheOK(D, n, q, k)
    PROVE  KvCacheOK(D, n, KvYes, KV!update(k))
<1>1. PICK r : r = KV!update(k)
  OBVIOUS
<1>2. PICK C : C = [st \in DOMAIN k.cells |->
                      IF KV!get_has_shift(k) THEN KV!Cells!reset_shift(k.cells[st]) ELSE k.cells[st]]
  OBVIOUS
<1>3. PICK K : r = [k EXCEPT !.copies = << >>, !.cells = C, !.keys = K]
  BY <1>1, <1>2 DEF KV!update
<1>4. KvShape(r) /\ r.cells = C /\ r.heads = k.heads
  BY <1>3 DEF KvCacheOK, KvShape
<1>5. ASSUME NEW st \in D
      PROVE  KvCellsOK(0 .. n-1, C[st]) /\ ~C[st].has_shift
  <2>1. PICK c : c = k.cells[st]
    OBVIOUS
  <2>2. KvCellsOK(0 .. n-1, c) /\ DOMAIN k.cells = D
    BY <2>1 DEF KvCacheOK, KvStreams
  <2>3. CASE KV!get_has_shift(k)
    <3>1. C[st] = KV!Cells!reset_shift(c)
      BY <1>2, <2>1, <2>2, <2>3
    <3> QED BY <2>2, <3>1, KvOK_reset_shift
  <2>4. CASE ~KV!get_has_shift(k)
    <3>1. C[st] = c
      BY <1>2, <2>1, <2>2, <2>4
    <3>2. ~c.has_shift
      BY <2>1, <2>2, <2>4 DEF KV!get_has_shift
    <3> QED BY <2>2, <3>1, <3>2
  <2> QED BY <2>3, <2>4
<1>6. KvStreams(D, n, KvYes, C)
  BY <1>2, <1>5 DEF KvCacheOK, KvStreams
<1> QED BY <1>1, <1>4, <1>6 DEF KvCacheOK

\* a saved state, the cells of a sequence
KvState(m, w) ==
    /\ m \in Nat
    /\ w = [j \in 1 .. m |-> w[j]]
    /\ \A j \in 1 .. m : w[j].pos \in Nat

\* w is what is saved of the cells at of a stream
KvSaves(k, st, m, at, w) ==
    w = [j \in 1 .. m |->
           [pos |-> k.cells[st].pos[at[j]], div |-> at[j] \in k.div[st],
            key |-> [k.keys[st][at[j]] EXCEPT !.sound = @ /\ KV!Updated(k)]]]

\* what is saved are cells of the sequence, with their positions and keys
LEMMA KvStateSaves ==
    ASSUME NEW D, KvLayout(D), NEW n \in Nat, NEW q, NEW k, KvCacheOK(D, n, q, k), NEW s \in SeqIds,
           NEW st \in D, st = KV!seq_to_stream(k, s)
    PROVE  \E m, at : /\ m \in Nat /\ KvSaves(k, st, m, at, KV!state_write(k, s))
                      /\ \A j \in 1 .. m : at[j] \in 0 .. n-1 /\ k.cells[st].pos[at[j]] \in Nat
<1>1. PICK w : w = KV!state_write(k, s)
  OBVIOUS
<1>3. PICK c : c = k.cells[st]
  OBVIOUS
<1>4. KvCellsOK(0 .. n-1, c)
  BY <1>3 DEF KvCacheOK, KvStreams
<1>5. PICK held : held = {i \in DOMAIN c.pos : s \in c.seq[i]}
  OBVIOUS
<1>6. DOMAIN c.pos = 0 .. n-1
  BY <1>4, KvSize
<1>7. IsFiniteSet(0 .. n-1) /\ \A i \in 0 .. n-1 : c.pos[i] \in Int /\ c.pos[i] >= -1
                                   /\ (c.pos[i] = -1 <=> c.seq[i] = {})
  BY <1>4 DEF KvCellsOK, KvCellsHold, KvData
<1>8. \A i \in held : i \in 0 .. n-1 /\ c.pos[i] \in Nat
  BY <1>5, <1>6, <1>7
<1>9. held \in SUBSET Int /\ held \subseteq 0 .. n-1
  BY <1>8
<1>10. IsFiniteSet(held)
  BY <1>7, <1>9, FS_Subset
<1>11. PICK m \in Nat : m = Cardinality(held)
  BY <1>10, FS_CardinalityType
<1>2. PICK at : at = [j \in 1 .. m |-> KV!Nth(held, j)]
  OBVIOUS
<1>12. w = [j \in 1 .. m |->
             [pos |-> c.pos[KV!Nth(held, j)], div |-> KV!Nth(held, j) \in k.div[st],
              key |-> [k.keys[st][KV!Nth(held, j)] EXCEPT !.sound = @ /\ KV!Updated(k)]]]
  <2>1. KV!Cardinality(held) = m
    BY <1>11, KvCache_Cardinality
  <2> QED BY <1>1, <1>3, <1>5, <2>1 DEF KV!state_write
<1>13. ASSUME NEW j \in 1 .. m PROVE at[j] \in held
  BY <1>2, <1>9, <1>10, <1>11, KvNth
<1>14. KvSaves(k, st, m, at, w)
  BY <1>2, <1>3, <1>12 DEF KvSaves
<1> QED BY <1>1, <1>3, <1>8, <1>13, <1>14

\* state_write saves tokens at positions that exist
LEMMA KvOK_state_write ==
    ASSUME NEW D, KvLayout(D), NEW n \in Nat, NEW q, NEW k, KvCacheOK(D, n, q, k), NEW s \in SeqIds
    PROVE  \E m : KvState(m, KV!state_write(k, s))
<1>1. PICK w : w = KV!state_write(k, s)
  OBVIOUS
<1>2. PICK st \in D : st = KV!seq_to_stream(k, s)
  BY KvStream
<1>3. PICK m, at : /\ m \in Nat
                  /\ KvSaves(k, st, m, at, w)
                  /\ \A j \in 1 .. m : k.cells[st].pos[at[j]] \in Nat
  BY <1>1, <1>2, KvStateSaves
<1>4. KvState(m, w)
  BY <1>3 DEF KvSaves, KvState
<1> QED BY <1>1, <1>4

\* state_read keeps a cache whose cells agree, with room or without
LEMMA KvOK_state_read ==
    ASSUME NEW D, KvLayout(D), NEW n \in Nat, NEW q, NEW k, KvCacheOK(D, n, q, k), NEW s \in SeqIds,
           NEW m, NEW state, KvState(m, state)
    PROVE  KvCacheOK(D, n, q, KV!state_read(k, s, state).k)
<1>1. PICK r : r = KV!state_read(k, s, state)
  OBVIOUS
<1>2. PICK st \in D : st = KV!seq_to_stream(k, s)
  BY KvStream
<1>3. PICK gone : gone = KV!seq_rm(k, s, -1, -1)
  OBVIOUS
<1>4. KvCacheOK(D, n, q, gone)
  BY <1>3, KvOK_seq_rm
<1>5. PICK ub : ub = [t \in {st} |-> [j \in DOMAIN state |-> [seqs |-> {s}, pos |-> state[j].pos]]]
  OBVIOUS
<1>6. PICK slots : slots = KV!find_slot(gone, ub)
  OBVIOUS
<1>7. CASE state = << >>
  <2>1. r = [k |-> k, ok |-> TRUE]
    BY <1>1, <1>7 DEF KV!state_read
  <2> QED BY <1>1, <2>1
<1>8. CASE state # << >> /\ slots = KV!NoSlot
  <2>1. r = [k |-> gone, ok |-> FALSE]
    BY <1>1, <1>2, <1>3, <1>5, <1>6, <1>8 DEF KV!state_read
  <2> QED BY <1>1, <1>4, <2>1
<1>9. CASE state # << >> /\ slots # KV!NoSlot
  <2>1. m \in Nat \ {0} /\ DOMAIN state = 1 .. m
    BY <1>9 DEF KvState
  <2>2. KvUbatch(D, ub)
    <3>1. PICK toks : toks = [j \in 1 .. m |-> [seqs |-> {s}, pos |-> state[j].pos]]
      OBVIOUS
    <3>2. \A j \in 1 .. m : toks[j] \in KvToken
      BY <3>1 DEF KvToken, KvState
    <3>3. toks \in [1 .. m -> KvToken]
      BY <3>1, <3>2
    <3>4. toks \in Seq(KvToken) /\ Len(toks) = m
      BY <2>1, <3>3
    <3>5. toks # << >>
      BY <2>1, <3>4
    <3>6. DOMAIN ub = {st} /\ ub[st] = toks
      BY <1>5, <2>1, <3>1
    <3> QED BY <3>4, <3>5, <3>6 DEF KvUbatch
  <2>3. KvSlots(n, ub, slots)
    BY <1>4, <1>6, <1>9, <2>2, KvOK_find_slot
  <2>4. PICK a : a = KV!apply_ubatch(gone, slots, ub)
    OBVIOUS
  <2>5. KvCacheOK(D, n, q, a)
    BY <1>4, <2>2, <2>3, <2>4, KvOK_apply_ubatch
  <2>6. r = [k |-> KV!Loaded(a, st, slots[st], state), ok |-> TRUE]
    BY <1>1, <1>2, <1>3, <1>5, <1>6, <1>9, <2>4 DEF KV!state_read
  <2>7. KvShape(r.k) /\ r.k.cells = a.cells /\ r.k.heads = a.heads
    BY <2>5, <2>6 DEF KvCacheOK, KvShape, KV!Loaded
  <2> QED BY <1>1, <2>5, <2>7, KvCacheSame
<1> QED BY <1>7, <1>8, <1>9

-----------------------------------------------------------------------------
(***************************************************************************)
(* The memory: the caches M with n[c] cells in each of the streams D, the  *)
(* micro batches that are planned, and a saved state.                      *)
(***************************************************************************)
KvMem(D, M, n, q, m) == DOMAIN m = M /\ \A c \in M : KvCacheOK(D, n[c], q, m[c])

KvSizes(M, n) == "base" \in M /\ \A c \in M : n[c] \in Nat

KvTodoItem(D, M, n, e) ==
    KvUbatch(D, e.ub) /\ \A c \in M : KvSlots(n[c], e.ub, e.slots[c])

KvTodo(D, M, n, w) ==
    /\ \E X : w \in Seq(X)
    /\ \A i \in 1 .. Len(w) : KvTodoItem(D, M, n, w[i])

KvFile(M, f) == f = << >> \/ \A c \in M : \E m : KvState(m, f.state[c])

\* a cache without shifts is fine where shifts may be
LEMMA KvQuiet ==
    ASSUME NEW D, NEW n, NEW q, NEW k, KvCacheOK(D, n, KvYes, k)
    PROVE  KvCacheOK(D, n, q, k)
BY DEF KvCacheOK, KvStreams, KvYes

\* a cache may have shifts
LEMMA KvUnquiet ==
    ASSUME NEW D, NEW n, NEW q, NEW k, KvCacheOK(D, n, q, k)
    PROVE  KvCacheOK(D, n, KvNo, k)
BY DEF KvCacheOK, KvStreams, KvNo

\* memory_update leaves every cache without shifts
LEMMA KvOK_memory_update ==
    ASSUME NEW D, NEW M, NEW n, NEW m, KvMem(D, M, n, KvNo, m)
    PROVE  KvMem(D, M, n, KvYes, memory_update(m))
BY KvOK_update DEF KvMem, memory_update

\* nothing planned is a plan
LEMMA KvEmptyTodo ==
    ASSUME NEW D, NEW M, NEW n
    PROVE  KvTodo(D, M, n, << >>)
<1>1. PICK X, w : X = {} /\ w = << >>
  OBVIOUS
<1>2. w \in Seq(X) /\ Len(w) = 0
  BY <1>1
<1> QED BY <1>1, <1>2 DEF KvTodo

\* what comes of planning
KvPlannedMem(D, M, n, m, a) ==
    /\ KvMem(D, M, n, KvYes, a.m)
    /\ \A c \in M : KvKeeps(D, n[c], m[c], a.m[c])
    /\ KvTodo(D, M, n, a.todo)

\* an attempt to plan keeps the caches, and its plan fits them
LEMMA KvOK_Attempt ==
    ASSUME NEW D, KvLayout(D), NEW M, NEW n, KvSizes(M, n), NEW m, KvMem(D, M, n, KvYes, m),
           NEW ubs, KvUbatches(D, ubs)
    PROVE  KvPlannedMem(D, M, n, m, Attempt(m, ubs))
<1>1. PICK a : a = Attempt(m, ubs)
  OBVIOUS
<1>2. PICK asked : asked = IF KV!prepare(m["base"], ubs).ok THEN DOMAIN m ELSE {"base"}
  OBVIOUS
<1>3. PICK p : p = [c \in asked |-> KV!prepare(m[c], ubs)]
  OBVIOUS
<1>4. PICK ok : ok = \A c \in asked : p[c].ok
  OBVIOUS
<1>5. PICK m2 : m2 = [c \in DOMAIN m |-> IF c \in asked THEN p[c].k ELSE m[c]]
  OBVIOUS
<1>6. PICK w : w = IF ok THEN [j \in 1 .. Len(ubs) |->
                                [ub |-> ubs[j], slots |-> [c \in DOMAIN m |-> p[c].slots[j]]]]
                   ELSE << >>
  OBVIOUS
<1>7. a = [m |-> m2, ok |-> ok, todo |-> w]
  BY <1>1, <1>2, <1>3, <1>4, <1>5, <1>6 DEF Attempt
<1>8. asked \subseteq M /\ DOMAIN m = M /\ "base" \in asked
  BY <1>2 DEF KvMem, KvSizes
<1>9. ASSUME NEW c \in asked
      PROVE  /\ KvCacheOK(D, n[c], KvYes, p[c].k) /\ KvKeeps(D, n[c], m[c], p[c].k)
             /\ p[c].ok => \A i \in 1 .. Len(ubs) : KvSlots(n[c], ubs[i], p[c].slots[i])
  <2>1. PICK nc, k : nc = n[c] /\ k = m[c]
    OBVIOUS
  <2>2. nc \in Nat /\ KvCacheOK(D, nc, KvYes, k)
    BY <1>8, <2>1 DEF KvMem, KvSizes
  <2>3. p[c] = KV!prepare(k, ubs)
    BY <1>3, <2>1
  <2> QED BY <2>1, <2>2, <2>3, KvOK_prepare
<1>10. KvMem(D, M, n, KvYes, m2)
  BY <1>5, <1>8, <1>9 DEF KvMem
<1>12. ASSUME NEW c \in M PROVE KvKeeps(D, n[c], m[c], m2[c])
  <2>1. m2[c] = IF c \in asked THEN p[c].k ELSE m[c]
    BY <1>5, <1>8
  <2> QED BY <1>9, <2>1, KvKeepsSame
<1>11. KvTodo(D, M, n, w)
  <2>1. CASE ~ok
    BY <1>6, <2>1, KvEmptyTodo
  <2>2. CASE ok
    <3>1. asked = M
      <4>1. p["base"] = KV!prepare(m["base"], ubs) /\ p["base"].ok
        BY <1>3, <1>4, <1>8, <2>2
      <4> QED BY <1>2, <1>8, <4>1
    <3>2. PICK N \in Nat : N = Len(ubs)
      BY DEF KvUbatches
    <3>3. w = [j \in 1 .. N |-> [ub |-> ubs[j], slots |-> [c \in M |-> p[c].slots[j]]]]
      BY <1>6, <1>8, <2>2, <3>2
    <3>4. PICK X : X = {w[j] : j \in 1 .. N}
      OBVIOUS
    <3>5. w \in [1 .. N -> X]
      BY <3>3, <3>4
    <3>6. w \in Seq(X) /\ Len(w) = N
      BY <3>2, <3>5
    <3>7. ASSUME NEW i \in 1 .. N PROVE KvTodoItem(D, M, n, w[i])
      <4>1. w[i].ub = ubs[i] /\ \A c \in M : w[i].slots[c] = p[c].slots[i]
        BY <3>3
      <4>2. KvUbatch(D, ubs[i])
        BY <3>2 DEF KvUbatches
      <4>3. \A c \in M : KvSlots(n[c], ubs[i], p[c].slots[i])
        BY <1>4, <1>9, <2>2, <3>1, <3>2
      <4> QED BY <4>1, <4>2, <4>3 DEF KvTodoItem
    <3> QED BY <3>6, <3>7 DEF KvTodo
  <2> QED BY <2>1, <2>2
<1> QED BY <1>1, <1>7, <1>10, <1>11, <1>12 DEF KvPlannedMem

-----------------------------------------------------------------------------
(***************************************************************************)
(* Splits of a batch.                                                      *)
(***************************************************************************)
LEMMA KvUbatchesOf ==
    ASSUME NEW D, NEW N \in Nat, NEW w, w = [j \in 1 .. N |-> w[j]],
           \A j \in 1 .. N : KvUbatch(D, w[j])
    PROVE  KvUbatches(D, w)
<1>1. PICK X : X = {w[j] : j \in 1 .. N}
  OBVIOUS
<1>2. w \in [1 .. N -> X]
  BY <1>1
<1>3. w \in Seq(X) /\ Len(w) = N
  BY <1>2
<1> QED BY <1>3 DEF KvUbatches

\* the micro batches of U of L tokens
LEMMA KvPieces ==
    ASSUME NEW L \in Nat \ {0}, NEW U \in Nat \ {0}, NEW m \in 1 .. ((L + U - 1) \div U)
    PROVE  /\ (m - 1) * U + 1 \in Nat \ {0} /\ m * U \in Nat
           /\ (m - 1) * U + 1 <= m * U /\ (m - 1) * U + 1 <= L
<1>1. PICK q : q = (L + U - 1) \div U
  OBVIOUS
<1>2. q \in Nat /\ U * q <= L + U - 1 /\ m \in 1 .. q
  <2>1. L + U - 1 \in Nat
    OBVIOUS
  <2>2. \A x \in Nat : x \div U \in Nat /\ U * (x \div U) <= x
    OBVIOUS
  <2> QED BY <1>1, <2>1, <2>2
<1>3. U * m <= U * q
  BY <1>2
<1>4. (m - 1) * U = U * m - U /\ m * U = U * m /\ U * m \in Nat /\ U * m >= U
  BY <1>2
<1> QED BY <1>2, <1>3, <1>4

\* two elements are finitely many
LEMMA KvPair == \A a, b : IsFiniteSet({a, b})
<1> TAKE a, b
<1>1. IsFiniteSet({a}) /\ IsFiniteSet({b})
  BY FS_Singleton
<1>2. {a, b} = {a} \cup {b}
  OBVIOUS
<1> QED BY <1>1, <1>2, FS_Union

\* split_simple makes micro batches of the tokens
LEMMA KvOK_split_simple ==
    ASSUME NEW D, 0 \in D, NEW toks \in Seq(KvToken), toks # << >>
    PROVE  KvUbatches(D, split_simple(toks))
<1>1. PICK L \in Nat \ {0}, U \in Nat \ {0} : L = Len(toks) /\ U = NUbatch
  BY KvTokens_Len, KvAssumption
<1>2. PICK N : N = (L + U - 1) \div U
  OBVIOUS
<1>3. N \in Nat
  <2>1. L + U - 1 \in Nat
    OBVIOUS
  <2>2. \A x \in Nat : x \div U \in Nat
    OBVIOUS
  <2> QED BY <1>2, <2>1, <2>2
<1>4. PICK w : w = split_simple(toks)
  OBVIOUS
<1>5. w = [m \in 1 .. N |-> [st \in {0} |-> SubSeq(toks, (m - 1) * U + 1, Min({m * U, L}))]]
  BY <1>1, <1>2, <1>4 DEF split_simple
<1>6. ASSUME NEW m \in 1 .. N PROVE KvUbatch(D, w[m])
  <2>1. PICK lo, full : lo = (m - 1) * U + 1 /\ full = m * U
    OBVIOUS
  <2>2. lo \in Nat \ {0} /\ full \in Nat /\ lo <= full /\ lo <= L
    BY <1>2, <2>1, KvPieces
  <2>3. PICK hi : hi = Min({full, L})
    OBVIOUS
  <2>4. hi \in {full, L} /\ hi <= L
    <3>1. IsFiniteSet({full, L})
      BY KvPair
    <3>2. {full, L} \in SUBSET Int /\ {full, L} # {}
      BY <2>2
    <3> QED BY <2>3, <3>1, <3>2, KvMin
  <2>5. PICK t : t = SubSeq(toks, lo, hi)
    OBVIOUS
  <2>6. t \in Seq(KvToken) /\ t # << >>
    <3>1. lo \in 1 .. L /\ hi \in 1 .. L /\ lo <= hi
      BY <2>2, <2>4
    <3>2. t \in Seq(KvToken) /\ Len(t) = hi - lo + 1
      BY <1>1, <2>5, <3>1
    <3> QED BY <3>1, <3>2
  <2>7. w[m] = [st \in {0} |-> t]
    BY <1>5, <2>1, <2>3, <2>5
  <2> QED BY <2>6, <2>7 DEF KvUbatch
<1>7. w = [j \in 1 .. N |-> w[j]]
  BY <1>5
<1> QED BY <1>3, <1>4, <1>6, <1>7, KvUbatchesOf

KvSets(toks, left, sequential, N, f) ==
    f = [j \in 0 .. N |-> IF j = 0 THEN << >> ELSE WithSet(toks, left, sequential, f[j-1], j)]

\* the recursion of SeqSets is defined
LEMMA KvSetsExist ==
    ASSUME NEW toks, NEW left, NEW sequential
    PROVE  \A N \in Nat : \E f : KvSets(toks, left, sequential, N, f)
<1>1. PICK Bad : Bad = {N \in Nat : ~ \E f : KvSets(toks, left, sequential, N, f)}
  OBVIOUS
<1>2. SUFFICES ASSUME Bad # {} PROVE FALSE
  BY <1>1
<1>3. PICK N \in Bad : \A l \in Bad : N <= l
  BY <1>1, <1>2, KvLeastNat
<1>4. CASE N = 0
  <2>1. PICK g : g = [j \in 0 .. 0 |-> << >>]
    OBVIOUS
  <2>2. KvSets(toks, left, sequential, 0, g)
    BY <2>1 DEF KvSets
  <2> QED BY <1>1, <1>4, <2>2
<1>5. CASE N # 0
  <2>1. N - 1 \in Nat /\ N \in Nat /\ N - 1 \notin Bad
    BY <1>1, <1>3, <1>5
  <2>2. PICK f : KvSets(toks, left, sequential, N-1, f)
    BY <1>1, <2>1
  <2>3. PICK g : g = [j \in 0 .. N |-> IF j = 0 THEN << >> ELSE WithSet(toks, left, sequential, f[j-1], j)]
    OBVIOUS
  <2>4. \A j \in 0 .. N-1 : g[j] = f[j]
    BY <2>1, <2>2, <2>3 DEF KvSets
  <2>5. \A j \in 0 .. N : j # 0 => j-1 \in 0 .. N-1
    BY <2>1
  <2>6. KvSets(toks, left, sequential, N, g)
    BY <2>3, <2>4, <2>5 DEF KvSets
  <2> QED BY <1>1, <2>1, <2>6
<1> QED BY <1>4, <1>5

KvSetsOf(toks, left) == {toks[i].seqs : i \in left}

\* SeqSets gives sets of tokens that are left, at least one
LEMMA KvOK_SeqSets ==
    ASSUME NEW toks \in Seq(KvToken), NEW left \in SUBSET DOMAIN toks, left # {}, NEW sequential
    PROVE  /\ SeqSets(toks, left, sequential) \in Seq(KvSetsOf(toks, left))
           /\ SeqSets(toks, left, sequential) # << >>
<1>1. PICK N \in Nat : N = Len(toks) /\ DOMAIN toks = 1 .. N
  OBVIOUS
<1>2. PICK X : X = KvSetsOf(toks, left)
  OBVIOUS
<1> DEFINE Eq(g) == [j \in 0 .. N |-> IF j = 0 THEN << >>
                                      ELSE WithSet(toks, left, sequential, g[j-1], j)]
<1>3. \E g : g = Eq(g)
  <2>1. PICK g : KvSets(toks, left, sequential, N, g)
    BY KvSetsExist
  <2>2. g = Eq(g)
    BY <2>1 DEF KvSets
  <2> QED BY <2>2
<1>4. PICK f : f = CHOOSE g : g = Eq(g)
  OBVIOUS
<1>5. f = Eq(f)
  <2> HIDE DEF Eq
  <2> QED BY <1>3, <1>4, Zenon
<1>6. SeqSets(toks, left, sequential) = f[N]
  BY <1>1, <1>4, Zenon DEF SeqSets
<1>7. ASSUME NEW j \in 1 .. N, f[j-1] \in Seq(X)
      PROVE  /\ f[j] \in Seq(X)
             /\ j \in left \/ f[j-1] # << >> => f[j] # << >>
  <2>1. PICK s : s = f[j-1]
    OBVIOUS
  <2>2. f[j] = WithSet(toks, left, sequential, s, j) /\ s \in Seq(X)
    BY <1>5, <1>7, <2>1
  <2>3. CASE f[j] = Append(s, toks[j].seqs) /\ j \in left
    <3>1. toks[j].seqs \in X
      BY <1>2, <2>3 DEF KvSetsOf
    <3> QED BY <2>2, <2>3, <3>1
  <2>4. CASE f[j] = s /\ (j \in left => s # << >>)
    BY <2>1, <2>2, <2>4
  <2>5. s = << >> => Len(s) <= NUbatch /\ Range(s) = {}
    BY KvAssumption DEF Range
  <2> QED BY <2>2, <2>3, <2>4, <2>5 DEF WithSet
<1>8. \A j \in 0 .. N : f[j] \in Seq(X) /\ ((\E i \in left : i <= j) => f[j] # << >>)
  <2>1. PICK Bad : Bad = {j \in 0 .. N : ~(f[j] \in Seq(X) /\ ((\E i \in left : i <= j) => f[j] # << >>))}
    OBVIOUS
  <2>2. SUFFICES ASSUME Bad # {} PROVE FALSE
    BY <2>1
  <2>7. Bad \in SUBSET Nat
    BY <2>1
  <2>3. PICK j \in Bad : \A l \in Bad : j <= l
    BY <2>2, <2>7, KvLeastNat
  <2>4. left \subseteq 1 .. N
    BY <1>1
  <2>5. CASE j = 0
    <3>1. f[0] = << >> /\ << >> \in Seq(X)
      BY <1>5
    <3>2. ~ \E i \in left : i <= 0
      BY <2>4
    <3> QED BY <2>1, <2>5, <3>1, <3>2
  <2>6. CASE j # 0
    <3>1. j \in 1 .. N /\ j - 1 \in 0 .. N /\ j - 1 \notin Bad
      BY <2>1, <2>3, <2>6
    <3>2. f[j-1] \in Seq(X) /\ ((\E i \in left : i <= j-1) => f[j-1] # << >>)
      BY <2>1, <3>1
    <3>3. f[j] \in Seq(X) /\ (j \in left \/ f[j-1] # << >> => f[j] # << >>)
      BY <1>7, <3>1, <3>2
    <3>4. (\E i \in left : i <= j) => j \in left \/ \E i \in left : i <= j-1
      BY <2>4, <3>1
    <3> QED BY <2>1, <3>2, <3>3, <3>4
  <2> QED BY <2>5, <2>6
<1>9. \E i \in left : i <= N
  BY <1>1
<1>10. f[N] \in Seq(X) /\ f[N] # << >>
  BY <1>8, <1>9
<1> QED BY <1>2, <1>6, <1>10

\* the streams of the memory, as split_equal sees them
KvSplitInto(D) == 0 \in D /\ (unified \/ D = SeqIds)

\* what is left of a batch, and the micro batches so far
KvSplitOK(D, toks, a) ==
    /\ a \in [left : SUBSET DOMAIN toks, ubs : {a.ubs}]
    /\ \E X : a.ubs \in Seq(X)
    /\ \A i \in 1 .. Len(a.ubs) : KvUbatch(D, a.ubs[i])

\* the j-th of n tokens of each of K sets
LEMMA KvRows ==
    ASSUME NEW n \in Nat \ {0}, NEW K \in Nat \ {0}, NEW j \in 1 .. n * K
    PROVE  (j - 1) \div n + 1 \in 1 .. K /\ ((j - 1) % n) + 1 \in 1 .. n
<1>1. PICK x, q, r : x \in Nat /\ x = j - 1 /\ q = x \div n /\ r = x % n
  <2>1. j \in Nat /\ j >= 1
    OBVIOUS
  <2>2. j - 1 \in Nat
    BY <2>1
  <2> QED BY <2>2
<1>2. \A y \in Nat : y \div n \in Nat /\ n * (y \div n) <= y /\ y % n \in 0 .. n-1
  OBVIOUS
<1>3. q \in Nat /\ n * q <= x /\ r \in 0 .. n-1 /\ x < n * K
  BY <1>1, <1>2
<1>4. q < K
  <2>1. SUFFICES ASSUME q >= K PROVE FALSE
    BY <1>3
  <2>2. n * q >= n * K
    BY <1>3, <2>1
  <2> QED BY <1>1, <1>3, <2>2
<1> QED BY <1>1, <1>3, <1>4

\* every set of sequences gives at least one token, and not more than it has
LEMMA KvShares ==
    ASSUME NEW K \in Nat \ {0}, NEW count \in [1 .. K -> Nat \ {0}], NEW m, m = Max({1, NUbatch \div K}),
           NEW n, n = Min({count[k] : k \in 1 .. K} \cup {m})
    PROVE  n \in Nat \ {0} /\ \A k \in 1 .. K : n <= count[k]
<1>1. m \in Nat \ {0}
  <2>1. PICK d : d = NUbatch \div K
    OBVIOUS
  <2>2. d \in Nat
    BY <2>1, KvAssumption
  <2>3. {1, d} \in SUBSET Int /\ {1, d} # {}
    BY <2>2
  <2>4. IsFiniteSet({1, d})
    BY KvPair
  <2>5. m \in {1, d} /\ m >= 1
    BY <2>1, <2>3, <2>4, KvMax
  <2> QED BY <2>2, <2>5
<1>2. PICK C : C = {count[k] : k \in 1 .. K}
  OBVIOUS
<1>3. PICK S : S = C \cup {m}
  OBVIOUS
<1>4. IsFiniteSet(C)
  <2>1. IsFiniteSet(1 .. K)
    BY FS_Interval
  <2>2. count \in Surjection(1 .. K, C)
    BY <1>2 DEF Surjection
  <2> QED BY <2>1, <2>2, FS_Surjection
<1>5. IsFiniteSet(S)
  BY <1>3, <1>4, FS_Singleton, FS_Union
<1>9. C \subseteq Nat \ {0}
  BY <1>2
<1>6. S \subseteq Nat \ {0} /\ S # {} /\ S \in SUBSET Int
  <2>1. S # {}
    BY <1>3
  <2>2. \A x \in S : x \in Nat \ {0}
    BY <1>1, <1>3, <1>9
  <2>3. S \subseteq Nat \ {0}
    BY <2>2
  <2>4. \A x \in S : x \in Int
    BY <2>2
  <2>5. S \in SUBSET Int
    BY <2>4
  <2> QED BY <2>1, <2>3, <2>5
<1>7. n \in S /\ \A y \in S : n <= y
  BY <1>2, <1>3, <1>5, <1>6, KvMin
<1>8. \A k \in 1 .. K : count[k] \in S
  BY <1>2, <1>3
<1> QED BY <1>6, <1>7, <1>8

\* split_equal goes on to a next micro batch of tokens that are left
LEMMA KvOK_SplitNext ==
    ASSUME NEW D, KvSplitInto(D), NEW toks \in Seq(KvToken), NEW sequential,
           NEW a, KvSplitOK(D, toks, a), a.left # {}
    PROVE  KvSplitOK(D, toks, SplitNext(toks, sequential, a))
<1> DEFINE of(k)    == {i \in a.left : toks[i].seqs = SeqSets(toks, a.left, sequential)[k]}
           nn       == Min({Cardinality(of(k)) : k \in DOMAIN SeqSets(toks, a.left, sequential)}
                           \cup {Max({1, NUbatch \div Len(SeqSets(toks, a.left, sequential))})})
           tok(k,j) == toks[KV!Nth(of(k), j)]
           UB       == IF unified
                       THEN [st \in {0} |-> [j \in 1 .. nn * Len(SeqSets(toks, a.left, sequential)) |->
                                               tok((j - 1) \div nn + 1, ((j - 1) % nn) + 1)]]
                       ELSE [st \in {Min(S) : S \in Range(SeqSets(toks, a.left, sequential))} |->
                               [j \in 1 .. nn |->
                                 tok(CHOOSE k \in DOMAIN SeqSets(toks, a.left, sequential) :
                                       Min(SeqSets(toks, a.left, sequential)[k]) = st, j)]]
<1>1. PICK r : r = SplitNext(toks, sequential, a)
  OBVIOUS
<1>2. r = [left |-> a.left \ UNION {{KV!Nth(of(k), j) : j \in 1 .. nn} : k \in DOMAIN SeqSets(toks, a.left, sequential)},
           ubs  |-> Append(a.ubs, UB)]
  BY <1>1, Zenon DEF SplitNext
<1>3. PICK sets : sets = SeqSets(toks, a.left, sequential)
  OBVIOUS
<1>4. a.left \in SUBSET DOMAIN toks
  BY DEF KvSplitOK
<1>5. sets \in Seq(KvSetsOf(toks, a.left)) /\ sets # << >>
  BY <1>3, <1>4, KvOK_SeqSets
<1>6. PICK K \in Nat \ {0} : K = Len(sets) /\ DOMAIN sets = 1 .. K
  BY <1>5
<1>7. IsFiniteSet(a.left) /\ a.left \in SUBSET Int /\ a.left \subseteq DOMAIN toks
  <2>1. PICK N \in Nat : N = Len(toks) /\ DOMAIN toks = 1 .. N
    OBVIOUS
  <2>2. IsFiniteSet(1 .. N)
    BY FS_Interval
  <2>3. IsFiniteSet(a.left)
    BY <1>4, <2>1, <2>2, FS_Subset
  <2> QED BY <1>4, <2>1, <2>3
<1>8. PICK O : O = [k \in 1 .. K |-> of(k)]
  OBVIOUS
<1>9. \A k \in 1 .. K : O[k] = of(k) /\ O[k] \in SUBSET a.left /\ O[k] # {}
  <2> TAKE k \in 1 .. K
  <2>1. PICK i \in a.left : sets[k] = toks[i].seqs
    <3>1. sets[k] \in KvSetsOf(toks, a.left)
      BY <1>5, <1>6
    <3> QED BY <3>1 DEF KvSetsOf
  <2>2. O[k] = {x \in a.left : toks[x].seqs = sets[k]}
    BY <1>3, <1>8
  <2> QED BY <1>8, <2>1, <2>2
<1> HIDE DEF of
<1>10. \A k \in 1 .. K : IsFiniteSet(O[k]) /\ O[k] \in SUBSET Int /\ O[k] \subseteq DOMAIN toks
  <2> TAKE k \in 1 .. K
  <2>1. O[k] \in SUBSET a.left
    BY <1>9
  <2>2. IsFiniteSet(O[k])
    BY <1>7, <2>1, FS_Subset
  <2> QED BY <1>7, <2>1, <2>2
<1>11. PICK count : count = [k \in 1 .. K |-> Cardinality(O[k])]
  OBVIOUS
<1>12. count \in [1 .. K -> Nat \ {0}]
  <2>1. ASSUME NEW k \in 1 .. K PROVE count[k] \in Nat \ {0}
    <3>1. Cardinality(O[k]) \in Nat /\ Cardinality(O[k]) # 0
      BY <1>9, <1>10, FS_CardinalityType, FS_EmptySet
    <3> QED BY <1>11, <3>1
  <2> QED BY <1>11, <2>1
<1>13. PICK n : n = nn
  OBVIOUS
<1>14. n \in Nat \ {0} /\ \A k \in 1 .. K : n <= count[k]
  <2>1. {Cardinality(of(k)) : k \in DOMAIN sets} = {count[k] : k \in 1 .. K}
    <3>1. \A k \in 1 .. K : Cardinality(of(k)) = count[k]
      BY <1>9, <1>11
    <3> QED BY <1>6, <3>1
  <2>2. n = Min({Cardinality(of(k)) : k \in DOMAIN sets} \cup {Max({1, NUbatch \div Len(sets)})})
    BY <1>3, <1>13
  <2>3. n = Min({count[k] : k \in 1 .. K} \cup {Max({1, NUbatch \div K})})
    BY <1>6, <2>1, <2>2
  <2>4. PICK m : m = Max({1, NUbatch \div K})
    OBVIOUS
  <2>5. n = Min({count[k] : k \in 1 .. K} \cup {m})
    BY <2>3, <2>4
  <2> QED BY <1>12, <2>4, <2>5, KvShares
<1>15. \A k \in 1 .. K, j \in 1 .. n : tok(k, j) \in KvToken
  <2> TAKE k \in 1 .. K, j \in 1 .. n
  <2>1. PICK G : G = O[k]
    OBVIOUS
  <2>2. G \in SUBSET Int /\ IsFiniteSet(G) /\ G \subseteq DOMAIN toks
    BY <1>10, <2>1
  <2>3. count[k] = Cardinality(G) /\ count[k] \in Nat /\ n <= count[k]
    BY <1>11, <1>12, <1>14, <2>1
  <2>4. j \in 1 .. Cardinality(G)
    BY <1>14, <2>3
  <2>5. PICK x : x = KV!Nth(G, j)
    OBVIOUS
  <2>6. x \in DOMAIN toks
    BY <2>2, <2>4, <2>5, KvNth
  <2>7. tok(k, j) = toks[x]
    BY <1>9, <2>1, <2>5
  <2>8. toks[x] \in KvToken
    BY <2>6
  <2> QED BY <2>7, <2>8
<1>16. PICK ub : ub = UB
  OBVIOUS
<1> HIDE DEF tok, nn
<1>17. KvUbatch(D, ub)
  <2>1. CASE unified
    <3>1. PICK L : L = n * K
      OBVIOUS
    <3>2. L \in Nat \ {0}
      BY <1>14, <3>1
    <3>3. PICK t : t = [j \in 1 .. L |-> tok((j - 1) \div n + 1, ((j - 1) % n) + 1)]
      OBVIOUS
    <3>4. ub = [st \in {0} |-> t]
      BY <1>3, <1>6, <1>13, <1>16, <2>1, <3>1, <3>3
    <3>5. \A j \in 1 .. L : t[j] \in KvToken
      <4> TAKE j \in 1 .. L
      <4>1. PICK x, y : x = (j - 1) \div n + 1 /\ y = ((j - 1) % n) + 1
        OBVIOUS
      <4>2. x \in 1 .. K /\ y \in 1 .. n
        BY <1>14, <3>1, <4>1, KvRows
      <4>3. t[j] = tok(x, y)
        BY <3>3, <4>1
      <4> QED BY <1>15, <4>2, <4>3
    <3>6. t \in [1 .. L -> KvToken]
      BY <3>3, <3>5
    <3>7. t \in Seq(KvToken) /\ Len(t) = L
      BY <3>2, <3>6
    <3>8. t # << >>
      BY <3>2, <3>7
    <3> QED BY <3>4, <3>7, <3>8 DEF KvUbatch, KvSplitInto
  <2>2. CASE ~unified
    <3>1. PICK S0 : S0 = {Min(S) : S \in Range(sets)}
      OBVIOUS
    <3>2. ub = [st \in S0 |-> [j \in 1 .. n |-> tok(CHOOSE k \in DOMAIN sets : Min(sets[k]) = st, j)]]
      BY <1>3, <1>13, <1>16, <2>2, <3>1
    <3>3. \A k \in 1 .. K : Min(sets[k]) \in SeqIds
      <4> TAKE k \in 1 .. K
      <4>1. sets[k] \in KvSetsOf(toks, a.left)
        BY <1>5, <1>6
      <4>2. PICK i \in DOMAIN toks : sets[k] = toks[i].seqs
        BY <1>7, <4>1 DEF KvSetsOf
      <4>3. toks[i] \in KvToken
        OBVIOUS
      <4>4. PICK S : S = sets[k]
        OBVIOUS
      <4>5. S \in SUBSET SeqIds /\ S # {}
        BY <4>2, <4>3, <4>4 DEF KvToken
      <4>6. IsFiniteSet(SeqIds) /\ SeqIds \in SUBSET Int
        BY KvAssumption, FS_Interval DEF SeqIds
      <4>7. IsFiniteSet(S) /\ S \in SUBSET Int
        BY <4>5, <4>6, FS_Subset
      <4>8. Min(S) \in S
        BY <4>5, <4>7, KvMin
      <4> QED BY <4>4, <4>5, <4>8
    <3>4. S0 \subseteq SeqIds
      <4>1. Range(sets) = {sets[k] : k \in 1 .. K}
        BY <1>6 DEF Range
      <4> QED BY <3>1, <3>3, <4>1
    <3>5. ASSUME NEW st \in S0 PROVE ub[st] \in Seq(KvToken) /\ ub[st] # << >>
      <4>1. PICK x : x = CHOOSE k \in DOMAIN sets : Min(sets[k]) = st
        OBVIOUS
      <4>2. x \in 1 .. K
        <5>1. \E k \in DOMAIN sets : Min(sets[k]) = st
          BY <3>1, <3>5, <1>6 DEF Range
        <5> QED BY <1>6, <4>1, <5>1
      <4>3. PICK t : t = [j \in 1 .. n |-> tok(x, j)]
        OBVIOUS
      <4>4. t \in [1 .. n -> KvToken]
        BY <1>15, <4>2, <4>3
      <4>5. t \in Seq(KvToken) /\ Len(t) = n
        BY <1>14, <4>4
      <4>6. t # << >>
        BY <1>14, <4>5
      <4>7. ub[st] = t
        BY <3>2, <4>1, <4>3
      <4> QED BY <4>5, <4>6, <4>7
    <3>6. DOMAIN ub = S0
      BY <3>2
    <3> QED BY <2>2, <3>4, <3>5, <3>6 DEF KvUbatch, KvSplitInto
  <2> QED BY <2>1, <2>2
<1>18. r.left \in SUBSET DOMAIN toks /\ r.ubs = Append(a.ubs, ub)
       /\ r \in [left : SUBSET DOMAIN toks, ubs : {r.ubs}]
  <2>1. PICK gone : gone = UNION {{KV!Nth(of(k), j) : j \in 1 .. nn} : k \in DOMAIN SeqSets(toks, a.left, sequential)}
    OBVIOUS
  <2>2. r = [left |-> a.left \ gone, ubs |-> Append(a.ubs, ub)]
    BY <1>2, <1>16, <2>1
  <2> QED BY <1>7, <2>2
<1>19. PICK X : a.ubs \in Seq(X)
  BY DEF KvSplitOK
<1>25. Len(a.ubs) \in Nat
  BY <1>19
<1>20. PICK l, s, Y : l \in Nat /\ l = Len(a.ubs) /\ s = a.ubs /\ Y = X \cup {ub}
  BY <1>25, Zenon
<1>21. s \in Seq(Y) /\ ub \in Y /\ Len(s) = l
  <2>1. s \in Seq(X) /\ Len(s) = l
    BY <1>19, <1>20
  <2>2. X \subseteq Y /\ ub \in Y
    BY <1>20
  <2>3. \A i \in 1 .. l : s[i] \in Y
    BY <2>1, <2>2
  <2>4. s \in [1 .. l -> Y]
    BY <2>1, <2>3
  <2> QED BY <2>1, <2>2, <2>4
<1>22. /\ Append(s, ub) \in Seq(Y) /\ Len(Append(s, ub)) = l+1 /\ Append(s, ub)[l+1] = ub
       /\ \A i \in 1 .. l : Append(s, ub)[i] = s[i]
  BY <1>21
<1>23. r.ubs \in Seq(Y) /\ Len(r.ubs) = l+1 /\ r.ubs[l+1] = ub /\ \A i \in 1 .. l : r.ubs[i] = a.ubs[i]
  BY <1>18, <1>20, <1>22
<1>24. ASSUME NEW i \in 1 .. l+1 PROVE KvUbatch(D, r.ubs[i])
  <2>1. CASE i = l+1
    BY <1>17, <1>23, <2>1
  <2>2. CASE i \in 1 .. l
    BY <1>20, <1>23, <2>2 DEF KvSplitOK
  <2> QED BY <1>20, <2>1, <2>2
<1> QED BY <1>1, <1>18, <1>23, <1>24 DEF KvSplitOK

KvSplit(toks, sequential, N, f) ==
    f = [j \in 0 .. N |-> IF j = 0 THEN [left |-> DOMAIN toks, ubs |-> << >>] ELSE SplitOn(toks, sequential, f[j-1])]

\* the recursion of split_equal is defined
LEMMA KvSplitExist ==
    ASSUME NEW toks, NEW sequential
    PROVE  \A N \in Nat : \E f : KvSplit(toks, sequential, N, f)
<1>1. PICK Bad : Bad = {N \in Nat : ~ \E f : KvSplit(toks, sequential, N, f)}
  OBVIOUS
<1>2. SUFFICES ASSUME Bad # {} PROVE FALSE
  BY <1>1
<1>3. PICK N \in Bad : \A l \in Bad : N <= l
  BY <1>1, <1>2, KvLeastNat
<1>4. CASE N = 0
  <2>1. PICK g : g = [j \in 0 .. 0 |-> [left |-> DOMAIN toks, ubs |-> << >>]]
    OBVIOUS
  <2>2. KvSplit(toks, sequential, 0, g)
    BY <2>1 DEF KvSplit
  <2> QED BY <1>1, <1>4, <2>2
<1>5. CASE N # 0
  <2>1. N - 1 \in Nat /\ N \in Nat /\ N - 1 \notin Bad
    BY <1>1, <1>3, <1>5
  <2>2. PICK f : KvSplit(toks, sequential, N-1, f)
    BY <1>1, <2>1
  <2>3. PICK g : g = [j \in 0 .. N |-> IF j = 0 THEN [left |-> DOMAIN toks, ubs |-> << >>] ELSE SplitOn(toks, sequential, f[j-1])]
    OBVIOUS
  <2>4. \A j \in 0 .. N-1 : g[j] = f[j]
    BY <2>1, <2>2, <2>3 DEF KvSplit
  <2>5. \A j \in 0 .. N : j # 0 => j-1 \in 0 .. N-1
    BY <2>1
  <2>6. KvSplit(toks, sequential, N, g)
    BY <2>3, <2>4, <2>5 DEF KvSplit
  <2> QED BY <1>1, <2>1, <2>6
<1> QED BY <1>4, <1>5

\* split_equal makes micro batches of the tokens, for streams that exist
LEMMA KvOK_split_equal ==
    ASSUME NEW D, KvSplitInto(D), NEW toks \in Seq(KvToken), NEW sequential
    PROVE  KvUbatches(D, split_equal(toks, sequential))
<1>1. PICK N \in Nat : N = Len(toks)
  OBVIOUS
<1> DEFINE Eq(g) == [j \in 0 .. N |-> IF j = 0 THEN [left |-> DOMAIN toks, ubs |-> << >>]
                                      ELSE SplitOn(toks, sequential, g[j-1])]
<1>3. \E g : g = Eq(g)
  <2>1. PICK g : KvSplit(toks, sequential, N, g)
    BY KvSplitExist
  <2>2. g = Eq(g)
    BY <2>1 DEF KvSplit
  <2> QED BY <2>2
<1>4. PICK f : f = CHOOSE g : g = Eq(g)
  OBVIOUS
<1>5. f = Eq(f)
  <2> HIDE DEF Eq
  <2> QED BY <1>3, <1>4, Zenon
<1>6. split_equal(toks, sequential) = f[N].ubs
  BY <1>1, <1>4, Zenon DEF split_equal
<1>7. \A j \in 0 .. N : KvSplitOK(D, toks, f[j])
  <2>1. PICK Bad : Bad = {j \in 0 .. N : ~KvSplitOK(D, toks, f[j])}
    OBVIOUS
  <2>2. SUFFICES ASSUME Bad # {} PROVE FALSE
    BY <2>1
  <2>3. Bad \in SUBSET Nat
    BY <2>1
  <2>4. PICK j \in Bad : \A l \in Bad : j <= l
    BY <2>2, <2>3, KvLeastNat
  <2>5. CASE j = 0
    <3>1. PICK a : a = [left |-> DOMAIN toks, ubs |-> << >>]
      OBVIOUS
    <3>2. PICK X : X = {}
      OBVIOUS
    <3>3. a.ubs \in Seq(X) /\ Len(a.ubs) = 0 /\ a \in [left : SUBSET DOMAIN toks, ubs : {a.ubs}]
      BY <3>1
    <3>4. KvSplitOK(D, toks, a)
      BY <3>3 DEF KvSplitOK
    <3>5. f[0] = a
      BY <1>5, <3>1
    <3> QED BY <2>1, <2>5, <3>4, <3>5
  <2>6. CASE j # 0
    <3>1. j \in 0 .. N /\ j - 1 \in 0 .. N /\ j - 1 \notin Bad
      BY <2>1, <2>4, <2>6
    <3>2. PICK a : a = f[j-1]
      OBVIOUS
    <3>3. KvSplitOK(D, toks, a)
      BY <2>1, <3>1, <3>2
    <3>4. f[j] = IF a.left = {} THEN a ELSE SplitNext(toks, sequential, a)
      BY <1>5, <2>6, <3>1, <3>2 DEF SplitOn
    <3>5. KvSplitOK(D, toks, f[j])
      BY <3>3, <3>4, KvOK_SplitNext
    <3> QED BY <2>1, <3>5
  <2> QED BY <2>5, <2>6
<1>8. PICK a : a = f[N]
  OBVIOUS
<1>9. KvSplitOK(D, toks, a)
  BY <1>7, <1>8
<1>10. PICK X : a.ubs \in Seq(X)
  BY <1>9 DEF KvSplitOK
<1> QED BY <1>6, <1>8, <1>9, <1>10 DEF KvSplitOK, KvUbatches

\* one stream for all sequences, or one for each
KvOneStream(D, m) == \A c \in DOMAIN m : KV!n_stream(m[c]) = Cardinality(D)

\* the streams of a cache, counted
LEMMA KvStreamsOf ==
    ASSUME NEW D, NEW n, NEW q, NEW k, KvCacheOK(D, n, q, k)
    PROVE  KV!n_stream(k) = Cardinality(D)
BY KvCache_Cardinality DEF KV!n_stream, KvCacheOK, KvStreams

\* unified says whether there is one stream, so tokens can be split into those that exist
LEMMA KvUnified ==
    ASSUME NEW D, KvLayout(D), NEW M, NEW n, KvSizes(M, n), NEW q, KvMem(D, M, n, q, kv)
    PROVE  /\ unified <=> Cardinality(D) = 1
           /\ unified => D = {0}
           /\ ~unified => D = SeqIds
           /\ KvSplitInto(D)
<1>1. KvCacheOK(D, n["base"], q, kv["base"])
  BY DEF KvMem, KvSizes
<1>2. unified <=> Cardinality(D) = 1
  BY <1>1, KvStreamsOf DEF unified
<1>3. 0 \in SeqIds
  BY KvAssumption DEF SeqIds
<1>4. Cardinality({0}) = 1
  BY FS_Singleton
<1>5. Cardinality(SeqIds) = NSeqMax
  BY KvAssumption, FS_Interval DEF SeqIds
<1>6. CASE D = {0}
  BY <1>2, <1>4, <1>6 DEF KvSplitInto
<1>7. CASE D = SeqIds
  <2>1. unified => NSeqMax = 1
    BY <1>2, <1>5, <1>7
  <2>2. unified => D = {0}
    BY <1>7, <2>1 DEF SeqIds
  <2> QED BY <1>2, <1>3, <1>7, <2>2 DEF KvSplitInto
<1> QED BY <1>6, <1>7 DEF KvLayout

\* the second attempt of init_batch keeps the caches as well
LEMMA KvOK_SecondChance ==
    ASSUME NEW D, KvLayout(D), KvSplitInto(D), NEW M, NEW n, KvSizes(M, n),
           NEW m0, NEW a, KvPlannedMem(D, M, n, m0, a), NEW toks \in Seq(KvToken)
    PROVE  KvPlannedMem(D, M, n, m0, SecondChance(toks, a))
<1>1. CASE a.ok \/ ~unified \/ "swa" \notin DOMAIN a.m
  BY <1>1 DEF SecondChance
<1>2. CASE ~(a.ok \/ ~unified \/ "swa" \notin DOMAIN a.m)
  <2>1. SecondChance(toks, a) = Attempt(a.m, split_equal(toks, FALSE))
    BY <1>2 DEF SecondChance
  <2>2. PICK ubs : ubs = split_equal(toks, FALSE)
    OBVIOUS
  <2>3. KvUbatches(D, split_equal(toks, KvNo))
    BY KvOK_split_equal
  <2>4. KvUbatches(D, ubs)
    BY <2>2, <2>3 DEF KvNo
  <2>5. KvMem(D, M, n, KvYes, a.m)
    BY DEF KvPlannedMem
  <2>6. PICK m : m = a.m
    OBVIOUS
  <2>7. PICK r : r = Attempt(m, ubs)
    OBVIOUS
  <2>8. KvPlannedMem(D, M, n, m, r)
    BY <2>4, <2>5, <2>6, <2>7, KvOK_Attempt
  <2>9. ASSUME NEW c \in M PROVE KvKeeps(D, n[c], m0[c], r.m[c])
    <3>1. KvKeeps(D, n[c], m0[c], m[c]) /\ KvKeeps(D, n[c], m[c], r.m[c])
      BY <2>6, <2>8 DEF KvPlannedMem
    <3> QED BY <3>1, KvKeepsBoth
  <2>10. KvPlannedMem(D, M, n, m0, r)
    BY <2>8, <2>9 DEF KvPlannedMem
  <2> QED BY <2>1, <2>2, <2>6, <2>7, <2>10
<1> QED BY <1>1, <1>2

\* init_batch keeps the caches, and what it plans fits them
LEMMA KvOK_init_batch ==
    ASSUME NEW D, KvLayout(D), KvSplitInto(D), NEW M, NEW n, KvSizes(M, n), NEW m, KvMem(D, M, n, KvYes, m),
           NEW toks \in Seq(KvToken), toks # << >>
    PROVE  KvPlannedMem(D, M, n, m, init_batch(m, toks))
<1>1. CASE ~Splittable(toks)
  <2>1. PICK r : r = [m |-> m, ok |-> FALSE, todo |-> << >>]
    OBVIOUS
  <2>2. init_batch(m, toks) = r
    BY <1>1, <2>1 DEF init_batch
  <2>3. r.m = m /\ r.todo = << >>
    BY <2>1
  <2>4. \A c \in M : KvKeeps(D, n[c], m[c], r.m[c])
    BY <2>3, KvKeepsSame
  <2> QED BY <2>2, <2>3, <2>4, KvEmptyTodo DEF KvPlannedMem
<1>2. CASE Splittable(toks)
  <2>1. PICK ubs : ubs = IF unified THEN split_simple(toks) ELSE split_equal(toks, TRUE)
    OBVIOUS
  <2>2. 0 \in D
    BY DEF KvSplitInto
  <2>3. KvUbatches(D, split_simple(toks))
    BY <2>2, KvOK_split_simple
  <2>4. KvUbatches(D, split_equal(toks, KvYes))
    BY KvOK_split_equal
  <2>5. KvUbatches(D, ubs)
    BY <2>1, <2>3, <2>4 DEF KvYes
  <2>6. PICK a : a = Attempt(m, ubs)
    OBVIOUS
  <2>7. KvPlannedMem(D, M, n, m, a)
    BY <2>5, <2>6, KvOK_Attempt
  <2>8. init_batch(m, toks) = SecondChance(toks, a)
    BY <1>2, <2>1, <2>6 DEF init_batch
  <2> QED BY <2>7, <2>8, KvOK_SecondChance
<1> QED BY <1>1, <1>2

\* the tokens of a batch
LEMMA KvOK_Positioned ==
    ASSUME NEW b \in Batches, NEW toks, toks = Positioned(b),
           \A tok \in Range(toks) : tok.pos \in 0 .. MaxPos
    PROVE  toks \in Seq(KvToken) /\ toks # << >>
<1>1. b \in Seq((SUBSET SeqIds) \ {{}}) /\ b # << >>
  BY KvAssumption DEF SeqIds
<1>2. PICK N \in Nat \ {0} : N = Len(b) /\ DOMAIN b = 1 .. N
  BY <1>1
<1>3. \A i \in 1 .. N : b[i] \in (SUBSET SeqIds) \ {{}}
  BY <1>1, <1>2
<1>4. PICK X : toks = [i \in DOMAIN b |-> [seqs |-> b[i], pos |-> X[i]]]
  BY Zenon DEF Positioned
<1>5. DOMAIN toks = 1 .. N
  BY <1>2, <1>4
<1>6. ASSUME NEW i \in 1 .. N PROVE toks[i] \in KvToken
  <2>1. toks[i] = [seqs |-> b[i], pos |-> X[i]]
    BY <1>2, <1>4
  <2>2. toks[i] \in Range(toks)
    BY <1>5 DEF Range
  <2>3. toks[i].pos \in Nat
    BY <2>2, KvAssumption
  <2>4. X[i] \in Nat
    BY <2>1, <2>3
  <2> QED BY <1>3, <2>1, <2>4 DEF KvToken
<1>7. toks \in [1 .. N -> KvToken]
  BY <1>2, <1>4, <1>6
<1> QED BY <1>2, <1>5, <1>7

KvInvAt(D, M, n, m, w, f) ==
    /\ KvLayout(D)
    /\ KvSizes(M, n)
    /\ KvMem(D, M, n, KvNo, m)
    /\ KvTodo(D, M, n, w)
    /\ KvFile(M, f)

KvInv == \E D, M, n : KvInvAt(D, M, n, kv, todo, file)

\* one operation on every cache, after which unused keys are forgotten
LEMMA KvEachCache ==
    ASSUME NEW D, NEW M, NEW n, NEW m, DOMAIN m = M, NEW q, NEW m2,
           \A c \in M : KvCacheOK(D, n[c], q, m2[c]),
           NEW r, r = [c \in DOMAIN m |-> KV!Forget(m2[c])]
    PROVE  KvMem(D, M, n, KvNo, r)
<1>1. DOMAIN r = M
  OBVIOUS
<1>2. ASSUME NEW c \in M PROVE KvCacheOK(D, n[c], KvNo, r[c])
  <2>1. PICK k : k = m2[c]
    OBVIOUS
  <2>2. r[c] = KV!Forget(k)
    BY <2>1
  <2>3. KvCacheOK(D, n[c], KvNo, k)
    BY <2>1, KvUnquiet
  <2> QED BY <2>2, <2>3, KvOK_Forget
<1> QED BY <1>1, <1>2 DEF KvMem

\* decode: update, split, plan and take back
LEMMA KvStep_decode ==
    ASSUME NEW D, NEW M, NEW n, KvInvAt(D, M, n, kv, todo, file), NEW b \in Batches, decode(b)
    PROVE  KvInvAt(D, M, n, kv', todo', file')
<1>1. PICK toks : /\ toks = Positioned(b)
                  /\ \A tok \in Range(toks) : tok.pos \in 0 .. MaxPos
                  /\ \E r \in {init_batch(memory_update(kv), toks)} :
                       /\ kv' = [c \in DOMAIN kv |-> KV!Forget(r.m[c])]
                       /\ todo' = r.todo
  BY DEF decode
<1>2. PICK r : /\ r = init_batch(memory_update(kv), toks)
               /\ kv' = [c \in DOMAIN kv |-> KV!Forget(r.m[c])]
               /\ todo' = r.todo
  BY <1>1
<1>3. toks \in Seq(KvToken) /\ toks # << >>
  BY <1>1, KvOK_Positioned
<1>4. KvLayout(D) /\ KvSizes(M, n) /\ KvMem(D, M, n, KvNo, kv) /\ KvFile(M, file)
  BY DEF KvInvAt
<1>5. PICK m : m = memory_update(kv)
  OBVIOUS
<1>6. KvMem(D, M, n, KvYes, m)
  BY <1>4, <1>5, KvOK_memory_update
<1>7. KvSplitInto(D)
  BY <1>4, KvUnified
<1>8. KvPlannedMem(D, M, n, m, r)
  BY <1>2, <1>3, <1>4, <1>5, <1>6, <1>7, KvOK_init_batch
<1>9. KvMem(D, M, n, KvYes, r.m) /\ KvTodo(D, M, n, r.todo)
  BY <1>8 DEF KvPlannedMem
<1>10. PICK m2 : m2 = r.m
  OBVIOUS
<1>11. \A c \in M : KvCacheOK(D, n[c], KvYes, m2[c])
  BY <1>9, <1>10 DEF KvMem
<1>12. DOMAIN kv = M
  BY <1>4 DEF KvMem
<1>13. KvMem(D, M, n, KvNo, kv')
  BY <1>2, <1>10, <1>11, <1>12, KvEachCache
<1>14. file' = file
  BY DEF decode
<1> QED BY <1>2, <1>4, <1>9, <1>13, <1>14 DEF KvInvAt

\* the first planned micro batch and the others
LEMMA KvTodoHead ==
    ASSUME NEW D, NEW M, NEW n, NEW w, KvTodo(D, M, n, w), w # << >>
    PROVE  KvTodoItem(D, M, n, Head(w)) /\ KvTodo(D, M, n, Tail(w))
<1>1. PICK X : w \in Seq(X)
  BY DEF KvTodo
<1>2. Len(w) \in Nat \ {0} /\ Head(w) = w[1]
  BY <1>1
<1>3. KvTodoItem(D, M, n, Head(w))
  BY <1>2 DEF KvTodo
<1>4. Tail(w) \in Seq(X) /\ Len(Tail(w)) = Len(w) - 1 /\ \A i \in 1 .. Len(w) - 1 : Tail(w)[i] = w[i+1]
  BY <1>1, <1>2
<1>5. \A i \in 1 .. Len(Tail(w)) : KvTodoItem(D, M, n, Tail(w)[i])
  BY <1>2, <1>4 DEF KvTodo
<1> QED BY <1>3, <1>4, <1>5 DEF KvTodo

\* what the first planned micro batch leaves in a cache
LEMMA KvComputed ==
    ASSUME NEW D, NEW M, NEW n, KvInvAt(D, M, n, kv, todo, file), todo # << >>,
           NEW c \in M, NEW sound
    PROVE  KvCacheOK(D, n[c], KvNo,
             KV!Write(KV!apply_ubatch(kv[c], Head(todo).slots[c], Head(todo).ub),
                      Head(todo).slots[c], Head(todo).ub, sound))
<1>1. KvTodoItem(D, M, n, Head(todo)) /\ n[c] \in Nat /\ KvCacheOK(D, n[c], KvNo, kv[c])
  BY KvTodoHead DEF KvInvAt, KvSizes, KvMem
<1>2. PICK nc, k, sl, ub : nc = n[c] /\ k = kv[c] /\ sl = Head(todo).slots[c] /\ ub = Head(todo).ub
  OBVIOUS
<1>3. KvUbatch(D, ub) /\ KvSlots(nc, ub, sl) /\ nc \in Nat /\ KvCacheOK(D, nc, KvNo, k)
  BY <1>1, <1>2 DEF KvTodoItem
<1>4. KvCacheOK(D, nc, KvNo, KV!apply_ubatch(k, sl, ub))
  BY <1>3, KvOK_apply_ubatch
<1>5. KvCacheOK(D, nc, KvNo, KV!Write(KV!apply_ubatch(k, sl, ub), sl, ub, sound))
  BY <1>4, KvOK_Write
<1> QED BY <1>2, <1>5

\* process_ubatch takes the planned cells
LEMMA KvStep_process_ubatch ==
    ASSUME NEW D, NEW M, NEW n, KvInvAt(D, M, n, kv, todo, file), process_ubatch
    PROVE  KvInvAt(D, M, n, kv', todo', file')
<1>1. /\ todo # << >> /\ todo' = Tail(todo) /\ file' = file
      /\ kv' = [c \in DOMAIN kv |->
                  KV!Forget(KV!Write(KV!apply_ubatch(kv[c], Head(todo).slots[c], Head(todo).ub),
                                     Head(todo).slots[c], Head(todo).ub, TRUE))]
  BY DEF process_ubatch
<1>2. KvLayout(D) /\ KvSizes(M, n) /\ KvFile(M, file) /\ KvTodo(D, M, n, todo)
  BY DEF KvInvAt
<1>3. DOMAIN kv = M
  BY DEF KvInvAt, KvMem
<1>4. PICK m2 : m2 = [c \in M |-> KV!Write(KV!apply_ubatch(kv[c], Head(todo).slots[c], Head(todo).ub),
                                           Head(todo).slots[c], Head(todo).ub, TRUE)]
  OBVIOUS
<1>5. \A c \in M : KvCacheOK(D, n[c], KvNo, m2[c])
  <2> TAKE c \in M
  <2>1. m2[c] = KV!Write(KV!apply_ubatch(kv[c], Head(todo).slots[c], Head(todo).ub),
                         Head(todo).slots[c], Head(todo).ub, KvYes)
    BY <1>4 DEF KvYes
  <2> QED BY <1>1, <2>1, KvComputed
<1>6. kv' = [c \in DOMAIN kv |-> KV!Forget(m2[c])]
  BY <1>1, <1>3, <1>4
<1>7. KvMem(D, M, n, KvNo, kv')
  BY <1>3, <1>5, <1>6, KvEachCache
<1>8. KvTodo(D, M, n, todo')
  BY <1>1, <1>2, KvTodoHead
<1> QED BY <1>1, <1>2, <1>7, <1>8 DEF KvInvAt

\* the first sequences of tokens are finitely many
KvLeads(ub, toks, lead) ==
    /\ toks = UNION {Range(ub[st]) : st \in DOMAIN ub}
    /\ lead = {Min(tok.seqs) : tok \in toks}

\* the first sequences of the tokens are finitely many
LEMMA KvLead ==
    ASSUME NEW D, NEW ub, KvUbatch(D, ub), NEW toks, NEW lead, KvLeads(ub, toks, lead)
    PROVE  IsFiniteSet(lead)
<1>1. \A st \in DOMAIN ub : \A j \in DOMAIN ub[st] : ub[st][j] \in KvToken
  BY KvTokens_Len DEF KvUbatch
<1>2. \A tok \in toks : tok.seqs \in (SUBSET SeqIds) \ {{}}
  <2>1. \A tok \in toks : tok \in KvToken
    BY <1>1 DEF Range, KvLeads
  <2> QED BY <2>1 DEF KvToken
<1>3. IsFiniteSet(SeqIds)
  <2>1. PICK N \in Nat : N = NSeqMax - 1
    BY KvAssumption
  <2>2. IsFiniteSet(0 .. N)
    BY FS_Interval
  <2> QED BY <2>1, <2>2 DEF SeqIds
<1>4. SeqIds \in SUBSET Int
  BY KvAssumption DEF SeqIds
<1>5. ASSUME NEW S \in (SUBSET SeqIds) \ {{}} PROVE Min(S) \in SeqIds
  <2>1. IsFiniteSet(S)
    BY <1>3, FS_Subset
  <2>2. S \in SUBSET Int /\ S # {}
    BY <1>4
  <2>3. Min(S) \in S
    BY <2>1, <2>2, KvMin
  <2> QED BY <2>3
<1>6. lead \subseteq SeqIds
  BY <1>2, <1>5 DEF KvLeads
<1> QED BY <1>3, <1>6, FS_Subset

\* a failing micro batch takes its cells and loses their positions again
LEMMA KvStep_UbatchFails ==
    ASSUME NEW D, NEW M, NEW n, KvInvAt(D, M, n, kv, todo, file), UbatchFails
    PROVE  KvInvAt(D, M, n, kv', todo', file')
<1>1. PICK sl, ub, toks, lead, from :
        /\ sl = Head(todo).slots /\ ub = Head(todo).ub
        /\ toks = UNION {Range(ub[st]) : st \in DOMAIN ub}
        /\ lead = {Min(tok.seqs) : tok \in toks}
        /\ from = [s \in lead |-> Min({tok.pos : tok \in {t \in toks : Min(t.seqs) = s}})]
  OBVIOUS
<1>2. /\ todo # << >> /\ todo' = << >> /\ file' = file
      /\ kv' = [c \in DOMAIN kv |->
                  KV!Forget(KV!LoopTruncate(
                    KV!Write(KV!apply_ubatch(kv[c], sl[c], ub), sl[c], ub, FALSE), from))]
  BY <1>1, Zenon DEF UbatchFails
<1>3. KvLayout(D) /\ KvSizes(M, n) /\ KvFile(M, file)
  BY DEF KvInvAt
<1>4. DOMAIN kv = M
  BY DEF KvInvAt, KvMem
<1>5. IsFiniteSet(DOMAIN from)
  <2>1. KvTodoItem(D, M, n, Head(todo))
    BY <1>2, KvTodoHead DEF KvInvAt
  <2>2. KvUbatch(D, ub)
    BY <1>1, <2>1 DEF KvTodoItem
  <2>3. IsFiniteSet(lead)
    <3>1. KvLeads(ub, toks, lead)
      BY <1>1, Zenon DEF KvLeads
    <3> QED BY <2>2, <3>1, KvLead
  <2> QED BY <1>1, <2>3
<1>6. PICK m2 : m2 = [c \in M |-> KV!LoopTruncate(
                        KV!Write(KV!apply_ubatch(kv[c], sl[c], ub), sl[c], ub, FALSE), from)]
  OBVIOUS
<1>7. \A c \in M : KvCacheOK(D, n[c], KvNo, m2[c])
  <2> TAKE c \in M
  <2>1. PICK k : k = KV!Write(KV!apply_ubatch(kv[c], sl[c], ub), sl[c], ub, KvNo)
    OBVIOUS
  <2>2. KvCacheOK(D, n[c], KvNo, k)
    BY <1>1, <1>2, <2>1, KvComputed
  <2>3. m2[c] = KV!LoopTruncate(k, from)
    BY <1>6, <2>1 DEF KvNo
  <2>4. PICK nc : nc = n[c] /\ nc \in Nat
    BY <1>3 DEF KvSizes
  <2> QED BY <1>5, <2>2, <2>3, <2>4, KvOK_LoopTruncate
<1>8. kv' = [c \in DOMAIN kv |-> KV!Forget(m2[c])]
  BY <1>2, <1>4, <1>6
<1>9. KvMem(D, M, n, KvNo, kv')
  BY <1>4, <1>7, <1>8, KvEachCache
<1> QED BY <1>2, <1>3, <1>9, KvEmptyTodo DEF KvInvAt

\* a number of cells is rounded up to a number of cells
LEMMA KvPadded ==
    ASSUME NEW m \in Nat, NEW p \in Nat \ {0}
    PROVE  ((m + p - 1) \div p) * p \in Nat
<1>1. PICK x \in Nat : x = m + p - 1
  <2>1. m + p - 1 \in Nat
    OBVIOUS
  <2> QED BY <2>1
<1>2. \A y \in Nat : y \div p \in Nat
  OBVIOUS
<1>3. PICK d \in Nat : d = (m + p - 1) \div p
  BY <1>1, <1>2
<1>4. d * p \in Nat
  OBVIOUS
<1> QED BY <1>3, <1>4

\* one stream, or one for each sequence, each with some cells
LEMMA KvLayoutOf ==
    ASSUME NEW l \in Layouts
    PROVE  /\ l.kv_size \in Nat \ {0}
           /\ KvLayout(0 .. l.streams - 1)
           /\ l.swa_full \in BOOLEAN
<1>1. l.kv_size \in Nat \ {0} /\ l.streams \in {1, NSeqMax} /\ l.swa_full \in BOOLEAN
  BY KvAssumption
<1>2. 0 .. l.streams - 1 = {0} \/ 0 .. l.streams - 1 = SeqIds
  BY <1>1 DEF SeqIds
<1> QED BY <1>1, <1>2 DEF KvLayout

\* the size of a cache with a window is a number of cells
LEMMA KvOK_size_swa ==
    ASSUME NEW l \in Layouts
    PROVE  size_swa(l) \in Nat
<1>1. PICK w : w = NSwa * (IF l.streams = 1 THEN NSeqMax ELSE 1) + NUbatch
  OBVIOUS
<1>2. w \in Nat
  <2>1. PICK f : f = IF l.streams = 1 THEN NSeqMax ELSE 1
    OBVIOUS
  <2>2. f \in Nat /\ NSwa \in Nat /\ NUbatch \in Nat
    BY <2>1, KvAssumption
  <2>3. NSwa * f \in Nat
    BY <2>2
  <2>4. w = (NSwa * f) + NUbatch
    BY <1>1, <2>1
  <2> QED BY <2>2, <2>3, <2>4
<1>3. PICK m : m = Min({l.kv_size, w})
  OBVIOUS
<1>4. m \in Nat
  <2>1. {l.kv_size, w} \in SUBSET Int /\ {l.kv_size, w} # {}
    BY <1>2, KvLayoutOf
  <2>2. IsFiniteSet({l.kv_size, w})
    BY KvPair
  <2>3. m \in {l.kv_size, w}
    BY <1>3, <2>1, <2>2, KvMin
  <2> QED BY <1>2, <2>3, KvLayoutOf
<1>5. ((m + SwaPad - 1) \div SwaPad) * SwaPad \in Nat
  BY <1>4, KvPadded, KvAssumption
<1>6. size_swa(l) = IF l.swa_full THEN l.kv_size ELSE ((m + SwaPad - 1) \div SwaPad) * SwaPad
  BY <1>1, <1>3, Zenon DEF size_swa
<1> QED BY <1>5, <1>6, KvLayoutOf

\* a new cache's cells agree
LEMMA KvOK_llama_kv_cache ==
    ASSUME NEW streams, NEW D, D = 0 .. streams-1, NEW m \in Nat, NEW swa
    PROVE  KvCacheOK(D, m, KvNo, KV!llama_kv_cache(streams, m, swa))
<1>1. PICK k : k = KV!llama_kv_cache(streams, m, swa)
  OBVIOUS
<1>2. PICK empty : empty = KV!Cells!resize(m)
  OBVIOUS
<1>3. KvCellsOK(0 .. m-1, empty)
  BY <1>2, KvOK_resize
<1>4. KvShape(k) /\ k.cells = [st \in D |-> empty] /\ k.heads = [st \in D |-> 0]
  <2>1. k = [cells  |-> [st \in D |-> empty], heads  |-> [st \in D |-> 0], copies |-> << >>,
             keys   |-> [st \in D |-> [i \in 0 .. m-1 |-> KV!NoKey]],
             div    |-> [st \in D |-> {}], swa    |-> swa]
    BY <1>1, <1>2, Zenon DEF KV!llama_kv_cache
  <2> QED BY <2>1 DEF KvShape
<1>5. KvStreams(D, m, KvNo, k.cells)
  BY <1>3, <1>4 DEF KvStreams, KvNo
<1> QED BY <1>1, <1>4, <1>5 DEF KvCacheOK

\* a new memory satisfies the invariant
LEMMA KvInit_OK ==
    ASSUME KvInit
    PROVE  KvInv
<1>1. PICK l \in Layouts :
        /\ kv = [c \in IF l.swa = "none" THEN {"base"} ELSE {"base", "swa"} |->
                    IF c = "base" THEN KV!llama_kv_cache(l.streams, l.kv_size, NoWindow)
                    ELSE KV!llama_kv_cache(l.streams, size_swa(l), [type |-> l.swa, n |-> NSwa])]
        /\ todo = << >> /\ file = << >>
  BY DEF KvInit
<1>2. PICK M : M = IF l.swa = "none" THEN {"base"} ELSE {"base", "swa"}
  OBVIOUS
<1>3. PICK D, S, n, z, w : /\ D = 0 .. S - 1 /\ S = l.streams /\ z = size_swa(l)
                           /\ w = [type |-> l.swa, n |-> NSwa]
                           /\ n = [c \in M |-> IF c = "base" THEN l.kv_size ELSE z]
  <2>1. PICK S, z, w : S = l.streams /\ z = size_swa(l) /\ w = [type |-> l.swa, n |-> NSwa]
    OBVIOUS
  <2>2. PICK n : n = [c \in M |-> IF c = "base" THEN l.kv_size ELSE z]
    OBVIOUS
  <2> QED BY <2>1, <2>2
<1>4. KvLayout(D) /\ l.kv_size \in Nat /\ z \in Nat
  BY <1>3, KvLayoutOf, KvOK_size_swa
<1>5. KvSizes(M, n)
  BY <1>2, <1>3, <1>4 DEF KvSizes
<1>6. ASSUME NEW c \in M PROVE KvCacheOK(D, n[c], KvNo, kv[c])
  <2>1. CASE c = "base"
    <3>1. kv[c] = KV!llama_kv_cache(S, l.kv_size, NoWindow) /\ n[c] = l.kv_size
      BY <1>1, <1>2, <1>3, <2>1
    <3> QED BY <1>3, <1>4, <3>1, KvOK_llama_kv_cache
  <2>2. CASE c # "base"
    <3>1. kv[c] = KV!llama_kv_cache(S, z, w) /\ n[c] = z
      BY <1>1, <1>2, <1>3, <2>2
    <3> QED BY <1>3, <1>4, <3>1, KvOK_llama_kv_cache
  <2> QED BY <2>1, <2>2
<1>7. KvMem(D, M, n, KvNo, kv)
  BY <1>1, <1>2, <1>6 DEF KvMem
<1>8. KvTodo(D, M, n, todo) /\ KvFile(M, file)
  BY <1>1, KvEmptyTodo DEF KvFile
<1> QED BY <1>4, <1>5, <1>7, <1>8 DEF KvInvAt, KvInv

\* an operation on each cache keeps the invariant
LEMMA KvInvKept ==
    ASSUME NEW D, NEW M, NEW n, KvInvAt(D, M, n, kv, todo, file),
           NEW m2, \A c \in M : KvCacheOK(D, n[c], KvNo, m2[c]),
           kv' = [c \in DOMAIN kv |-> KV!Forget(m2[c])], todo' = todo, file' = file
    PROVE  KvInvAt(D, M, n, kv', todo', file')
<1>1. DOMAIN kv = M
  BY DEF KvInvAt, KvMem
<1>2. KvMem(D, M, n, KvNo, kv')
  BY <1>1, KvEachCache
<1> QED BY <1>2 DEF KvInvAt

\* what the invariant says of one cache
LEMMA KvCacheIs ==
    ASSUME NEW D, NEW M, NEW n, KvInvAt(D, M, n, kv, todo, file), NEW c \in M
    PROVE  n[c] \in Nat /\ KvCacheOK(D, n[c], KvNo, kv[c]) /\ KvLayout(D) /\ DOMAIN kv = M
BY DEF KvInvAt, KvSizes, KvMem

\* clear on every cache
LEMMA KvStep_memory_clear ==
    ASSUME NEW D, NEW M, NEW n, KvInvAt(D, M, n, kv, todo, file), NEW data, memory_clear(data)
    PROVE  KvInvAt(D, M, n, kv', todo', file')
<1>1. PICK m2 : m2 = [c \in M |-> KV!clear(kv[c], data)]
  OBVIOUS
<1>2. DOMAIN kv = M
  BY DEF KvInvAt, KvMem
<1>3. kv' = [c \in DOMAIN kv |-> KV!Forget(m2[c])] /\ todo' = todo /\ file' = file
  BY <1>1, <1>2 DEF memory_clear, Each
<1>4. ASSUME NEW c \in M PROVE KvCacheOK(D, n[c], KvNo, m2[c])
  <2>1. PICK nc, k : nc = n[c] /\ k = kv[c]
    OBVIOUS
  <2>2. nc \in Nat /\ KvCacheOK(D, nc, KvNo, k)
    BY <2>1, KvCacheIs
  <2>3. m2[c] = KV!clear(k, data)
    BY <1>1, <2>1
  <2> QED BY <2>1, <2>2, <2>3, KvOK_clear
<1> QED BY <1>3, <1>4, KvInvKept

\* seq_rm on every cache
LEMMA KvStep_memory_seq_rm ==
    ASSUME NEW D, NEW M, NEW n, KvInvAt(D, M, n, kv, todo, file), NEW s, NEW p0, NEW p1,
           memory_seq_rm(s, p0, p1)
    PROVE  KvInvAt(D, M, n, kv', todo', file')
<1>1. PICK m2 : m2 = [c \in M |-> KV!seq_rm(kv[c], s, p0, p1)]
  OBVIOUS
<1>2. DOMAIN kv = M
  BY DEF KvInvAt, KvMem
<1>3. kv' = [c \in DOMAIN kv |-> KV!Forget(m2[c])] /\ todo' = todo /\ file' = file
  BY <1>1, <1>2 DEF memory_seq_rm, Each
<1>4. ASSUME NEW c \in M PROVE KvCacheOK(D, n[c], KvNo, m2[c])
  <2>1. PICK nc, k : nc = n[c] /\ k = kv[c]
    OBVIOUS
  <2>2. nc \in Nat /\ KvCacheOK(D, nc, KvNo, k)
    BY <2>1, KvCacheIs
  <2>3. m2[c] = KV!seq_rm(k, s, p0, p1)
    BY <1>1, <2>1
  <2> QED BY <2>1, <2>2, <2>3, KvOK_seq_rm
<1> QED BY <1>3, <1>4, KvInvKept

\* a sequence whose cells are looked for in the same stream holds none
LEMMA KvHeldNone ==
    ASSUME NEW D, KvLayout(D), NEW m \in Nat, NEW k, KvCacheOK(D, m, KvNo, k), NEW s \in SeqIds, Held(k, s) = {}
    PROVE  KvInNone(0 .. m-1, s, k.cells[KV!seq_to_stream(k, s)].seq)
<1>1. PICK c : c = k.cells[KV!seq_to_stream(k, s)]
  OBVIOUS
<1>2. KvCellsOK(0 .. m-1, c)
  BY <1>1, KvStream DEF KvCacheOK, KvStreams
<1>3. DOMAIN c.pos = 0 .. m-1
  BY <1>2, KvSize
<1>4. ASSUME NEW i \in 0 .. m-1, s \in c.seq[i] PROVE FALSE
  <2>1. c.pos[i] \in Held(k, s)
    BY <1>1, <1>3, <1>4 DEF Held, KV!CellsOf
  <2> QED BY <2>1
<1> QED BY <1>1, <1>4 DEF KvInNone

\* streams of their own are not shared
LEMMA KvApart ==
    ASSUME NEW D, NEW m, NEW k, KvCacheOK(D, m, KvNo, k), Cardinality(D) # 1, NEW s, NEW t,
           KV!seq_to_stream(k, s) = KV!seq_to_stream(k, t)
    PROVE  s = t
BY KvStreamsOf DEF KV!seq_to_stream

\* seq_cp on every cache, under the condition of its callers
LEMMA KvStep_memory_seq_cp ==
    ASSUME NEW D, NEW M, NEW n, KvInvAt(D, M, n, kv, todo, file), NEW src \in SeqIds, NEW dst \in SeqIds,
           NEW p0, NEW p1, memory_seq_cp(src, dst, p0, p1)
    PROVE  KvInvAt(D, M, n, kv', todo', file')
<1>1. PICK m2 : m2 = [c \in M |-> KV!seq_cp(kv[c], src, dst, p0, p1)]
  OBVIOUS
<1>2. DOMAIN kv = M
  BY DEF KvInvAt, KvMem
<1>3. kv' = [c \in DOMAIN kv |-> KV!Forget(m2[c])] /\ todo' = todo /\ file' = file
  BY <1>1, <1>2 DEF memory_seq_cp, Each
<1>4. src # dst /\ (unified => \A c \in DOMAIN kv : Held(kv[c], dst) = {})
  BY DEF memory_seq_cp
<1>5. unified <=> Cardinality(D) = 1
  BY KvUnified DEF KvInvAt
<1>6. ASSUME NEW c \in M PROVE KvCacheOK(D, n[c], KvNo, m2[c])
  <2>1. PICK nc, k : nc = n[c] /\ k = kv[c]
    OBVIOUS
  <2>2. nc \in Nat /\ KvCacheOK(D, nc, KvNo, k) /\ KvLayout(D)
    BY <2>1, KvCacheIs
  <2>3. m2[c] = KV!seq_cp(k, src, dst, p0, p1)
    BY <1>1, <2>1
  <2>4. ASSUME KV!seq_to_stream(k, src) = KV!seq_to_stream(k, dst)
        PROVE  KvInNone(0 .. nc-1, dst, k.cells[KV!seq_to_stream(k, dst)].seq)
    <3>1. unified
      BY <1>4, <1>5, <2>2, <2>4, KvApart
    <3>2. Held(k, dst) = {}
      BY <1>2, <1>4, <2>1, <3>1
    <3> QED BY <2>2, <3>2, KvHeldNone
  <2> QED BY <2>1, <2>2, <2>3, <2>4, KvOK_seq_cp
<1> QED BY <1>3, <1>6, KvInvKept

\* seq_keep on every cache
LEMMA KvStep_memory_seq_keep ==
    ASSUME NEW D, NEW M, NEW n, KvInvAt(D, M, n, kv, todo, file), NEW s \in SeqIds, memory_seq_keep(s)
    PROVE  KvInvAt(D, M, n, kv', todo', file')
<1>1. PICK m2 : m2 = [c \in M |-> KV!seq_keep(kv[c], s)]
  OBVIOUS
<1>2. DOMAIN kv = M
  BY DEF KvInvAt, KvMem
<1>3. kv' = [c \in DOMAIN kv |-> KV!Forget(m2[c])] /\ todo' = todo /\ file' = file
  BY <1>1, <1>2 DEF memory_seq_keep, Each
<1>4. ASSUME NEW c \in M PROVE KvCacheOK(D, n[c], KvNo, m2[c])
  <2>1. PICK nc, k : nc = n[c] /\ k = kv[c]
    OBVIOUS
  <2>2. nc \in Nat /\ KvCacheOK(D, nc, KvNo, k) /\ KvLayout(D)
    BY <2>1, KvCacheIs
  <2>3. m2[c] = KV!seq_keep(k, s)
    BY <1>1, <2>1
  <2> QED BY <2>1, <2>2, <2>3, KvOK_seq_keep
<1> QED BY <1>3, <1>4, KvInvKept

\* seq_add on every cache
LEMMA KvStep_memory_seq_add ==
    ASSUME NEW D, NEW M, NEW n, KvInvAt(D, M, n, kv, todo, file), NEW s \in SeqIds, NEW p0, NEW p1,
           NEW shift \in Int, memory_seq_add(s, p0, p1, shift)
    PROVE  KvInvAt(D, M, n, kv', todo', file')
<1>1. PICK m2 : m2 = [c \in M |-> KV!seq_add(kv[c], s, p0, p1, shift)]
  OBVIOUS
<1>2. DOMAIN kv = M
  BY DEF KvInvAt, KvMem
<1>3. kv' = [c \in DOMAIN kv |-> KV!Forget(m2[c])] /\ todo' = todo /\ file' = file
  BY <1>1, <1>2 DEF memory_seq_add, Each
<1>4. ASSUME NEW c \in M PROVE KvCacheOK(D, n[c], KvNo, m2[c])
  <2>1. PICK nc, k : nc = n[c] /\ k = kv[c]
    OBVIOUS
  <2>2. nc \in Nat /\ KvCacheOK(D, nc, KvNo, k) /\ KvLayout(D)
    BY <2>1, KvCacheIs
  <2>3. m2[c] = KV!seq_add(k, s, p0, p1, shift)
    BY <1>1, <2>1
  <2> QED BY <2>1, <2>2, <2>3, KvOK_seq_add
<1> QED BY <1>3, <1>4, KvInvKept

\* seq_div on every cache
LEMMA KvStep_memory_seq_div ==
    ASSUME NEW D, NEW M, NEW n, KvInvAt(D, M, n, kv, todo, file), NEW s \in SeqIds, NEW p0, NEW p1,
           NEW d \in Nat \ {0}, memory_seq_div(s, p0, p1, d)
    PROVE  KvInvAt(D, M, n, kv', todo', file')
<1>1. PICK m2 : m2 = [c \in M |-> KV!seq_div(kv[c], s, p0, p1, d)]
  OBVIOUS
<1>2. DOMAIN kv = M
  BY DEF KvInvAt, KvMem
<1>3. kv' = [c \in DOMAIN kv |-> KV!Forget(m2[c])] /\ todo' = todo /\ file' = file
  BY <1>1, <1>2 DEF memory_seq_div, Each
<1>4. ASSUME NEW c \in M PROVE KvCacheOK(D, n[c], KvNo, m2[c])
  <2>1. PICK nc, k : nc = n[c] /\ k = kv[c]
    OBVIOUS
  <2>2. nc \in Nat /\ KvCacheOK(D, nc, KvNo, k) /\ KvLayout(D)
    BY <2>1, KvCacheIs
  <2>3. m2[c] = KV!seq_div(k, s, p0, p1, d)
    BY <1>1, <2>1
  <2> QED BY <2>1, <2>2, <2>3, KvOK_seq_div
<1> QED BY <1>3, <1>4, KvInvKept

\* saving a sequence's state leaves the caches alone and saves positions
LEMMA KvStep_state_seq_get_data ==
    ASSUME NEW D, NEW M, NEW n, KvInvAt(D, M, n, kv, todo, file), NEW s \in SeqIds, state_seq_get_data(s)
    PROVE  KvInvAt(D, M, n, kv', todo', file')
<1>1. PICK f : f = [c \in DOMAIN kv |-> KV!state_write(kv[c], s)]
  OBVIOUS
<1>2. DOMAIN kv = M
  BY DEF KvInvAt, KvMem
<1>3. file' = [state |-> f, spoiled |-> s \in spoiled] /\ kv' = kv /\ todo' = todo
  BY <1>1 DEF state_seq_get_data
<1>4. file'.state = f
  BY <1>3
<1>5. ASSUME NEW c \in M PROVE \E m : KvState(m, f[c])
  <2>1. PICK nc, k : nc = n[c] /\ k = kv[c]
    OBVIOUS
  <2>2. nc \in Nat /\ KvCacheOK(D, nc, KvNo, k) /\ KvLayout(D)
    BY <2>1, KvCacheIs
  <2>3. f[c] = KV!state_write(k, s)
    BY <1>1, <1>2, <2>1
  <2> QED BY <2>2, <2>3, KvOK_state_write
<1>6. KvFile(M, file')
  BY <1>4, <1>5 DEF KvFile
<1> QED BY <1>3, <1>6 DEF KvInvAt

\* loading a sequence's state, also if the first cache has no room
LEMMA KvStep_state_seq_set_data ==
    ASSUME NEW D, NEW M, NEW n, KvInvAt(D, M, n, kv, todo, file), NEW s \in SeqIds, state_seq_set_data(s)
    PROVE  KvInvAt(D, M, n, kv', todo', file')
<1>1. PICK r : /\ r = [c \in DOMAIN kv |-> KV!state_read(kv[c], s, file.state[c])]
               /\ kv' = [c \in DOMAIN kv |->
                           KV!Forget(IF r["base"].ok \/ c = "base" THEN r[c].k ELSE kv[c])]
  BY DEF state_seq_set_data
<1>2. DOMAIN kv = M
  BY DEF KvInvAt, KvMem
<1>3. file # << >> /\ file' = << >> /\ todo' = todo
  BY DEF state_seq_set_data
<1>4. PICK m2 : m2 = [c \in M |-> IF r["base"].ok \/ c = "base" THEN r[c].k ELSE kv[c]]
  OBVIOUS
<1>5. kv' = [c \in DOMAIN kv |-> KV!Forget(m2[c])]
  BY <1>1, <1>2, <1>4
<1>6. ASSUME NEW c \in M PROVE KvCacheOK(D, n[c], KvNo, m2[c])
  <2>1. PICK nc, k, w : nc = n[c] /\ k = kv[c] /\ w = file.state[c]
    OBVIOUS
  <2>2. nc \in Nat /\ KvCacheOK(D, nc, KvNo, k) /\ KvLayout(D)
    BY <2>1, KvCacheIs
  <2>3. PICK m : KvState(m, w)
    BY <1>3, <2>1 DEF KvInvAt, KvFile
  <2>4. r[c].k = KV!state_read(k, s, w).k
    BY <1>1, <1>2, <2>1
  <2>5. KvCacheOK(D, nc, KvNo, r[c].k)
    BY <2>2, <2>3, <2>4, KvOK_state_read
  <2>6. m2[c] = r[c].k \/ m2[c] = k
    BY <1>4, <2>1
  <2> QED BY <2>1, <2>2, <2>5, <2>6
<1>7. KvMem(D, M, n, KvNo, kv')
  BY <1>2, <1>5, <1>6, KvEachCache
<1>8. KvFile(M, file')
  BY <1>3 DEF KvFile
<1> QED BY <1>3, <1>7, <1>8 DEF KvInvAt

\* one step keeps the invariant, for the same streams, caches and sizes
LEMMA KvStepAt ==
    ASSUME NEW D, NEW M, NEW n, KvInvAt(D, M, n, kv, todo, file), [KvNext]_kvVars
    PROVE  KvInvAt(D, M, n, kv', todo', file')
<1>3. CASE UNCHANGED kvVars
  BY <1>3 DEF kvVars
<1>4. ASSUME NEW b \in Batches, decode(b) PROVE KvInvAt(D, M, n, kv', todo', file')
  BY <1>4, KvStep_decode
<1>5. CASE process_ubatch
  BY <1>5, KvStep_process_ubatch
<1>6. CASE UbatchFails
  BY <1>6, KvStep_UbatchFails
<1>7. ASSUME NEW data, memory_clear(data) PROVE KvInvAt(D, M, n, kv', todo', file')
  BY <1>7, KvStep_memory_clear
<1>8. ASSUME NEW s, NEW p0, NEW p1, memory_seq_rm(s, p0, p1) PROVE KvInvAt(D, M, n, kv', todo', file')
  BY <1>8, KvStep_memory_seq_rm
<1>9. ASSUME NEW s \in SeqIds, NEW t \in SeqIds, NEW p0, NEW p1, memory_seq_cp(s, t, p0, p1)
      PROVE  KvInvAt(D, M, n, kv', todo', file')
  BY <1>9, KvStep_memory_seq_cp
<1>10. ASSUME NEW s \in SeqIds, memory_seq_keep(s) PROVE KvInvAt(D, M, n, kv', todo', file')
  BY <1>10, KvStep_memory_seq_keep
<1>11. ASSUME NEW s \in SeqIds, NEW p0, NEW p1, NEW d \in Int, memory_seq_add(s, p0, p1, d)
       PROVE  KvInvAt(D, M, n, kv', todo', file')
  BY <1>11, KvStep_memory_seq_add
<1>12. ASSUME NEW s \in SeqIds, NEW p0, NEW p1, NEW d \in Nat \ {0}, memory_seq_div(s, p0, p1, d)
       PROVE  KvInvAt(D, M, n, kv', todo', file')
  BY <1>12, KvStep_memory_seq_div
<1>13. ASSUME NEW s \in SeqIds, state_seq_get_data(s) PROVE KvInvAt(D, M, n, kv', todo', file')
  BY <1>13, KvStep_state_seq_get_data
<1>14. ASSUME NEW s \in SeqIds, state_seq_set_data(s) PROVE KvInvAt(D, M, n, kv', todo', file')
  BY <1>14, KvStep_state_seq_set_data
<1>15. 2 \in Nat \ {0} /\ {-1, 1} \subseteq Int
  OBVIOUS
<1> QED BY <1>3, <1>4, <1>5, <1>6, <1>7, <1>8, <1>9, <1>10, <1>11, <1>12, <1>13, <1>14, <1>15 DEF KvNext

\* the invariant is inductive
LEMMA KvStep ==
    ASSUME KvInv, [KvNext]_kvVars
    PROVE  KvInv'
<1>1. PICK D, M, n : KvInvAt(D, M, n, kv, todo, file)
  BY DEF KvInv
<1>2. KvInvAt(D, M, n, kv', todo', file')
  BY <1>1, KvStepAt
<1> QED BY <1>2 DEF KvInv

\* the invariant says that the indices agree with the cells
LEMMA KvInvConsistent ==
    ASSUME KvInv
    PROVE  CellsConsistent
<1>1. PICK D, M, n : KvInvAt(D, M, n, kv, todo, file)
  BY DEF KvInv
<1>2. ASSUME NEW c \in DOMAIN kv, NEW st \in DOMAIN kv[c].cells
      PROVE  KV!Cells!Consistent(kv[c].cells[st])
  <2>1. KvCellsOK(0 .. n[c]-1, kv[c].cells[st])
    BY <1>1 DEF KvInvAt, KvMem, KvCacheOK, KvStreams
  <2> QED BY <2>1, KvCellsOKConsistent
<1> QED BY <1>2 DEF CellsConsistent

(***************************************************************************)
(* Whatever is decoded, planned, taken back, aborted, removed, copied,     *)
(* shifted, divided, saved or loaded, the indices used and seq_pos of      *)
(* every stream of every cache agree with its cells (llama_kv_cells).      *)
(***************************************************************************)
THEOREM CellsAreConsistent == KvSpec => []CellsConsistent
<1>1. KvInit => KvInv
  BY KvInit_OK
<1>2. KvInv /\ [KvNext]_kvVars => KvInv'
  BY KvStep
<1>3. KvInv => CellsConsistent
  BY KvInvConsistent
<1> QED BY <1>1, <1>2, <1>3, PTL DEF KvSpec

-----------------------------------------------------------------------------
(***************************************************************************)
(* Keys.  The copies that are pending, performed one after the other.      *)
(***************************************************************************)
KvKey == [rope : Int, sound : BOOLEAN]

KvCopySet(D) == [src : D, dst : D, clean : BOOLEAN]

KvCopy(keys, c) ==
    [keys EXCEPT ![c.dst] = [i \in DOMAIN keys[c.src] |-> [keys[c.src][i] EXCEPT !.sound = @ /\ c.clean]]]

\* f[j] are the keys after the first j copies, for j up to N
KvCopyRun(keys, copies, N, f) ==
    f = [j \in 0 .. N |-> IF j = 0 THEN keys ELSE KvCopy(f[j-1], copies[j])]

\* pending copies can be performed one after the other
LEMMA KvCopyRunExists ==
    ASSUME NEW keys, NEW copies
    PROVE  \A N \in Nat : \E f : KvCopyRun(keys, copies, N, f)
<1>1. PICK Bad : Bad = {N \in Nat : ~ \E f : KvCopyRun(keys, copies, N, f)}
  OBVIOUS
<1>2. SUFFICES ASSUME Bad # {} PROVE FALSE
  BY <1>1
<1>3. PICK N \in Bad : \A l \in Bad : N <= l
  BY <1>1, <1>2, KvLeastNat
<1>4. CASE N = 0
  <2>1. PICK f : f = [j \in 0 .. 0 |-> keys]
    OBVIOUS
  <2>2. KvCopyRun(keys, copies, 0, f)
    BY <2>1 DEF KvCopyRun
  <2> QED BY <1>1, <1>4, <2>2
<1>5. CASE N # 0
  <2>1. N - 1 \in Nat /\ N \in Nat /\ N - 1 \notin Bad
    BY <1>1, <1>3, <1>5
  <2>2. PICK f : KvCopyRun(keys, copies, N-1, f)
    BY <1>1, <2>1
  <2>3. PICK g : g = [j \in 0 .. N |-> IF j = 0 THEN keys ELSE KvCopy(f[j-1], copies[j])]
    OBVIOUS
  <2>4. \A j \in 0 .. N-1 : g[j] = f[j]
    BY <2>1, <2>2, <2>3 DEF KvCopyRun
  <2>5. \A j \in 0 .. N : j # 0 => j-1 \in 0 .. N-1
    BY <2>1
  <2>6. KvCopyRun(keys, copies, N, g)
    BY <2>3, <2>4, <2>5 DEF KvCopyRun
  <2> QED BY <1>1, <2>1, <2>6
<1> QED BY <1>4, <1>5

\* Copied performs the pending copies one after the other
LEMMA KvCopied ==
    ASSUME NEW k, Len(k.copies) \in Nat
    PROVE  \E f : KvCopyRun(k.keys, k.copies, Len(k.copies), f) /\ KV!Copied(k) = f[Len(k.copies)]
<1> DEFINE Eq(g) == [j \in 0 .. Len(k.copies) |-> IF j = 0 THEN k.keys ELSE KvCopy(g[j-1], k.copies[j])]
<1>2. \E g : g = Eq(g)
  <2>1. PICK keys, copies : keys = k.keys /\ copies = k.copies
    OBVIOUS
  <2>2. PICK g : KvCopyRun(keys, copies, Len(k.copies), g)
    BY KvCopyRunExists
  <2> QED BY <2>1, <2>2, Zenon DEF KvCopyRun
<1>3. PICK f : f = CHOOSE g : g = Eq(g)
  OBVIOUS
<1>4. f = Eq(f)
  <2> HIDE DEF Eq
  <2> QED BY <1>2, <1>3, Zenon
<1>5. KvCopyRun(k.keys, k.copies, Len(k.copies), f)
  BY <1>4, Zenon DEF KvCopyRun
<1>6. KV!Copied(k) = f[Len(k.copies)]
  BY <1>3, Zenon DEF KV!Copied, KvCopy
<1> QED BY <1>5, <1>6

\* two runs that perform the same copies lead to the same keys
LEMMA KvCopyRunSame ==
    ASSUME NEW keys, NEW a, NEW b, NEW M \in Nat, NEW N \in Nat, NEW f, NEW g,
           KvCopyRun(keys, a, M, f), KvCopyRun(keys, b, N, g),
           NEW L \in Nat, L <= M, L <= N, \A j \in 1 .. L : a[j] = b[j]
    PROVE  f[L] = g[L]
<1>1. PICK Bad : Bad = {j \in 0 .. L : f[j] # g[j]}
  OBVIOUS
<1>2. SUFFICES ASSUME Bad # {} PROVE FALSE
  BY <1>1
<1>3. PICK j \in Bad : \A l \in Bad : j <= l
  BY <1>1, <1>2, KvLeastNat
<1>4. CASE j = 0
  BY <1>1, <1>4 DEF KvCopyRun
<1>5. CASE j # 0
  <2>1. j - 1 \in 0 .. L /\ j \in 1 .. L /\ j \in 0 .. M /\ j \in 0 .. N /\ j - 1 \notin Bad
    BY <1>1, <1>3, <1>5
  <2>2. f[j-1] = g[j-1] /\ a[j] = b[j]
    BY <1>1, <2>1
  <2>3. f[j] = KvCopy(f[j-1], a[j]) /\ g[j] = KvCopy(g[j-1], b[j])
    BY <1>5, <2>1 DEF KvCopyRun
  <2> QED BY <1>1, <2>2, <2>3
<1> QED BY <1>4, <1>5

\* the keys and the streams of a cache and of the copies that it waits for
KvTyped(D, n, k) ==
    /\ k.keys \in [D -> [0 .. n-1 -> KvKey]]
    /\ k.copies \in Seq(KvCopySet(D))
    /\ DOMAIN k.div = D

\* r are the keys with the stream c.dst copied
KvCopyOf(D, I, keys, c, r) ==
    /\ r \in [D -> [I -> KvKey]]
    /\ \A st \in D : st # c.dst => r[st] = keys[st]
    /\ \A i \in I : /\ r[c.dst][i].rope = keys[c.src][i].rope
                    /\ r[c.dst][i].sound <=> keys[c.src][i].sound /\ c.clean

\* one copy replaces the keys of one stream
LEMMA KvCopyType ==
    ASSUME NEW D, NEW I, NEW keys \in [D -> [I -> KvKey]], NEW c \in KvCopySet(D)
    PROVE  KvCopyOf(D, I, keys, c, KvCopy(keys, c))
<1>1. PICK new : new = [i \in I |-> [keys[c.src][i] EXCEPT !.sound = @ /\ c.clean]]
  OBVIOUS
<1>2. c.src \in D /\ c.dst \in D /\ c.clean \in BOOLEAN
  BY DEF KvCopySet
<1>3. KvCopy(keys, c) = [keys EXCEPT ![c.dst] = new]
  BY <1>1, <1>2 DEF KvCopy
<1>4. ASSUME NEW i \in I
      PROVE  /\ new[i] \in KvKey /\ new[i].rope = keys[c.src][i].rope
             /\ new[i].sound <=> keys[c.src][i].sound /\ c.clean
  BY <1>1, <1>2 DEF KvKey
<1>5. new \in [I -> KvKey]
  BY <1>1, <1>4
<1>6. PICK r : r = KvCopy(keys, c)
  OBVIOUS
<1>7. r \in [D -> [I -> KvKey]] /\ \A st \in D : r[st] = IF st = c.dst THEN new ELSE keys[st]
  BY <1>2, <1>3, <1>5, <1>6
<1>8. KvCopyOf(D, I, keys, c, r)
  BY <1>2, <1>4, <1>7 DEF KvCopyOf
<1> QED BY <1>6, <1>8

\* copies lead from keys to keys
LEMMA KvCopyRunType ==
    ASSUME NEW D, NEW I, NEW keys \in [D -> [I -> KvKey]], NEW copies \in Seq(KvCopySet(D)),
           NEW f, KvCopyRun(keys, copies, Len(copies), f)
    PROVE  \A j \in 0 .. Len(copies) : f[j] \in [D -> [I -> KvKey]]
<1>0. PICK T : T = [D -> [I -> KvKey]]
  OBVIOUS
<1>1. PICK Bad : Bad = {j \in 0 .. Len(copies) : f[j] \notin T}
  OBVIOUS
<1>2. SUFFICES ASSUME Bad # {} PROVE FALSE
  BY <1>0, <1>1
<1>6. Len(copies) \in Nat
  OBVIOUS
<1>7. Bad \in SUBSET Nat
  BY <1>1, <1>6
<1>3. PICK j \in Bad : \A l \in Bad : j <= l
  BY <1>2, <1>7, KvLeastNat
<1>4. CASE j = 0
  <2>1. f[0] = keys
    BY <1>6 DEF KvCopyRun
  <2>2. f[0] \in T
    BY <1>0, <2>1
  <2>3. f[j] \notin T
    BY <1>1
  <2> QED BY <1>4, <2>2, <2>3, Zenon
<1>5. CASE j # 0
  <2>1. j - 1 \in 0 .. Len(copies) /\ j \in 1 .. Len(copies) /\ j - 1 \notin Bad
    BY <1>1, <1>3, <1>5
  <2>2. f[j-1] \in [D -> [I -> KvKey]] /\ copies[j] \in KvCopySet(D)
    BY <1>0, <1>1, <2>1
  <2>3. f[j] = KvCopy(f[j-1], copies[j])
    BY <1>5, <2>1 DEF KvCopyRun
  <2>4. PICK x, c : x = f[j-1] /\ c = copies[j]
    OBVIOUS
  <2>5. KvCopy(x, c) \in [D -> [I -> KvKey]]
    BY <2>2, <2>4, KvCopyType DEF KvCopyOf
  <2>6. f[j] \in T
    BY <1>0, <2>3, <2>4, <2>5, Zenon
  <2>7. f[j] \notin T
    BY <1>1
  <2> QED BY <2>6, <2>7, Zenon
<1> QED BY <1>4, <1>5

\* the pending copies lead to keys for every cell
LEMMA KvCopiedType ==
    ASSUME NEW D, NEW n, NEW k, KvTyped(D, n, k)
    PROVE  KV!Copied(k) \in [D -> [0 .. n-1 -> KvKey]]
<1>1. k.copies \in Seq(KvCopySet(D)) /\ k.keys \in [D -> [0 .. n-1 -> KvKey]]
  BY DEF KvTyped
<1>2. PICK N \in Nat : N = Len(k.copies)
  BY <1>1
<1>3. PICK f : KvCopyRun(k.keys, k.copies, N, f) /\ KV!Copied(k) = f[N]
  BY <1>2, KvCopied
<1>4. PICK I, keys, copies : I = 0 .. n-1 /\ keys = k.keys /\ copies = k.copies
  OBVIOUS
<1>5. \A j \in 0 .. N : f[j] \in [D -> [I -> KvKey]]
  BY <1>1, <1>2, <1>3, <1>4, KvCopyRunType
<1>6. N \in 0 .. N
  OBVIOUS
<1> QED BY <1>3, <1>4, <1>5, <1>6

\* Copied looks at the keys and the pending copies only
LEMMA KvCopiedSame ==
    ASSUME NEW D, NEW n, NEW k, KvTyped(D, n, k), NEW r, r.keys = k.keys, r.copies = k.copies
    PROVE  KV!Copied(r) = KV!Copied(k)
<1>1. PICK N \in Nat : N = Len(k.copies)
  BY DEF KvTyped
<1>2. PICK f : KvCopyRun(k.keys, k.copies, N, f) /\ KV!Copied(k) = f[N]
  BY <1>1, KvCopied
<1>3. PICK g : KvCopyRun(k.keys, k.copies, N, g) /\ KV!Copied(r) = g[N]
  BY <1>1, KvCopied
<1> QED BY <1>2, <1>3, KvCopyRunSame

\* nothing is copied if no copy is pending
LEMMA KvCopiedNone ==
    ASSUME NEW k, k.copies = << >>
    PROVE  KV!Copied(k) = k.keys
<1>1. Len(k.copies) = 0
  OBVIOUS
<1>2. PICK f : KvCopyRun(k.keys, k.copies, 0, f) /\ KV!Copied(k) = f[0]
  BY <1>1, KvCopied
<1> QED BY <1>2 DEF KvCopyRun

\* a further copy is performed after the others
LEMMA KvCopiedMore ==
    ASSUME NEW D, NEW n, NEW k, KvTyped(D, n, k), NEW r, NEW c \in KvCopySet(D),
           r.keys = k.keys, r.copies = Append(k.copies, c)
    PROVE  KV!Copied(r) = KvCopy(KV!Copied(k), c)
<1>1. k.copies \in Seq(KvCopySet(D))
  BY DEF KvTyped
<1>2. PICK N \in Nat : N = Len(k.copies)
  BY <1>1
<1>3. Len(r.copies) = N + 1 /\ r.copies[N+1] = c /\ \A j \in 1 .. N : r.copies[j] = k.copies[j]
  BY <1>1, <1>2
<1>4. PICK f : KvCopyRun(k.keys, k.copies, N, f) /\ KV!Copied(k) = f[N]
  BY <1>2, KvCopied
<1>9. PICK L \in Nat : L = N + 1 /\ L = Len(r.copies) /\ N <= L
  BY <1>3
<1>5. PICK g : KvCopyRun(k.keys, r.copies, L, g) /\ KV!Copied(r) = g[L]
  BY <1>9, KvCopied
<1>6. g[N] = f[N]
  <2>1. PICK keys, a, b : keys = k.keys /\ a = r.copies /\ b = k.copies
    OBVIOUS
  <2>2. \A j \in 1 .. N : a[j] = b[j]
    BY <1>3, <2>1
  <2>3. KvCopyRun(keys, a, L, g) /\ KvCopyRun(keys, b, N, f)
    BY <1>4, <1>5, <2>1
  <2> QED BY <1>9, <2>2, <2>3, KvCopyRunSame
<1>7. N + 1 \in 0 .. N+1 /\ N + 1 # 0 /\ (N + 1) - 1 = N
  OBVIOUS
<1>8. g[N+1] = KvCopy(g[N], r.copies[N+1])
  BY <1>5, <1>7, <1>9 DEF KvCopyRun
<1> QED BY <1>3, <1>4, <1>5, <1>6, <1>8, <1>9

-----------------------------------------------------------------------------
(***************************************************************************)
(* A cache whose keys match: what the pending copies and shifts will have  *)
(* made of the keys of the cells J of a stream fits their positions.       *)
(***************************************************************************)
KvMatches(J, keys, c) ==
    \A i \in J : c.pos[i] # -1 /\ keys[i].sound => keys[i].rope + c.shift[i] = c.pos[i]

KvKeysOK(D, n, k) ==
    /\ KvTyped(D, n, k)
    /\ \A st \in D : KvMatches((0 .. n-1) \ k.div[st], KV!Copied(k)[st], k.cells[st])

\* keys match what is left of cells that move with their shift
LEMMA KvMatchesKept ==
    ASSUME NEW I, NEW J, J \subseteq I, NEW c, KvCellsOK(I, c), NEW d, KvCellsOK(I, d),
           NEW keys \in [I -> KvKey], KvMatches(J, keys, c), KvKept(J, c, d)
    PROVE  KvMatches(J, keys, d)
<1>1. ASSUME NEW i \in J, d.pos[i] # -1, keys[i].sound
      PROVE  keys[i].rope + d.shift[i] = d.pos[i]
  <2>1. c.pos[i] # -1 /\ d.pos[i] - d.shift[i] = c.pos[i] - c.shift[i]
    BY <1>1 DEF KvKept
  <2>2. keys[i].rope + c.shift[i] = c.pos[i]
    BY <1>1, <2>1 DEF KvMatches
  <2>3. i \in I /\ keys[i] \in KvKey
    OBVIOUS
  <2>4. /\ c.pos[i] \in Int /\ c.shift[i] \in Int /\ d.pos[i] \in Int /\ d.shift[i] \in Int
        /\ keys[i].rope \in Int
    BY <2>3 DEF KvCellsOK, KvCellsHold, KvData, KvKey
  <2>5. PICK p, q, u, v, x : /\ p = c.pos[i] /\ q = c.shift[i] /\ u = d.pos[i] /\ v = d.shift[i]
                             /\ x = keys[i].rope
    OBVIOUS
  <2>6. p \in Int /\ q \in Int /\ u \in Int /\ v \in Int /\ x \in Int /\ u - v = p - q /\ x + q = p
    BY <2>1, <2>2, <2>4, <2>5
  <2>7. x + v = u
    BY <2>6
  <2> QED BY <2>5, <2>7
<1> QED BY <1>1 DEF KvMatches

\* fewer cells, and keys of which less is known
LEMMA KvMatchesLess ==
    ASSUME NEW J, NEW keys, NEW c, KvMatches(J, keys, c), NEW L, L \subseteq J, NEW less,
           \A i \in L : less[i].sound => keys[i].sound /\ less[i].rope = keys[i].rope
    PROVE  KvMatches(L, less, c)
BY DEF KvMatches

\* the cells of a stream
LEMMA KvCellsAt ==
    ASSUME NEW D, NEW n, NEW q, NEW k, KvCacheOK(D, n, q, k), NEW st \in D
    PROVE  KvCellsOK(0 .. n-1, k.cells[st])
BY DEF KvCacheOK, KvStreams

\* an operation that keeps the keys and moves cells with their shift
LEMMA KvKeysKept ==
    ASSUME NEW D, NEW n, NEW q, NEW k, KvCacheOK(D, n, q, k), KvKeysOK(D, n, k),
           NEW u, NEW r, KvCacheOK(D, n, u, r), KvKeeps(D, n, k, r)
    PROVE  KvKeysOK(D, n, r)
<1>1. KvTyped(D, n, k) /\ r.keys = k.keys /\ r.copies = k.copies /\ r.div = k.div
  BY DEF KvKeysOK, KvKeeps
<1>2. KvTyped(D, n, r)
  BY <1>1 DEF KvTyped
<1>3. PICK K : K = KV!Copied(k) /\ K = KV!Copied(r) /\ K \in [D -> [0 .. n-1 -> KvKey]]
  BY <1>1, KvCopiedSame, KvCopiedType
<1>4. ASSUME NEW st \in D
      PROVE  KvMatches((0 .. n-1) \ r.div[st], KV!Copied(r)[st], r.cells[st])
  <2>1. PICK I, J, keys, c, d : /\ I = 0 .. n-1 /\ J = (0 .. n-1) \ k.div[st] /\ keys = K[st]
                                /\ c = k.cells[st] /\ d = r.cells[st]
    OBVIOUS
  <2>2. KvCellsOK(I, c) /\ KvCellsOK(I, d)
    BY <2>1, KvCellsAt
  <2>3. KvMatches(J, keys, c)
    BY <1>3, <2>1 DEF KvKeysOK
  <2>4. J \subseteq I /\ keys \in [I -> KvKey]
    BY <1>3, <2>1
  <2>5. KvKept(J, c, d)
    <3>1. KvKept(I, c, d)
      BY <2>1 DEF KvKeeps
    <3> QED BY <2>4, <3>1 DEF KvKept
  <2>6. KvMatches(J, keys, d)
    BY <2>2, <2>3, <2>4, <2>5, KvMatchesKept
  <2> QED BY <1>1, <1>3, <2>1, <2>6
<1> QED BY <1>2, <1>4 DEF KvKeysOK

\* the same for one that divides positions, whose cells are set apart
LEMMA KvKeysDivided ==
    ASSUME NEW D, NEW n, NEW q, NEW k, KvCacheOK(D, n, q, k), KvKeysOK(D, n, k),
           NEW u, NEW r, KvCacheOK(D, n, u, r), KvDivides(D, n, k, r)
    PROVE  KvKeysOK(D, n, r)
<1>1. KvTyped(D, n, k) /\ r.keys = k.keys /\ r.copies = k.copies /\ DOMAIN r.div = DOMAIN k.div
  BY DEF KvKeysOK, KvDivides
<1>2. KvTyped(D, n, r)
  BY <1>1 DEF KvTyped
<1>3. PICK K : K = KV!Copied(k) /\ K = KV!Copied(r) /\ K \in [D -> [0 .. n-1 -> KvKey]]
  BY <1>1, KvCopiedSame, KvCopiedType
<1>4. ASSUME NEW st \in D
      PROVE  KvMatches((0 .. n-1) \ r.div[st], KV!Copied(r)[st], r.cells[st])
  <2>1. PICK I, J, L, keys, c, d : /\ I = 0 .. n-1 /\ J = (0 .. n-1) \ k.div[st] /\ keys = K[st]
                                   /\ c = k.cells[st] /\ d = r.cells[st] /\ L = (0 .. n-1) \ r.div[st]
    OBVIOUS
  <2>2. KvCellsOK(I, c) /\ KvCellsOK(I, d)
    BY <2>1, KvCellsAt
  <2>3. KvMatches(J, keys, c)
    BY <1>3, <2>1 DEF KvKeysOK
  <2>4. L \subseteq J /\ L \subseteq I /\ keys \in [I -> KvKey]
    BY <1>3, <2>1 DEF KvDivides
  <2>5. KvKept(L, c, d)
    BY <2>1 DEF KvDivides
  <2>6. KvMatches(L, keys, c)
    BY <2>3, <2>4, KvMatchesLess
  <2>7. KvMatches(L, keys, d)
    BY <2>2, <2>4, <2>5, <2>6, KvMatchesKept
  <2> QED BY <1>3, <2>1, <2>7
<1> QED BY <1>2, <1>4 DEF KvKeysOK

\* a stream that is copied is matched by the keys that will be copied
LEMMA KvKeysCopied ==
    ASSUME NEW D, NEW n, NEW q, NEW k, KvCacheOK(D, n, q, k), KvKeysOK(D, n, k),
           NEW u, NEW r, KvCacheOK(D, n, u, r), NEW s0 \in D, NEW s1 \in D, KvCopies(D, n, k, s0, s1, r)
    PROVE  KvKeysOK(D, n, r)
<1>1. PICK e : e = [src |-> s0, dst |-> s1, clean |-> KvYes]
  OBVIOUS
<1>2. e \in KvCopySet(D) /\ e.src = s0 /\ e.dst = s1 /\ e.clean
  BY <1>1 DEF KvCopySet, KvYes
<1>3. KvTyped(D, n, k) /\ r.keys = k.keys /\ r.copies = Append(k.copies, e) /\ r.div = KvAt(k.div, s1, k.div[s0])
  BY <1>1 DEF KvKeysOK, KvCopies
<1>4. KvTyped(D, n, r)
  <2>1. r.copies \in Seq(KvCopySet(D))
    BY <1>2, <1>3 DEF KvTyped
  <2>2. DOMAIN r.div = D
    BY <1>3 DEF KvTyped, KvAt
  <2> QED BY <1>3, <2>1, <2>2 DEF KvTyped
<1>5. PICK K, I : K = KV!Copied(k) /\ I = 0 .. n-1
  OBVIOUS
<1>6. K \in [D -> [I -> KvKey]]
  BY <1>3, <1>5, KvCopiedType
<1>7. PICK R : R = KvCopy(K, e)
  OBVIOUS
<1>8. KV!Copied(r) = R
  BY <1>2, <1>3, <1>5, <1>7, KvCopiedMore
<1>9. /\ \A st \in D : st # s1 => R[st] = K[st]
      /\ \A i \in I : /\ R[s1][i].rope = K[s0][i].rope
                      /\ R[s1][i].sound <=> K[s0][i].sound /\ e.clean
  <2>1. KvCopyOf(D, I, K, e, R)
    BY <1>2, <1>6, <1>7, KvCopyType
  <2> QED BY <1>2, <2>1 DEF KvCopyOf
<1>10. ASSUME NEW st \in D, st # s1
       PROVE  KvMatches((0 .. n-1) \ r.div[st], R[st], r.cells[st])
  <2>1. r.div[st] = k.div[st]
    BY <1>3, <1>10 DEF KvAt, KvTyped
  <2>2. r.cells[st] = k.cells[st] /\ R[st] = K[st]
    BY <1>9, <1>10 DEF KvCopies
  <2>3. KvMatches((0 .. n-1) \ k.div[st], K[st], k.cells[st])
    BY <1>5 DEF KvKeysOK
  <2> QED BY <2>1, <2>2, <2>3
<1>11. KvMatches((0 .. n-1) \ r.div[s1], R[s1], r.cells[s1])
  <2>1. PICK J, keys, less, c, d : /\ J = (0 .. n-1) \ k.div[s0] /\ keys = K[s0] /\ less = R[s1]
                                   /\ c = k.cells[s0] /\ d = r.cells[s1]
    OBVIOUS
  <2>2. KvCellsOK(I, c) /\ KvCellsOK(I, d)
    BY <1>5, <2>1, KvCellsAt
  <2>3. KvMatches(J, keys, c)
    BY <1>5, <2>1 DEF KvKeysOK
  <2>4. J \subseteq I /\ keys \in [I -> KvKey]
    BY <1>5, <1>6, <2>1
  <2>5. KvKept(J, c, d)
    <3>1. KvKept(I, c, d)
      BY <1>5, <2>1 DEF KvCopies
    <3> QED BY <2>4, <3>1 DEF KvKept
  <2>6. KvMatches(J, keys, d)
    BY <2>2, <2>3, <2>4, <2>5, KvMatchesKept
  <2>7. \A i \in J : less[i].sound => keys[i].sound /\ less[i].rope = keys[i].rope
    BY <1>9, <2>1, <2>4
  <2>8. KvMatches(J, less, d)
    BY <2>6, <2>7, KvMatchesLess
  <2>9. r.div[s1] = k.div[s0]
    BY <1>3 DEF KvAt, KvTyped
  <2> QED BY <2>1, <2>8, <2>9
<1> QED BY <1>4, <1>8, <1>10, <1>11 DEF KvKeysOK

\* the key of an unused cell is no key to be trusted
LEMMA KvNoKeyOf == KV!NoKey \in KvKey /\ ~KV!NoKey.sound
BY DEF KV!NoKey, KvKey

\* clear leaves no cell in use, and the pending copies as they are
LEMMA KvKeys_clear ==
    ASSUME NEW D, NEW n \in Nat, NEW q, NEW k, KvCacheOK(D, n, q, k), KvKeysOK(D, n, k), NEW data
    PROVE  KvKeysOK(D, n, KV!clear(k, data)) /\ KV!clear(k, data).copies = k.copies
<1>1. PICK r, K : /\ r = KV!clear(k, data)
                  /\ K = [st \in DOMAIN k.keys |-> [i \in DOMAIN k.keys[st] |-> KV!NoKey]]
  OBVIOUS
<1>2. PICK C, H : /\ C = [st \in DOMAIN k.cells |-> KV!Cells!resize(KV!Cells!size(k.cells[st]))]
                  /\ H = [st \in DOMAIN k.heads |-> 0]
  OBVIOUS
<1>3. r.cells = C /\ r.copies = k.copies /\ r.div = k.div /\ (r.keys = k.keys \/ r.keys = K)
  BY <1>1, <1>2 DEF KvCacheOK, KvShape, KV!clear
<1>4. KvTyped(D, n, k)
  BY DEF KvKeysOK
<1>5. K \in [D -> [0 .. n-1 -> KvKey]]
  BY <1>1, <1>4, KvNoKeyOf DEF KvTyped
<1>6. KvTyped(D, n, r)
  BY <1>3, <1>4, <1>5 DEF KvTyped
<1>7. ASSUME NEW st \in D, NEW i \in 0 .. n-1 PROVE r.cells[st].pos[i] = -1
  <2>1. KV!Cells!size(k.cells[st]) = n /\ DOMAIN k.cells = D
    BY KvCellsAt, KvSize DEF KvCacheOK, KvStreams
  <2>2. r.cells[st] = KV!Cells!resize(n)
    BY <1>2, <1>3, <2>1
  <2> QED BY <2>2 DEF KV!Cells!resize
<1>8. ASSUME NEW st \in D
      PROVE  KvMatches((0 .. n-1) \ r.div[st], KV!Copied(r)[st], r.cells[st])
  BY <1>7 DEF KvMatches
<1> QED BY <1>1, <1>3, <1>6, <1>8 DEF KvKeysOK

\* forgetting keys of unused cells changes none that is asked for
LEMMA KvKeys_Forget ==
    ASSUME NEW D, NEW n, NEW q, NEW k, KvCacheOK(D, n, q, k), KvKeysOK(D, n, k)
    PROVE  KvKeysOK(D, n, KV!Forget(k)) /\ KV!Forget(k).copies = k.copies
<1>1. CASE k.copies # << >>
  BY <1>1 DEF KV!Forget
<1>2. CASE k.copies = << >>
  <2>1. PICK K, V : /\ K = [st \in DOMAIN k.keys |-> [i \in DOMAIN k.keys[st] |->
                              IF i \in k.cells[st].used THEN k.keys[st][i] ELSE KV!NoKey]]
                    /\ V = [st \in DOMAIN k.div |-> k.div[st] \cap k.cells[st].used]
    OBVIOUS
  <2>2. PICK r : r = KV!Forget(k)
    OBVIOUS
  <2>3. r = [k EXCEPT !.keys = K, !.div = V]
    BY <1>2, <2>1, <2>2 DEF KV!Forget
  <2>4. r.keys = K /\ r.div = V /\ r.copies = k.copies /\ r.cells = k.cells
    BY <2>3 DEF KvCacheOK, KvShape
  <2>5. k.keys \in [D -> [0 .. n-1 -> KvKey]] /\ DOMAIN k.div = D
    BY DEF KvKeysOK, KvTyped
  <2>6. K \in [D -> [0 .. n-1 -> KvKey]] /\ DOMAIN V = D
    BY <2>1, <2>5, KvNoKeyOf
  <2>7. KvTyped(D, n, r)
    BY <2>4, <2>6 DEF KvKeysOK, KvTyped
  <2>8. KV!Copied(k) = k.keys /\ KV!Copied(r) = K
    BY <1>2, <2>4, KvCopiedNone
  <2>9. ASSUME NEW st \in D
        PROVE  KvMatches((0 .. n-1) \ V[st], K[st], k.cells[st])
    <3>1. PICK I, c, keys : I = 0 .. n-1 /\ c = k.cells[st] /\ keys = k.keys[st]
      OBVIOUS
    <3>2. KvCellsOK(I, c)
      BY <3>1, KvCellsAt
    <3>3. \A i \in I : c.pos[i] # -1 => i \in c.used
      BY <3>2 DEF KvCellsOK, CellsFor, KvCellsHold, KvData
    <3>4. \A i \in I : i \in c.used => K[st][i] = keys[i] /\ (i \notin V[st] => i \notin k.div[st])
      BY <2>1, <2>5, <3>1
    <3>5. KvMatches(I \ k.div[st], keys, c)
      BY <2>8, <3>1 DEF KvKeysOK
    <3> QED BY <3>1, <3>3, <3>4, <3>5 DEF KvMatches
  <2> QED BY <2>2, <2>4, <2>7, <2>8, <2>9 DEF KvKeysOK
<1> QED BY <1>1, <1>2

\* update performs the copies, then rotates the keys by the shifts
LEMMA KvKeys_update ==
    ASSUME NEW D, NEW n, NEW q, NEW k, KvCacheOK(D, n, q, k), KvKeysOK(D, n, k)
    PROVE  KvKeysOK(D, n, KV!update(k)) /\ KV!update(k).copies = << >>
<1>1. PICK r : r = KV!update(k)
  OBVIOUS
<1>2. PICK P : P = KV!Copied(k)
  OBVIOUS
<1>3. PICK C, K : /\ C = [st \in DOMAIN k.cells |->
                            IF KV!get_has_shift(k) THEN KV!Cells!reset_shift(k.cells[st]) ELSE k.cells[st]]
                  /\ K = [st \in DOMAIN k.keys |-> [i \in DOMAIN k.keys[st] |->
                            [P[st][i] EXCEPT !.rope = @ + k.cells[st].shift[i]]]]
  OBVIOUS
<1>4. r = [k EXCEPT !.copies = << >>, !.cells = C, !.keys = K]
  BY <1>1, <1>2, <1>3 DEF KV!update
<1>5. r.copies = << >> /\ r.cells = C /\ r.keys = K /\ r.div = k.div
  BY <1>4 DEF KvCacheOK, KvShape
<1>6. KvTyped(D, n, k)
  BY DEF KvKeysOK
<1>7. P \in [D -> [0 .. n-1 -> KvKey]]
  BY <1>2, <1>6, KvCopiedType
<1>8. \A st \in D : KvCellsOK(0 .. n-1, k.cells[st])
  BY KvCellsAt
<1>9. ASSUME NEW st \in D, NEW i \in 0 .. n-1
      PROVE  /\ K[st][i] \in KvKey
             /\ K[st][i].rope = P[st][i].rope + k.cells[st].shift[i]
             /\ K[st][i].sound = P[st][i].sound
  <2>1. P[st][i] \in KvKey /\ k.cells[st].shift[i] \in Int
    BY <1>7, <1>8 DEF KvCellsOK, KvCellsHold, KvData
  <2>2. K[st][i] = [P[st][i] EXCEPT !.rope = @ + k.cells[st].shift[i]]
    BY <1>3, <1>6 DEF KvTyped
  <2> QED BY <2>1, <2>2 DEF KvKey
<1>10. K \in [D -> [0 .. n-1 -> KvKey]]
  BY <1>3, <1>6, <1>9 DEF KvTyped
<1>11. << >> \in Seq(KvCopySet(D))
  OBVIOUS
<1>12. KvTyped(D, n, r)
  BY <1>5, <1>6, <1>10, <1>11 DEF KvTyped
<1>13. KV!Copied(r) = K
  BY <1>5, KvCopiedNone
<1>14. KvCacheOK(D, n, KvYes, r)
  BY <1>1, KvOK_update
<1>15. ASSUME NEW st \in D
       PROVE  KvMatches((0 .. n-1) \ r.div[st], K[st], r.cells[st])
  <2>1. PICK I, J, c, d : I = 0 .. n-1 /\ c = k.cells[st] /\ d = r.cells[st] /\ J = (0 .. n-1) \ k.div[st]
    OBVIOUS
  <2>2. \A i \in I : d.shift[i] = 0
    BY <1>14, <2>1, KvQuietShift
  <2>3. d.pos = c.pos
    <3>1. c = CellsFor(c.pos, c.shift, c.seq, c.has_shift)
      BY <1>8, <2>1 DEF KvCellsOK
    <3>2. KV!Cells!reset_shift(c).pos = c.pos
      BY <3>1 DEF CellsFor, KV!Cells!reset_shift
    <3>3. d = c \/ d = KV!Cells!reset_shift(c)
      BY <1>3, <1>5, <2>1 DEF KvCacheOK, KvStreams
    <3> QED BY <3>2, <3>3
  <2>4. KvMatches(J, P[st], c)
    BY <1>2, <2>1 DEF KvKeysOK
  <2>5. \A i \in I : d.pos[i] \in Int
    BY <1>8, <2>1, <2>3 DEF KvCellsOK, KvCellsHold, KvData
  <2>6. ASSUME NEW i \in J, d.pos[i] # -1, K[st][i].sound
        PROVE  K[st][i].rope + d.shift[i] = d.pos[i]
    <3>1. i \in I
      BY <2>1
    <3>2. K[st][i].rope = d.pos[i]
      BY <1>9, <2>1, <2>3, <2>4, <2>6, <3>1 DEF KvMatches
    <3> QED BY <2>2, <2>5, <3>1, <3>2
  <2>7. KvMatches(J, K[st], d)
    BY <2>6 DEF KvMatches
  <2> QED BY <1>5, <2>1, <2>7
<1> QED BY <1>1, <1>5, <1>12, <1>13, <1>15 DEF KvKeysOK

\* the keys of a micro batch are written for the positions of its tokens
LEMMA KvKeys_Write ==
    ASSUME NEW D, NEW n \in Nat, NEW q, NEW k, KvCacheOK(D, n, q, k), KvKeysOK(D, n, k), k.copies = << >>,
           NEW ub, KvUbatch(D, ub), NEW slots, KvSlots(n, ub, slots),
           NEW u, NEW r, KvCacheOK(D, n, u, r), KvApplies(D, n, ub, slots, k, r), NEW sound \in BOOLEAN
    PROVE  /\ KvKeysOK(D, n, KV!Write(r, slots, ub, sound))
           /\ KV!Write(r, slots, ub, sound).copies = << >>
<1>1. PICK w : w = KV!Write(r, slots, ub, sound)
  OBVIOUS
<1>2. PICK e : KvTakes(D, n, ub, slots, ub, k, e) /\ KvKeeps(D, n, e, r)
  BY DEF KvApplies
<1>3. r.keys = k.keys /\ r.copies = << >> /\ r.div = k.div
  BY <1>2 DEF KvTakes, KvKeeps
<1>4. PICK K, V : /\ K = [st \in DOMAIN r.keys |-> [i \in DOMAIN r.keys[st] |->
                            IF st \in DOMAIN ub /\ i \in KV!Range(slots[st])
                            THEN [rope |-> ub[st][CHOOSE j \in DOMAIN ub[st] : slots[st][j] = i].pos,
                                  sound |-> sound]
                            ELSE r.keys[st][i]]]
                  /\ V = [st \in DOMAIN r.div |->
                            IF st \in DOMAIN ub THEN r.div[st] \ KV!Range(slots[st]) ELSE r.div[st]]
  OBVIOUS
<1>5. w = [r EXCEPT !.keys = K, !.div = V]
  BY <1>1, <1>4 DEF KV!Write
<1>6. w.keys = K /\ w.div = V /\ w.copies = << >> /\ w.cells = r.cells
  BY <1>3, <1>5 DEF KvCacheOK, KvShape
<1>7. k.keys \in [D -> [0 .. n-1 -> KvKey]] /\ DOMAIN k.div = D
  BY DEF KvKeysOK, KvTyped
<1>8. \A st \in D : KvMatches((0 .. n-1) \ k.div[st], k.keys[st], k.cells[st])
  <2>1. KV!Copied(k) = k.keys
    BY KvCopiedNone
  <2> QED BY <2>1 DEF KvKeysOK
<1>9. ASSUME NEW st \in D \ DOMAIN ub
      PROVE  /\ K[st] \in [0 .. n-1 -> KvKey]
             /\ KvMatches((0 .. n-1) \ V[st], K[st], w.cells[st])
  <2>1. PICK I, J, keys, c, d : /\ I = 0 .. n-1 /\ J = (0 .. n-1) \ k.div[st] /\ keys = k.keys[st]
                                /\ c = k.cells[st] /\ d = r.cells[st]
    OBVIOUS
  <2>2. K[st] = keys /\ V[st] = k.div[st]
    BY <1>3, <1>4, <1>7, <2>1
  <2>3. keys \in [I -> KvKey] /\ J \subseteq I /\ KvMatches(J, keys, c)
    BY <1>7, <1>8, <2>1
  <2>4. KvCellsOK(I, c) /\ KvCellsOK(I, d)
    BY <2>1, KvCellsAt
  <2>5. KvKept(J, c, d)
    <3>1. e.cells[st] = c /\ KvKept(I, e.cells[st], d)
      BY <1>2, <2>1 DEF KvTakes, KvKeeps
    <3> QED BY <2>3, <3>1 DEF KvKept
  <2>6. KvMatches(J, keys, d)
    BY <2>3, <2>4, <2>5, KvMatchesKept
  <2> QED BY <1>6, <2>1, <2>2, <2>3, <2>6
<1>10. ASSUME NEW st \in DOMAIN ub
       PROVE  /\ K[st] \in [0 .. n-1 -> KvKey]
              /\ KvMatches((0 .. n-1) \ V[st], K[st], w.cells[st])
  <2>0. st \in D
    BY DEF KvUbatch
  <2>1. PICK I, keys, c, d, f, idxs, toks, J, R :
          /\ I = 0 .. n-1 /\ keys = k.keys[st] /\ c = k.cells[st] /\ d = e.cells[st] /\ f = r.cells[st]
          /\ idxs = slots[st] /\ toks = ub[st] /\ J = 1 .. Len(ub[st]) /\ R = KV!Range(slots[st])
    OBVIOUS
  <2>2. toks \in Seq(KvToken) /\ DOMAIN toks = J
    BY <2>1 DEF KvUbatch
  <2>3. DOMAIN idxs = J /\ \A j, l \in J : idxs[j] = idxs[l] => j = l
    BY <2>1 DEF KvSlots, KvCellsFound, KvInto
  <2>4. R = {idxs[j] : j \in J}
    BY <2>1, <2>3 DEF KV!Range
  <2>5. \A j \in J : toks[j].pos \in Nat
    <3>1. \A j \in J : toks[j] \in KvToken
      BY <2>2
    <3> QED BY <3>1 DEF KvToken
  <2>6. \A i \in I : K[st][i] = IF i \in R
                               THEN [rope |-> toks[CHOOSE j \in DOMAIN toks : idxs[j] = i].pos, sound |-> sound]
                               ELSE keys[i]
    BY <1>3, <1>4, <1>7, <2>0, <2>1
  <2>7. \A j \in J : \A i \in I : idxs[j] = i => K[st][i] = [rope |-> toks[j].pos, sound |-> sound]
    <3> TAKE j \in J
    <3> TAKE i \in I
    <3>1. SUFFICES ASSUME idxs[j] = i PROVE K[st][i] = [rope |-> toks[j].pos, sound |-> sound]
      OBVIOUS
    <3>2. PICK l : l = CHOOSE x \in DOMAIN toks : idxs[x] = i
      OBVIOUS
    <3>3. l \in J /\ idxs[l] = i
      BY <2>2, <3>1, <3>2
    <3>4. l = j
      BY <2>3, <3>1, <3>3
    <3>5. i \in R
      BY <2>4, <3>1
    <3> QED BY <2>6, <3>2, <3>4, <3>5
  <2>8. \A i \in I : (\A j \in J : idxs[j] # i) => K[st][i] = keys[i] /\ (i \notin V[st] => i \notin k.div[st])
    <3>1. V[st] = k.div[st] \ R
      BY <1>3, <1>4, <1>7, <2>0, <2>1
    <3>2. \A i \in I : (\A j \in J : idxs[j] # i) => i \notin R
      BY <2>4
    <3>3. \A i \in I : i \notin R => K[st][i] = keys[i]
      BY <2>6
    <3>4. \A i \in I : i \notin R /\ i \notin V[st] => i \notin k.div[st]
      BY <3>1
    <3> QED BY <3>2, <3>3, <3>4
  <2>14. ASSUME NEW j \in J, NEW i \in I, idxs[j] = i
         PROVE  K[st][i].rope = toks[j].pos /\ K[st][i] \in KvKey
    <3>1. PICK v, p : v = K[st][i] /\ p = toks[j].pos
      OBVIOUS
    <3>2. v = [rope |-> p, sound |-> sound] /\ p \in Int
      BY <2>5, <2>7, <2>14, <3>1
    <3>3. v.rope = p /\ v \in KvKey
      BY <3>2 DEF KvKey
    <3> QED BY <3>1, <3>3
  <2>9. K[st] \in [I -> KvKey]
    <3>1. ASSUME NEW i \in I PROVE K[st][i] \in KvKey
      <4>1. CASE \E j \in J : idxs[j] = i
        BY <2>14, <4>1
      <4>2. CASE \A j \in J : idxs[j] # i
        BY <1>7, <2>0, <2>1, <2>8, <4>2
      <4> QED BY <4>1, <4>2
    <3>2. \E g : K[st] = [i \in I |-> g[i]]
      <4>1. K[st] = [i \in I |-> K[st][i]]
        BY <1>3, <1>4, <1>7, <2>0, <2>1
      <4> QED BY <4>1
    <3> QED BY <3>1, <3>2
  <2>10. KvTaken(I, J, idxs, toks, c, d) /\ KvKept(I, d, f)
    BY <1>2, <2>0, <2>1 DEF KvTakes, KvKeeps
  <2>11. KvCellsOK(I, c) /\ KvCellsOK(I, f)
    BY <2>0, <2>1, KvCellsAt
  <2>12. ASSUME NEW i \in I \ V[st], f.pos[i] # -1, K[st][i].sound
         PROVE  K[st][i].rope + f.shift[i] = f.pos[i]
    <3>1. d.pos[i] # -1 /\ f.pos[i] - f.shift[i] = d.pos[i] - d.shift[i]
      BY <2>10, <2>12 DEF KvKept
    <3>2. /\ f.pos[i] \in Int /\ f.shift[i] \in Int /\ c.pos[i] \in Int /\ c.shift[i] \in Int
          /\ K[st][i].rope \in Int
      BY <2>9, <2>11 DEF KvCellsOK, KvCellsHold, KvData, KvKey
    <3>3. CASE \E j \in J : idxs[j] = i
      <4>1. PICK j \in J : idxs[j] = i
        BY <3>3
      <4>2. d.pos[i] = toks[j].pos /\ d.shift[i] = 0
        BY <2>10, <4>1 DEF KvTaken
      <4>3. K[st][i].rope = toks[j].pos
        BY <2>14, <4>1
      <4> QED BY <2>5, <3>1, <3>2, <4>2, <4>3
    <3>4. CASE \A j \in J : idxs[j] # i
      <4>1. d.pos[i] = c.pos[i] /\ d.shift[i] = c.shift[i]
        BY <2>10, <3>4 DEF KvTaken
      <4>2. K[st][i] = keys[i] /\ i \in (0 .. n-1) \ k.div[st]
        BY <2>1, <2>8, <3>4
      <4>3. KvMatches((0 .. n-1) \ k.div[st], keys, c)
        BY <1>8, <2>0, <2>1
      <4>4. keys[i].rope + c.shift[i] = c.pos[i]
        BY <2>12, <3>1, <4>1, <4>2, <4>3 DEF KvMatches
      <4> QED BY <3>1, <3>2, <4>1, <4>2, <4>4
    <3> QED BY <3>3, <3>4
  <2>13. KvMatches(I \ V[st], K[st], f)
    BY <2>12 DEF KvMatches
  <2> QED BY <1>6, <2>1, <2>9, <2>13
<1>11. K \in [D -> [0 .. n-1 -> KvKey]] /\ DOMAIN V = D
  <2>1. \A st \in D : K[st] \in [0 .. n-1 -> KvKey]
    BY <1>9, <1>10
  <2>2. DOMAIN r.keys = D /\ DOMAIN r.div = D
    BY <1>3, <1>7
  <2>3. K = [st \in D |-> K[st]] /\ DOMAIN V = D
    BY <1>4, <2>2
  <2> QED BY <2>1, <2>3
<1>12. KvTyped(D, n, w)
  BY <1>6, <1>11 DEF KvTyped
<1>13. KV!Copied(w) = K
  BY <1>6, KvCopiedNone
<1> QED BY <1>1, <1>6, <1>9, <1>10, <1>12, <1>13 DEF KvKeysOK

-----------------------------------------------------------------------------
(***************************************************************************)
(* Saved and loaded keys.                                                  *)
(***************************************************************************)
KvStateKeys(w) ==
    \A j \in DOMAIN w : /\ w[j].key \in KvKey
                        /\ w[j].key.sound /\ ~w[j].div => w[j].key.rope = w[j].pos

\* what is saved of a key is rotated to the position that is saved with it
LEMMA KvKeys_state_write ==
    ASSUME NEW D, KvLayout(D), NEW n \in Nat, NEW q, NEW k, KvCacheOK(D, n, q, k), KvKeysOK(D, n, k),
           NEW s \in SeqIds
    PROVE  KvStateKeys(KV!state_write(k, s))
<1>1. PICK w : w = KV!state_write(k, s)
  OBVIOUS
<1>2. PICK st \in D : st = KV!seq_to_stream(k, s)
  BY KvStream
<1>3. PICK m, at : /\ m \in Nat
                  /\ KvSaves(k, st, m, at, w)
                  /\ \A j \in 1 .. m : at[j] \in 0 .. n-1 /\ k.cells[st].pos[at[j]] \in Nat
  BY <1>1, <1>2, KvStateSaves
<1>4. PICK c, keys, V, b : /\ c = k.cells[st] /\ keys = k.keys[st] /\ V = k.div[st] /\ b = KV!Updated(k)
  OBVIOUS
<1>5. b \in BOOLEAN /\ (b => k.copies = << >> /\ \A i \in 0 .. n-1 : c.shift[i] = 0)
  <2>1. KvCellsOK(0 .. n-1, c) /\ DOMAIN k.cells = D
    BY <1>4, KvCellsAt DEF KvCacheOK, KvStreams
  <2>2. b => k.copies = << >> /\ ~c.has_shift
    BY <1>4, <2>1 DEF KV!Updated, KV!get_has_shift
  <2>3. ~c.has_shift => \A i \in 0 .. n-1 : c.shift[i] = 0
    BY <2>1 DEF KvCellsOK, KvCellsHold
  <2>4. b \in BOOLEAN
    BY <1>4 DEF KV!Updated
  <2> QED BY <2>2, <2>3, <2>4
<1>6. keys \in [0 .. n-1 -> KvKey]
  BY <1>4 DEF KvKeysOK, KvTyped
<1>7. b => KvMatches((0 .. n-1) \ V, keys, c)
  <2>1. b => KV!Copied(k) = k.keys
    BY <1>5, KvCopiedNone
  <2> QED BY <1>4, <2>1 DEF KvKeysOK
<1>8. DOMAIN w = 1 .. m
  BY <1>3 DEF KvSaves
<1>9. ASSUME NEW j \in 1 .. m
      PROVE  /\ w[j].key \in KvKey
             /\ w[j].key.sound /\ ~w[j].div => w[j].key.rope = w[j].pos
  <2>1. PICK i, x : i = at[j] /\ i \in 0 .. n-1 /\ x = keys[i]
    BY <1>3
  <2>2. w[j] = [pos |-> c.pos[i], div |-> i \in V, key |-> [x EXCEPT !.sound = @ /\ b]]
    BY <1>3, <1>4, <2>1 DEF KvSaves
  <2>3. x \in KvKey
    BY <1>6, <2>1
  <2>4. PICK y : y = [x EXCEPT !.sound = @ /\ b]
    OBVIOUS
  <2>5. y \in KvKey /\ y.rope = x.rope /\ (y.sound => x.sound /\ b)
    BY <1>5, <2>3, <2>4 DEF KvKey
  <2>6. w[j].key = y /\ w[j].pos = c.pos[i] /\ (~w[j].div => i \notin V)
    <3>1. PICK p, v : p = c.pos[i] /\ v = (i \in V)
      OBVIOUS
    <3>2. w[j] = [pos |-> p, div |-> v, key |-> y]
      BY <2>2, <2>4, <3>1
    <3>3. w[j].pos = p /\ w[j].div = v /\ w[j].key = y
      BY <3>2
    <3> QED BY <3>1, <3>3
  <2>7. ASSUME y.sound, i \notin V PROVE y.rope = c.pos[i]
    <3>1. c.pos[i] \in Nat
      BY <1>3, <1>4, <2>1
    <3> QED BY <1>5, <1>7, <2>1, <2>3, <2>5, <2>7, <3>1 DEF KvMatches, KvKey
  <2> QED BY <2>5, <2>6, <2>7
<1> QED BY <1>1, <1>8, <1>9 DEF KvStateKeys

\* y are keys of which less is known than of x, and nothing that was copied
\* from or to the stream st, whose own keys have become new
KvTaint(D, I, st, keys, new, x, y) ==
    /\ \A t \in D : t # st =>
         \A i \in I : y[t][i].sound => x[t][i].sound /\ y[t][i].rope = x[t][i].rope
    /\ \A i \in I : y[st][i].sound =>
         new[st][i].sound /\ y[st][i].rope = new[st][i].rope /\ x[st] = keys[st]

\* d copies what c copies, and is clean only away from st
KvTainted(D, st, c, d) ==
    /\ c \in KvCopySet(D) /\ d \in KvCopySet(D)
    /\ d.src = c.src /\ d.dst = c.dst
    /\ d.clean => c.clean /\ c.src # st /\ c.dst # st

\* one more copy keeps what is known
LEMMA KvTaintStep ==
    ASSUME NEW D, NEW I, NEW st, NEW keys, NEW new, NEW x, NEW y, KvTaint(D, I, st, keys, new, x, y),
           NEW c, NEW d, KvTainted(D, st, c, d),
           NEW x2, KvCopyOf(D, I, x, c, x2), NEW y2, KvCopyOf(D, I, y, d, y2), st \in D
    PROVE  KvTaint(D, I, st, keys, new, x2, y2)
<1>1. PICK s0 \in D, s1 \in D : s0 = c.src /\ s1 = c.dst /\ s0 = d.src /\ s1 = d.dst
  BY DEF KvTainted, KvCopySet
<1>2. /\ \A t \in D : t # s1 => x2[t] = x[t] /\ y2[t] = y[t]
      /\ \A i \in I : /\ x2[s1][i].rope = x[s0][i].rope
                      /\ x2[s1][i].sound <=> x[s0][i].sound /\ c.clean
                      /\ y2[s1][i].rope = y[s0][i].rope
                      /\ y2[s1][i].sound <=> y[s0][i].sound /\ d.clean
  BY <1>1 DEF KvCopyOf
<1>3. d.clean => c.clean /\ s0 # st /\ s1 # st
  BY <1>1 DEF KvTainted
<1>4. ASSUME NEW t \in D, t # st, NEW i \in I, y2[t][i].sound
      PROVE  x2[t][i].sound /\ y2[t][i].rope = x2[t][i].rope
  <2>1. CASE t = s1
    <3>1. y[s0][i].sound /\ d.clean
      BY <1>2, <1>4, <2>1
    <3>2. x[s0][i].sound /\ y[s0][i].rope = x[s0][i].rope
      BY <1>3, <3>1 DEF KvTaint
    <3> QED BY <1>2, <1>3, <2>1, <3>1, <3>2
  <2>2. CASE t # s1
    BY <1>2, <1>4, <2>2 DEF KvTaint
  <2> QED BY <2>1, <2>2
<1>5. ASSUME NEW i \in I, y2[st][i].sound
      PROVE  new[st][i].sound /\ y2[st][i].rope = new[st][i].rope /\ x2[st] = keys[st]
  <2>1. st # s1
    BY <1>2, <1>3, <1>5
  <2> QED BY <1>2, <1>5, <2>1 DEF KvTaint
<1> QED BY <1>4, <1>5 DEF KvTaint

\* all pending copies keep what is known
LEMMA KvCopyRunTaint ==
    ASSUME NEW D, NEW I, NEW st \in D, NEW keys \in [D -> [I -> KvKey]], NEW new \in [D -> [I -> KvKey]],
           \A t \in D : t # st => new[t] = keys[t],
           NEW a \in Seq(KvCopySet(D)), NEW b \in Seq(KvCopySet(D)), NEW N \in Nat, N = Len(a), N = Len(b),
           \A j \in 1 .. N : KvTainted(D, st, a[j], b[j]),
           NEW f, KvCopyRun(keys, a, N, f), NEW g, KvCopyRun(new, b, N, g)
    PROVE  KvTaint(D, I, st, keys, new, f[N], g[N])
<1>1. PICK Bad : Bad = {j \in 0 .. N : ~KvTaint(D, I, st, keys, new, f[j], g[j])}
  OBVIOUS
<1>2. SUFFICES ASSUME Bad # {} PROVE FALSE
  BY <1>1
<1>3. Bad \in SUBSET Nat
  BY <1>1
<1>4. PICK j \in Bad : \A l \in Bad : j <= l
  BY <1>2, <1>3, KvLeastNat
<1>5. CASE j = 0
  <2>1. f[0] = keys /\ g[0] = new
    BY DEF KvCopyRun
  <2>2. KvTaint(D, I, st, keys, new, keys, new)
    BY DEF KvTaint
  <2> QED BY <1>1, <1>5, <2>1, <2>2
<1>6. CASE j # 0
  <2>1. j - 1 \in 0 .. N /\ j \in 1 .. N /\ j \in 0 .. N /\ j - 1 \notin Bad
    BY <1>1, <1>3, <1>4, <1>6
  <2>2. PICK x, y, c, d : x = f[j-1] /\ y = g[j-1] /\ c = a[j] /\ d = b[j]
    OBVIOUS
  <2>3. KvTaint(D, I, st, keys, new, x, y) /\ KvTainted(D, st, c, d)
    BY <1>1, <2>1, <2>2
  <2>4. x \in [D -> [I -> KvKey]] /\ y \in [D -> [I -> KvKey]]
    <3>1. KvCopyRun(keys, a, Len(a), f) /\ KvCopyRun(new, b, Len(b), g)
      OBVIOUS
    <3>2. \A l \in 0 .. Len(a) : f[l] \in [D -> [I -> KvKey]]
      BY <3>1, KvCopyRunType
    <3>3. \A l \in 0 .. Len(b) : g[l] \in [D -> [I -> KvKey]]
      BY <3>1, KvCopyRunType
    <3>4. j - 1 \in 0 .. Len(a) /\ j - 1 \in 0 .. Len(b)
      BY <2>1
    <3> QED BY <2>2, <3>2, <3>3, <3>4
  <2>5. c \in KvCopySet(D) /\ d \in KvCopySet(D)
    BY <2>3 DEF KvTainted
  <2>6. KvCopyOf(D, I, x, c, KvCopy(x, c)) /\ KvCopyOf(D, I, y, d, KvCopy(y, d))
    BY <2>4, <2>5, KvCopyType
  <2>7. PICK x2, y2 : x2 = KvCopy(x, c) /\ y2 = KvCopy(y, d)
    OBVIOUS
  <2>8. KvTaint(D, I, st, keys, new, x2, y2)
    BY <2>3, <2>6, <2>7, KvTaintStep
  <2>9. f[j] = x2 /\ g[j] = y2
    BY <1>6, <2>1, <2>2, <2>7 DEF KvCopyRun
  <2> QED BY <1>1, <2>8, <2>9
<1> QED BY <1>5, <1>6

\* the copies that wait are not clean any more if they have to do with st
KvUnclean(st, a, b) ==
    b = [x \in DOMAIN a |-> [a[x] EXCEPT !.clean = @ /\ st \notin {a[x].src, a[x].dst}]]

\* a function on 1 .. N is a sequence
LEMMA KvSeqOf ==
    ASSUME NEW X, NEW N \in Nat, NEW b \in [1 .. N -> X]
    PROVE  b \in Seq(X) /\ Len(b) = N
OBVIOUS

\* pending copies from or to a stream that is loaded are clean no more
LEMMA KvTaints ==
    ASSUME NEW D, NEW st, NEW a, a \in Seq(KvCopySet(D)), NEW b, KvUnclean(st, a, b)
    PROVE  /\ b \in Seq(KvCopySet(D)) /\ Len(b) = Len(a)
           /\ \A j \in 1 .. Len(a) : KvTainted(D, st, a[j], b[j])
<1>1. PICK N \in Nat : N = Len(a) /\ DOMAIN a = 1 .. N
  OBVIOUS
<1>2. ASSUME NEW j \in 1 .. N PROVE KvTainted(D, st, a[j], b[j])
  <2>1. PICK c, v : c = a[j] /\ v = (st \notin {c.src, c.dst})
    OBVIOUS
  <2>2. c \in KvCopySet(D)
    BY <1>1, <2>1
  <2>3. PICK d : d = [c EXCEPT !.clean = @ /\ v]
    OBVIOUS
  <2>4. v \in BOOLEAN /\ (v => c.src # st /\ c.dst # st)
    BY <2>1
  <2>5. KvTainted(D, st, c, d)
    BY <2>2, <2>3, <2>4 DEF KvTainted, KvCopySet
  <2>6. b[j] = d
    BY <1>1, <2>1, <2>3 DEF KvUnclean
  <2> QED BY <2>1, <2>5, <2>6
<1>3. b \in [1 .. N -> KvCopySet(D)]
  <2>1. \A j \in 1 .. N : b[j] \in KvCopySet(D)
    BY <1>2 DEF KvTainted
  <2>2. b = [j \in 1 .. N |-> b[j]]
    BY <1>1 DEF KvUnclean
  <2> QED BY <2>1, <2>2
<1>4. b \in Seq(KvCopySet(D)) /\ Len(b) = N
  BY <1>3, KvSeqOf
<1> QED BY <1>1, <1>2, <1>4

\* the keys of a saved state come with their positions into the cells found
LEMMA KvKeys_Loaded ==
    ASSUME NEW D, NEW n \in Nat, NEW q, NEW k, KvCacheOK(D, n, q, k), KvKeysOK(D, n, k), NEW st \in D,
           NEW m \in Nat, NEW w, KvState(m, w), KvStateKeys(w), NEW slot, KvCellsFound(n, m, slot),
           NEW u, NEW a, KvCacheOK(D, n, u, a), a.keys = k.keys, a.copies = k.copies, a.div = k.div,
           NEW e, KvTaken(0 .. n-1, 1 .. m, slot, w, k.cells[st], e[st]),
           \A t \in D : t # st => e[t] = k.cells[t],
           \A t \in D : KvKept(0 .. n-1, e[t], a.cells[t])
    PROVE  KvKeysOK(D, n, KV!Loaded(a, st, slot, w))
<1>1. PICK r : r = KV!Loaded(a, st, slot, w)
  OBVIOUS
<1>2. PICK I, J, R, keys, copies, div : /\ I = 0 .. n-1 /\ J = 1 .. m /\ R = KV!Range(slot)
                                        /\ keys = k.keys /\ copies = k.copies /\ div = k.div
  OBVIOUS
<1>3. keys \in [D -> [I -> KvKey]] /\ copies \in Seq(KvCopySet(D)) /\ DOMAIN div = D
  BY <1>2 DEF KvKeysOK, KvTyped
<1>20. PICK H, V, Q :
          /\ H = [i \in DOMAIN a.keys[st] |-> IF i \in KV!Range(slot)
                                             THEN w[CHOOSE j \in DOMAIN w : slot[j] = i].key
                                             ELSE a.keys[st][i]]
          /\ V = (a.div[st] \ KV!Range(slot)) \cup {slot[j] : j \in {x \in DOMAIN w : w[x].div}}
          /\ Q = [x \in DOMAIN a.copies |->
                    [a.copies[x] EXCEPT !.clean = @ /\ st \notin {a.copies[x].src, a.copies[x].dst}]]
  OBVIOUS
<1>4. H = [i \in I |-> IF i \in R THEN w[CHOOSE j \in DOMAIN w : slot[j] = i].key ELSE keys[st][i]]
  <2>1. DOMAIN a.keys[st] = I /\ a.keys[st] = keys[st]
    BY <1>2, <1>3
  <2> QED BY <1>2, <1>20, <2>1
<1>5. V = (div[st] \ R) \cup {slot[j] : j \in {x \in DOMAIN w : w[x].div}} /\ KvUnclean(st, copies, Q)
  BY <1>2, <1>20 DEF KvUnclean
<1>6. r.keys = KvAt(keys, st, H) /\ r.div = KvAt(div, st, V) /\ r.copies = Q /\ r.cells = a.cells
  <2>2. r = [a EXCEPT !.keys[st] = H, !.div[st] = V, !.copies = Q]
    <3>1. r = [a EXCEPT !.keys[st] = [i \in DOMAIN a.keys[st] |-> IF i \in KV!Range(slot)
                                             THEN w[CHOOSE j \in DOMAIN w : slot[j] = i].key
                                             ELSE a.keys[st][i]],
                        !.div[st] = (a.div[st] \ KV!Range(slot)) \cup {slot[j] : j \in {x \in DOMAIN w : w[x].div}},
                        !.copies = [x \in DOMAIN a.copies |->
                    [a.copies[x] EXCEPT !.clean = @ /\ st \notin {a.copies[x].src, a.copies[x].dst}]]]
      BY <1>1, Zenon DEF KV!Loaded
    <3> QED BY <1>20, <3>1, Zenon
  <2>3. KvShape(a)
    BY DEF KvCacheOK
  <2> QED BY <1>2, <2>2, <2>3 DEF KvShape, KvAt
<1>7. /\ DOMAIN w = J /\ DOMAIN slot = J /\ R = {slot[j] : j \in J}
      /\ \A j \in J : slot[j] \in I
      /\ \A j, l \in J : slot[j] = slot[l] => j = l
  <2>1. DOMAIN w = J
    BY <1>2 DEF KvState
  <2>2. DOMAIN slot = J /\ \A j, l \in J : slot[j] = slot[l] => j = l
    BY <1>2 DEF KvCellsFound, KvInto
  <2>3. \A j \in J : slot[j] \in I
    BY <1>2 DEF KvCellsFound, KvInto
  <2>4. R = {slot[j] : j \in J}
    BY <1>2, <2>2 DEF KV!Range
  <2> QED BY <2>1, <2>2, <2>3, <2>4
<1>8. \A j \in J : H[slot[j]] = w[j].key
  <2> TAKE j \in J
  <2>1. PICK l : l = CHOOSE x \in DOMAIN w : slot[x] = slot[j]
    OBVIOUS
  <2>2. l \in J /\ slot[l] = slot[j]
    BY <1>7, <2>1
  <2>3. l = j
    BY <1>7, <2>2
  <2>4. slot[j] \in R /\ slot[j] \in I
    BY <1>7
  <2> QED BY <1>4, <2>1, <2>3, <2>4
<1>9. \A i \in I : i \notin R => H[i] = keys[st][i]
  BY <1>4
<1>10. H \in [I -> KvKey]
  <2>1. ASSUME NEW i \in I PROVE H[i] \in KvKey
    <3>1. CASE i \in R
      BY <1>7, <1>8, <3>1 DEF KvStateKeys
    <3>2. CASE i \notin R
      BY <1>3, <1>9, <3>2
    <3> QED BY <3>1, <3>2
  <2>2. H = [i \in I |-> H[i]]
    BY <1>4
  <2> QED BY <2>1, <2>2
<1>11. PICK new : new = KvAt(keys, st, H)
  OBVIOUS
<1>12. new \in [D -> [I -> KvKey]] /\ new[st] = H /\ \A t \in D : t # st => new[t] = keys[t]
  BY <1>3, <1>10, <1>11 DEF KvAt
<1>13. Q \in Seq(KvCopySet(D)) /\ Len(Q) = Len(copies) /\ \A j \in 1 .. Len(copies) : KvTainted(D, st, copies[j], Q[j])
  BY <1>3, <1>5, KvTaints
<1>14. KvTyped(D, n, r)
  BY <1>2, <1>3, <1>6, <1>11, <1>12, <1>13 DEF KvTyped, KvAt
<1>15. PICK x, y : x = KV!Copied(k) /\ y = KV!Copied(r)
  OBVIOUS
<1>16. KvTaint(D, I, st, keys, new, x, y)
  <2>1. PICK N \in Nat : N = Len(copies) /\ N = Len(Q)
    BY <1>3, <1>13
  <2>2. PICK f : KvCopyRun(keys, copies, N, f) /\ x = f[N]
    BY <1>2, <1>15, <2>1, KvCopied
  <2>3. PICK g : KvCopyRun(new, Q, N, g) /\ y = g[N]
    BY <1>6, <1>11, <1>15, <2>1, KvCopied
  <2>4. KvTaint(D, I, st, keys, new, f[N], g[N])
    BY <1>3, <1>12, <1>13, <2>1, <2>2, <2>3, KvCopyRunTaint
  <2> QED BY <2>2, <2>3, <2>4
<1>17. x \in [D -> [I -> KvKey]]
  BY <1>2, <1>15, KvCopiedType DEF KvKeysOK
<1>18. ASSUME NEW t \in D, t # st
       PROVE  KvMatches((0 .. n-1) \ r.div[t], y[t], r.cells[t])
  <2>1. PICK L, c, d : L = (0 .. n-1) \ k.div[t] /\ c = k.cells[t] /\ d = a.cells[t]
    OBVIOUS
  <2>2. KvCellsOK(I, c) /\ KvCellsOK(I, d)
    BY <1>2, <2>1, KvCellsAt
  <2>3. KvMatches(L, x[t], c) /\ L \subseteq I
    BY <1>2, <1>15, <2>1 DEF KvKeysOK
  <2>4. KvKept(L, c, d)
    <3>1. KvKept(I, c, d)
      BY <1>2, <1>18, <2>1
    <3> QED BY <2>3, <3>1 DEF KvKept
  <2>5. KvMatches(L, x[t], d)
    <3>1. PICK z : z = x[t]
      OBVIOUS
    <3>2. z \in [I -> KvKey] /\ KvMatches(L, z, c)
      BY <1>17, <2>3, <3>1
    <3> QED BY <2>2, <2>3, <2>4, <3>1, <3>2, KvMatchesKept
  <2>6. KvMatches(L, y[t], d)
    <3>1. \A i \in L : y[t][i].sound => x[t][i].sound /\ y[t][i].rope = x[t][i].rope
      BY <1>16, <1>18, <2>3 DEF KvTaint
    <3> QED BY <2>5, <3>1, KvMatchesLess
  <2>7. r.div[t] = k.div[t]
    BY <1>2, <1>3, <1>6, <1>18 DEF KvAt
  <2> QED BY <1>6, <2>1, <2>6, <2>7
<1>19. KvMatches((0 .. n-1) \ r.div[st], y[st], r.cells[st])
  <2>1. PICK c, d, f : c = k.cells[st] /\ d = e[st] /\ f = a.cells[st]
    OBVIOUS
  <2>2. KvCellsOK(I, c) /\ KvCellsOK(I, f)
    BY <1>2, <2>1, KvCellsAt
  <2>3. KvTaken(I, J, slot, w, c, d) /\ KvKept(I, d, f)
    BY <1>2, <2>1
  <2>4. r.div[st] = V
    BY <1>3, <1>6 DEF KvAt
  <2>5. ASSUME NEW i \in I, i \notin V, f.pos[i] # -1, y[st][i].sound
        PROVE  y[st][i].rope + f.shift[i] = f.pos[i]
    <3>1. H[i].sound /\ y[st][i].rope = H[i].rope /\ x[st] = keys[st]
      BY <1>12, <1>16, <2>5 DEF KvTaint
    <3>2. d.pos[i] # -1 /\ f.pos[i] - f.shift[i] = d.pos[i] - d.shift[i]
      BY <2>3, <2>5 DEF KvKept
    <3>3. /\ f.pos[i] \in Int /\ f.shift[i] \in Int /\ c.pos[i] \in Int /\ c.shift[i] \in Int
          /\ H[i].rope \in Int
      BY <1>10, <2>2 DEF KvCellsOK, KvCellsHold, KvData, KvKey
    <3>4. CASE i \in R
      <4>1. PICK j \in J : slot[j] = i
        BY <1>7, <3>4
      <4>2. d.pos[i] = w[j].pos /\ d.shift[i] = 0
        BY <2>3, <4>1 DEF KvTaken
      <4>3. H[i] = w[j].key /\ ~w[j].div
        BY <1>5, <1>7, <1>8, <2>5, <4>1
      <4>4. H[i].rope = w[j].pos /\ w[j].pos \in Nat
        BY <1>2, <1>7, <3>1, <4>3 DEF KvStateKeys, KvState
      <4> QED BY <3>1, <3>2, <3>3, <4>2, <4>4
    <3>5. CASE i \notin R
      <4>1. d.pos[i] = c.pos[i] /\ d.shift[i] = c.shift[i]
        BY <1>7, <2>3, <3>5 DEF KvTaken
      <4>2. H[i] = x[st][i] /\ i \in (0 .. n-1) \ k.div[st]
        BY <1>2, <1>5, <1>9, <2>5, <3>1, <3>5
      <4>3. KvMatches((0 .. n-1) \ k.div[st], x[st], c)
        BY <1>15, <2>1 DEF KvKeysOK
      <4>4. H[i].rope + c.shift[i] = c.pos[i]
        BY <3>1, <3>2, <4>1, <4>2, <4>3 DEF KvMatches
      <4> QED BY <3>1, <3>2, <3>3, <4>1, <4>4
    <3> QED BY <3>4, <3>5
  <2>6. KvMatches(I \ V, y[st], f)
    BY <2>5 DEF KvMatches
  <2> QED BY <1>2, <1>6, <2>1, <2>4, <2>6
<1> QED BY <1>1, <1>14, <1>15, <1>18, <1>19 DEF KvKeysOK

\* loading a state: removed, found a place for, and loaded
LEMMA KvKeys_state_read ==
    ASSUME NEW D, KvLayout(D), NEW n \in Nat, NEW q, NEW k, KvCacheOK(D, n, q, k), KvKeysOK(D, n, k),
           NEW s \in SeqIds, NEW m, NEW w, KvState(m, w), KvStateKeys(w)
    PROVE  KvKeysOK(D, n, KV!state_read(k, s, w).k)
<1>1. PICK r : r = KV!state_read(k, s, w)
  OBVIOUS
<1>2. PICK st \in D : st = KV!seq_to_stream(k, s)
  BY KvStream
<1>3. PICK gone : gone = KV!seq_rm(k, s, -1, -1)
  OBVIOUS
<1>4. KvCacheOK(D, n, q, gone) /\ KvKeeps(D, n, k, gone)
  BY <1>3, KvOK_seq_rm
<1>5. KvKeysOK(D, n, gone)
  BY <1>4, KvKeysKept
<1>6. PICK ub : ub = [t \in {st} |-> [j \in DOMAIN w |-> [seqs |-> {s}, pos |-> w[j].pos]]]
  OBVIOUS
<1>7. PICK places : places = KV!find_slot(gone, ub)
  OBVIOUS
<1>8. CASE w = << >>
  <2>1. r = [k |-> k, ok |-> TRUE]
    BY <1>1, <1>8 DEF KV!state_read
  <2> QED BY <1>1, <2>1
<1>9. CASE w # << >> /\ places = KV!NoSlot
  <2>1. r = [k |-> gone, ok |-> FALSE]
    BY <1>1, <1>2, <1>3, <1>6, <1>7, <1>9 DEF KV!state_read
  <2> QED BY <1>1, <1>5, <2>1
<1>10. CASE w # << >> /\ places # KV!NoSlot
  <2>1. m \in Nat \ {0} /\ DOMAIN w = 1 .. m
    BY <1>10 DEF KvState
  <2>2. PICK toks : toks = [j \in 1 .. m |-> [seqs |-> {s}, pos |-> w[j].pos]]
    OBVIOUS
  <2>3. toks \in Seq(KvToken) /\ Len(toks) = m /\ toks # << >>
    <3>1. \A j \in 1 .. m : toks[j] \in KvToken
      BY <2>2 DEF KvToken, KvState
    <3>2. toks \in [1 .. m -> KvToken]
      BY <2>2, <3>1
    <3> QED BY <2>1, <3>2
  <2>4. DOMAIN ub = {st} /\ ub[st] = toks
    BY <1>6, <2>1, <2>2
  <2>5. KvUbatch(D, ub)
    BY <2>3, <2>4 DEF KvUbatch
  <2>6. KvSlots(n, ub, places)
    BY <1>4, <1>7, <1>10, <2>5, KvOK_find_slot
  <2>7. PICK a : a = KV!apply_ubatch(gone, places, ub)
    OBVIOUS
  <2>8. KvCacheOK(D, n, q, a) /\ KvApplies(D, n, ub, places, gone, a)
    BY <1>4, <2>5, <2>6, <2>7, KvOK_apply_ubatch
  <2>9. PICK e : KvTakes(D, n, ub, places, ub, gone, e) /\ KvKeeps(D, n, e, a)
    BY <2>8 DEF KvApplies
  <2>10. PICK slot, C : slot = places[st] /\ C = e.cells
    OBVIOUS
  <2>11. KvCellsFound(n, m, slot)
    BY <2>3, <2>4, <2>6, <2>10 DEF KvSlots
  <2>12. a.keys = gone.keys /\ a.copies = gone.copies /\ a.div = gone.div
    BY <2>9 DEF KvTakes, KvKeeps
  <2>13. KvTaken(0 .. n-1, 1 .. m, slot, w, gone.cells[st], C[st])
    <3>1. PICK I, c, d : I = 0 .. n-1 /\ c = gone.cells[st] /\ d = C[st]
      OBVIOUS
    <3>2. KvTaken(I, 1 .. m, slot, toks, c, d)
      BY <2>3, <2>4, <2>9, <2>10, <3>1 DEF KvTakes
    <3>3. \A j \in 1 .. m : toks[j].pos = w[j].pos
      BY <2>2
    <3>4. KvTaken(I, 1 .. m, slot, w, c, d)
      BY <3>2, <3>3 DEF KvTaken
    <3> QED BY <3>1, <3>4
  <2>14. \A t \in D : t # st => C[t] = gone.cells[t]
    BY <2>4, <2>9, <2>10 DEF KvTakes
  <2>15. \A t \in D : KvKept(0 .. n-1, C[t], a.cells[t])
    BY <2>9, <2>10 DEF KvKeeps
  <2>16. KvKeysOK(D, n, KV!Loaded(a, st, slot, w))
    BY <1>4, <1>5, <2>1, <2>8, <2>11, <2>12, <2>13, <2>14, <2>15, KvKeys_Loaded
  <2>17. r = [k |-> KV!Loaded(a, st, places[st], w), ok |-> TRUE]
    BY <1>1, <1>2, <1>3, <1>6, <1>7, <1>10, <2>7 DEF KV!state_read
  <2> QED BY <1>1, <2>10, <2>16, <2>17
<1> QED BY <1>8, <1>9, <1>10

-----------------------------------------------------------------------------
(***************************************************************************)
(* The keys of the memory.                                                 *)
(***************************************************************************)
KvKeysAt(D, M, n, m, w, f) ==
    /\ \A c \in M : KvKeysOK(D, n[c], m[c])
    /\ w # << >> => \A c \in M : m[c].copies = << >>
    /\ f # << >> => \A c \in M : KvStateKeys(f.state[c])

\* caches whose cells agree and whose keys match
KvKeysMem(D, M, n, q, m) ==
    \A c \in M : KvCacheOK(D, n[c], q, m[c]) /\ KvKeysOK(D, n[c], m[c])

\* one operation on every cache, after which unused keys are forgotten
LEMMA KvKeys_Each ==
    ASSUME NEW D, NEW M, NEW n, NEW m, DOMAIN m = M, NEW q, NEW m2,
           KvKeysMem(D, M, n, q, m2),
           NEW r, r = [c \in DOMAIN m |-> KV!Forget(m2[c])]
    PROVE  \A c \in M : KvKeysOK(D, n[c], r[c]) /\ r[c].copies = m2[c].copies
<1> TAKE c \in M
<1>1. PICK nc, k : nc = n[c] /\ k = m2[c]
  OBVIOUS
<1>2. r[c] = KV!Forget(k)
  BY <1>1
<1>3. KvCacheOK(D, nc, q, k) /\ KvKeysOK(D, nc, k)
  BY <1>1 DEF KvKeysMem
<1>4. KvKeysOK(D, nc, KV!Forget(k)) /\ KV!Forget(k).copies = k.copies
  BY <1>3, KvKeys_Forget
<1> QED BY <1>1, <1>2, <1>4

\* the operations on sequences are called between two batches
LEMMA KvKeysAtKept ==
    ASSUME NEW D, NEW M, NEW n, KvInvAt(D, M, n, kv, todo, file), KvKeysAt(D, M, n, kv, todo, file),
           NEW m2, \A c \in M : KvCacheOK(D, n[c], KvNo, m2[c]) /\ KvKeysOK(D, n[c], m2[c]),
           kv' = [c \in DOMAIN kv |-> KV!Forget(m2[c])], todo' = << >>, file' = file
    PROVE  KvKeysAt(D, M, n, kv', todo', file')
<1>1. DOMAIN kv = M
  BY DEF KvInvAt, KvMem
<1>2. PICK no, m, r : no = KvNo /\ m = kv /\ r = kv'
  OBVIOUS
<1>3. KvKeysMem(D, M, n, no, m2)
  BY <1>2 DEF KvKeysMem
<1>4. DOMAIN m = M /\ r = [c \in DOMAIN m |-> KV!Forget(m2[c])]
  BY <1>1, <1>2
<1>5. \A c \in M : KvKeysOK(D, n[c], r[c])
  BY <1>3, <1>4, KvKeys_Each
<1> QED BY <1>2, <1>5 DEF KvKeysAt

\* what the invariant says of one cache
LEMMA KvKeysIs ==
    ASSUME NEW D, NEW M, NEW n, KvInvAt(D, M, n, kv, todo, file), KvKeysAt(D, M, n, kv, todo, file),
           NEW c \in M
    PROVE  /\ n[c] \in Nat /\ KvCacheOK(D, n[c], KvNo, kv[c]) /\ KvLayout(D) /\ DOMAIN kv = M
           /\ KvKeysOK(D, n[c], kv[c])
BY KvCacheIs DEF KvKeysAt

\* clear on every cache
LEMMA KvKeys_memory_clear ==
    ASSUME NEW D, NEW M, NEW n, KvInvAt(D, M, n, kv, todo, file), KvKeysAt(D, M, n, kv, todo, file),
           NEW data, memory_clear(data)
    PROVE  KvKeysAt(D, M, n, kv', todo', file')
<1>1. PICK m2 : m2 = [c \in M |-> KV!clear(kv[c], data)]
  OBVIOUS
<1>2. DOMAIN kv = M
  BY DEF KvInvAt, KvMem
<1>3. kv' = [c \in DOMAIN kv |-> KV!Forget(m2[c])] /\ todo' = << >> /\ file' = file
  BY <1>1, <1>2 DEF memory_clear, Each, KvCall
<1>4. ASSUME NEW c \in M PROVE KvCacheOK(D, n[c], KvNo, m2[c]) /\ KvKeysOK(D, n[c], m2[c])
  <2>1. PICK nc, k : nc = n[c] /\ k = kv[c]
    OBVIOUS
  <2>2. nc \in Nat /\ KvCacheOK(D, nc, KvNo, k) /\ KvKeysOK(D, nc, k)
    BY <2>1, KvKeysIs
  <2>3. m2[c] = KV!clear(k, data)
    BY <1>1, <2>1
  <2> QED BY <2>1, <2>2, <2>3, KvOK_clear, KvKeys_clear
<1> QED BY <1>3, <1>4, KvKeysAtKept

\* seq_rm on every cache
LEMMA KvKeys_memory_seq_rm ==
    ASSUME NEW D, NEW M, NEW n, KvInvAt(D, M, n, kv, todo, file), KvKeysAt(D, M, n, kv, todo, file),
           NEW s, NEW p0, NEW p1, memory_seq_rm(s, p0, p1)
    PROVE  KvKeysAt(D, M, n, kv', todo', file')
<1>1. PICK m2 : m2 = [c \in M |-> KV!seq_rm(kv[c], s, p0, p1)]
  OBVIOUS
<1>2. DOMAIN kv = M
  BY DEF KvInvAt, KvMem
<1>3. kv' = [c \in DOMAIN kv |-> KV!Forget(m2[c])] /\ todo' = << >> /\ file' = file
  BY <1>1, <1>2 DEF memory_seq_rm, Each, KvCall
<1>4. ASSUME NEW c \in M PROVE KvCacheOK(D, n[c], KvNo, m2[c]) /\ KvKeysOK(D, n[c], m2[c])
  <2>1. PICK nc, k, r : nc = n[c] /\ k = kv[c] /\ r = m2[c]
    OBVIOUS
  <2>2. nc \in Nat /\ KvCacheOK(D, nc, KvNo, k) /\ KvKeysOK(D, nc, k)
    BY <2>1, KvKeysIs
  <2>3. r = KV!seq_rm(k, s, p0, p1)
    BY <1>1, <2>1
  <2>4. KvCacheOK(D, nc, KvNo, r) /\ KvKeeps(D, nc, k, r)
    BY <2>2, <2>3, KvOK_seq_rm
  <2> QED BY <2>1, <2>2, <2>4, KvKeysKept
<1> QED BY <1>3, <1>4, KvKeysAtKept

\* seq_keep on every cache
LEMMA KvKeys_memory_seq_keep ==
    ASSUME NEW D, NEW M, NEW n, KvInvAt(D, M, n, kv, todo, file), KvKeysAt(D, M, n, kv, todo, file),
           NEW s \in SeqIds, memory_seq_keep(s)
    PROVE  KvKeysAt(D, M, n, kv', todo', file')
<1>1. PICK m2 : m2 = [c \in M |-> KV!seq_keep(kv[c], s)]
  OBVIOUS
<1>2. DOMAIN kv = M
  BY DEF KvInvAt, KvMem
<1>3. kv' = [c \in DOMAIN kv |-> KV!Forget(m2[c])] /\ todo' = << >> /\ file' = file
  BY <1>1, <1>2 DEF memory_seq_keep, Each, KvCall
<1>4. ASSUME NEW c \in M PROVE KvCacheOK(D, n[c], KvNo, m2[c]) /\ KvKeysOK(D, n[c], m2[c])
  <2>1. PICK nc, k, r : nc = n[c] /\ k = kv[c] /\ r = m2[c]
    OBVIOUS
  <2>2. nc \in Nat /\ KvCacheOK(D, nc, KvNo, k) /\ KvLayout(D) /\ KvKeysOK(D, nc, k)
    BY <2>1, KvKeysIs
  <2>3. r = KV!seq_keep(k, s)
    BY <1>1, <2>1
  <2>4. KvCacheOK(D, nc, KvNo, r) /\ KvKeeps(D, nc, k, r)
    BY <2>2, <2>3, KvOK_seq_keep
  <2> QED BY <2>1, <2>2, <2>4, KvKeysKept
<1> QED BY <1>3, <1>4, KvKeysAtKept

\* seq_add on every cache
LEMMA KvKeys_memory_seq_add ==
    ASSUME NEW D, NEW M, NEW n, KvInvAt(D, M, n, kv, todo, file), KvKeysAt(D, M, n, kv, todo, file),
           NEW s \in SeqIds, NEW p0, NEW p1, NEW shift \in Int, memory_seq_add(s, p0, p1, shift)
    PROVE  KvKeysAt(D, M, n, kv', todo', file')
<1>1. PICK m2 : m2 = [c \in M |-> KV!seq_add(kv[c], s, p0, p1, shift)]
  OBVIOUS
<1>2. DOMAIN kv = M
  BY DEF KvInvAt, KvMem
<1>3. kv' = [c \in DOMAIN kv |-> KV!Forget(m2[c])] /\ todo' = << >> /\ file' = file
  BY <1>1, <1>2 DEF memory_seq_add, Each, KvCall
<1>4. ASSUME NEW c \in M PROVE KvCacheOK(D, n[c], KvNo, m2[c]) /\ KvKeysOK(D, n[c], m2[c])
  <2>1. PICK nc, k, r : nc = n[c] /\ k = kv[c] /\ r = m2[c]
    OBVIOUS
  <2>2. nc \in Nat /\ KvCacheOK(D, nc, KvNo, k) /\ KvLayout(D) /\ KvKeysOK(D, nc, k)
    BY <2>1, KvKeysIs
  <2>3. r = KV!seq_add(k, s, p0, p1, shift)
    BY <1>1, <2>1
  <2>4. KvCacheOK(D, nc, KvNo, r) /\ KvKeeps(D, nc, k, r)
    BY <2>2, <2>3, KvOK_seq_add
  <2> QED BY <2>1, <2>2, <2>4, KvKeysKept
<1> QED BY <1>3, <1>4, KvKeysAtKept

\* seq_div on every cache
LEMMA KvKeys_memory_seq_div ==
    ASSUME NEW D, NEW M, NEW n, KvInvAt(D, M, n, kv, todo, file), KvKeysAt(D, M, n, kv, todo, file),
           NEW s \in SeqIds, NEW p0, NEW p1, NEW d \in Nat \ {0}, memory_seq_div(s, p0, p1, d)
    PROVE  KvKeysAt(D, M, n, kv', todo', file')
<1>1. PICK m2 : m2 = [c \in M |-> KV!seq_div(kv[c], s, p0, p1, d)]
  OBVIOUS
<1>2. DOMAIN kv = M
  BY DEF KvInvAt, KvMem
<1>3. kv' = [c \in DOMAIN kv |-> KV!Forget(m2[c])] /\ todo' = << >> /\ file' = file
  BY <1>1, <1>2 DEF memory_seq_div, Each, KvCall
<1>4. ASSUME NEW c \in M PROVE KvCacheOK(D, n[c], KvNo, m2[c]) /\ KvKeysOK(D, n[c], m2[c])
  <2>1. PICK nc, k, r : nc = n[c] /\ k = kv[c] /\ r = m2[c]
    OBVIOUS
  <2>2. nc \in Nat /\ KvCacheOK(D, nc, KvNo, k) /\ KvLayout(D) /\ KvKeysOK(D, nc, k)
    BY <2>1, KvKeysIs
  <2>3. r = KV!seq_div(k, s, p0, p1, d)
    BY <1>1, <2>1
  <2>4. DOMAIN k.div = D
    BY <2>2 DEF KvKeysOK, KvTyped
  <2>5. KvCacheOK(D, nc, KvNo, r) /\ KvDivides(D, nc, k, r)
    BY <2>2, <2>3, <2>4, KvOK_seq_div
  <2> QED BY <2>1, <2>2, <2>5, KvKeysDivided
<1> QED BY <1>3, <1>4, KvKeysAtKept

\* seq_cp on every cache, within a stream or between two of them
LEMMA KvKeys_memory_seq_cp ==
    ASSUME NEW D, NEW M, NEW n, KvInvAt(D, M, n, kv, todo, file), KvKeysAt(D, M, n, kv, todo, file),
           NEW src \in SeqIds, NEW dst \in SeqIds, NEW p0, NEW p1, memory_seq_cp(src, dst, p0, p1)
    PROVE  KvKeysAt(D, M, n, kv', todo', file')
<1>1. PICK m2 : m2 = [c \in M |-> KV!seq_cp(kv[c], src, dst, p0, p1)]
  OBVIOUS
<1>2. DOMAIN kv = M
  BY DEF KvInvAt, KvMem
<1>3. kv' = [c \in DOMAIN kv |-> KV!Forget(m2[c])] /\ todo' = << >> /\ file' = file
  BY <1>1, <1>2 DEF memory_seq_cp, Each, KvCall
<1>4. src # dst /\ (unified => \A c \in DOMAIN kv : Held(kv[c], dst) = {})
  BY DEF memory_seq_cp
<1>5. unified <=> Cardinality(D) = 1
  BY KvUnified DEF KvInvAt
<1>6. ASSUME NEW c \in M PROVE KvCacheOK(D, n[c], KvNo, m2[c]) /\ KvKeysOK(D, n[c], m2[c])
  <2>1. PICK nc, k, r : nc = n[c] /\ k = kv[c] /\ r = m2[c]
    OBVIOUS
  <2>2. nc \in Nat /\ KvCacheOK(D, nc, KvNo, k) /\ KvLayout(D) /\ KvKeysOK(D, nc, k)
    BY <2>1, KvKeysIs
  <2>3. r = KV!seq_cp(k, src, dst, p0, p1)
    BY <1>1, <2>1
  <2>4. ASSUME KV!seq_to_stream(k, src) = KV!seq_to_stream(k, dst)
        PROVE  KvInNone(0 .. nc-1, dst, k.cells[KV!seq_to_stream(k, dst)].seq)
    <3>1. unified
      BY <1>4, <1>5, <2>2, <2>4, KvApart
    <3>2. Held(k, dst) = {}
      BY <1>2, <1>4, <2>1, <3>1
    <3> QED BY <2>2, <3>2, KvHeldNone
  <2>5. PICK s0 \in D, s1 \in D : s0 = KV!seq_to_stream(k, src) /\ s1 = KV!seq_to_stream(k, dst)
    BY <2>2, KvStream
  <2>6. KvCacheOK(D, nc, KvNo, r) /\ (KvKeeps(D, nc, k, r) \/ KvCopies(D, nc, k, s0, s1, r))
    BY <2>2, <2>3, <2>4, <2>5, KvOK_seq_cp
  <2> QED BY <2>1, <2>2, <2>6, KvKeysKept, KvKeysCopied
<1> QED BY <1>3, <1>6, KvKeysAtKept

\* the pending updates are performed before a batch is planned
LEMMA KvKeys_memory_update ==
    ASSUME NEW D, NEW M, NEW n, NEW q, NEW m, DOMAIN m = M, KvKeysMem(D, M, n, q, m)
    PROVE  \A c \in M : KvKeysOK(D, n[c], memory_update(m)[c]) /\ memory_update(m)[c].copies = << >>
<1> TAKE c \in M
<1>1. PICK nc, k : nc = n[c] /\ k = m[c]
  OBVIOUS
<1>2. memory_update(m)[c] = KV!update(k)
  BY <1>1 DEF memory_update
<1>3. KvCacheOK(D, nc, q, k) /\ KvKeysOK(D, nc, k)
  BY <1>1 DEF KvKeysMem
<1>4. KvKeysOK(D, nc, KV!update(k)) /\ KV!update(k).copies = << >>
  BY <1>3, KvKeys_update
<1> QED BY <1>1, <1>2, <1>4

\* decode performs the updates, and planning keeps all keys
LEMMA KvKeys_decode ==
    ASSUME NEW D, NEW M, NEW n, KvInvAt(D, M, n, kv, todo, file), KvKeysAt(D, M, n, kv, todo, file),
           NEW b \in Batches, decode(b)
    PROVE  KvKeysAt(D, M, n, kv', todo', file')
<1>1. PICK toks : /\ toks = Positioned(b)
                  /\ \A tok \in Range(toks) : tok.pos \in 0 .. MaxPos
                  /\ \E r \in {init_batch(memory_update(kv), toks)} :
                       /\ kv' = [c \in DOMAIN kv |-> KV!Forget(r.m[c])]
                       /\ todo' = r.todo
  BY DEF decode
<1>2. PICK r : /\ r = init_batch(memory_update(kv), toks)
               /\ kv' = [c \in DOMAIN kv |-> KV!Forget(r.m[c])]
               /\ todo' = r.todo
  BY <1>1
<1>3. toks \in Seq(KvToken) /\ toks # << >>
  BY <1>1, KvOK_Positioned
<1>4. KvLayout(D) /\ KvSizes(M, n) /\ KvMem(D, M, n, KvNo, kv)
  BY DEF KvInvAt
<1>5. PICK m, no, yes : m = memory_update(kv) /\ no = KvNo /\ yes = KvYes
  OBVIOUS
<1>6. KvMem(D, M, n, KvYes, m)
  BY <1>4, <1>5, KvOK_memory_update
<1>7. DOMAIN kv = M /\ KvKeysMem(D, M, n, no, kv)
  BY <1>4, <1>5 DEF KvKeysAt, KvKeysMem, KvMem
<1>8. \A c \in M : KvKeysOK(D, n[c], m[c]) /\ m[c].copies = << >>
  BY <1>5, <1>7, KvKeys_memory_update
<1>9. KvSplitInto(D)
  BY <1>4, KvUnified
<1>10. KvPlannedMem(D, M, n, m, r)
  BY <1>2, <1>3, <1>4, <1>5, <1>6, <1>9, KvOK_init_batch
<1>11. PICK m2 : m2 = r.m
  OBVIOUS
<1>12. ASSUME NEW c \in M
       PROVE  KvCacheOK(D, n[c], yes, m2[c]) /\ KvKeysOK(D, n[c], m2[c]) /\ m2[c].copies = << >>
  <2>1. PICK nc, k, e : nc = n[c] /\ k = m[c] /\ e = m2[c]
    OBVIOUS
  <2>2. KvCacheOK(D, nc, yes, k) /\ KvKeysOK(D, nc, k) /\ k.copies = << >>
    BY <1>5, <1>6, <1>8, <2>1 DEF KvMem
  <2>3. KvCacheOK(D, nc, yes, e) /\ KvKeeps(D, nc, k, e)
    BY <1>5, <1>10, <1>11, <2>1 DEF KvPlannedMem, KvMem
  <2>4. KvKeysOK(D, nc, e)
    BY <2>2, <2>3, KvKeysKept
  <2>5. e.copies = << >>
    BY <2>2, <2>3 DEF KvKeeps
  <2> QED BY <2>1, <2>3, <2>4, <2>5
<1>13. KvKeysMem(D, M, n, yes, m2)
  BY <1>12 DEF KvKeysMem
<1>14. PICK m0, m3 : /\ m0 = kv /\ m3 = kv' /\ DOMAIN m0 = M
                     /\ m3 = [c \in DOMAIN m0 |-> KV!Forget(m2[c])]
  BY <1>2, <1>7, <1>11
<1>15. \A c \in M : KvKeysOK(D, n[c], m3[c]) /\ m3[c].copies = m2[c].copies
  BY <1>13, <1>14, KvKeys_Each
<1>16. file' = file
  BY DEF decode
<1> QED BY <1>12, <1>14, <1>15, <1>16 DEF KvKeysAt

\* what the first planned micro batch leaves in a cache
LEMMA KvKeysComputed ==
    ASSUME NEW D, NEW M, NEW n, KvInvAt(D, M, n, kv, todo, file), KvKeysAt(D, M, n, kv, todo, file),
           todo # << >>, NEW c \in M, NEW sound \in BOOLEAN,
           NEW k, k = KV!Write(KV!apply_ubatch(kv[c], Head(todo).slots[c], Head(todo).ub),
                               Head(todo).slots[c], Head(todo).ub, sound)
    PROVE  KvCacheOK(D, n[c], KvNo, k) /\ KvKeysOK(D, n[c], k) /\ k.copies = << >>
<1>1. KvTodoItem(D, M, n, Head(todo))
  BY KvTodoHead DEF KvInvAt
<1>2. PICK nc, e, sl, ub, no : /\ nc = n[c] /\ e = kv[c] /\ sl = Head(todo).slots[c] /\ ub = Head(todo).ub
                               /\ no = KvNo
  OBVIOUS
<1>3. KvUbatch(D, ub) /\ KvSlots(nc, ub, sl)
  BY <1>1, <1>2 DEF KvTodoItem
<1>4. nc \in Nat /\ KvCacheOK(D, nc, no, e) /\ KvKeysOK(D, nc, e)
  BY <1>2, KvKeysIs
<1>5. e.copies = << >>
  BY <1>2 DEF KvKeysAt
<1>6. PICK a : a = KV!apply_ubatch(e, sl, ub)
  OBVIOUS
<1>7. KvCacheOK(D, nc, no, a) /\ KvApplies(D, nc, ub, sl, e, a)
  BY <1>3, <1>4, <1>6, KvOK_apply_ubatch
<1>8. k = KV!Write(a, sl, ub, sound)
  BY <1>2, <1>6
<1>9. KvCacheOK(D, nc, no, k)
  BY <1>7, <1>8, KvOK_Write
<1>10. KvKeysOK(D, nc, k) /\ k.copies = << >>
  <2>1. KvKeysOK(D, nc, KV!Write(a, sl, ub, sound)) /\ KV!Write(a, sl, ub, sound).copies = << >>
    BY <1>3, <1>4, <1>5, <1>7, KvKeys_Write
  <2> QED BY <1>8, <2>1
<1> QED BY <1>2, <1>9, <1>10

\* a micro batch takes its cells and writes their keys
LEMMA KvKeys_process_ubatch ==
    ASSUME NEW D, NEW M, NEW n, KvInvAt(D, M, n, kv, todo, file), KvKeysAt(D, M, n, kv, todo, file),
           process_ubatch
    PROVE  KvKeysAt(D, M, n, kv', todo', file')
<1>1. /\ todo # << >> /\ todo' = Tail(todo) /\ file' = file
      /\ kv' = [c \in DOMAIN kv |->
                  KV!Forget(KV!Write(KV!apply_ubatch(kv[c], Head(todo).slots[c], Head(todo).ub),
                                     Head(todo).slots[c], Head(todo).ub, TRUE))]
  BY DEF process_ubatch
<1>2. DOMAIN kv = M
  BY DEF KvInvAt, KvMem
<1>3. PICK no, yes : no = KvNo /\ yes \in BOOLEAN /\ yes = TRUE
  OBVIOUS
<1>4. PICK m2 : m2 = [c \in M |-> KV!Write(KV!apply_ubatch(kv[c], Head(todo).slots[c], Head(todo).ub),
                                           Head(todo).slots[c], Head(todo).ub, yes)]
  OBVIOUS
<1>5. ASSUME NEW c \in M
      PROVE  KvCacheOK(D, n[c], no, m2[c]) /\ KvKeysOK(D, n[c], m2[c]) /\ m2[c].copies = << >>
  <2>1. PICK k : k = KV!Write(KV!apply_ubatch(kv[c], Head(todo).slots[c], Head(todo).ub),
                              Head(todo).slots[c], Head(todo).ub, yes)
    OBVIOUS
  <2>2. k = m2[c]
    BY <1>4, <2>1
  <2>3. KvCacheOK(D, n[c], no, k) /\ KvKeysOK(D, n[c], k) /\ k.copies = << >>
    BY <1>1, <1>3, <2>1, KvKeysComputed, Zenon
  <2> QED BY <2>2, <2>3
<1>6. KvKeysMem(D, M, n, no, m2)
  BY <1>5 DEF KvKeysMem
<1>7. PICK m0, m3 : /\ m0 = kv /\ m3 = kv' /\ DOMAIN m0 = M
                    /\ m3 = [c \in DOMAIN m0 |-> KV!Forget(m2[c])]
  BY <1>1, <1>2, <1>3, <1>4
<1>8. \A c \in M : KvKeysOK(D, n[c], m3[c]) /\ m3[c].copies = m2[c].copies
  BY <1>6, <1>7, KvKeys_Each
<1> QED BY <1>1, <1>5, <1>7, <1>8 DEF KvKeysAt

\* a failed micro batch leaves keys that are not asked for, and removes cells
LEMMA KvKeys_UbatchFails ==
    ASSUME NEW D, NEW M, NEW n, KvInvAt(D, M, n, kv, todo, file), KvKeysAt(D, M, n, kv, todo, file),
           UbatchFails
    PROVE  KvKeysAt(D, M, n, kv', todo', file')
<1>1. PICK sl, ub, toks, lead, from :
        /\ sl = Head(todo).slots /\ ub = Head(todo).ub
        /\ toks = UNION {Range(ub[st]) : st \in DOMAIN ub}
        /\ lead = {Min(tok.seqs) : tok \in toks}
        /\ from = [s \in lead |-> Min({tok.pos : tok \in {t \in toks : Min(t.seqs) = s}})]
  OBVIOUS
<1>2. /\ todo # << >> /\ todo' = << >> /\ file' = file
      /\ kv' = [c \in DOMAIN kv |->
                  KV!Forget(KV!LoopTruncate(
                    KV!Write(KV!apply_ubatch(kv[c], sl[c], ub), sl[c], ub, FALSE), from))]
  BY <1>1, Zenon DEF UbatchFails
<1>3. DOMAIN kv = M
  BY DEF KvInvAt, KvMem
<1>4. IsFiniteSet(DOMAIN from)
  <2>1. KvTodoItem(D, M, n, Head(todo))
    BY <1>2, KvTodoHead DEF KvInvAt
  <2>2. KvUbatch(D, ub)
    BY <1>1, <2>1 DEF KvTodoItem
  <2>3. KvLeads(ub, toks, lead)
    BY <1>1, Zenon DEF KvLeads
  <2>4. IsFiniteSet(lead)
    BY <2>2, <2>3, KvLead
  <2> QED BY <1>1, <2>4
<1>5. PICK no, off : no = KvNo /\ off \in BOOLEAN /\ off = FALSE
  OBVIOUS
<1>6. PICK m2 : m2 = [c \in M |-> KV!LoopTruncate(
                        KV!Write(KV!apply_ubatch(kv[c], sl[c], ub), sl[c], ub, off), from)]
  OBVIOUS
<1>7. ASSUME NEW c \in M PROVE KvCacheOK(D, n[c], no, m2[c]) /\ KvKeysOK(D, n[c], m2[c])
  <2>1. PICK nc, e : nc = n[c] /\ e = m2[c]
    OBVIOUS
  <2>2. PICK k : k = KV!Write(KV!apply_ubatch(kv[c], Head(todo).slots[c], Head(todo).ub),
                              Head(todo).slots[c], Head(todo).ub, off)
    OBVIOUS
  <2>3. KvCacheOK(D, nc, no, k) /\ KvKeysOK(D, nc, k)
    BY <1>2, <1>5, <2>1, <2>2, KvKeysComputed
  <2>4. e = KV!LoopTruncate(k, from)
    BY <1>1, <1>6, <2>1, <2>2
  <2>5. nc \in Nat
    BY <2>1, KvCacheIs
  <2>6. KvCacheOK(D, nc, no, e) /\ KvKeeps(D, nc, k, e)
    BY <1>4, <2>3, <2>4, <2>5, KvOK_LoopTruncate
  <2>7. KvKeysOK(D, nc, e)
    BY <2>3, <2>6, KvKeysKept
  <2> QED BY <2>1, <2>6, <2>7
<1>8. kv' = [c \in DOMAIN kv |-> KV!Forget(m2[c])]
  BY <1>2, <1>3, <1>5, <1>6
<1> QED BY <1>2, <1>5, <1>7, <1>8, KvKeysAtKept

\* saving a sequence's state
LEMMA KvKeys_state_seq_get_data ==
    ASSUME NEW D, NEW M, NEW n, KvInvAt(D, M, n, kv, todo, file), KvKeysAt(D, M, n, kv, todo, file),
           NEW s \in SeqIds, state_seq_get_data(s)
    PROVE  KvKeysAt(D, M, n, kv', todo', file')
<1>1. PICK f : f = [c \in DOMAIN kv |-> KV!state_write(kv[c], s)]
  OBVIOUS
<1>2. DOMAIN kv = M
  BY DEF KvInvAt, KvMem
<1>3. file' = [state |-> f, spoiled |-> s \in spoiled] /\ kv' = kv /\ todo' = todo
  BY <1>1 DEF state_seq_get_data
<1>4. file'.state = f
  BY <1>3
<1>5. ASSUME NEW c \in M PROVE KvStateKeys(f[c])
  <2>1. PICK nc, k, no : nc = n[c] /\ k = kv[c] /\ no = KvNo
    OBVIOUS
  <2>2. nc \in Nat /\ KvCacheOK(D, nc, no, k) /\ KvLayout(D) /\ KvKeysOK(D, nc, k)
    BY <2>1, KvKeysIs
  <2>3. f[c] = KV!state_write(k, s)
    BY <1>1, <1>2, <2>1
  <2> QED BY <2>2, <2>3, KvKeys_state_write
<1> QED BY <1>3, <1>4, <1>5 DEF KvKeysAt

\* loading a sequence's state, also if the first cache has no room
LEMMA KvKeys_state_seq_set_data ==
    ASSUME NEW D, NEW M, NEW n, KvInvAt(D, M, n, kv, todo, file), KvKeysAt(D, M, n, kv, todo, file),
           NEW s \in SeqIds, state_seq_set_data(s)
    PROVE  KvKeysAt(D, M, n, kv', todo', file')
<1>1. PICK r : /\ r = [c \in DOMAIN kv |-> KV!state_read(kv[c], s, file.state[c])]
               /\ kv' = [c \in DOMAIN kv |->
                           KV!Forget(IF r["base"].ok \/ c = "base" THEN r[c].k ELSE kv[c])]
  BY DEF state_seq_set_data
<1>2. DOMAIN kv = M
  BY DEF KvInvAt, KvMem
<1>3. file # << >> /\ file' = << >> /\ todo' = << >>
  BY DEF state_seq_set_data, KvCall
<1>4. PICK m2 : m2 = [c \in M |-> IF r["base"].ok \/ c = "base" THEN r[c].k ELSE kv[c]]
  OBVIOUS
<1>5. PICK m0, m3, no : /\ m0 = kv /\ m3 = kv' /\ DOMAIN m0 = M
                        /\ m3 = [c \in DOMAIN m0 |-> KV!Forget(m2[c])] /\ no = KvNo
  BY <1>1, <1>2, <1>4
<1>6. ASSUME NEW c \in M PROVE KvCacheOK(D, n[c], no, m2[c]) /\ KvKeysOK(D, n[c], m2[c])
  <2>1. PICK nc, k, w : nc = n[c] /\ k = kv[c] /\ w = file.state[c]
    OBVIOUS
  <2>2. nc \in Nat /\ KvCacheOK(D, nc, no, k) /\ KvLayout(D) /\ KvKeysOK(D, nc, k)
    BY <1>5, <2>1, KvKeysIs
  <2>3. PICK m : KvState(m, w)
    BY <1>3, <2>1 DEF KvInvAt, KvFile
  <2>4. KvStateKeys(w)
    BY <1>3, <2>1 DEF KvKeysAt
  <2>5. PICK e : e = KV!state_read(k, s, w).k
    OBVIOUS
  <2>6. r[c].k = e
    BY <1>1, <1>2, <2>1, <2>5
  <2>7. KvCacheOK(D, nc, no, e) /\ KvKeysOK(D, nc, e)
    BY <2>2, <2>3, <2>4, <2>5, KvOK_state_read, KvKeys_state_read
  <2>8. m2[c] = e \/ m2[c] = k
    BY <1>4, <2>1, <2>6
  <2> QED BY <2>1, <2>2, <2>7, <2>8
<1>7. KvKeysMem(D, M, n, no, m2)
  BY <1>6 DEF KvKeysMem
<1>8. \A c \in M : KvKeysOK(D, n[c], m3[c])
  BY <1>5, <1>7, KvKeys_Each
<1> QED BY <1>3, <1>5, <1>8 DEF KvKeysAt

\* the keys of a new cache
LEMMA KvKeys_llama_kv_cache ==
    ASSUME NEW D, NEW n \in Nat, NEW q, NEW streams, NEW m \in Nat, NEW swa, NEW k, KvCacheOK(D, n, q, k),
           k = KV!llama_kv_cache(streams, m, swa)
    PROVE  KvKeysOK(D, n, k)
<1>1. PICK S, empty : S = 0 .. streams-1 /\ empty = KV!Cells!resize(m)
  OBVIOUS
<1>2. k = [cells  |-> [st \in S |-> empty], heads  |-> [st \in S |-> 0], copies |-> << >>,
           keys   |-> [st \in S |-> [i \in 0 .. m-1 |-> KV!NoKey]],
           div    |-> [st \in S |-> {}], swa    |-> swa]
  BY <1>1, Zenon DEF KV!llama_kv_cache
<1>3. DOMAIN k.cells = D
  BY DEF KvCacheOK, KvStreams
<1>4. D = S
  BY <1>2, <1>3
<1>5. KvCellsOK(0 .. m-1, empty)
  BY <1>1, KvOK_resize
<1>6. ASSUME NEW st \in D PROVE 0 .. n-1 = 0 .. m-1
  <2>1. KvCellsOK(0 .. n-1, k.cells[st]) /\ k.cells[st] = empty
    BY <1>2, <1>4, KvCellsAt
  <2>2. DOMAIN empty.pos = 0 .. n-1 /\ DOMAIN empty.pos = 0 .. m-1
    BY <1>5, <2>1, KvSize
  <2> QED BY <2>2
<1>7. PICK keys : keys = k.keys
  OBVIOUS
<1>8. keys \in [D -> [0 .. n-1 -> KvKey]]
  <2>1. \A st \in D : keys[st] = [i \in 0 .. n-1 |-> KV!NoKey]
    BY <1>2, <1>4, <1>6, <1>7
  <2>2. \A st \in D : keys[st] \in [0 .. n-1 -> KvKey]
    BY <2>1, KvNoKeyOf
  <2>3. keys = [st \in D |-> keys[st]]
    BY <1>2, <1>4, <1>7
  <2> QED BY <2>2, <2>3
<1>9. k.copies = << >> /\ DOMAIN k.div = D
  BY <1>2, <1>4
<1>10. << >> \in Seq(KvCopySet(D))
  OBVIOUS
<1>11. KvTyped(D, n, k)
  BY <1>7, <1>8, <1>9, <1>10 DEF KvTyped
<1>12. KV!Copied(k) = keys
  BY <1>7, <1>9, KvCopiedNone
<1>13. \A st \in D : \A i \in 0 .. n-1 : ~keys[st][i].sound
  BY <1>2, <1>4, <1>6, <1>7, KvNoKeyOf
<1> QED BY <1>11, <1>12, <1>13 DEF KvKeysOK, KvMatches

\* new caches hold no key
LEMMA KvKeysInit ==
    ASSUME KvInit, NEW D, NEW M, NEW n, KvInvAt(D, M, n, kv, todo, file)
    PROVE  KvKeysAt(D, M, n, kv, todo, file)
<1>1. PICK l \in Layouts :
        /\ kv = [c \in IF l.swa = "none" THEN {"base"} ELSE {"base", "swa"} |->
                    IF c = "base" THEN KV!llama_kv_cache(l.streams, l.kv_size, NoWindow)
                    ELSE KV!llama_kv_cache(l.streams, size_swa(l), [type |-> l.swa, n |-> NSwa])]
        /\ todo = << >> /\ file = << >>
  BY DEF KvInit
<1>2. PICK S, x, y, z, w : /\ S = l.streams /\ x = NoWindow /\ y = l.kv_size /\ z = size_swa(l)
                           /\ w = [type |-> l.swa, n |-> NSwa]
  OBVIOUS
<1>3. y \in Nat /\ z \in Nat
  BY <1>2, KvLayoutOf, KvOK_size_swa
<1>4. ASSUME NEW c \in M PROVE KvKeysOK(D, n[c], kv[c])
  <2>1. PICK nc, k, no : nc = n[c] /\ k = kv[c] /\ no = KvNo
    OBVIOUS
  <2>2. nc \in Nat /\ KvCacheOK(D, nc, no, k) /\ DOMAIN kv = M
    BY <2>1, KvCacheIs
  <2>3. k = KV!llama_kv_cache(S, y, x) \/ k = KV!llama_kv_cache(S, z, w)
    BY <1>1, <1>2, <2>1, <2>2
  <2>4. KvKeysOK(D, nc, k)
    BY <1>3, <2>2, <2>3, KvKeys_llama_kv_cache
  <2> QED BY <2>1, <2>4
<1> QED BY <1>1, <1>4 DEF KvKeysAt

\* the keys match after every step
LEMMA KvKeysStep ==
    ASSUME NEW D, NEW M, NEW n, KvInvAt(D, M, n, kv, todo, file), KvKeysAt(D, M, n, kv, todo, file),
           [KvNext]_kvVars
    PROVE  KvKeysAt(D, M, n, kv', todo', file')
<1>3. CASE UNCHANGED kvVars
  BY <1>3 DEF kvVars
<1>4. ASSUME NEW b \in Batches, decode(b) PROVE KvKeysAt(D, M, n, kv', todo', file')
  BY <1>4, KvKeys_decode
<1>5. CASE process_ubatch
  BY <1>5, KvKeys_process_ubatch
<1>6. CASE UbatchFails
  BY <1>6, KvKeys_UbatchFails
<1>7. ASSUME NEW data, memory_clear(data) PROVE KvKeysAt(D, M, n, kv', todo', file')
  BY <1>7, KvKeys_memory_clear
<1>8. ASSUME NEW s, NEW p0, NEW p1, memory_seq_rm(s, p0, p1) PROVE KvKeysAt(D, M, n, kv', todo', file')
  BY <1>8, KvKeys_memory_seq_rm
<1>9. ASSUME NEW s \in SeqIds, NEW t \in SeqIds, NEW p0, NEW p1, memory_seq_cp(s, t, p0, p1)
      PROVE  KvKeysAt(D, M, n, kv', todo', file')
  BY <1>9, KvKeys_memory_seq_cp
<1>10. ASSUME NEW s \in SeqIds, memory_seq_keep(s) PROVE KvKeysAt(D, M, n, kv', todo', file')
  BY <1>10, KvKeys_memory_seq_keep
<1>11. ASSUME NEW s \in SeqIds, NEW p0, NEW p1, NEW d \in Int, memory_seq_add(s, p0, p1, d)
       PROVE  KvKeysAt(D, M, n, kv', todo', file')
  BY <1>11, KvKeys_memory_seq_add
<1>12. ASSUME NEW s \in SeqIds, NEW p0, NEW p1, NEW d \in Nat \ {0}, memory_seq_div(s, p0, p1, d)
       PROVE  KvKeysAt(D, M, n, kv', todo', file')
  BY <1>12, KvKeys_memory_seq_div
<1>13. ASSUME NEW s \in SeqIds, state_seq_get_data(s) PROVE KvKeysAt(D, M, n, kv', todo', file')
  BY <1>13, KvKeys_state_seq_get_data
<1>14. ASSUME NEW s \in SeqIds, state_seq_set_data(s) PROVE KvKeysAt(D, M, n, kv', todo', file')
  BY <1>14, KvKeys_state_seq_set_data
<1>15. 2 \in Nat \ {0} /\ {-1, 1} \subseteq Int
  OBVIOUS
<1> QED BY <1>3, <1>4, <1>5, <1>6, <1>7, <1>8, <1>9, <1>10, <1>11, <1>12, <1>13, <1>14, <1>15 DEF KvNext

KvKeysInv == \E D, M, n : KvInvAt(D, M, n, kv, todo, file) /\ KvKeysAt(D, M, n, kv, todo, file)

\* the invariant says that keys match positions
LEMMA KvKeysInvMatch ==
    ASSUME KvKeysInv
    PROVE  KeysMatchPositions
<1>1. PICK D, M, n : KvInvAt(D, M, n, kv, todo, file) /\ KvKeysAt(D, M, n, kv, todo, file)
  BY DEF KvKeysInv
<1>2. ASSUME NEW c \in DOMAIN kv, NEW st \in DOMAIN kv[c].cells, NEW i \in kv[c].cells[st].used,
             KV!Copied(kv[c])[st][i].sound, i \notin kv[c].div[st]
      PROVE  KeyMatches(kv[c], st, i)
  <2>1. PICK nc, k, no, C : nc = n[c] /\ k = kv[c] /\ no = KvNo /\ C = k.cells[st]
    OBVIOUS
  <2>2. c \in M
    BY <1>1 DEF KvInvAt, KvMem
  <2>3. KvCacheOK(D, nc, no, k) /\ KvKeysOK(D, nc, k)
    BY <1>1, <2>1, <2>2, KvKeysIs
  <2>4. st \in D
    BY <2>1, <2>3 DEF KvCacheOK, KvStreams
  <2>5. KvCellsOK(0 .. nc-1, C)
    BY <2>1, <2>3, <2>4, KvCellsAt
  <2>6. i \in 0 .. nc-1 /\ C.pos[i] # -1
    <3>1. C.used = {x \in DOMAIN C.pos : C.pos[x] # -1}
      BY <2>5 DEF KvCellsOK, CellsFor
    <3>2. DOMAIN C.pos = 0 .. nc-1
      BY <2>5 DEF KvCellsOK, KvCellsHold, KvData
    <3> QED BY <1>2, <2>1, <3>1, <3>2
  <2>7. KvMatches((0 .. nc-1) \ k.div[st], KV!Copied(k)[st], C)
    BY <2>1, <2>3, <2>4 DEF KvKeysOK
  <2>8. KV!Copied(k)[st][i].rope + C.shift[i] = C.pos[i]
    BY <1>2, <2>1, <2>6, <2>7 DEF KvMatches
  <2> QED BY <2>1, <2>8 DEF KeyMatches
<1> QED BY <1>2 DEF KeysMatchPositions

(***************************************************************************)
(* Whatever is decoded, aborted, removed, copied, shifted, divided, saved  *)
(* or loaded, for any number of sequences and any sizes, windows and       *)
(* batches: once the pending copies and shifts are performed, the key of a *)
(* used cell is rotated to the position of its cell, unless that position  *)
(* was divided or the key comes from a failed micro batch or meets a       *)
(* stream that was loaded between a copy and its update                    *)
(* (llama_kv_cells::shift, update).                                        *)
(***************************************************************************)
THEOREM KeysMatch == KvSpec => []KeysMatchPositions
<1>1. KvInit => KvKeysInv
  BY KvInit_OK, KvKeysInit DEF KvInv, KvKeysInv
<1>2. KvKeysInv /\ [KvNext]_kvVars => KvKeysInv'
  <2> SUFFICES ASSUME KvKeysInv, [KvNext]_kvVars PROVE KvKeysInv'
    OBVIOUS
  <2>1. PICK D, M, n : KvInvAt(D, M, n, kv, todo, file) /\ KvKeysAt(D, M, n, kv, todo, file)
    BY DEF KvKeysInv
  <2>2. KvInvAt(D, M, n, kv', todo', file')
    BY <2>1, KvStepAt
  <2>3. KvKeysAt(D, M, n, kv', todo', file')
    BY <2>1, KvKeysStep
  <2> QED BY <2>2, <2>3 DEF KvKeysInv
<1>3. KvKeysInv => KeysMatchPositions
  BY KvKeysInvMatch
<1> QED BY <1>1, <1>2, <1>3, PTL DEF KvSpec

-----------------------------------------------------------------------------
(* The bytes of a frame follow one another on the wire, a frame is         *)
(* followed by the begin of another one, and the wire ends where the       *)
(* writer of its last frame is.                                            *)
StreamState ==
    /\ \A i \in 1 .. Len(wire) : wire[i][2] <= sent[wire[i][1]]
    /\ \A i, k \in 1 .. Len(wire) :
          i <= k /\ k - i <= Total(wire[i][1]) - wire[i][2] =>
              wire[k] = <<wire[i][1], wire[i][2] + (k - i)>>
    /\ \A i, k \in 1 .. Len(wire) :
          i < k /\ wire[i][1] = wire[k][1] => wire[i][2] < wire[k][2]
    /\ \A i, k \in 1 .. Len(wire) :
          k = i + 1 /\ wire[i][2] = Total(wire[i][1]) => wire[k][2] = 1
    /\ wire # << >> => wire[Len(wire)][2] = sent[wire[Len(wire)][1]]
    /\ \A m \in Messages : Partial(m) => wire = << >> \/ wire[Len(wire)][1] = m

\* The next byte to be read is the first of a frame.
AtBoundary ==
    IF wire = << >> THEN eof \/ \A m \in Messages : ~Partial(m) ELSE wire[1][2] = 1

\* data is the begin of the payload of m, or all of it
Begins(data, m) ==
    /\ Len(data) <= Size[m]
    /\ \A i \in 1 .. Len(data) : data[i] = <<m, HeaderSize + i>>

\* No byte of m is on the wire or will be.
Gone(m) ==
    /\ sent[m] = Total(m) \/ eof
    /\ \A i \in 1 .. Len(wire) : wire[i][1] # m

\* No byte of m has been delivered.
Fresh(m) ==
    \A i \in 1 .. Len(delivered) : delivered[i] = << >> \/ delivered[i][1][1] # m

(* The reader is at the begin of a frame, or knows how much of its payload *)
(* is still to come.                                                       *)
ReaderState ==
    /\ reader \in {"top", "header", "deliver"} => AtBoundary
    /\ reader = "header" => got = << >>
    /\ reader = "body" =>
          \E m \in Messages :
              /\ Begins(got, m) /\ Fresh(m)
              /\ need > 0 /\ Len(got) + need = Size[m]
              /\ IF wire = << >> THEN sent[m] = HeaderSize + Len(got)
                                 ELSE wire[1] = <<m, HeaderSize + Len(got) + 1>>
    /\ reader = "deliver" =>
          \E m \in Messages :
              /\ Begins(got, m) /\ Fresh(m) /\ Gone(m)
              /\ Len(got) = Size[m] \/ (eof /\ wire = << >>)

(* The end of the stream was met inside a payload, which was the last.     *)
Cut(i) ==
    eof /\ wire = << >> /\ i = Len(delivered) /\ reader \in {"top", "header", "closed"}

DeliveredState ==
    /\ \A i \in 1 .. Len(delivered) :
          \E m \in Messages :
              /\ Begins(delivered[i], m) /\ Gone(m)
              /\ Len(delivered[i]) = Size[m] \/ Cut(i)
    /\ \A i, j \in 1 .. Len(delivered) :
          i # j => delivered[i] = << >> \/ delivered[i] # delivered[j]

\* What DeliveredIntact asks for before it promises anything.
Calm == ~mixed /\ (split => side = "server")

IInv == TypeOK /\ (Calm => StreamState /\ ReaderState /\ DeliveredState)

USE FramingAssumption DEF FramingAssumption

-----------------------------------------------------------------------------
(* What is left of the wire after n bytes have been read.                  *)
LEMMA RestProperties ==
    ASSUME wire \in Seq(Bytes), NEW n \in 1 .. Len(wire)
    PROVE  /\ Rest(n) \in Seq(Bytes) /\ Len(Rest(n)) = Len(wire) - n
           /\ \A i \in 1 .. Len(wire) - n : Rest(n)[i] = wire[n + i]
<1>1. PICK l \in Nat : l = Len(wire)
  OBVIOUS
<1>2. Len(Rest(n)) = l - n /\ \A i \in 1 .. l - n : Rest(n)[i] = wire[n + i]
  BY <1>1 DEF Rest
<1>3. \A i \in 1 .. l - n : wire[n + i] \in Bytes
  <2> TAKE i \in 1 .. l - n
  <2>1. n + i \in 1 .. l
    BY <1>1
  <2> QED BY <1>1, <2>1
<1>4. Rest(n) \in Seq(Bytes)
  BY <1>1, <1>2, <1>3 DEF Rest
<1> QED BY <1>1, <1>2, <1>4

(* What has been appended follows what was there.                          *)
LEMMA AppendedBytes ==
    ASSUME NEW u \in Seq(Bytes), NEW w \in Seq(Bytes)
    PROVE  /\ u \o w \in Seq(Bytes) /\ Len(u \o w) = Len(u) + Len(w)
           /\ \A i \in 1 .. Len(u) : (u \o w)[i] = u[i]
           /\ \A j \in 1 .. Len(w) : (u \o w)[Len(u) + j] = w[j]
<1>1. PICK l \in Nat, n \in Nat : l = Len(u) /\ n = Len(w)
  OBVIOUS
<1>2. PICK v : v = u \o w
  OBVIOUS
<1>3. /\ v \in Seq(Bytes) /\ Len(v) = l + n
      /\ \A i \in 1 .. l + n : v[i] = IF i <= l THEN u[i] ELSE w[i - l]
  BY <1>1, <1>2, ConcatProperties, Zenon
<1>4. \A i \in 1 .. l : v[i] = u[i]
  BY <1>1, <1>3
<1>5. \A j \in 1 .. n : v[l + j] = w[j]
  <2> TAKE j \in 1 .. n
  <2>1. l + j \in 1 .. l + n /\ ~(l + j <= l) /\ (l + j) - l = j
    BY <1>1
  <2> QED BY <1>3, <2>1
<1> QED BY <1>1, <1>2, <1>3, <1>4, <1>5

LEMMA ByteFields ==
    ASSUME NEW b \in Bytes
    PROVE  /\ b[1] \in Messages /\ b[2] \in 1 .. Total(b[1]) /\ b = <<b[1], b[2]>>
           /\ Total(b[1]) \in Nat
BY DEF Bytes, Total

(* Reading keeps the stream a stream.                                      *)
LEMMA StreamShrinks ==
    ASSUME TypeOK, StreamState, NEW n \in 1 .. Len(wire), wire' = Rest(n), sent' = sent
    PROVE  StreamState' /\ wire' \in Seq(Bytes)
<1>1. wire \in Seq(Bytes) /\ sent \in [Messages -> Nat]
  BY DEF TypeOK
<1>2. PICK l \in Nat : l = Len(wire)
  BY <1>1
<1>3. /\ wire' \in Seq(Bytes) /\ Len(wire') = l - n
      /\ \A i \in 1 .. l - n : n + i \in 1 .. l /\ wire'[i] = wire[n + i]
  BY <1>1, <1>2, RestProperties
<1>4. \A i \in 1 .. l - n : wire'[i][2] <= sent'[wire'[i][1]]
  BY <1>2, <1>3 DEF StreamState
<1>5. ASSUME NEW i \in 1 .. l - n, NEW k \in 1 .. l - n
      PROVE  /\ i <= k /\ k - i <= Total(wire'[i][1]) - wire'[i][2] =>
                    wire'[k] = <<wire'[i][1], wire'[i][2] + (k - i)>>
             /\ i < k /\ wire'[i][1] = wire'[k][1] => wire'[i][2] < wire'[k][2]
             /\ k = i + 1 /\ wire'[i][2] = Total(wire'[i][1]) => wire'[k][2] = 1
  <2>1. PICK ni \in 1 .. l, nk \in 1 .. l :
           ni = n + i /\ nk = n + k /\ wire'[i] = wire[ni] /\ wire'[k] = wire[nk]
    BY <1>3
  <2>2. nk - ni = k - i /\ (i <= k <=> ni <= nk) /\ (i < k <=> ni < nk) /\ (k = i + 1 <=> nk = ni + 1)
    BY <1>2, <2>1
  <2> QED BY <1>2, <2>1, <2>2 DEF StreamState
<1>6. l - n > 0 => wire'[l - n] = wire[l] /\ l > 0
  BY <1>2, <1>3
<1>7. wire' = << >> <=> l - n = 0
  BY <1>2, <1>3
<1>8. wire' # << >> => wire'[Len(wire')][2] = sent'[wire'[Len(wire')][1]]
  BY <1>1, <1>2, <1>3, <1>6, <1>7 DEF StreamState
<1>9. \A m \in Messages : Partial(m)' => wire' = << >> \/ wire'[Len(wire')][1] = m
  <2>1. \A m \in Messages : Partial(m)' <=> Partial(m)
    BY DEF Partial, Total
  <2> QED BY <1>1, <1>2, <1>3, <1>6, <1>7, <2>1 DEF StreamState
<1>10. \A m : Total(m)' = Total(m)
  BY DEF Total
<1> QED BY <1>3, <1>4, <1>5, <1>8, <1>9, <1>10 DEF StreamState

(* Reading puts no byte of a message back.                                 *)
LEMMA GoneStaysGone ==
    ASSUME TypeOK, NEW n \in 1 .. Len(wire), wire' = Rest(n), sent' = sent, eof' = eof,
           NEW m \in Messages, Gone(m)
    PROVE  Gone(m)'
<1>1. wire \in Seq(Bytes)
  BY DEF TypeOK
<1>2. PICK l \in Nat : l = Len(wire)
  BY <1>1
<1>3. /\ Len(wire') = l - n
      /\ \A i \in 1 .. l - n : n + i \in 1 .. l /\ wire'[i] = wire[n + i]
  BY <1>1, <1>2, RestProperties
<1> QED BY <1>2, <1>3 DEF Gone, Total

(* Nothing is said of a stream that was disturbed, and it stays disturbed. *)
LEMMA CalmBefore ==
    ASSUME [Next]_vars, TypeOK, Calm'
    PROVE  Calm
BY DEF Next, ReaderStep, Start, Accept, Stop, CloseWriter, WriteSome, LoopTop, ReadHeader,
       HeaderAtEof, BodyAtEof, Deliver, ShortHeader, ReadBody, Calm, vars, stream, server, TypeOK

-----------------------------------------------------------------------------
(* The steps that neither write nor read a byte.                           *)
LEMMA StreamKept ==
    ASSUME StreamState, UNCHANGED <<wire, sent>>
    PROVE  StreamState'
BY DEF StreamState, Partial, Total

LEMMA QuietStep ==
    ASSUME TypeOK, StreamState, ReaderState, DeliveredState,
           Start \/ Accept \/ Stop \/ CloseWriter \/ UNCHANGED vars
    PROVE  StreamState' /\ ReaderState' /\ DeliveredState'
<1>1. /\ UNCHANGED <<wire, sent, reader, need, got, delivered>>
      /\ eof => eof'
  BY DEF Start, Accept, Stop, CloseWriter, vars, stream, server
<1>2. \A m : (Gone(m) => Gone(m)') /\ (Fresh(m) <=> Fresh(m)') /\ (Partial(m) <=> Partial(m)')
  BY <1>1 DEF Gone, Fresh, Total, Partial
<1>3. \A d, m : Begins(d, m)' <=> Begins(d, m)
  BY DEF Begins
<1>4. AtBoundary => AtBoundary'
  BY <1>1, <1>2 DEF AtBoundary
<1>5. StreamState'
  BY <1>1, StreamKept
<1>6. ReaderState'
  BY <1>1, <1>2, <1>3, <1>4 DEF ReaderState, Begins
<1>7. DeliveredState'
  BY <1>1, <1>2, <1>3 DEF DeliveredState, Cut, Begins
<1> QED BY <1>5, <1>6, <1>7

LEMMA LoopStep ==
    ASSUME TypeOK, StreamState, ReaderState, DeliveredState,
           LoopTop \/ HeaderAtEof \/ BodyAtEof
    PROVE  StreamState' /\ ReaderState' /\ DeliveredState'
<1>1. UNCHANGED <<wire, sent, eof, delivered>>
  BY DEF LoopTop, HeaderAtEof, BodyAtEof, stream
<1>2. \A m : (Gone(m) <=> Gone(m)') /\ (Fresh(m) <=> Fresh(m)') /\ (Partial(m) <=> Partial(m)')
  BY <1>1 DEF Gone, Fresh, Total, Partial
<1>3. AtBoundary => AtBoundary'
  BY <1>1, <1>2 DEF AtBoundary
<1>4. StreamState'
  BY <1>1, StreamKept
<1>5. DeliveredState'
  <2>1. \A i \in 1 .. Len(delivered) : Cut(i) => Cut(i)'
    BY <1>1 DEF Cut, LoopTop, HeaderAtEof, BodyAtEof, GiveUp
  <2> QED BY <1>1, <1>2, <2>1 DEF DeliveredState, Begins
<1>6. ReaderState'
  <2>1. CASE LoopTop
    BY <1>3, <2>1 DEF LoopTop, ReaderState
  <2>2. CASE HeaderAtEof
    BY <1>3, <2>2 DEF HeaderAtEof, ReaderState, GiveUp
  <2>3. CASE BodyAtEof
    <3>1. /\ reader = "body" /\ eof /\ wire = << >> /\ reader' = "deliver" /\ got' = got
      BY <2>3 DEF BodyAtEof
    <3>2. PICK m \in Messages : Begins(got, m) /\ Fresh(m)
      BY <3>1 DEF ReaderState
    <3>3. Gone(m)' /\ AtBoundary' /\ Begins(got, m)' /\ Fresh(m)'
      BY <1>1, <1>2, <3>1, <3>2 DEF Gone, AtBoundary, Begins
    <3> QED BY <1>1, <3>1, <3>3 DEF ReaderState
  <2> QED BY <2>1, <2>2, <2>3
<1> QED BY <1>4, <1>5, <1>6

(* The handler gets the payload of a message of which nothing had been     *)
(* delivered.                                                              *)
LEMMA DeliverStep ==
    ASSUME TypeOK, StreamState, ReaderState, DeliveredState, Deliver
    PROVE  StreamState' /\ ReaderState' /\ DeliveredState'
<1>1. /\ reader = "deliver" /\ delivered' = Append(delivered, got) /\ reader' = "top"
      /\ UNCHANGED <<wire, sent, eof, got, need>>
  BY DEF Deliver, stream
<1>2. delivered \in Seq(Seq(Bytes)) /\ got \in Seq(Bytes)
  BY DEF TypeOK
<1>3. PICK l \in Nat : l = Len(delivered)
  BY <1>2
<1>4. /\ Len(delivered') = l + 1 /\ delivered'[l + 1] = got
      /\ \A i \in 1 .. l : delivered'[i] = delivered[i]
  BY <1>1, <1>2, <1>3
<1>5. PICK m \in Messages :
         /\ Begins(got, m) /\ Fresh(m) /\ Gone(m)
         /\ Len(got) = Size[m] \/ (eof /\ wire = << >>)
  BY <1>1 DEF ReaderState
<1>6. \A k \in Messages : Gone(k)' <=> Gone(k)
  BY <1>1 DEF Gone, Total
<1>7. ReaderState'
  BY <1>1 DEF ReaderState, AtBoundary, Partial, Total
<1>8. \A i \in 1 .. l + 1 :
         \E k \in Messages :
            /\ Begins(delivered'[i], k) /\ Gone(k)'
            /\ Len(delivered'[i]) = Size[k] \/ Cut(i)'
  <2> TAKE i \in 1 .. l + 1
  <2>1. CASE i \in 1 .. l
    <3>1. PICK k \in Messages :
             /\ Begins(delivered[i], k) /\ Gone(k)
             /\ Len(delivered[i]) = Size[k] \/ Cut(i)
      BY <1>3, <2>1 DEF DeliveredState
    <3>2. ~Cut(i)
      BY <1>1 DEF Cut
    <3> QED BY <1>4, <1>6, <2>1, <3>1, <3>2
  <2>2. CASE i = l + 1
    <3>1. Len(got) = Size[m] \/ Cut(i)'
      BY <1>1, <1>4, <1>5, <2>2 DEF Cut
    <3> QED BY <1>4, <1>5, <1>6, <2>2, <3>1
  <2> QED BY <1>3, <2>1, <2>2
<1>9. \A i \in 1 .. l : got = << >> \/ delivered[i] = << >> \/ delivered[i] # got
  <2> SUFFICES ASSUME NEW i \in 1 .. l, got # << >>, delivered[i] # << >>
               PROVE  delivered[i][1] # got[1]
    OBVIOUS
  <2>1. 1 \in 1 .. Len(got)
    BY <1>2
  <2>2. got[1][1] = m
    BY <1>5, <2>1 DEF Begins
  <2>3. delivered[i][1][1] # m
    BY <1>3, <1>5 DEF Fresh
  <2> QED BY <2>2, <2>3
<1>10. \A i, j \in 1 .. l + 1 :
          i # j => delivered'[i] = << >> \/ delivered'[i] # delivered'[j]
  <2> TAKE i, j \in 1 .. l + 1
  <2>1. CASE i \in 1 .. l /\ j \in 1 .. l
    BY <1>3, <1>4, <2>1 DEF DeliveredState
  <2>2. CASE i \in 1 .. l /\ j = l + 1
    BY <1>4, <1>9, <2>2
  <2>3. CASE i = l + 1 /\ j \in 1 .. l
    BY <1>4, <1>9, <2>3
  <2> QED BY <1>3, <2>1, <2>2, <2>3
<1>11. DeliveredState'
  <2>1. \A d, k : Begins(d, k)' <=> Begins(d, k)
    BY DEF Begins
  <2> QED BY <1>4, <1>8, <1>10, <2>1 DEF DeliveredState, Begins
<1> QED BY <1>1, <1>7, <1>11, StreamKept

-----------------------------------------------------------------------------
(* The steps that read.  A delivered message stays as it is, and the       *)
(* stream's end is not there yet.                                          *)
LEMMA DeliveredKept ==
    ASSUME TypeOK, DeliveredState, NEW n \in 1 .. Len(wire), wire' = Rest(n),
           UNCHANGED <<sent, eof, delivered>>
    PROVE  DeliveredState' /\ \A m \in Messages : Fresh(m)' <=> Fresh(m)
<1>1. wire # << >>
  OBVIOUS
<1>2. \A i \in 1 .. Len(delivered) : ~Cut(i)
  BY <1>1 DEF Cut
<1>3. \A m \in Messages : Gone(m) => Gone(m)'
  BY GoneStaysGone
<1>4. \A i \in 1 .. Len(delivered) :
         \E m \in Messages :
            Begins(delivered[i], m) /\ Gone(m)' /\ Len(delivered[i]) = Size[m]
  BY <1>2, <1>3 DEF DeliveredState
<1> QED BY <1>4 DEF DeliveredState, Begins, Fresh

(* A header in parts: the server closes, and the client is not calm.       *)
LEMMA ShortHeaderStep ==
    ASSUME TypeOK, StreamState, DeliveredState, Calm',
           NEW n \in 1 .. HeaderSize - 1, ShortHeader(n)
    PROVE  StreamState' /\ ReaderState' /\ DeliveredState'
<1>1. /\ n <= Len(wire) /\ wire' = Rest(n) /\ reader' = "closed"
      /\ UNCHANGED <<sent, eof, delivered>>
  BY DEF ShortHeader, Calm, GiveUp, server
<1>2. n \in 1 .. Len(wire)
  <2>1. Len(wire) \in Nat
    BY DEF TypeOK
  <2> QED BY <1>1, <2>1
<1>3. ReaderState'
  BY <1>1 DEF ReaderState
<1> QED BY <1>1, <1>2, <1>3, StreamShrinks, DeliveredKept

(* Behind the last byte of a frame the wire is at a boundary.              *)
LEMMA BehindFrame ==
    ASSUME TypeOK, StreamState, NEW n \in 1 .. Len(wire), wire' = Rest(n), sent' = sent,
           wire[n][2] = Total(wire[n][1])
    PROVE  AtBoundary'
<1>1. wire \in Seq(Bytes) /\ sent \in [Messages -> Nat]
  BY DEF TypeOK
<1>2. PICK l \in Nat : l = Len(wire)
  BY <1>1
<1>3. /\ Len(wire') = l - n /\ wire' \in Seq(Bytes)
      /\ \A i \in 1 .. l - n : n + i \in 1 .. l /\ wire'[i] = wire[n + i]
  BY <1>1, <1>2, RestProperties
<1>4. CASE n = l
  <2>1. wire' = << >>
    BY <1>2, <1>3, <1>4
  <2>2. PICK m : m = wire[n][1]
    OBVIOUS
  <2>3. sent[m] = Total(m) /\ m \in Messages
    BY <1>1, <1>2, <1>4, <2>2, ByteFields DEF StreamState
  <2>4. \A k \in Messages : Partial(k) => k = m
    BY <1>2, <1>4, <2>2 DEF StreamState
  <2>5. \A k \in Messages : ~Partial(k)
    BY <1>1, <2>3, <2>4 DEF Partial, Total
  <2> QED BY <2>1, <2>5 DEF AtBoundary, Partial, Total
<1>5. CASE n < l
  <2>1. 1 \in 1 .. l - n /\ wire' # << >>
    BY <1>2, <1>3, <1>5
  <2>2. n + 1 \in 1 .. l /\ wire'[1] = wire[n + 1]
    BY <1>3, <2>1
  <2>3. wire[n + 1][2] = 1
    BY <1>2, <2>2 DEF StreamState
  <2> QED BY <2>1, <2>2, <2>3 DEF AtBoundary
<1> QED BY <1>2, <1>4, <1>5

(* A header read whole is that of the frame the wire begins with: no       *)
(* length is made up of bytes that are none.                               *)
LEMMA HeaderIsRead ==
    ASSUME TypeOK, StreamState, wire # << >>, wire[1][2] = 1, Len(wire) >= HeaderSize
    PROVE  /\ wire[1][1] \in Messages
           /\ LengthsOf(SubSeq(wire, 1, HeaderSize)) = {Size[wire[1][1]]}
           /\ wire[HeaderSize] = <<wire[1][1], HeaderSize>>
<1>1. wire \in Seq(Bytes) /\ 1 \in 1 .. Len(wire)
  BY DEF TypeOK
<1>2. PICK m \in Messages : m = wire[1][1] /\ wire[1] = <<m, 1>>
  BY <1>1, ByteFields
<1>3. Total(m) = HeaderSize + Size[m] /\ Total(m) \in Nat /\ Size[m] \in Nat
  BY DEF Total
<1>4. \A k \in 1 .. HeaderSize : k \in 1 .. Len(wire) /\ wire[k] = <<m, k>>
  <2> TAKE k \in 1 .. HeaderSize
  <2>1. k \in 1 .. Len(wire) /\ 1 <= k /\ k - 1 <= Total(m) - 1
    BY <1>1, <1>3
  <2>2. wire[1][1] = m /\ wire[1][2] = 1
    BY <1>2
  <2>3. wire[k] = <<m, 1 + (k - 1)>>
    BY <1>1, <2>1, <2>2 DEF StreamState
  <2> QED BY <2>1, <2>3
<1>5. SubSeq(wire, 1, HeaderSize) = Header(m)
  <2>1. SubSeq(wire, 1, HeaderSize) = [k \in 1 .. HeaderSize |-> wire[k]]
    BY <1>1
  <2>2. [k \in 1 .. HeaderSize |-> wire[k]] = [k \in 1 .. HeaderSize |-> <<m, k>>]
    BY <1>4
  <2> QED BY <2>1, <2>2 DEF Header, Byte
<1>6. \A k \in Messages : Header(m) = Header(k) => k = m
  <2> SUFFICES ASSUME NEW k \in Messages, Header(m) = Header(k) PROVE k = m
    OBVIOUS
  <2>1. Header(m)[1] = <<m, 1>> /\ Header(k)[1] = <<k, 1>>
    BY DEF Header, Byte
  <2> QED BY <2>1
<1>7. LengthsOf(Header(m)) = {Size[m]}
  BY <1>6 DEF LengthsOf
<1>8. wire[HeaderSize] = <<m, HeaderSize>>
  <2>1. HeaderSize \in 1 .. HeaderSize
    OBVIOUS
  <2> QED BY <1>4, <2>1
<1>9. m = wire[1][1]
  BY <1>2
<1>10. LengthsOf(SubSeq(wire, 1, HeaderSize)) = {Size[m]}
  BY <1>5, <1>7
<1> QED BY <1>8, <1>9, <1>10

LEMMA ReadHeaderStep ==
    ASSUME TypeOK, StreamState, ReaderState, DeliveredState, ReadHeader
    PROVE  StreamState' /\ ReaderState' /\ DeliveredState'
<1>1. /\ reader = "header" /\ Len(wire) >= HeaderSize
      /\ wire' = Rest(HeaderSize)
      /\ UNCHANGED <<side, sent, eof, got, delivered>>
  BY DEF ReadHeader, server
<1>2. wire \in Seq(Bytes) /\ wire # << >> /\ wire[1][2] = 1 /\ got = << >>
  <2>1. wire \in Seq(Bytes)
    BY DEF TypeOK
  <2>2. wire # << >>
    BY <1>1, <2>1
  <2> QED BY <1>1, <2>1, <2>2 DEF ReaderState, AtBoundary
<1>3. PICK l \in Nat : l = Len(wire)
  BY <1>2
<1>4. HeaderSize \in 1 .. l
  BY <1>1, <1>3
<1>5. PICK m \in Messages :
         /\ wire[1][1] = m /\ wire[HeaderSize] = <<m, HeaderSize>>
         /\ LengthsOf(SubSeq(wire, 1, HeaderSize)) = {Size[m]}
  BY <1>1, <1>2, HeaderIsRead
<1>6. need' = Size[m] /\ reader' = IF Refused(Size[m]) THEN GiveUp ELSE "body"
  BY <1>5 DEF ReadHeader
<1>7. Total(m) = HeaderSize + Size[m] /\ Size[m] \in Nat
  BY DEF Total
<1>8. /\ wire' \in Seq(Bytes) /\ Len(wire') = l - HeaderSize
      /\ \A i \in 1 .. l - HeaderSize : HeaderSize + i \in 1 .. l /\ wire'[i] = wire[HeaderSize + i]
  BY <1>1, <1>2, <1>3, <1>4, RestProperties
<1>9. StreamState'
  BY <1>1, <1>3, <1>4, StreamShrinks
<1>10. DeliveredState' /\ \A k \in Messages : Fresh(k)' <=> Fresh(k)
  BY <1>1, <1>3, <1>4, DeliveredKept
<1>11. CASE Refused(Size[m])
  <2>1. CASE reader' = "closed"
    BY <1>9, <1>10, <2>1 DEF ReaderState
  <2>2. CASE reader' = "top"
    <3>1. Size[m] = 0
      BY <1>6, <1>11, <2>2 DEF Refused, GiveUp
    <3>2. wire[HeaderSize][2] = Total(wire[HeaderSize][1])
      BY <1>5, <1>7, <3>1
    <3>3. AtBoundary'
      BY <1>1, <1>3, <1>4, <3>2, BehindFrame
    <3> QED BY <1>9, <1>10, <2>2, <3>3 DEF ReaderState
  <2> QED BY <1>6, <1>11, <2>1, <2>2 DEF GiveUp
<1>12. CASE ~Refused(Size[m])
  <2>1. reader' = "body" /\ need' = Size[m] /\ Size[m] > 0
    BY <1>6, <1>7, <1>12 DEF Refused
  <2>2. Begins(got, m)' /\ Len(got') = 0
    BY <1>1, <1>2, <1>7 DEF Begins
  <2>3. Fresh(m)
    <3> SUFFICES ASSUME NEW i \in 1 .. Len(delivered), delivered[i] # << >>
                 PROVE  delivered[i][1][1] # m
      BY DEF Fresh
    <3>1. PICK k \in Messages : Begins(delivered[i], k) /\ Gone(k)
      BY DEF DeliveredState
    <3>2. delivered \in Seq(Seq(Bytes))
      BY DEF TypeOK
    <3>3. delivered[i] \in Seq(Bytes)
      BY <3>2
    <3>4. 1 \in 1 .. Len(delivered[i])
      BY <3>3
    <3>5. delivered[i][1][1] = k
      BY <3>1, <3>4 DEF Begins
    <3>6. k # m
      BY <1>3, <1>4, <1>5, <3>1 DEF Gone
    <3> QED BY <3>5, <3>6
  <2>4. CASE wire' = << >>
    <3>1. HeaderSize = l
      BY <1>3, <1>4, <1>8, <2>4
    <3>2. sent[m] = HeaderSize
      BY <1>2, <1>3, <1>5, <3>1 DEF StreamState
    <3> QED BY <1>1, <1>9, <1>10, <2>1, <2>2, <2>3, <2>4, <3>2 DEF ReaderState
  <2>5. CASE wire' # << >>
    <3>1. 1 \in 1 .. l - HeaderSize
      BY <1>3, <1>4, <1>8, <2>5
    <3>2. HeaderSize + 1 \in 1 .. l /\ wire'[1] = wire[HeaderSize + 1]
      BY <1>8, <3>1
    <3>3. wire[HeaderSize + 1] = <<m, HeaderSize + 1>>
      BY <1>3, <1>4, <1>5, <1>7, <2>1, <3>2 DEF StreamState
    <3> QED BY <1>1, <1>9, <1>10, <2>1, <2>2, <2>3, <2>5, <3>2, <3>3 DEF ReaderState
  <2> QED BY <2>4, <2>5
<1> QED BY <1>11, <1>12

LEMMA ReadBodyStep ==
    ASSUME TypeOK, StreamState, ReaderState, DeliveredState, NEW n \in 1 .. need, ReadBody(n)
    PROVE  StreamState' /\ ReaderState' /\ DeliveredState'
<1>1. /\ reader = "body" /\ n <= Len(wire)
      /\ got' = got \o SubSeq(wire, 1, n)
      /\ wire' = Rest(n) /\ need' = need - n
      /\ reader' = IF n = need THEN "deliver" ELSE "body"
      /\ UNCHANGED <<sent, eof, delivered>>
  BY DEF ReadBody, server
<1>2. wire \in Seq(Bytes) /\ got \in Seq(Bytes) /\ need \in Nat /\ sent \in [Messages -> Nat]
      /\ \A k \in Messages : sent[k] <= Total(k)
  BY DEF TypeOK
<1>3. PICK l \in Nat : l = Len(wire)
  BY <1>2
<1>4. n \in 1 .. l /\ wire # << >> /\ n \in Nat /\ n >= 1 /\ n <= need
  BY <1>1, <1>2, <1>3
<1>5. PICK g \in Nat : g = Len(got)
  BY <1>2
<1>6. PICK m \in Messages :
         /\ Begins(got, m) /\ Fresh(m)
         /\ need > 0 /\ g + need = Size[m]
         /\ wire[1] = <<m, HeaderSize + g + 1>>
  BY <1>1, <1>4, <1>5 DEF ReaderState
<1>7. Total(m) = HeaderSize + Size[m] /\ Size[m] \in Nat
  BY DEF Total
<1>8. \A k \in 1 .. l : k <= need => wire[k] = <<m, HeaderSize + g + k>>
  <2> SUFFICES ASSUME NEW k \in 1 .. l, k <= need PROVE wire[k] = <<m, HeaderSize + g + k>>
    OBVIOUS
  <2>1. 1 \in 1 .. l /\ 1 <= k /\ k - 1 <= Total(m) - (HeaderSize + g + 1)
    BY <1>2, <1>6, <1>7
  <2>2. wire[1][1] = m /\ wire[1][2] = HeaderSize + g + 1
    BY <1>6
  <2>3. wire[k] = <<m, (HeaderSize + g + 1) + (k - 1)>>
    BY <1>3, <2>1, <2>2 DEF StreamState
  <2> QED BY <2>3
<1>9. /\ wire' \in Seq(Bytes) /\ Len(wire') = l - n
      /\ \A i \in 1 .. l - n : n + i \in 1 .. l /\ wire'[i] = wire[n + i]
  BY <1>1, <1>2, <1>3, <1>4, RestProperties
<1>10. Len(got') = g + n /\ Begins(got, m)'
  <2>1. SubSeq(wire, 1, n) \in Seq(Bytes) /\ Len(SubSeq(wire, 1, n)) = n
        /\ \A k \in 1 .. n : SubSeq(wire, 1, n)[k] = wire[k]
    BY <1>2, <1>3, <1>4
  <2>2. PICK w \in Seq(Bytes) :
           w = SubSeq(wire, 1, n) /\ Len(w) = n /\ \A k \in 1 .. n : w[k] = <<m, HeaderSize + g + k>>
    <3>1. \A k \in 1 .. n : k \in 1 .. l /\ k <= need
      <4>1. n \in Nat /\ l \in Nat /\ need \in Nat /\ n <= l /\ n <= need
        BY <1>2, <1>3, <1>4
      <4> QED BY <4>1
    <3>2. \A k \in 1 .. n : SubSeq(wire, 1, n)[k] = <<m, HeaderSize + g + k>>
      BY <1>8, <2>1, <3>1
    <3> QED BY <2>1, <3>2
  <2>3. /\ got' = got \o w /\ Len(got') = g + n
        /\ \A i \in 1 .. g : got'[i] = got[i]
        /\ \A k \in 1 .. n : got'[g + k] = w[k]
    <3>1. got' = got \o w
      BY <1>1, <2>2
    <3> QED BY <1>2, <1>5, <2>2, <3>1, AppendedBytes
  <2>4. \A i \in 1 .. g + n : got'[i] = <<m, HeaderSize + i>>
    <3> TAKE i \in 1 .. g + n
    <3>1. CASE i \in 1 .. g
      BY <1>5, <1>6, <2>3, <3>1 DEF Begins
    <3>2. CASE i \notin 1 .. g
      <4>1. i - g \in 1 .. n /\ i = g + (i - g)
        BY <1>4, <3>2
      <4>2. PICK k \in 1 .. n : k = i - g /\ i = g + k
        BY <4>1
      <4>3. got'[i] = w[k] /\ w[k] = <<m, HeaderSize + g + k>>
        BY <2>2, <2>3, <4>2
      <4>4. HeaderSize + g + k = HeaderSize + i
        BY <1>4, <4>2
      <4> QED BY <4>3, <4>4
    <3> QED BY <3>1, <3>2
  <2>5. g + n <= Size[m]
    BY <1>2, <1>6
  <2> QED BY <2>3, <2>4, <2>5 DEF Begins
<1>11. StreamState'
  BY <1>1, <1>3, <1>4, StreamShrinks
<1>12. DeliveredState' /\ Fresh(m)'
  BY <1>1, <1>3, <1>4, <1>6, DeliveredKept
<1>13. CASE n = need
  <2>1. reader' = "deliver" /\ Len(got') = Size[m]
    BY <1>1, <1>6, <1>10, <1>13
  <2>2. wire[n][1] = m /\ wire[n][2] = Total(m)
    BY <1>4, <1>6, <1>7, <1>8, <1>13
  <2>3. AtBoundary'
    BY <1>1, <1>3, <1>4, <2>2, BehindFrame
  <2>4. sent[m] = Total(m)
    <3>1. wire[n][2] <= sent[wire[n][1]]
      BY <1>3, <1>4 DEF StreamState
    <3>2. Total(m) <= sent[m] /\ sent[m] <= Total(m) /\ sent[m] \in Nat
      BY <1>2, <2>2, <3>1
    <3> QED BY <1>7, <3>2
  <2>5. \A i \in 1 .. l - n : wire'[i][1] # m
    <3> SUFFICES ASSUME NEW i \in 1 .. l - n, wire'[i][1] = m PROVE FALSE
      OBVIOUS
    <3>1. n + i \in 1 .. l /\ n < n + i /\ wire[n + i][1] = m /\ wire[n + i] \in Bytes
      BY <1>2, <1>3, <1>9
    <3>2. wire[n][2] < wire[n + i][2]
      BY <1>3, <1>4, <2>2, <3>1 DEF StreamState
    <3>3. wire[n + i][2] \in 1 .. Total(m)
      BY <3>1, ByteFields
    <3> QED BY <1>7, <2>2, <3>2, <3>3
  <2>6. Gone(m)'
    BY <1>1, <1>9, <2>4, <2>5 DEF Gone, Total
  <2> QED BY <1>10, <1>11, <1>12, <2>1, <2>3, <2>6 DEF ReaderState
<1>14. CASE n # need
  <2>1. /\ reader' = "body" /\ need' > 0 /\ Len(got') + need' = Size[m]
        /\ n + 1 <= need
    <3>1. need - n > 0 /\ n + 1 <= need /\ (g + n) + (need - n) = g + need
      BY <1>2, <1>4, <1>14
    <3>2. reader' = "body" /\ need' = need - n /\ Len(got') = g + n
      BY <1>1, <1>10, <1>14
    <3> QED BY <1>6, <3>1, <3>2
  <2>2. CASE wire' = << >>
    <3>1. n = l
      BY <1>3, <1>4, <1>9, <2>2
    <3>2. wire[l] = <<m, HeaderSize + g + n>>
      BY <1>4, <1>8, <3>1
    <3>3. sent[m] = HeaderSize + g + n
      BY <1>3, <1>4, <3>2 DEF StreamState
    <3>4. sent'[m] = HeaderSize + Len(got')
      <4>1. sent' = sent /\ HeaderSize + g + n = HeaderSize + (g + n)
        BY <1>1, <1>4
      <4> QED BY <1>10, <3>3, <4>1
    <3> QED BY <1>10, <1>11, <1>12, <2>1, <2>2, <3>4 DEF ReaderState
  <2>3. CASE wire' # << >>
    <3>1. 1 \in 1 .. l - n
      BY <1>3, <1>4, <1>9, <2>3
    <3>2. n + 1 \in 1 .. l /\ wire'[1] = wire[n + 1]
      BY <1>9, <3>1
    <3>3. wire'[1] = <<m, HeaderSize + (g + n) + 1>>
      BY <1>8, <2>1, <3>2
    <3>4. wire'[1] = <<m, HeaderSize + Len(got') + 1>>
      BY <1>10, <3>3
    <3> QED BY <1>10, <1>11, <1>12, <2>1, <2>3, <3>4 DEF ReaderState
  <2> QED BY <2>2, <2>3
<1> QED BY <1>13, <1>14
-----------------------------------------------------------------------------
(* A write puts bytes of one frame at the end of the wire.                 *)
LEMMA WriteProperties ==
    ASSUME TypeOK, NEW m \in Messages, NEW n \in 1 .. Total(m), WriteSome(m, n)
    PROVE  /\ n \in Nat /\ n >= 1 /\ sent[m] \in Nat /\ sent[m] + n <= Total(m)
           /\ Total(m) \in Nat
           /\ wire' \in Seq(Bytes) /\ Len(wire') = Len(wire) + n
           /\ \A i \in 1 .. Len(wire) : wire'[i] = wire[i]
           /\ \A j \in 1 .. n : wire'[Len(wire) + j] = <<m, sent[m] + j>>
           /\ sent' \in [Messages -> Nat]
           /\ sent'[m] = sent[m] + n
           /\ \A k \in Messages \ {m} : sent'[k] = sent[k]
<1>1. wire \in Seq(Bytes) /\ sent \in [Messages -> Nat] /\ sent[m] \in Nat
  BY DEF TypeOK
<1>2. Total(m) \in Nat
  BY DEF Total
<1>3. n \in Nat /\ n >= 1 /\ sent[m] + n <= Total(m)
  <2>1. n \in 1 .. Total(m) - sent[m]
    BY DEF WriteSome
  <2> QED BY <1>1, <1>2, <2>1
<1>4. PICK w : w = [i \in 1 .. n |-> <<m, sent[m] + i>>]
  OBVIOUS
<1>5. w \in Seq(Bytes) /\ Len(w) = n /\ \A j \in 1 .. n : w[j] = <<m, sent[m] + j>>
  <2>1. \A j \in 1 .. n : <<m, sent[m] + j>> \in Bytes
    <3> TAKE j \in 1 .. n
    <3>1. sent[m] + j \in Nat /\ sent[m] + j \in 1 .. Total(m)
      BY <1>1, <1>2, <1>3
    <3> QED BY <3>1 DEF Bytes
  <2> QED BY <1>3, <1>4, <2>1
<1>6. wire' = wire \o w
  BY <1>4 DEF WriteSome, Byte
<1>7. /\ wire' \in Seq(Bytes) /\ Len(wire') = Len(wire) + n
      /\ \A i \in 1 .. Len(wire) : wire'[i] = wire[i]
      /\ \A j \in 1 .. n : wire'[Len(wire) + j] = w[j]
  BY <1>1, <1>5, <1>6, AppendedBytes
<1>8. sent' = [sent EXCEPT ![m] = @ + n]
  BY DEF WriteSome
<1>9. /\ sent' \in [Messages -> Nat]
      /\ sent'[m] = sent[m] + n
      /\ \A k \in Messages \ {m} : sent'[k] = sent[k]
  BY <1>1, <1>3, <1>8
<1> QED BY <1>1, <1>2, <1>3, <1>5, <1>7, <1>9

(* Where the wire ends when m is written on: inside the frame of m, or     *)
(* behind a whole frame.                                                   *)
LEMMA EndOfWire ==
    ASSUME TypeOK, StreamState, wire # << >>, NEW m \in Messages, sent[m] < Total(m),
           \A k \in Messages \ {m} : ~Partial(k)
    PROVE  /\ sent[m] > 0 => wire[Len(wire)] = <<m, sent[m]>>
           /\ sent[m] = 0 => wire[Len(wire)][2] = Total(wire[Len(wire)][1])
<1>1. /\ wire \in Seq(Bytes) /\ sent \in [Messages -> Nat]
      /\ \A k \in Messages : sent[k] <= Total(k)
  BY DEF TypeOK
<1>2. Len(wire) \in 1 .. Len(wire)
  BY <1>1
<1>3. PICK b \in Bytes : b = wire[Len(wire)]
  BY <1>1, <1>2
<1>4. /\ b[1] \in Messages /\ b[2] \in 1 .. Total(b[1]) /\ b = <<b[1], b[2]>>
      /\ Total(b[1]) \in Nat
  BY ByteFields
<1>5. b[2] = sent[b[1]]
  BY <1>3 DEF StreamState
<1>6. CASE sent[m] > 0
  <2>1. Partial(m)
    BY <1>6 DEF Partial
  <2>2. b[1] = m
    BY <1>3, <2>1 DEF StreamState
  <2> QED BY <1>3, <1>4, <1>5, <1>6, <2>2
<1>7. CASE sent[m] = 0
  <2>1. b[1] # m
    BY <1>4, <1>5, <1>7
  <2>2. ~Partial(b[1])
    BY <1>4, <2>1
  <2>3. b[2] = Total(b[1])
    BY <1>1, <1>4, <1>5, <2>2 DEF Partial
  <2> QED BY <1>3, <1>7, <2>3
<1> QED BY <1>1, <1>6, <1>7

(* What is written is the begin of a frame behind a whole one, or goes on  *)
(* where the last byte on the wire left off.                               *)
LEMMA StreamGrows ==
    ASSUME TypeOK, StreamState, NEW m \in Messages, NEW n \in 1 .. Total(m), WriteSome(m, n),
           \A k \in Messages \ {m} : ~Partial(k)
    PROVE  StreamState'
<1>1. /\ n \in Nat /\ n >= 1 /\ sent[m] \in Nat /\ sent[m] + n <= Total(m) /\ Total(m) \in Nat
      /\ wire' \in Seq(Bytes) /\ Len(wire') = Len(wire) + n
      /\ \A i \in 1 .. Len(wire) : wire'[i] = wire[i]
      /\ \A j \in 1 .. n : wire'[Len(wire) + j] = <<m, sent[m] + j>>
      /\ sent' \in [Messages -> Nat] /\ sent'[m] = sent[m] + n
      /\ \A k \in Messages \ {m} : sent'[k] = sent[k]
  BY WriteProperties, Zenon
<1>2. wire \in Seq(Bytes) /\ sent \in [Messages -> Nat]
  BY DEF TypeOK
<1>3. PICK l \in Nat : l = Len(wire)
  BY <1>2
<1>4. PICK s \in Nat : s = sent[m]
  BY <1>1
<1>5. /\ n \in Nat /\ n >= 1 /\ s + n <= Total(m) /\ Total(m) \in Nat
      /\ sent' \in [Messages -> Nat] /\ sent'[m] = s + n
      /\ \A k \in Messages \ {m} : sent'[k] = sent[k]
  BY <1>1, <1>4
<1>6. /\ Len(wire') = l + n /\ sent'[m] = s + n /\ s + n <= Total(m)
      /\ \A i \in 1 .. l : wire'[i] = wire[i]
      /\ \A j \in 1 .. n : wire'[l + j] = <<m, s + j>>
  BY <1>1, <1>3, <1>4
<1>7. \A i \in 1 .. l :
         /\ wire[i] \in Bytes /\ wire[i][1] \in Messages
         /\ wire[i][2] \in Nat /\ Total(wire[i][1]) \in Nat
         /\ wire[i][2] <= Total(wire[i][1]) /\ wire[i][2] <= sent[wire[i][1]]
  <2> TAKE i \in 1 .. l
  <2>1. wire[i] \in Bytes
    BY <1>2, <1>3
  <2>2. wire[i][1] \in Messages /\ wire[i][2] \in 1 .. Total(wire[i][1]) /\ Total(wire[i][1]) \in Nat
    BY <2>1, ByteFields
  <2>3. wire[i][2] <= sent[wire[i][1]]
    BY <1>3 DEF StreamState
  <2> QED BY <2>1, <2>2, <2>3
<1>8. l > 0 => /\ s > 0 => wire[l] = <<m, s>>
               /\ s = 0 => wire[l][2] = Total(wire[l][1])
  <2>1. l > 0 => wire # << >>
    BY <1>3
  <2>2. sent[m] < Total(m)
    BY <1>4, <1>5
  <2> QED BY <1>3, <1>4, <2>1, <2>2, EndOfWire
\* a place on the new wire is one of the old wire or the j-th of what is added
<1>9. \A i \in 1 .. l + n : i \in 1 .. l \/ \E j \in 1 .. n : i = l + j
  <2> TAKE i \in 1 .. l + n
  <2>1. CASE i > l
    <3>1. i - l \in 1 .. n /\ i = l + (i - l)
      BY <1>5, <2>1
    <3> QED BY <3>1
  <2> QED BY <2>1
<1>10. \A i \in 1 .. l + n : wire'[i][2] <= sent'[wire'[i][1]]
  <2> TAKE i \in 1 .. l + n
  <2>1. CASE i \in 1 .. l
    <3>1. sent[wire[i][1]] <= sent'[wire[i][1]]
      <4>1. PICK k \in Messages : k = wire[i][1]
        BY <1>7, <2>1
      <4>2. CASE k = m
        <5>1. s <= s + n
          BY <1>5
        <5> QED BY <1>4, <1>5, <4>1, <4>2, <5>1
      <4>3. CASE k # m
        <5>1. sent'[k] = sent[k] /\ sent[k] \in Nat
          BY <1>2, <1>5, <4>3
        <5> QED BY <4>1, <5>1
      <4> QED BY <4>2, <4>3
    <3>2. PICK k \in Messages : k = wire[i][1]
      BY <1>7, <2>1
    <3>3. wire[i][2] <= sent[k] /\ sent[k] <= sent'[k] /\ wire'[i] = wire[i]
      BY <1>6, <1>7, <2>1, <3>1, <3>2
    <3>4. wire[i][2] \in Nat /\ sent[k] \in Nat /\ sent'[k] \in Nat
      BY <1>2, <1>5, <1>7, <2>1
    <3> QED BY <3>2, <3>3, <3>4
  <2>2. CASE \E j \in 1 .. n : i = l + j
    <3>1. PICK j \in 1 .. n : i = l + j
      BY <2>2
    <3>2. wire'[i] = <<m, s + j>> /\ s + j <= s + n
      BY <1>5, <1>6, <3>1
    <3> QED BY <1>6, <3>2
  <2> QED BY <1>9, <2>1, <2>2
<1>11. ASSUME NEW i \in 1 .. l, NEW j \in 1 .. n
       PROVE  /\ (l + j) - i <= Total(wire[i][1]) - wire[i][2] =>
                    s > 0 /\ wire[i][1] = m /\ wire[i][2] + ((l + j) - i) = s + j
              /\ wire[i][1] = m => wire[i][2] < s + j
  <2>1. wire[i][1] = m => wire[i][2] < s + j
    BY <1>5, <1>4, <1>7
  <2>2. ASSUME (l + j) - i <= Total(wire[i][1]) - wire[i][2]
        PROVE  s > 0 /\ wire[i][1] = m /\ wire[i][2] + ((l + j) - i) = s + j
    <3>1. l \in 1 .. l /\ i <= l /\ l - i < Total(wire[i][1]) - wire[i][2]
      BY <1>5, <1>7, <2>2
    <3>2. wire[l] = <<wire[i][1], wire[i][2] + (l - i)>>
      <4>1. l - i <= Total(wire[i][1]) - wire[i][2]
        BY <1>7, <3>1
      <4> QED BY <1>3, <3>1, <4>1 DEF StreamState
    <3>3. s > 0
      <4> SUFFICES ASSUME s = 0 PROVE FALSE
        OBVIOUS
      <4>1. wire[l][2] = Total(wire[l][1])
        BY <1>8, <3>1
      <4>2. wire[i][2] + (l - i) = Total(wire[i][1])
        BY <3>2, <4>1
      <4> QED BY <1>7, <3>1, <4>2
    <3>4. wire[i][1] = m /\ wire[i][2] + (l - i) = s
      BY <1>8, <3>1, <3>2, <3>3
    <3>5. wire[i][2] + ((l + j) - i) = s + j
      BY <1>5, <1>7, <3>4
    <3> QED BY <3>3, <3>4, <3>5
  <2> QED BY <2>1, <2>2
<1>12. ASSUME NEW i \in 1 .. l + n, NEW k \in 1 .. l + n,
              i <= k, k - i <= Total(wire'[i][1]) - wire'[i][2]
       PROVE  wire'[k] = <<wire'[i][1], wire'[i][2] + (k - i)>>
  <2>1. CASE k \in 1 .. l
    <3>1. i \in 1 .. l /\ wire'[i] = wire[i] /\ wire'[k] = wire[k]
      BY <1>6, <1>12, <2>1
    <3> QED BY <1>3, <1>12, <2>1, <3>1 DEF StreamState
  <2>2. CASE i \in 1 .. l /\ \E j \in 1 .. n : k = l + j
    <3>1. PICK j \in 1 .. n : k = l + j
      BY <2>2
    <3>2. wire'[i] = wire[i] /\ wire'[k] = <<m, s + j>>
      BY <1>6, <2>2, <3>1
    <3>3. wire[i][1] = m /\ wire[i][2] + ((l + j) - i) = s + j
      BY <1>11, <1>12, <2>2, <3>1, <3>2
    <3> QED BY <3>1, <3>2, <3>3
  <2>3. CASE (\E j \in 1 .. n : i = l + j) /\ \E j \in 1 .. n : k = l + j
    <3>1. PICK j \in 1 .. n, h \in 1 .. n : i = l + j /\ k = l + h
      BY <2>3
    <3>2. wire'[i] = <<m, s + j>> /\ wire'[k] = <<m, s + h>>
      BY <1>6, <3>1
    <3>3. (s + j) + (k - i) = s + h
      BY <1>5, <3>1
    <3> QED BY <3>2, <3>3
  <2> QED BY <1>9, <1>12, <2>1, <2>2, <2>3
<1>13. ASSUME NEW i \in 1 .. l + n, NEW k \in 1 .. l + n, i < k, wire'[i][1] = wire'[k][1]
       PROVE  wire'[i][2] < wire'[k][2]
  <2>1. CASE k \in 1 .. l
    <3>1. i \in 1 .. l /\ wire'[i] = wire[i] /\ wire'[k] = wire[k]
      BY <1>6, <1>13, <2>1
    <3> QED BY <1>3, <1>13, <2>1, <3>1 DEF StreamState
  <2>2. CASE i \in 1 .. l /\ \E j \in 1 .. n : k = l + j
    <3>1. PICK j \in 1 .. n : k = l + j
      BY <2>2
    <3>2. wire'[i] = wire[i] /\ wire'[k] = <<m, s + j>>
      BY <1>6, <2>2, <3>1
    <3> QED BY <1>11, <1>13, <2>2, <3>2
  <2>3. CASE (\E j \in 1 .. n : i = l + j) /\ \E j \in 1 .. n : k = l + j
    <3>1. PICK j \in 1 .. n, h \in 1 .. n : i = l + j /\ k = l + h
      BY <2>3
    <3>2. wire'[i] = <<m, s + j>> /\ wire'[k] = <<m, s + h>>
      BY <1>6, <3>1
    <3>3. s + j < s + h
      BY <1>5, <1>13, <3>1
    <3> QED BY <3>2, <3>3
  <2> QED BY <1>9, <1>13, <2>1, <2>2, <2>3
<1>14. ASSUME NEW i \in 1 .. l + n, NEW k \in 1 .. l + n,
              k = i + 1, wire'[i][2] = Total(wire'[i][1])
       PROVE  wire'[k][2] = 1
  <2>1. CASE k \in 1 .. l
    <3>1. i \in 1 .. l /\ wire'[i] = wire[i] /\ wire'[k] = wire[k]
      BY <1>6, <1>14, <2>1
    <3> QED BY <1>3, <1>14, <2>1, <3>1 DEF StreamState
  <2>2. CASE i \in 1 .. l /\ k \notin 1 .. l
    <3>1. i = l /\ k = l + 1 /\ 1 \in 1 .. n /\ l > 0
      BY <1>5, <1>14, <2>2
    <3>2. wire'[i] = wire[l] /\ wire'[k] = <<m, s + 1>>
      BY <1>6, <2>2, <3>1
    <3>3. s = 0
      <4> SUFFICES ASSUME s > 0 PROVE FALSE
        OBVIOUS
      <4>1. wire[l] = <<m, s>>
        BY <1>8, <3>1
      <4>2. s = Total(m)
        BY <1>14, <3>2, <4>1
      <4> QED BY <1>5, <1>4, <4>2
    <3> QED BY <3>2, <3>3
  <2>3. CASE \E j \in 1 .. n : i = l + j
    <3>1. PICK j \in 1 .. n : i = l + j
      BY <2>3
    <3>2. wire'[i] = <<m, s + j>>
      BY <1>6, <3>1
    <3>3. j + 1 <= n
      BY <1>5, <1>14, <3>1
    <3>4. s + j = Total(m)
      BY <1>14, <3>2
    <3> QED BY <1>4, <1>5, <3>3, <3>4
  <2> QED BY <1>9, <2>1, <2>2, <2>3
<1>15. wire'[Len(wire')] = <<m, s + n>> /\ sent'[m] = s + n
  <2>1. n \in 1 .. n
    BY <1>5
  <2> QED BY <1>6, <2>1
<1>16. \A k \in Messages : Partial(k)' => k = m
  <2> SUFFICES ASSUME NEW k \in Messages \ {m}, Partial(k)' PROVE FALSE
    OBVIOUS
  <2>1. sent'[k] = sent[k] /\ ~Partial(k)
    BY <1>5
  <2> QED BY <2>1 DEF Partial, Total
<1>17. \A k : Total(k)' = Total(k)
  BY DEF Total
<1> QED BY <1>6, <1>10, <1>12, <1>13, <1>14, <1>15, <1>16, <1>17 DEF StreamState

LEMMA WriteSomeStep ==
    ASSUME TypeOK, StreamState, ReaderState, DeliveredState, Calm',
           NEW m \in Messages, NEW n \in 1 .. Total(m), WriteSome(m, n)
    PROVE  StreamState' /\ ReaderState' /\ DeliveredState'
<1>1. /\ ~eof /\ \A k \in Messages \ {m} : ~Partial(k)
      /\ UNCHANGED <<eof, reader, need, got, delivered>>
  BY DEF WriteSome, Calm
<1>2. /\ n \in Nat /\ n >= 1 /\ sent[m] \in Nat /\ sent[m] + n <= Total(m) /\ Total(m) \in Nat
      /\ wire' \in Seq(Bytes) /\ Len(wire') = Len(wire) + n
      /\ \A i \in 1 .. Len(wire) : wire'[i] = wire[i]
      /\ \A j \in 1 .. n : wire'[Len(wire) + j] = <<m, sent[m] + j>>
      /\ sent' \in [Messages -> Nat] /\ sent'[m] = sent[m] + n
      /\ \A k \in Messages \ {m} : sent'[k] = sent[k]
  BY WriteProperties, Zenon
<1>3. wire \in Seq(Bytes) /\ sent \in [Messages -> Nat]
  BY DEF TypeOK
<1>4. PICK l \in Nat : l = Len(wire)
  BY <1>3
<1>5. wire' # << >> /\ wire'[1] = IF wire = << >> THEN <<m, sent[m] + 1>> ELSE wire[1]
  <2>1. wire' # << >>
    BY <1>2, <1>4
  <2>2. CASE wire = << >>
    <3>1. l = 0 /\ 1 \in 1 .. n /\ l + 1 = 1
      BY <1>2, <1>4, <2>2
    <3>2. wire'[l + 1] = <<m, sent[m] + 1>>
      BY <1>2, <1>4, <3>1
    <3> QED BY <2>1, <2>2, <3>1, <3>2
  <2>3. CASE wire # << >>
    <3>1. 1 \in 1 .. l
      BY <1>3, <1>4, <2>3
    <3> QED BY <1>2, <1>4, <2>1, <2>3, <3>1
  <2> QED BY <2>2, <2>3
<1>6. StreamState'
  BY <1>1, StreamGrows
\* a message of which no byte is to come is not the one that is written
<1>7. ASSUME NEW k \in Messages, Gone(k)
      PROVE  Gone(k)' /\ k # m
  <2>1. sent[k] = Total(k) /\ k # m
    BY <1>1, <1>2, <1>7 DEF Gone
  <2>2. sent'[k] = sent[k]
    BY <1>2, <2>1
  <2>3. \A i \in 1 .. l + n : wire'[i][1] # k
    <3> TAKE i \in 1 .. l + n
    <3>1. CASE i \in 1 .. l
      BY <1>2, <1>4, <1>7, <3>1 DEF Gone
    <3>2. CASE i > l
      <4>1. i - l \in 1 .. n /\ i = l + (i - l)
        BY <1>2, <3>2
      <4>2. PICK j \in 1 .. n : i = l + j
        BY <4>1
      <4>3. wire'[i] = <<m, sent[m] + j>>
        BY <1>2, <1>4, <4>2
      <4> QED BY <2>1, <4>3
    <3> QED BY <3>1, <3>2
  <2>4. Len(wire') = l + n
    BY <1>2, <1>4
  <2> QED BY <2>1, <2>2, <2>3, <2>4 DEF Gone, Total
<1>8. \A k : Fresh(k)' <=> Fresh(k)
  BY <1>1 DEF Fresh
<1>9. \A d, k : Begins(d, k)' <=> Begins(d, k)
  BY DEF Begins
<1>10. DeliveredState'
  BY <1>1, <1>7 DEF DeliveredState, Cut, Begins
<1>11. AtBoundary => AtBoundary'
  <2>1. wire = << >> /\ AtBoundary => sent[m] = 0
    <3>1. sent[m] < Total(m)
      BY <1>2
    <3>2. sent[m] \in Nat
      BY <1>2
    <3> QED BY <1>1, <3>1, <3>2 DEF AtBoundary, Partial
  <2> QED BY <1>5, <2>1 DEF AtBoundary
<1>12. CASE reader = "body"
  <2>1. PICK k \in Messages :
           /\ Begins(got, k) /\ Fresh(k)
           /\ need > 0 /\ Len(got) + need = Size[k]
           /\ IF wire = << >> THEN sent[k] = HeaderSize + Len(got)
                              ELSE wire[1] = <<k, HeaderSize + Len(got) + 1>>
    BY <1>12 DEF ReaderState
  <2>2. need \in Nat /\ Len(got) \in Nat
    BY DEF TypeOK
  <2>3. wire = << >> => k = m
    <3>1. wire = << >> => Partial(k)
      BY <2>1, <2>2 DEF Partial, Total
    <3> QED BY <1>1, <3>1
  <2>4. wire'[1] = <<k, HeaderSize + Len(got) + 1>>
    BY <1>5, <2>1, <2>3
  <2> QED BY <1>1, <1>5, <1>6, <1>8, <1>10, <1>12, <2>1, <2>4 DEF ReaderState, Begins
<1>13. CASE reader = "deliver"
  <2>1. PICK k \in Messages :
           Begins(got, k) /\ Fresh(k) /\ Gone(k) /\ Len(got) = Size[k]
    BY <1>1, <1>13 DEF ReaderState
  <2> QED BY <1>1, <1>6, <1>7, <1>8, <1>10, <1>11, <1>13, <2>1 DEF ReaderState, Begins
<1>14. CASE reader \notin {"body", "deliver"}
  BY <1>1, <1>6, <1>10, <1>11, <1>14 DEF ReaderState
<1> QED BY <1>12, <1>13, <1>14

-----------------------------------------------------------------------------
(* The variables keep their types.                                         *)
LEMMA TypeStep ==
    ASSUME TypeOK, [Next]_vars
    PROVE  TypeOK'
<1> USE DEF TypeOK, stream, server
<1>1. \A m \in Messages : Total(m)' = Total(m) /\ Total(m) \in Nat
  BY DEF Total
<1>2. \A n \in 1 .. Len(wire) : Rest(n) \in Seq(Bytes)
  BY RestProperties
<1>3. CASE Start \/ Accept \/ Stop \/ CloseWriter \/ UNCHANGED vars
  BY <1>1, <1>3 DEF Start, Accept, Stop, CloseWriter, vars
<1>4. ASSUME NEW m \in Messages, NEW n \in 1 .. Total(m), WriteSome(m, n)
      PROVE  TypeOK'
  <2>1. /\ sent[m] + n <= Total(m) /\ wire' \in Seq(Bytes) /\ sent' \in [Messages -> Nat]
        /\ sent'[m] = sent[m] + n /\ \A k \in Messages \ {m} : sent'[k] = sent[k]
    BY <1>4, WriteProperties
  <2>2. \A k \in Messages : sent'[k] <= Total(k)
    BY <2>1
  <2> QED BY <1>1, <1>4, <2>1, <2>2 DEF WriteSome
<1>5. CASE LoopTop
  BY <1>1, <1>5 DEF LoopTop
<1>6. CASE ReadHeader
  <2>1. HeaderSize \in 1 .. Len(wire)
    BY <1>6 DEF ReadHeader
  <2>2. need' \in Nat
    <3>1. \A bytes : LengthsOf(bytes) \subseteq Nat
      BY DEF LengthsOf
    <3> QED BY <1>6, <3>1 DEF ReadHeader
  <2>3. reader' \in {"closed", "top", "body"}
    BY <1>6 DEF ReadHeader, GiveUp
  <2> QED BY <1>1, <1>2, <1>6, <2>1, <2>2, <2>3 DEF ReadHeader
<1>7. CASE HeaderAtEof \/ BodyAtEof
  BY <1>1, <1>7 DEF HeaderAtEof, BodyAtEof, GiveUp
<1>8. CASE Deliver
  BY <1>1, <1>8 DEF Deliver
<1>9. ASSUME NEW n \in 1 .. HeaderSize - 1, ShortHeader(n)
      PROVE  TypeOK'
  <2>1. n \in 1 .. Len(wire)
    BY <1>9 DEF ShortHeader
  <2> QED BY <1>1, <1>2, <1>9, <2>1 DEF ShortHeader, GiveUp
<1>10. ASSUME NEW n \in 1 .. need, ReadBody(n)
       PROVE  TypeOK'
  <2>1. n \in 1 .. Len(wire) /\ need - n \in Nat
    BY <1>10 DEF ReadBody
  <2>2. SubSeq(wire, 1, n) \in Seq(Bytes)
    BY <2>1
  <2>3. got' \in Seq(Bytes)
    BY <1>10, <2>2 DEF ReadBody
  <2> QED BY <1>1, <1>2, <1>10, <2>1, <2>3 DEF ReadBody
<1> QED BY <1>3, <1>4, <1>5, <1>6, <1>7, <1>8, <1>9, <1>10 DEF Next, ReaderStep

(* Nothing is on the wire at the start.                                    *)
LEMMA InitIInv == Init => IInv
<1> SUFFICES ASSUME Init PROVE IInv
  OBVIOUS
<1>1. TypeOK
  <2>1. \A S : << >> \in Seq(S)
    OBVIOUS
  <2>2. /\ sent \in [Messages -> Nat] /\ \A m \in Messages : sent[m] <= Total(m)
        /\ need \in Nat
    BY DEF Init, Total
  <2> QED BY <2>1, <2>2 DEF Init, TypeOK
<1>2. StreamState /\ ReaderState /\ DeliveredState
  BY DEF Init, StreamState, ReaderState, DeliveredState, AtBoundary, Partial
<1> QED BY <1>1, <1>2 DEF IInv

(* Every step of the writers and of the reader preserves it.               *)
LEMMA NextIInv == IInv /\ [Next]_vars => IInv'
<1> SUFFICES ASSUME IInv, [Next]_vars PROVE IInv'
  OBVIOUS
<1>1. TypeOK /\ TypeOK'
  BY TypeStep DEF IInv
<1> SUFFICES ASSUME Calm' PROVE StreamState' /\ ReaderState' /\ DeliveredState'
  BY <1>1 DEF IInv
<1>2. StreamState /\ ReaderState /\ DeliveredState
  BY <1>1, CalmBefore DEF IInv
<1>3. CASE Start \/ Accept \/ Stop \/ CloseWriter \/ UNCHANGED vars
  BY <1>1, <1>2, <1>3, QuietStep
<1>4. ASSUME NEW m \in Messages, NEW n \in 1 .. Total(m), WriteSome(m, n)
      PROVE  StreamState' /\ ReaderState' /\ DeliveredState'
  BY <1>1, <1>2, <1>4, WriteSomeStep
<1>5. CASE LoopTop \/ HeaderAtEof \/ BodyAtEof
  BY <1>1, <1>2, <1>5, LoopStep
<1>6. CASE ReadHeader
  BY <1>1, <1>2, <1>6, ReadHeaderStep
<1>7. CASE Deliver
  BY <1>1, <1>2, <1>7, DeliverStep
<1>8. ASSUME NEW n \in 1 .. HeaderSize - 1, ShortHeader(n)
      PROVE  StreamState' /\ ReaderState' /\ DeliveredState'
  BY <1>1, <1>2, <1>8, ShortHeaderStep
<1>9. ASSUME NEW n \in 1 .. need, ReadBody(n)
      PROVE  StreamState' /\ ReaderState' /\ DeliveredState'
  BY <1>1, <1>2, <1>9, ReadBodyStep
<1> QED BY <1>3, <1>4, <1>5, <1>6, <1>7, <1>8, <1>9 DEF Next, ReaderStep

(* The inductive invariant holds always.                                   *)
THEOREM Invariance == Spec => []IInv
BY InitIInv, NextIInv, PTL DEF Spec

(* The type invariant: no frame is written beyond its end, and nothing is  *)
(* on the wire or handed on but bytes of frames.                           *)
THEOREM TypeCorrect == Spec => []TypeOK
<1>1. IInv => TypeOK
  BY DEF IInv
<1> QED BY <1>1, Invariance, PTL

(* For any number of messages, of any length, and however write and read   *)
(* cut them up: if no two writes are mixed, and no header reaches the      *)
(* client in parts, handleClient and receiveMessage hand on messages that  *)
(* were sent, whole and none of them twice; only the last may be cut short *)
(* by the end of the stream.                                               *)
THEOREM WhatArrivesWasSent == Spec => []DeliveredIntact
<1>1. IInv => DeliveredIntact
  <2> SUFFICES ASSUME IInv, Calm PROVE DeliveredIntact
    BY DEF DeliveredIntact, Calm
  <2>1. DeliveredState /\ delivered \in Seq(Seq(Bytes))
    BY DEF IInv, TypeOK
  <2>2. ASSUME NEW i \in 1 .. Len(delivered), ~(eof /\ i = Len(delivered))
        PROVE  Intact(delivered[i])
    <3>1. PICK m \in Messages : Begins(delivered[i], m) /\ Len(delivered[i]) = Size[m]
      BY <2>1, <2>2 DEF DeliveredState, Cut
    <3>2. delivered[i] \in Seq(Bytes)
      BY <2>1
    <3>3. delivered[i] = [k \in 1 .. Size[m] |-> delivered[i][k]]
      BY <3>1, <3>2
    <3>4. delivered[i] = Payload(m)
      BY <3>1, <3>3 DEF Begins, Payload, Byte
    <3> QED BY <3>4 DEF Intact
  <2> QED BY <2>1, <2>2 DEF DeliveredIntact, DeliveredState
<1> QED BY <1>1, Invariance, PTL
-----------------------------------------------------------------------------
(* The bridges to the native libraries.                                    *)

USE BridgeAssumption DEF BridgeAssumption

(* The monitor is held by the thread inside loadLibrary and by no other.   *)
MonitorState == \A t \in Threads : lock = t <=> pc[t] \in {"flag", "load"}

\* A thread inside a method of a bridge has a bridge.
BridgeState == \A t \in Threads : pc[t] # "idle" => bridge[t] \in Bridges

\* The thread that loads is the one that has set the flag.
LoadState ==
    \A t \in Threads :
        pc[t] = "load" => loaded /\ winner = LibraryOf[bridge[t]]

(* The library the flag was set for has been loaded, or has failed, or is  *)
(* being loaded by the thread that holds the monitor.                      *)
WinnerState ==
    loaded => \/ winner \in libraries
              \/ failed
              \/ \E t \in Threads : pc[t] = "load"

\* The bridge may be called, or soon may be.
Ready(b) ==
    \/ b \in initialized
    \/ \E t \in Threads : pc[t] \in {"set", "native"} /\ bridge[t] = b

(* The flag is set for every bridge that is ready; if it was set for this  *)
(* one's library, the library is there or its loading failed.              *)
ReadyState ==
    \A b \in Bridges : Ready(b) =>
        /\ loaded
        /\ LibraryOf[b] \in libraries \/ failed \/ winner # LibraryOf[b]

BridgeIInv ==
    /\ BridgeTypeOK
    /\ MonitorState
    /\ BridgeState
    /\ LoadState
    /\ WinnerState
    /\ ReadyState

(* No thread is in a bridge at the start.                                  *)
LEMMA BridgesAtRest == BridgeInit => BridgeIInv
<1> SUFFICES ASSUME BridgeInit PROVE BridgeIInv
  OBVIOUS
<1>1. BridgeTypeOK
  BY DEF BridgeInit, BridgeTypeOK, Places
<1>2. MonitorState /\ BridgeState /\ LoadState /\ WinnerState /\ ReadyState
  BY DEF BridgeInit, MonitorState, BridgeState, LoadState, WinnerState, ReadyState, Ready
<1> QED BY <1>1, <1>2 DEF BridgeIInv

(* Every step of loadLibrary, loadFromPath and the bridges preserves it.   *)
LEMMA BridgeStep == BridgeIInv /\ [BridgeNext]_bridgeVars => BridgeIInv'
<1> SUFFICES ASSUME BridgeIInv, [BridgeNext]_bridgeVars PROVE BridgeIInv'
  OBVIOUS
<1> USE DEF BridgeIInv, BridgeTypeOK, Places, MonitorState, BridgeState, LoadState,
            WinnerState, ReadyState, Ready, history
<1>1. ASSUME NEW t \in Threads, InitializeStep(t) PROVE BridgeIInv'
  <2>1. CASE EnterLoader(t)
    BY <2>1 DEF EnterLoader, Go
  <2>2. CASE TestAndSetFlag(t)
    BY <2>2 DEF TestAndSetFlag, Go
  <2>3. CASE LoadSucceeds(t)
    BY <2>3 DEF LoadSucceeds, Go
  <2>4. CASE LoadFails(t)
    BY <2>4 DEF LoadFails, Go, Leave
  <2>5. CASE SetInitialized(t)
    BY <2>5 DEF SetInitialized, Go, Leave
  <2> QED BY <1>1, <2>1, <2>2, <2>3, <2>4, <2>5 DEF InitializeStep
<1>2. ASSUME NEW t \in Threads, NativeReturns(t) PROVE BridgeIInv'
  BY <1>2 DEF NativeReturns, Go, Leave
<1>3. ASSUME NEW t \in Threads, NEW b \in Bridges, Initialize(t, b) PROVE BridgeIInv'
  BY <1>3 DEF Initialize, Go
<1>4. ASSUME NEW t \in Threads, NEW b \in Bridges, Call(t, b) PROVE BridgeIInv'
  BY <1>4 DEF Call, Go
<1>5. ASSUME NEW lib \in Libraries, LoadFromPath(lib) PROVE BridgeIInv'
  BY <1>5 DEF LoadFromPath
<1>6. ASSUME NEW b \in Bridges, Destroy(b) PROVE BridgeIInv'
  BY <1>6 DEF Destroy
<1>7. CASE UNCHANGED bridgeVars
  BY <1>7 DEF bridgeVars
<1> QED BY <1>1, <1>2, <1>3, <1>4, <1>5, <1>6, <1>7 DEF BridgeNext

(* The inductive invariant holds always.                                   *)
THEOREM BridgeInvariance == BridgeSpec => []BridgeIInv
BY BridgesAtRest, BridgeStep, PTL DEF BridgeSpec

(* For any number of threads and bridges: a native method is missing only  *)
(* because the flag was set for another library or its loading failed; the *)
(* synchronized loadLibrary lets no thread past a library that is still    *)
(* being loaded.                                                           *)
THEOREM OnlyTheFlag == BridgeSpec => []UnlinkedOnlyByTheFlag
<1>1. BridgeIInv => UnlinkedOnlyByTheFlag
  BY DEF BridgeIInv, BridgeTypeOK, BridgeState, ReadyState, Ready, UnlinkedOnlyByTheFlag,
         Unlinked
<1> QED BY <1>1, BridgeInvariance, PTL

(* What loadLibrary's flag is enough for: in a process where every bridge  *)
(* uses the same library, and that library can be loaded, a bridge that is *)
(* called is linked.                                                       *)
THEOREM OneLibraryIsLinked ==
    ASSUME \A l, k \in Libraries : l = k
    PROVE  BridgeSpec => [](~failed => InitializedIsLinked)
<1>1. BridgeIInv => (~failed => InitializedIsLinked)
  <2> SUFFICES ASSUME BridgeIInv, ~failed, NEW t \in Threads, Unlinked(t)
               PROVE  FALSE
    BY DEF InitializedIsLinked
  <2>1. loaded /\ winner # LibraryOf[bridge[t]] /\ bridge[t] \in Bridges
    BY DEF BridgeIInv, BridgeState, ReadyState, Ready, Unlinked
  <2>2. winner \in libraries \/ \E s \in Threads : pc[s] = "load"
    BY <2>1 DEF BridgeIInv, WinnerState
  <2>3. winner \in Libraries
    BY <2>1, <2>2
       DEF BridgeIInv, BridgeTypeOK, LoadState, BridgeState
  <2> QED BY <2>1, <2>3
<1> QED BY <1>1, BridgeInvariance, PTL
=============================================================================
