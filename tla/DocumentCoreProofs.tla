------------------------- MODULE DocumentCoreProofs -------------------------
(***************************************************************************)
(* DocumentCore for any number of clients, documents and patch sets: what  *)
(* the engine's operations make of a list of pages, and what the cache may *)
(* hold while clients overtake one another.                                *)
(***************************************************************************)
EXTENDS DocumentCore, FiniteSetTheorems, SequenceTheorems, TLAPS

-----------------------------------------------------------------------------
(* The n-th smallest element of a finite set of integers is one of them,   *)
(* a larger one for a larger n, and every element is the n-th for some n.  *)
LEMMA NthProperties ==
    ASSUME NEW I \in SUBSET Int, IsFiniteSet(I)
    PROVE  /\ Cardinality(I) \in Nat
           /\ \A n \in 1 .. Cardinality(I) : Nth(I, n) \in I
           /\ \A m, n \in 1 .. Cardinality(I) : m < n => Nth(I, m) < Nth(I, n)
           /\ \A i \in I : \E n \in 1 .. Cardinality(I) : Nth(I, n) = i
<1> DEFINE N == Cardinality(I)
           Below(i) == {k \in I : k < i}
           rank == [i \in I |-> Cardinality(Below(i))]
<1>1. N \in Nat
  BY FS_CardinalityType
<1>2. \A i \in I : IsFiniteSet(Below(i)) /\ Cardinality(Below(i)) \in Nat
  BY FS_Subset, FS_CardinalityType
<1>3. \A i \in I : Cardinality(Below(i)) < N
  <2> TAKE i \in I
  <2>1. Below(i) \subseteq I /\ Below(i) # I
    OBVIOUS
  <2> QED BY <2>1, <1>1, <1>2, FS_Subset
<1>4. \A i, j \in I : i < j => Cardinality(Below(i)) < Cardinality(Below(j))
  <2> SUFFICES ASSUME NEW i \in I, NEW j \in I, i < j
               PROVE  Cardinality(Below(i)) < Cardinality(Below(j))
    OBVIOUS
  <2>1. Below(i) \subseteq Below(j) /\ i \in Below(j) /\ i \notin Below(i)
    <3>1. i \in Int /\ j \in Int /\ ~(i < i)
      OBVIOUS
    <3>2. \A k \in I : k < i => k < j
      BY <3>1
    <3> QED BY <3>1, <3>2
  <2>2. Below(i) # Below(j)
    BY <2>1
  <2> HIDE DEF Below
  <2> QED BY <2>1, <2>2, <1>2, FS_Subset
<1>5. \A i, j \in I : Cardinality(Below(i)) = Cardinality(Below(j)) => i = j
  BY <1>2, <1>4
<1>6. rank \in Injection(I, 0 .. N - 1)
  <2> HIDE DEF Below
  <2> QED BY <1>1, <1>2, <1>3, <1>5 DEF Injection, IsInjective
<1>7. IsFiniteSet(0 .. N - 1) /\ Cardinality(0 .. N - 1) = N
  BY <1>1, FS_Interval
<1>8. rank \in Surjection(I, 0 .. N - 1)
  BY <1>6, <1>7, FS_Injection
<1>9. \A n \in 1 .. N : \E i \in I : Cardinality(Below(i)) = n - 1
  <2> TAKE n \in 1 .. N
  <2>1. n - 1 \in 0 .. N - 1
    BY <1>1
  <2>2. PICK i \in I : rank[i] = n - 1
    BY <1>8, <2>1 DEF Surjection
  <2> QED BY <2>2
<1>10. \A n \in 1 .. N : Nth(I, n) \in I /\ Cardinality(Below(Nth(I, n))) = n - 1
  BY <1>9 DEF Nth
<1>11. \A m, n \in 1 .. N : m < n => Nth(I, m) < Nth(I, n)
  <2> SUFFICES ASSUME NEW m \in 1 .. N, NEW n \in 1 .. N, m < n
               PROVE  Nth(I, m) < Nth(I, n)
    OBVIOUS
  <2>1. PICK x \in I : x = Nth(I, m) /\ Cardinality(Below(x)) = m - 1
    <3> HIDE DEF Below
    <3> QED BY <1>10
  <2>2. PICK y \in I : y = Nth(I, n) /\ Cardinality(Below(y)) = n - 1
    <3> HIDE DEF Below
    <3> QED BY <1>10
  <2>3. x # y /\ ~(y < x)
    <3> HIDE DEF Below
    <3> QED BY <1>1, <1>4, <2>1, <2>2
  <2>4. x \in Int /\ y \in Int
    OBVIOUS
  <2>5. x < y
    BY <2>3, <2>4
  <2> QED BY <2>1, <2>2, <2>5
<1>12. \A i \in I : \E n \in 1 .. N : Nth(I, n) = i
  <2> TAKE i \in I
  <2> DEFINE n == Cardinality(Below(i)) + 1
  <2>1. n \in 1 .. N
    BY <1>1, <1>2, <1>3
  <2>2. Cardinality(Below(Nth(I, n))) = Cardinality(Below(i)) /\ Nth(I, n) \in I
    <3> HIDE DEF Below
    <3> QED BY <1>2, <2>1, <1>10
  <2> QED BY <2>1, <2>2, <1>5
<1> QED BY <1>1, <1>10, <1>11, <1>12

(* A finite set of integers with an element has a least and a greatest.    *)
LEMMA LeastAndGreatest ==
    ASSUME NEW I \in SUBSET Int, IsFiniteSet(I), I # {}
    PROVE  /\ \E i \in I : \A k \in I : i <= k
           /\ \E i \in I : \A k \in I : k <= i
<1> DEFINE N == Cardinality(I)
<1>1. N \in Nat /\ N # 0
  BY FS_CardinalityType, FS_EmptySet
<1>2. \A n \in 1 .. N : Nth(I, 1) <= Nth(I, n) /\ Nth(I, n) <= Nth(I, N)
  <2> TAKE n \in 1 .. N
  <2>1. PICK x, y, z : x = Nth(I, 1) /\ y = Nth(I, n) /\ z = Nth(I, N)
    OBVIOUS
  <2>2. (1 < n => x < y) /\ (n < N => y < z)
    BY <1>1, <2>1, NthProperties
  <2>3. x \in Int /\ y \in Int /\ z \in Int
    <3>1. 1 \in 1 .. N /\ N \in 1 .. N
      BY <1>1
    <3>2. \A k \in 1 .. N : Nth(I, k) \in I
      BY NthProperties
    <3> QED BY <2>1, <3>1, <3>2
  <2>4. (n = 1 => x = y) /\ (n = N => y = z)
    BY <2>1
  <2>5. x <= y /\ y <= z
    BY <1>1, <2>2, <2>3, <2>4
  <2> QED BY <2>1, <2>5
<1>3. Nth(I, 1) \in I /\ Nth(I, N) \in I
  BY <1>1, NthProperties
<1>4. \A k \in I : \E n \in 1 .. N : Nth(I, n) = k
  BY NthProperties
<1> QED BY <1>2, <1>3, <1>4

(* What Without keeps: the blocks with another id, each once and in their  *)
(* order.                                                                  *)
LEMMA WithoutProperties ==
    ASSUME NEW S, NEW blocks \in Seq(S), NEW ids
    PROVE  /\ Without(blocks, ids) \in Seq(S)
           /\ \E f \in [1 .. Len(Without(blocks, ids)) -> 1 .. Len(blocks)] :
                /\ \A n \in 1 .. Len(Without(blocks, ids)) :
                      /\ Without(blocks, ids)[n] = blocks[f[n]]
                      /\ blocks[f[n]].id \notin ids
                /\ \A m, n \in 1 .. Len(Without(blocks, ids)) : m < n => f[m] < f[n]
                /\ \A j \in 1 .. Len(blocks) : blocks[j].id \notin ids =>
                      \E n \in 1 .. Len(Without(blocks, ids)) : f[n] = j
<1> DEFINE stay == {j \in 1 .. Len(blocks) : blocks[j].id \notin ids}
           N == Cardinality(stay)
           f == [n \in 1 .. N |-> Nth(stay, n)]
           w == [n \in 1 .. N |-> blocks[Nth(stay, n)]]
<1>1. IsFiniteSet(stay) /\ stay \in SUBSET Int
  <2>1. IsFiniteSet(1 .. Len(blocks))
    BY FS_Interval
  <2> QED BY <2>1, FS_Subset
<1>2. /\ N \in Nat
      /\ \A n \in 1 .. N : Nth(stay, n) \in stay
      /\ \A m, n \in 1 .. N : m < n => Nth(stay, m) < Nth(stay, n)
      /\ \A i \in stay : \E n \in 1 .. N : Nth(stay, n) = i
  <2> HIDE DEF stay
  <2> QED BY <1>1, NthProperties
<1>3. Without(blocks, ids) = w
  BY DEF Without
<1>4. \A n \in 1 .. N : Nth(stay, n) \in 1 .. Len(blocks) /\ blocks[Nth(stay, n)] \in S
  BY <1>2
<1>5. w \in Seq(S) /\ Len(w) = N
  <2> HIDE DEF stay, N
  <2> QED BY <1>2, <1>4
<1>6. /\ f \in [1 .. N -> 1 .. Len(blocks)]
      /\ \A n \in 1 .. N : w[n] = blocks[f[n]] /\ blocks[f[n]].id \notin ids
      /\ \A m, n \in 1 .. N : m < n => f[m] < f[n]
      /\ \A j \in 1 .. Len(blocks) : blocks[j].id \notin ids =>
            \E n \in 1 .. N : f[n] = j
  <2>1. \A n \in 1 .. N : f[n] \in stay
    <3> HIDE DEF stay, N
    <3> QED BY <1>2
  <2>2. \A m, n \in 1 .. N : m < n => f[m] < f[n]
    <3> HIDE DEF stay, N
    <3> QED BY <1>2
  <2>3. \A i \in stay : \E n \in 1 .. N : f[n] = i
    <3> HIDE DEF stay, N
    <3> QED BY <1>2
  <2>4. f \in [1 .. N -> 1 .. Len(blocks)]
    <3> HIDE DEF N
    <3> QED BY <2>1
  <2>5. \A n \in 1 .. N : w[n] = blocks[f[n]]
    <3> HIDE DEF stay, N
    <3> QED OBVIOUS
  <2> HIDE DEF f, w, N
  <2> QED BY <2>1, <2>2, <2>3, <2>4, <2>5
<1> HIDE DEF f, w, N
<1> QED BY <1>3, <1>5, <1>6

(* List.add moves what lies behind the new element.                        *)
LEMMA AddAtProperties ==
    ASSUME NEW S, NEW s \in Seq(S), NEW at \in 0 .. Len(s), NEW e \in S
    PROVE  /\ AddAt(s, at, e) \in Seq(S)
           /\ Len(AddAt(s, at, e)) = Len(s) + 1
           /\ \A i \in 1 .. Len(s) + 1 :
                 AddAt(s, at, e)[i] =
                     IF i <= at THEN s[i] ELSE IF i = at + 1 THEN e ELSE s[i - 1]
<1> DEFINE a == SubSeq(s, 1, at)
           b == SubSeq(s, at + 1, Len(s))
<1>1. /\ a \in Seq(S) /\ Len(a) = at
      /\ \A i \in 1 .. at : a[i] = s[i]
  BY SubSeqProperties
<1>2. /\ b \in Seq(S) /\ Len(b) = Len(s) - at
      /\ \A i \in 1 .. Len(s) - at : b[i] = s[at + i]
  BY SubSeqProperties
<1>3. /\ <<e>> \in Seq(S) /\ Len(<<e>>) = 1 /\ <<e>>[1] = e
  OBVIOUS
<1> HIDE DEF a, b
<1> DEFINE ae == a \o <<e>>
<1>4. /\ ae \in Seq(S) /\ Len(ae) = at + 1
      /\ \A i \in 1 .. at + 1 : ae[i] = IF i <= at THEN s[i] ELSE e
  BY <1>1, <1>3
<1> HIDE DEF ae
<1>5. /\ ae \o b \in Seq(S) /\ Len(ae \o b) = Len(s) + 1
      /\ \A i \in 1 .. Len(s) + 1 :
            (ae \o b)[i] = IF i <= at + 1 THEN ae[i] ELSE b[i - (at + 1)]
  BY <1>2, <1>4, ConcatProperties
<1>6. AddAt(s, at, e) = ae \o b
  BY DEF AddAt, ae, a, b
<1>7. \A i \in 1 .. Len(s) + 1 :
         (ae \o b)[i] = IF i <= at THEN s[i] ELSE IF i = at + 1 THEN e ELSE s[i - 1]
  BY <1>2, <1>4, <1>5
<1> QED BY <1>5, <1>6, <1>7

-----------------------------------------------------------------------------
(* What the fields of an operation are, by its type.                       *)
LEMMA OperationFields ==
    ASSUME NEW op \in Operation
    PROVE  /\ op.type \in {"replaceText", "updateStyle", "replaceImage"} =>
                 op.id \in BlockIds /\ op.value \in Values
           /\ op.type = "insertBlock" =>
                 op.page \in Int /\ op.block \in Block /\ op.pos \in Int
           /\ op.type = "deleteBlock" => op.id \in BlockIds
           /\ op.type = "moveBlock" =>
                 /\ op.id \in BlockIds /\ op.from \in Int
                 /\ op.to \in Int /\ op.pos \in Int
           /\ op.type = "insertPage" =>
                 op.after \in -MaxInt - 1 .. MaxInt /\ op.new \in Page
           /\ op.type = "deletePage" => op.page \in Int
           /\ op.type = "mergeBlocks" =>
                 op.id \in BlockIds /\ op.ids \in SUBSET BlockIds /\ op.text \in Values
           /\ op.type \in {"replaceText", "updateStyle", "replaceImage", "insertBlock",
                           "deleteBlock", "moveBlock", "insertPage", "deletePage",
                           "mergeBlocks", "updateMetadata"}
BY DEF Operation

(* Other blocks on a page leave it a page with the same number.            *)
LEMMA OnBlocksPage ==
    ASSUME NEW p \in Page, NEW blocks \in Seq(Block)
    PROVE  /\ OnBlocks(p, blocks) \in Page
           /\ OnBlocks(p, blocks).index = p.index
           /\ OnBlocks(p, blocks).blocks = blocks
BY DEF OnBlocks, Page

(* An operation that gives every page other blocks keeps the pages and     *)
(* their numbers.                                                          *)
SamePages(pages, after) ==
    /\ after \in Seq(Page)
    /\ Len(after) = Len(pages)
    /\ \A i \in 1 .. Len(pages) : after[i].index = pages[i].index

\* Of these, only page n gets other blocks.
OneChanged(pages, after, n, blocks) ==
    /\ SamePages(pages, after)
    /\ after[n].blocks = blocks
    /\ \A i \in 1 .. Len(pages) : i # n => after[i] = pages[i]

LEMMA PageFields ==
    ASSUME NEW pages \in Seq(Page), NEW i \in 1 .. Len(pages)
    PROVE  pages[i] \in Page /\ pages[i].index \in Int /\ pages[i].blocks \in Seq(Block)
<1>1. pages[i] \in Page
  OBVIOUS
<1> QED BY <1>1 DEF Page

LEMMA EachPage ==
    ASSUME NEW pages \in Seq(Page), NEW blocks \in [1 .. Len(pages) -> Seq(Block)]
    PROVE  LET after == [i \in 1 .. Len(pages) |-> OnBlocks(pages[i], blocks[i])]
           IN  /\ SamePages(pages, after)
               /\ \A i \in 1 .. Len(pages) : after[i].blocks = blocks[i]
<1> DEFINE New(i) == OnBlocks(pages[i], blocks[i])
<1>1. \A i \in 1 .. Len(pages) : /\ New(i) \in Page
                                 /\ New(i).index = pages[i].index
                                 /\ New(i).blocks = blocks[i]
  BY PageFields, OnBlocksPage
<1> HIDE DEF New
<1>2. LET after == [i \in 1 .. Len(pages) |-> New(i)]
      IN  /\ SamePages(pages, after)
          /\ \A i \in 1 .. Len(pages) : after[i].blocks = blocks[i]
  BY <1>1 DEF SamePages
<1> QED BY <1>2 DEF New

LEMMA UpdateFieldPages ==
    ASSUME NEW pages \in Seq(Page), NEW op, op.value \in Values,
           NEW field \in {"text", "style", "image"}
    PROVE  /\ SamePages(pages, UpdateField(pages, op, field))
           /\ \A i \in 1 .. Len(pages) :
                 /\ Len(UpdateField(pages, op, field)[i].blocks) = Len(pages[i].blocks)
                 /\ \A j \in 1 .. Len(pages[i].blocks) :
                       UpdateField(pages, op, field)[i].blocks[j].id =
                          pages[i].blocks[j].id
<1> DEFINE Updated(b) == IF b.id = op.id THEN [b EXCEPT ![field] = op.value] ELSE b
           blocks == [i \in 1 .. Len(pages) |->
               [j \in 1 .. Len(pages[i].blocks) |-> Updated(pages[i].blocks[j])]]
<1>1. \A b \in Block : Updated(b) \in Block /\ Updated(b).id = b.id
  BY DEF Block
<1>2. blocks \in [1 .. Len(pages) -> Seq(Block)]
  <2> HIDE DEF Updated
  <2>1. \A i \in 1 .. Len(pages) :
           [j \in 1 .. Len(pages[i].blocks) |-> Updated(pages[i].blocks[j])] \in Seq(Block)
    BY <1>1, PageFields
  <2> QED BY <2>1
<1>3. UpdateField(pages, op, field) =
         [i \in 1 .. Len(pages) |-> OnBlocks(pages[i], blocks[i])]
  BY DEF UpdateField
<1>4. \A i \in 1 .. Len(pages) :
         /\ Len(blocks[i]) = Len(pages[i].blocks)
         /\ \A j \in 1 .. Len(blocks[i]) : blocks[i][j].id = pages[i].blocks[j].id
  <2> HIDE DEF Updated
  <2>1. \A i \in 1 .. Len(pages) : \A j \in 1 .. Len(pages[i].blocks) :
           Updated(pages[i].blocks[j]).id = pages[i].blocks[j].id
    BY <1>1, PageFields
  <2>2. \A i \in 1 .. Len(pages) : Len(blocks[i]) = Len(pages[i].blocks)
    BY PageFields
  <2> QED BY <2>1, <2>2, PageFields
<1> HIDE DEF blocks
<1>5. /\ SamePages(pages, UpdateField(pages, op, field))
      /\ \A i \in 1 .. Len(pages) : UpdateField(pages, op, field)[i].blocks = blocks[i]
  BY <1>2, <1>3, EachPage
<1> QED BY <1>4, <1>5

LEMMA DeleteBlockPages ==
    ASSUME NEW pages \in Seq(Page), NEW op
    PROVE  /\ SamePages(pages, DeleteBlock(pages, op))
           /\ \A i \in 1 .. Len(pages) :
                 DeleteBlock(pages, op)[i].blocks = Without(pages[i].blocks, {op.id})
<1> DEFINE blocks == [i \in 1 .. Len(pages) |-> Without(pages[i].blocks, {op.id})]
<1>1. blocks \in [1 .. Len(pages) -> Seq(Block)]
  BY PageFields, WithoutProperties
<1>2. DeleteBlock(pages, op) = [i \in 1 .. Len(pages) |-> OnBlocks(pages[i], blocks[i])]
  BY DEF DeleteBlock
<1>3. \A i \in 1 .. Len(pages) : blocks[i] = Without(pages[i].blocks, {op.id})
  OBVIOUS
<1> HIDE DEF blocks
<1> QED BY <1>1, <1>2, <1>3, EachPage

(* A page whose blocks are replaced leaves the others as they are.         *)
LEMMA OnePage ==
    ASSUME NEW pages \in Seq(Page), NEW n \in 1 .. Len(pages), NEW blocks \in Seq(Block)
    PROVE  OneChanged(pages, [pages EXCEPT ![n] = OnBlocks(pages[n], blocks)], n, blocks)
<1> DEFINE new == OnBlocks(pages[n], blocks)
<1>1. new \in Page /\ new.index = pages[n].index /\ new.blocks = blocks
  BY PageFields, OnBlocksPage
<1> HIDE DEF new
<1>2. OneChanged(pages, [pages EXCEPT ![n] = new], n, blocks)
  BY <1>1 DEF OneChanged, SamePages
<1> QED BY <1>2 DEF new

LEMMA InsertBlockPages ==
    ASSUME NEW pages \in Seq(Page), NEW op \in Operation, op.type = "insertBlock",
           ~InsertBlockRaises(pages, op)
    PROVE  /\ SamePages(pages, InsertBlock(pages, op))
           /\ \/ InsertBlock(pages, op) = pages
              \/ \E n \in 1 .. Len(pages) : \E at \in 0 .. Len(pages[n].blocks) :
                    OneChanged(pages, InsertBlock(pages, op), n,
                               AddAt(pages[n].blocks, at, op.block))
<1>1. op.page \in Int /\ op.block \in Block /\ op.pos \in Int
  BY OperationFields
<1>2. CASE ~IsIndex(op.page, pages)
  BY <1>2 DEF InsertBlock, SamePages
<1>3. CASE IsIndex(op.page, pages)
  <2> DEFINE n == op.page + 1
             old == pages[n].blocks
             at == Least(op.pos, Len(old))
  <2>1. n \in 1 .. Len(pages) /\ op.pos >= 0
    BY <1>1, <1>3 DEF IsIndex, InsertBlockRaises
  <2>2. old \in Seq(Block)
    BY <2>1, PageFields
  <2>3. at \in 0 .. Len(old)
    BY <1>1, <2>1, <2>2 DEF Least
  <2>4. AddAt(old, at, op.block) \in Seq(Block)
    BY <1>1, <2>2, <2>3, AddAtProperties
  <2>5. InsertBlock(pages, op) =
           [pages EXCEPT ![n] = OnBlocks(pages[n], AddAt(old, at, op.block))]
    BY <1>3 DEF InsertBlock
  <2> HIDE DEF at
  <2>6. OneChanged(pages, InsertBlock(pages, op), n, AddAt(old, at, op.block))
    <3> HIDE DEF n, old
    <3> QED BY <2>1, <2>4, <2>5, OnePage
  <2> QED BY <2>1, <2>3, <2>6 DEF OneChanged
<1> QED BY <1>2, <1>3

LEMMA WithoutMovedPages ==
    ASSUME NEW pages \in Seq(Page), NEW op \in Operation, op.type = "moveBlock"
    PROVE  /\ SamePages(pages, WithoutMoved(pages, op))
           /\ IF IsIndex(op.from, pages)
              THEN LET n == op.from + 1
                   IN  /\ n \in 1 .. Len(pages)
                       /\ OneChanged(pages, WithoutMoved(pages, op), n,
                                     Without(pages[n].blocks, {op.id}))
              ELSE WithoutMoved(pages, op) = pages
<1>1. op.from \in Int
  BY OperationFields
<1>2. CASE ~IsIndex(op.from, pages)
  BY <1>2 DEF WithoutMoved, SamePages
<1>3. CASE IsIndex(op.from, pages)
  <2> DEFINE n == op.from + 1
             rest == Without(pages[n].blocks, {op.id})
  <2>1. n \in 1 .. Len(pages)
    BY <1>1, <1>3 DEF IsIndex
  <2>2. rest \in Seq(Block)
    BY <2>1, PageFields, WithoutProperties
  <2>3. WithoutMoved(pages, op) = [pages EXCEPT ![n] = OnBlocks(pages[n], rest)]
    BY <1>3 DEF WithoutMoved
  <2>4. OneChanged(pages, WithoutMoved(pages, op), n, rest)
    <3> HIDE DEF n, rest
    <3> QED BY <2>1, <2>2, <2>3, OnePage
  <2> QED BY <1>3, <2>1, <2>4 DEF OneChanged
<1> QED BY <1>2, <1>3

(* The block that moves is one of the source page with the id.             *)
LEMMA MovedProperties ==
    ASSUME NEW pages \in Seq(Page), NEW op \in Operation, op.type = "moveBlock",
           Moves(pages, op)
    PROVE  Moved(pages, op) \in Block /\ Moved(pages, op).id = op.id
<1> DEFINE blocks == pages[op.from + 1].blocks
           I == {j \in 1 .. Len(blocks) : blocks[j].id = op.id}
<1>1. op.from + 1 \in 1 .. Len(pages)
  BY OperationFields DEF Moves, IsIndex
<1>2. blocks \in Seq(Block)
  BY <1>1, PageFields
<1>3. IsFiniteSet(I) /\ I \in SUBSET Int /\ I # {}
  <2>1. IsFiniteSet(1 .. Len(blocks)) /\ I \subseteq 1 .. Len(blocks)
    BY <1>2, FS_Interval
  <2>2. I # {}
    BY DEF Moves, Ids
  <2>3. I \in SUBSET Int
    BY <1>2
  <2> HIDE DEF I, blocks
  <2> QED BY <2>1, <2>2, <2>3, FS_Subset
<1>4. PICK i \in I : \A k \in I : k <= i
  <2> HIDE DEF I
  <2> QED BY <1>3, LeastAndGreatest
<1>5. /\ i \in 1 .. Len(blocks)
      /\ blocks[i].id = op.id
      /\ \A k \in i + 1 .. Len(blocks) : blocks[k].id # op.id
  BY <1>2, <1>4
<1>6. PICK last \in 1 .. Len(blocks) : Moved(pages, op) = blocks[last] /\ blocks[last].id = op.id
  BY <1>5 DEF Moved
<1> QED BY <1>2, <1>6

LEMMA MoveBlockPages ==
    ASSUME NEW pages \in Seq(Page), NEW op \in Operation, op.type = "moveBlock",
           ~MoveBlockRaises(pages, op)
    PROVE  /\ SamePages(pages, MoveBlock(pages, op))
           /\ IF Moves(pages, op) /\ op.to < Len(pages)
              THEN LET rest == WithoutMoved(pages, op)
                       n == op.to + 1
                   IN  /\ n \in 1 .. Len(pages)
                       /\ \E at \in 0 .. Len(rest[n].blocks) :
                             OneChanged(rest, MoveBlock(pages, op), n,
                                        AddAt(rest[n].blocks, at, Moved(pages, op)))
              ELSE MoveBlock(pages, op) = WithoutMoved(pages, op)
<1> DEFINE rest == WithoutMoved(pages, op)
           n == op.to + 1
           old == rest[n].blocks
           at == Least(op.pos, Len(old))
           b == Moved(pages, op)
<1>1. op.to \in Int /\ op.pos \in Int
  BY OperationFields
<1>2. SamePages(pages, rest)
  BY WithoutMovedPages
<1>3. CASE Moves(pages, op) /\ op.to < Len(pages)
  <2>1. op.to >= 0 /\ op.pos >= 0 /\ n \in 1 .. Len(pages)
    BY <1>1, <1>3 DEF MoveBlockRaises
  <2>2. b \in Block
    BY <1>3, MovedProperties
  <2>3. rest \in Seq(Page) /\ Len(rest) = Len(pages)
    BY <1>2 DEF SamePages
  <2> HIDE DEF rest, b
  <2>4. old \in Seq(Block)
    BY <2>1, <2>3, PageFields
  <2>5. at \in 0 .. Len(old)
    BY <1>1, <2>1, <2>4 DEF Least
  <2>6. AddAt(old, at, b) \in Seq(Block)
    BY <2>2, <2>4, <2>5, AddAtProperties
  <2>7. MoveBlock(pages, op) = [rest EXCEPT ![n] = OnBlocks(rest[n], AddAt(old, at, b))]
    BY <1>3 DEF MoveBlock, rest, b
  <2> HIDE DEF at
  <2>8. OneChanged(rest, MoveBlock(pages, op), n, AddAt(old, at, b))
    <3> HIDE DEF n, old
    <3>1. n \in 1 .. Len(rest)
      BY <2>1, <2>3
    <3>2. PICK new \in Seq(Block) : new = AddAt(old, at, b)
      BY <2>6
    <3>3. OneChanged(rest, [rest EXCEPT ![n] = OnBlocks(rest[n], new)], n, new)
      BY <2>3, <3>1, OnePage
    <3> QED BY <2>7, <3>2, <3>3
  <2>9. SamePages(pages, MoveBlock(pages, op))
    BY <1>2, <2>8 DEF OneChanged, SamePages
  <2> QED BY <1>3, <2>1, <2>5, <2>8, <2>9 DEF rest, b
<1>4. CASE ~(Moves(pages, op) /\ op.to < Len(pages))
  BY <1>2, <1>4 DEF MoveBlock
<1> QED BY <1>3, <1>4

(* The list MergeOnPage builds: what precedes the first merged block, that *)
(* block under its new id, and what follows without the merged ones.       *)
LEMMA MergeOnPageProperties ==
    ASSUME NEW blocks \in Seq(Block), NEW op \in Operation, op.type = "mergeBlocks",
           Ids(blocks) \cap op.ids # {}
    PROVE  \E first \in 1 .. Len(blocks) :
             LET merged == [blocks[first] EXCEPT !.id = op.id, !.text = op.text]
                 tail == SubSeq(blocks, first + 1, Len(blocks))
             IN  /\ blocks[first].id \in op.ids
                 /\ \A k \in 1 .. first - 1 : blocks[k].id \notin op.ids
                 /\ MergeOnPage(blocks, op) =
                       SubSeq(blocks, 1, first - 1) \o <<merged>> \o Without(tail, op.ids)
<1> DEFINE I == {j \in 1 .. Len(blocks) : blocks[j].id \in op.ids}
<1>1. IsFiniteSet(I) /\ I \in SUBSET Int /\ I # {}
  <2>1. IsFiniteSet(1 .. Len(blocks)) /\ I \subseteq 1 .. Len(blocks)
    BY FS_Interval
  <2>2. I # {}
    BY DEF Ids
  <2>3. I \in SUBSET Int
    OBVIOUS
  <2> HIDE DEF I
  <2> QED BY <2>1, <2>2, <2>3, FS_Subset
<1>2. PICK i \in I : \A k \in I : i <= k
  <2> HIDE DEF I
  <2> QED BY <1>1, LeastAndGreatest
<1>3. /\ i \in 1 .. Len(blocks) /\ blocks[i].id \in op.ids
      /\ \A k \in 1 .. i - 1 : blocks[k].id \notin op.ids
  BY <1>2
<1> DEFINE first == CHOOSE j \in 1 .. Len(blocks) :
                        /\ blocks[j].id \in op.ids
                        /\ \A k \in 1 .. j - 1 : blocks[k].id \notin op.ids
<1>4. /\ first \in 1 .. Len(blocks) /\ blocks[first].id \in op.ids
      /\ \A k \in 1 .. first - 1 : blocks[k].id \notin op.ids
  BY <1>3
<1>5. MergeOnPage(blocks, op) =
         SubSeq(blocks, 1, first - 1)
         \o <<[blocks[first] EXCEPT !.id = op.id, !.text = op.text]>>
         \o Without(SubSeq(blocks, first + 1, Len(blocks)), op.ids)
  BY DEF MergeOnPage
<1> HIDE DEF first
<1> QED BY <1>4, <1>5

LEMMA MergeBlocksPages ==
    ASSUME NEW pages \in Seq(Page), NEW op \in Operation, op.type = "mergeBlocks"
    PROVE  /\ SamePages(pages, MergeBlocks(pages, op))
           /\ \A i \in 1 .. Len(pages) :
                 MergeBlocks(pages, op)[i].blocks = MergeOnPage(pages[i].blocks, op)
<1>1. ASSUME NEW blocks \in Seq(Block)
      PROVE  MergeOnPage(blocks, op) \in Seq(Block)
  <2>1. CASE Ids(blocks) \cap op.ids = {}
    BY <2>1 DEF MergeOnPage
  <2>2. CASE Ids(blocks) \cap op.ids # {}
    <3>1. PICK first \in 1 .. Len(blocks) :
             MergeOnPage(blocks, op) =
                SubSeq(blocks, 1, first - 1)
                \o <<[blocks[first] EXCEPT !.id = op.id, !.text = op.text]>>
                \o Without(SubSeq(blocks, first + 1, Len(blocks)), op.ids)
      BY <2>2, MergeOnPageProperties
    <3>2. SubSeq(blocks, 1, first - 1) \in Seq(Block)
      BY SubSeqProperties
    <3>3. SubSeq(blocks, first + 1, Len(blocks)) \in Seq(Block)
      BY SubSeqProperties
    <3>4. Without(SubSeq(blocks, first + 1, Len(blocks)), op.ids) \in Seq(Block)
      BY <3>3, WithoutProperties
    <3>5. [blocks[first] EXCEPT !.id = op.id, !.text = op.text] \in Block
      <4>1. blocks[first] \in Block
        OBVIOUS
      <4> QED BY <4>1, OperationFields DEF Block
    <3> QED BY <3>1, <3>2, <3>4, <3>5, ConcatProperties
  <2> QED BY <2>1, <2>2
<1> DEFINE new == [i \in 1 .. Len(pages) |-> MergeOnPage(pages[i].blocks, op)]
<1>2. new \in [1 .. Len(pages) -> Seq(Block)]
  BY <1>1, PageFields
<1>3. MergeBlocks(pages, op) = [i \in 1 .. Len(pages) |-> OnBlocks(pages[i], new[i])]
  BY DEF MergeBlocks
<1>4. \A i \in 1 .. Len(pages) : new[i] = MergeOnPage(pages[i].blocks, op)
  OBVIOUS
<1> HIDE DEF new
<1> QED BY <1>2, <1>3, <1>4, EachPage

(* The renumbering loop gives every page its position and leaves it its    *)
(* blocks.                                                                 *)
LEMMA RenumberProperties ==
    ASSUME NEW pages \in Seq(Page)
    PROVE  /\ Renumber(pages) \in Seq(Page)
           /\ Len(Renumber(pages)) = Len(pages)
           /\ Numbered(Renumber(pages))
           /\ \A i \in 1 .. Len(pages) : Renumber(pages)[i].blocks = pages[i].blocks
<1> DEFINE New(i) == [pages[i] EXCEPT !.index = i - 1]
<1>1. \A i \in 1 .. Len(pages) :
         New(i) \in Page /\ New(i).index = i - 1 /\ New(i).blocks = pages[i].blocks
  <2>1. ASSUME NEW p \in Page, NEW n \in Int
        PROVE  LET q == [p EXCEPT !.index = n]
               IN  q \in Page /\ q.index = n /\ q.blocks = p.blocks
    BY DEF Page
  <2>2. \A i \in 1 .. Len(pages) : pages[i] \in Page /\ i - 1 \in Int
    OBVIOUS
  <2> QED BY <2>1, <2>2
<1>2. Renumber(pages) = [i \in 1 .. Len(pages) |-> New(i)]
  BY DEF Renumber
<1> HIDE DEF New
<1> QED BY <1>1, <1>2 DEF Numbered

(* The list of pages InsertPage renumbers.                                 *)
LEMMA InsertPageProperties ==
    ASSUME NEW pages \in Seq(Page), NEW op \in Operation, op.type = "insertPage",
           ~InsertPageRaises(pages, op)
    PROVE  \E at \in 0 .. Len(pages) :
              /\ AddAt(pages, at, op.new) \in Seq(Page)
              /\ InsertPage(pages, op) = Renumber(AddAt(pages, at, op.new))
<1> DEFINE at == Least(Increment(op.after), Len(pages))
<1>. MaxInt \in Nat
  BY SMT DEF MaxInt
<1>1. op.after \in Int /\ op.new \in Page
  BY OperationFields
<1>2. Increment(op.after) \in Nat
  BY <1>1 DEF InsertPageRaises, Increment
<1>3. at \in 0 .. Len(pages)
  BY <1>2 DEF Least
<1>4. InsertPage(pages, op) = Renumber(AddAt(pages, at, op.new))
  BY DEF InsertPage
<1> HIDE DEF at
<1> QED BY <1>1, <1>3, <1>4, AddAtProperties

(* The list of pages DeletePage renumbers: without the deleted one.        *)
LEMMA DeletePageProperties ==
    ASSUME NEW pages \in Seq(Page), NEW op \in Operation, op.type = "deletePage"
    PROVE  \E left \in Seq(Page) :
              /\ DeletePage(pages, op) = Renumber(left)
              /\ ~IsIndex(op.page, pages) => left = pages
              /\ IsIndex(op.page, pages) =>
                    /\ Len(left) = Len(pages) - 1
                    /\ \A i \in 1 .. Len(left) :
                          left[i] = pages[IF i <= op.page THEN i ELSE i + 1]
<1>1. op.page \in Int
  BY OperationFields
<1>2. CASE ~IsIndex(op.page, pages)
  BY <1>2 DEF DeletePage
<1>3. CASE IsIndex(op.page, pages)
  <2> DEFINE n == op.page
             a == SubSeq(pages, 1, n)
             b == SubSeq(pages, n + 2, Len(pages))
  <2>1. n \in 0 .. Len(pages) - 1
    BY <1>1, <1>3 DEF IsIndex
  <2> HIDE DEF n
  <2>2. a \in Seq(Page) /\ Len(a) = n /\ \A i \in 1 .. n : a[i] = pages[i]
    BY <2>1, SubSeqProperties
  <2>3. /\ b \in Seq(Page) /\ Len(b) = Len(pages) - n - 1
        /\ \A i \in 1 .. Len(pages) - n - 1 : b[i] = pages[n + 1 + i]
    BY <2>1, SubSeqProperties
  <2>4. DeletePage(pages, op) = Renumber(a \o b)
    BY <1>3 DEF DeletePage, n
  <2> HIDE DEF a, b
  <2>5. /\ a \o b \in Seq(Page)
        /\ Len(a \o b) = Len(pages) - 1
        /\ \A i \in 1 .. Len(pages) - 1 :
              (a \o b)[i] = IF i <= n THEN a[i] ELSE b[i - n]
    <3>1. /\ a \o b \in Seq(Page) /\ Len(a \o b) = Len(a) + Len(b)
          /\ \A i \in 1 .. Len(a) + Len(b) :
                (a \o b)[i] = IF i <= Len(a) THEN a[i] ELSE b[i - Len(a)]
      BY <2>2, <2>3, ConcatProperties
    <3>2. Len(a) + Len(b) = Len(pages) - 1
      BY <2>1, <2>2, <2>3
    <3> QED BY <2>2, <3>1, <3>2
  <2>6. \A i \in 1 .. Len(pages) - 1 :
           (a \o b)[i] = pages[IF i <= n THEN i ELSE i + 1]
    BY <2>1, <2>2, <2>3, <2>5
  <2>7. n = op.page
    BY DEF n
  <2> QED BY <1>3, <2>4, <2>5, <2>6, <2>7
<1> QED BY <1>2, <1>3

(* Every operation that does not raise makes a list of pages of a list of  *)
(* pages, and keeps the numbering.                                         *)
LEMMA ApplyPages ==
    ASSUME NEW pages \in Seq(Page), NEW op \in Operation,
           ~OperationRaises(pages, op)
    PROVE  /\ applyOperation(pages, op) \in Seq(Page)
           /\ Numbered(pages) => Numbered(applyOperation(pages, op))
<1> DEFINE after == applyOperation(pages, op)
<1> SUFFICES after \in Seq(Page) /\ (Numbered(pages) => Numbered(after))
  OBVIOUS
<1> HIDE DEF after
<1>1. SamePages(pages, after) => after \in Seq(Page) /\ (Numbered(pages) => Numbered(after))
  BY DEF SamePages, Numbered
<1>2. CASE op.type \in {"replaceText", "updateStyle", "replaceImage"}
  <2>1. op.value \in Values
    BY <1>2, OperationFields
  <2>2. \E field \in {"text", "style", "image"} : after = UpdateField(pages, op, field)
    BY <1>2 DEF after, applyOperation, ReplaceText, UpdateStyle, ReplaceImage
  <2> QED BY <1>1, <2>1, <2>2, UpdateFieldPages
<1>3. CASE op.type = "insertBlock"
  <2>1. after = InsertBlock(pages, op)
    BY <1>3 DEF after, applyOperation
  <2> QED BY <1>1, <1>3, <2>1, InsertBlockPages DEF OperationRaises
<1>4. CASE op.type = "deleteBlock"
  <2>1. after = DeleteBlock(pages, op)
    BY <1>4 DEF after, applyOperation
  <2> QED BY <1>1, <2>1, DeleteBlockPages
<1>5. CASE op.type = "moveBlock"
  <2>1. after = MoveBlock(pages, op)
    BY <1>5 DEF after, applyOperation
  <2> QED BY <1>1, <1>5, <2>1, MoveBlockPages DEF OperationRaises
<1>6. CASE op.type = "insertPage"
  <2>1. after = InsertPage(pages, op)
    BY <1>6 DEF after, applyOperation
  <2> QED BY <1>6, <2>1, InsertPageProperties, RenumberProperties DEF OperationRaises
<1>7. CASE op.type = "deletePage"
  <2>1. after = DeletePage(pages, op)
    BY <1>7 DEF after, applyOperation
  <2> QED BY <1>7, <2>1, DeletePageProperties, RenumberProperties
<1>8. CASE op.type = "mergeBlocks"
  <2>1. after = MergeBlocks(pages, op)
    BY <1>8 DEF after, applyOperation
  <2> QED BY <1>1, <1>8, <2>1, MergeBlocksPages
<1>9. CASE op.type = "updateMetadata"
  BY <1>9 DEF after, applyOperation
<1> QED BY <1>2, <1>3, <1>4, <1>5, <1>6, <1>7, <1>8, <1>9, OperationFields

-----------------------------------------------------------------------------
(* Which ids a list of blocks has, and whether each only once, after its   *)
(* blocks were filtered, added to or merged.                               *)
LEMMA WithoutIds ==
    ASSUME NEW blocks \in Seq(Block), NEW ids
    PROVE  /\ Ids(Without(blocks, ids)) = Ids(blocks) \ ids
           /\ Distinct(blocks) => Distinct(Without(blocks, ids))
<1> DEFINE w == Without(blocks, ids)
<1>1. w \in Seq(Block)
  BY WithoutProperties
<1>2. PICK f \in [1 .. Len(w) -> 1 .. Len(blocks)] :
         /\ \A n \in 1 .. Len(w) : w[n] = blocks[f[n]] /\ blocks[f[n]].id \notin ids
         /\ \A m, n \in 1 .. Len(w) : m < n => f[m] < f[n]
         /\ \A j \in 1 .. Len(blocks) : blocks[j].id \notin ids =>
               \E n \in 1 .. Len(w) : f[n] = j
  BY WithoutProperties
<1> HIDE DEF w
<1>3. Ids(w) = Ids(blocks) \ ids
  <2>1. \A x \in Ids(w) : x \in Ids(blocks) /\ x \notin ids
    BY <1>2 DEF Ids
  <2>2. ASSUME NEW x \in Ids(blocks), x \notin ids
        PROVE  x \in Ids(w)
    <3>1. PICK j \in 1 .. Len(blocks) : blocks[j].id = x
      BY DEF Ids
    <3>2. PICK n \in 1 .. Len(w) : f[n] = j
      BY <1>2, <2>2, <3>1
    <3> QED BY <1>2, <3>1, <3>2 DEF Ids
  <2> QED BY <2>1, <2>2
<1>4. ASSUME Distinct(blocks), NEW m \in 1 .. Len(w), NEW n \in 1 .. Len(w),
             w[m].id = w[n].id
      PROVE  m = n
  <2>1. f[m] = f[n]
    BY <1>2, <1>4 DEF Distinct
  <2>2. m \in Int /\ n \in Int /\ f[m] \in Int
    BY <1>1, <1>2
  <2> QED BY <1>2, <2>1, <2>2
<1> QED BY <1>3, <1>4 DEF w, Distinct

LEMMA AddAtIds ==
    ASSUME NEW s \in Seq(Block), NEW at \in 0 .. Len(s), NEW b \in Block
    PROVE  /\ Ids(AddAt(s, at, b)) = Ids(s) \cup {b.id}
           /\ Distinct(s) /\ b.id \notin Ids(s) => Distinct(AddAt(s, at, b))
<1> DEFINE t == AddAt(s, at, b)
<1>1. /\ t \in Seq(Block) /\ Len(t) = Len(s) + 1
      /\ \A i \in 1 .. Len(s) + 1 :
            t[i] = IF i <= at THEN s[i] ELSE IF i = at + 1 THEN b ELSE s[i - 1]
  BY AddAtProperties
<1> HIDE DEF t
<1>2. Ids(t) = Ids(s) \cup {b.id}
  <2>1. Ids(t) \subseteq Ids(s) \cup {b.id}
    BY <1>1 DEF Ids
  <2>2. \A j \in 1 .. Len(s) : s[j].id \in Ids(t)
    <3> TAKE j \in 1 .. Len(s)
    <3>1. CASE j <= at
      BY <1>1, <3>1 DEF Ids
    <3>2. CASE j > at
      <4>1. j + 1 \in 1 .. Len(t) /\ t[j + 1] = s[j]
        BY <1>1, <3>2
      <4> QED BY <4>1 DEF Ids
    <3> QED BY <3>1, <3>2
  <2>3. b.id \in Ids(t)
    <3>1. at + 1 \in 1 .. Len(t) /\ t[at + 1] = b
      BY <1>1
    <3> QED BY <3>1 DEF Ids
  <2> QED BY <2>1, <2>2, <2>3 DEF Ids
<1>3. ASSUME Distinct(s), b.id \notin Ids(s),
             NEW j \in 1 .. Len(t), NEW k \in 1 .. Len(t), t[j].id = t[k].id
      PROVE  j = k
  <2>1. \A i \in 1 .. Len(t) : i # at + 1 =>
           LET old == IF i <= at THEN i ELSE i - 1
           IN  old \in 1 .. Len(s) /\ t[i] = s[old]
    BY <1>1
  <2>2. \A i \in 1 .. Len(t) : i # at + 1 => t[i].id \in Ids(s)
    BY <2>1 DEF Ids
  <2>3. t[at + 1] = b
    BY <1>1
  <2>4. (j = at + 1) = (k = at + 1)
    BY <1>3, <2>2, <2>3
  <2>5. CASE j # at + 1
    <3>1. PICK j0 \in 1 .. Len(s) : t[j] = s[j0] /\ j0 = IF j <= at THEN j ELSE j - 1
      BY <2>1, <2>5
    <3>2. PICK k0 \in 1 .. Len(s) : t[k] = s[k0] /\ k0 = IF k <= at THEN k ELSE k - 1
      BY <2>1, <2>4, <2>5
    <3>3. j0 = k0
      BY <1>3, <3>1, <3>2 DEF Distinct
    <3>4. j \in Int /\ k \in Int /\ at \in Int
      BY <1>1
    <3> QED BY <2>4, <2>5, <3>1, <3>2, <3>3, <3>4
  <2> QED BY <2>4, <2>5
<1> QED BY <1>2, <1>3 DEF t, Distinct

LEMMA ConcatIds ==
    ASSUME NEW s \in Seq(Block), NEW t \in Seq(Block)
    PROVE  /\ Ids(s \o t) = Ids(s) \cup Ids(t)
           /\ Distinct(s) /\ Distinct(t) /\ Ids(s) \cap Ids(t) = {} => Distinct(s \o t)
<1> DEFINE u == s \o t
<1>1. PICK m \in Nat, n \in Nat : m = Len(s) /\ n = Len(t)
  OBVIOUS
<1>2. /\ Len(u) = m + n
      /\ \A i \in 1 .. m + n : u[i] = IF i <= m THEN s[i] ELSE t[i - m]
  BY <1>1, ConcatProperties
<1> HIDE DEF u
<1>3. \A i \in 1 .. m + n :
         \/ i <= m /\ i \in 1 .. m /\ u[i] = s[i]
         \/ i > m /\ i - m \in 1 .. n /\ u[i] = t[i - m]
  BY <1>2
<1>4. \A i \in 1 .. n : m + i \in 1 .. m + n /\ u[m + i] = t[i]
  <2> TAKE i \in 1 .. n
  <2>1. m + i \in 1 .. m + n /\ ~(m + i <= m) /\ (m + i) - m = i
    OBVIOUS
  <2> QED BY <1>2, <2>1
<1>5. Ids(u) = Ids(s) \cup Ids(t)
  <2>1. \A i \in 1 .. m + n : u[i].id \in Ids(s) \cup Ids(t)
    BY <1>1, <1>3 DEF Ids
  <2>2. \A j \in 1 .. m : s[j].id \in Ids(u)
    <3> TAKE j \in 1 .. m
    <3>1. j \in 1 .. m + n /\ j <= m
      OBVIOUS
    <3>2. u[j] = s[j]
      BY <1>2, <3>1
    <3> QED BY <1>2, <3>1, <3>2 DEF Ids
  <2>3. \A j \in 1 .. n : t[j].id \in Ids(u)
    BY <1>2, <1>4 DEF Ids
  <2> QED BY <1>1, <1>2, <2>1, <2>2, <2>3 DEF Ids
<1>6. ASSUME Distinct(s), Distinct(t), Ids(s) \cap Ids(t) = {},
             NEW j \in 1 .. m + n, NEW k \in 1 .. m + n, u[j].id = u[k].id
      PROVE  j = k
  <2>1. \A i \in 1 .. m + n :
           /\ i <= m => i \in 1 .. m /\ u[i].id = s[i].id /\ u[i].id \in Ids(s)
           /\ i > m => i - m \in 1 .. n /\ u[i].id = t[i - m].id /\ u[i].id \in Ids(t)
    BY <1>1, <1>3 DEF Ids
  <2>2. j \in Int /\ k \in Int
    OBVIOUS
  <2>3. j <= m <=> k <= m
    BY <1>6, <2>1, <2>2
  <2>4. CASE j <= m
    BY <1>1, <1>6, <2>1, <2>3, <2>4 DEF Distinct
  <2>5. CASE j > m
    <3>1. j - m = k - m
      BY <1>1, <1>6, <2>1, <2>2, <2>3, <2>5 DEF Distinct
    <3> QED BY <2>2, <3>1
  <2> QED BY <2>2, <2>4, <2>5
<1>7. Distinct(s) /\ Distinct(t) /\ Ids(s) \cap Ids(t) = {} => Distinct(u)
  BY <1>2, <1>6 DEF Distinct
<1> QED BY <1>5, <1>7 DEF u

LEMMA SplitIds ==
    ASSUME NEW s \in Seq(Block), NEW n \in 1 .. Len(s)
    PROVE  LET head == SubSeq(s, 1, n - 1)
               tail == SubSeq(s, n + 1, Len(s))
           IN  /\ head \in Seq(Block) /\ tail \in Seq(Block)
               /\ Len(head) = n - 1 /\ \A i \in 1 .. n - 1 : head[i] = s[i]
               /\ Ids(s) = Ids(head) \cup {s[n].id} \cup Ids(tail)
               /\ Distinct(s) => /\ Distinct(head) /\ Distinct(tail)
                                 /\ Ids(head) \cap Ids(tail) = {}
<1> DEFINE head == SubSeq(s, 1, n - 1)
           tail == SubSeq(s, n + 1, Len(s))
<1>1. PICK m \in Nat : m = Len(s) - n
  OBVIOUS
<1>2. /\ head \in Seq(Block) /\ Len(head) = n - 1
      /\ \A i \in 1 .. n - 1 : head[i] = s[i]
  BY SubSeqProperties
<1>3. /\ tail \in Seq(Block) /\ Len(tail) = m
      /\ \A i \in 1 .. m : tail[i] = s[n + i]
  BY <1>1, SubSeqProperties
<1> HIDE DEF head, tail
<1>4. \A i \in 1 .. m : n + i \in 1 .. Len(s)
  BY <1>1
<1>5. \A i \in 1 .. Len(s) : i < n \/ i = n \/ (i - n \in 1 .. m /\ n + (i - n) = i)
  BY <1>1
<1>6. Ids(s) = Ids(head) \cup {s[n].id} \cup Ids(tail)
  <2>1. ASSUME NEW i \in 1 .. Len(s)
        PROVE  s[i].id \in Ids(head) \cup {s[n].id} \cup Ids(tail)
    <3>1. CASE i < n
      <4>1. i \in 1 .. n - 1
        BY <3>1
      <4> QED BY <1>2, <4>1 DEF Ids
    <3>2. CASE i - n \in 1 .. m /\ n + (i - n) = i
      <4>1. tail[i - n] = s[i]
        BY <1>3, <3>2
      <4> QED BY <1>3, <3>2, <4>1 DEF Ids
    <3> QED BY <1>5, <3>1, <3>2
  <2>2. Ids(head) \subseteq Ids(s)
    BY <1>2 DEF Ids
  <2>3. Ids(tail) \subseteq Ids(s)
    BY <1>3, <1>4 DEF Ids
  <2> QED BY <2>1, <2>2, <2>3 DEF Ids
<1>7. ASSUME Distinct(s)
      PROVE  /\ Distinct(head) /\ Distinct(tail)
             /\ Ids(head) \cap Ids(tail) = {}
  <2>1. Distinct(head)
    BY <1>2, <1>7 DEF Distinct
  <2>2. ASSUME NEW j \in 1 .. m, NEW k \in 1 .. m, tail[j].id = tail[k].id
        PROVE  j = k
    <3>1. s[n + j].id = s[n + k].id
      BY <1>3, <2>2
    <3>2. n + j = n + k
      BY <1>4, <1>7, <3>1 DEF Distinct
    <3> QED BY <3>2
  <2>3. \A j \in 1 .. n - 1, k \in 1 .. m : head[j].id # tail[k].id
    <3> TAKE j \in 1 .. n - 1, k \in 1 .. m
    <3>1. j # n + k /\ j \in 1 .. Len(s)
      OBVIOUS
    <3> QED BY <1>2, <1>3, <1>4, <1>7, <3>1 DEF Distinct
  <2>4. Distinct(tail)
    BY <1>3, <2>2 DEF Distinct
  <2>5. Ids(head) \cap Ids(tail) = {}
    BY <1>2, <1>3, <2>3 DEF Ids
  <2> QED BY <2>1, <2>4, <2>5
<1> QED BY <1>2, <1>3, <1>6, <1>7 DEF head, tail

LEMMA MergeIds ==
    ASSUME NEW s \in Seq(Block), NEW op \in Operation, op.type = "mergeBlocks",
           Ids(s) \cap op.ids # {}
    PROVE  /\ Ids(MergeOnPage(s, op)) = (Ids(s) \ op.ids) \cup {op.id}
           /\ Distinct(s) /\ op.id \notin Ids(s) \ op.ids => Distinct(MergeOnPage(s, op))
<1>1. PICK n \in 1 .. Len(s) :
         /\ s[n].id \in op.ids
         /\ \A k \in 1 .. n - 1 : s[k].id \notin op.ids
         /\ MergeOnPage(s, op) =
               SubSeq(s, 1, n - 1)
               \o <<[s[n] EXCEPT !.id = op.id, !.text = op.text]>>
               \o Without(SubSeq(s, n + 1, Len(s)), op.ids)
  BY MergeOnPageProperties
<1> DEFINE head == SubSeq(s, 1, n - 1)
           tail == SubSeq(s, n + 1, Len(s))
           merged == [s[n] EXCEPT !.id = op.id, !.text = op.text]
           rest == Without(tail, op.ids)
<1>2. /\ head \in Seq(Block) /\ tail \in Seq(Block)
      /\ Len(head) = n - 1 /\ \A i \in 1 .. n - 1 : head[i] = s[i]
      /\ Ids(s) = Ids(head) \cup {s[n].id} \cup Ids(tail)
      /\ Distinct(s) => /\ Distinct(head) /\ Distinct(tail)
                        /\ Ids(head) \cap Ids(tail) = {}
  BY SplitIds
<1>3. merged \in Block /\ merged.id = op.id
  <2>1. s[n] \in Block
    OBVIOUS
  <2> QED BY <2>1, OperationFields DEF Block
<1>4. MergeOnPage(s, op) = (head \o <<merged>>) \o rest
  BY <1>1
<1> HIDE DEF head, tail, merged
<1>5. rest \in Seq(Block) /\ Ids(rest) = Ids(tail) \ op.ids /\ (Distinct(tail) => Distinct(rest))
  BY <1>2, WithoutProperties, WithoutIds
<1> HIDE DEF rest
<1>6. Ids(head) \cap op.ids = {}
  <2>1. \A k \in 1 .. n - 1 : head[k].id \notin op.ids
    BY <1>1, <1>2
  <2>2. \A x \in Ids(head) : \E k \in 1 .. n - 1 : head[k].id = x
    BY <1>2 DEF Ids
  <2> QED BY <2>1, <2>2
<1>7. <<merged>> \in Seq(Block) /\ Ids(<<merged>>) = {op.id} /\ Distinct(<<merged>>)
  BY <1>3 DEF Ids, Distinct
<1> DEFINE front == head \o <<merged>>
<1>8. /\ front \in Seq(Block)
      /\ Ids(front) = Ids(head) \cup {op.id}
      /\ Distinct(head) /\ op.id \notin Ids(head) => Distinct(front)
  <2>1. front \in Seq(Block)
    BY <1>2, <1>7, ConcatProperties
  <2>2. /\ Ids(front) = Ids(head) \cup Ids(<<merged>>)
        /\ Distinct(head) /\ Distinct(<<merged>>) /\ Ids(head) \cap Ids(<<merged>>) = {} =>
              Distinct(front)
    BY <1>2, <1>7, ConcatIds
  <2> HIDE DEF front
  <2>3. op.id \notin Ids(head) => Ids(head) \cap Ids(<<merged>>) = {}
    BY <1>7
  <2> QED BY <1>7, <2>1, <2>2, <2>3
<1> HIDE DEF front
<1>9. /\ Ids(front \o rest) = Ids(front) \cup Ids(rest)
      /\ Distinct(front) /\ Distinct(rest) /\ Ids(front) \cap Ids(rest) = {} =>
            Distinct(front \o rest)
  BY <1>5, <1>8, ConcatIds
<1>10. Ids(front \o rest) = (Ids(s) \ op.ids) \cup {op.id}
  BY <1>1, <1>2, <1>5, <1>6, <1>8, <1>9
<1>11. Distinct(s) /\ op.id \notin Ids(s) \ op.ids => Distinct(front \o rest)
  BY <1>2, <1>5, <1>6, <1>8, <1>9
<1> QED BY <1>4, <1>10, <1>11 DEF front

-----------------------------------------------------------------------------
(* Which ids a document has, page by page.                                 *)
PageIds(ps, i) == Ids(ps[i].blocks)

LEMMA DocumentIds ==
    ASSUME NEW ps, NEW x
    PROVE  x \in BlockIdsOf(ps) <=> \E i \in 1 .. Len(ps) : x \in PageIds(ps, i)
BY DEF BlockIdsOf, PageIds

(* Pages that lose blocks, and nothing else, keep the ids unique.          *)
LEMMA FewerIds ==
    ASSUME NEW before, NEW after, Len(after) = Len(before),
           \A i \in 1 .. Len(before) :
              /\ PageIds(after, i) \subseteq PageIds(before, i)
              /\ Distinct(before[i].blocks) => Distinct(after[i].blocks)
    PROVE  UniqueIds(before) => UniqueIds(after)
<1> SUFFICES ASSUME UniqueIds(before) PROVE UniqueIds(after)
  OBVIOUS
<1>1. \A i \in 1 .. Len(after) : Distinct(after[i].blocks)
  BY DEF UniqueIds
<1>2. \A i, k \in 1 .. Len(after) : i # k => PageIds(after, i) \cap PageIds(after, k) = {}
  <2>1. \A i, k \in 1 .. Len(before) :
           i # k => PageIds(before, i) \cap PageIds(before, k) = {}
    BY DEF UniqueIds, PageIds
  <2> QED BY <2>1
<1> QED BY <1>1, <1>2 DEF UniqueIds, PageIds

(* One more block on one page.                                             *)
LEMMA OneMoreId ==
    ASSUME NEW before, NEW after, Len(after) = Len(before),
           NEW n \in 1 .. Len(before), NEW id,
           PageIds(after, n) = PageIds(before, n) \cup {id},
           Distinct(before[n].blocks) /\ id \notin PageIds(before, n) =>
              Distinct(after[n].blocks),
           \A i \in 1 .. Len(before) : i # n => after[i] = before[i]
    PROVE  /\ BlockIdsOf(after) = BlockIdsOf(before) \cup {id}
           /\ UniqueIds(before) /\ id \notin BlockIdsOf(before) => UniqueIds(after)
<1>1. \A i \in 1 .. Len(before) : i # n => PageIds(after, i) = PageIds(before, i)
  BY DEF PageIds
<1>2. BlockIdsOf(after) = BlockIdsOf(before) \cup {id}
  <2>1. \A x : x \in BlockIdsOf(after) <=> x \in BlockIdsOf(before) \cup {id}
    BY <1>1, DocumentIds
  <2> QED BY <2>1
<1>3. ASSUME UniqueIds(before), id \notin BlockIdsOf(before)
      PROVE  UniqueIds(after)
  <2>1. \A i \in 1 .. Len(before) : id \notin PageIds(before, i)
    BY <1>3, DocumentIds
  <2>2. \A i \in 1 .. Len(after) : Distinct(after[i].blocks)
    BY <1>3, <2>1 DEF UniqueIds
  <2>3. \A i, k \in 1 .. Len(before) :
           i # k => PageIds(before, i) \cap PageIds(before, k) = {}
    BY <1>3 DEF UniqueIds, PageIds
  <2>4. \A i, k \in 1 .. Len(after) : i # k => PageIds(after, i) \cap PageIds(after, k) = {}
    BY <1>1, <2>1, <2>3
  <2> QED BY <2>2, <2>4 DEF UniqueIds, PageIds
<1> QED BY <1>2, <1>3

-----------------------------------------------------------------------------
(* Each operation loses and repeats no other id than it may.               *)
LEMMA UpdateFieldConserves ==
    ASSUME NEW pages \in Seq(Page), NEW op, op.value \in Values,
           NEW field \in {"text", "style", "image"}
    PROVE  Conserves(op, pages, UpdateField(pages, op, field))
<1>1. PICK after : after = UpdateField(pages, op, field)
  OBVIOUS
<1>2. /\ Len(after) = Len(pages)
      /\ \A i \in 1 .. Len(pages) :
            /\ Len(after[i].blocks) = Len(pages[i].blocks)
            /\ \A j \in 1 .. Len(pages[i].blocks) :
                  after[i].blocks[j].id = pages[i].blocks[j].id
  <2>1. /\ SamePages(pages, UpdateField(pages, op, field))
        /\ \A i \in 1 .. Len(pages) :
              /\ Len(UpdateField(pages, op, field)[i].blocks) = Len(pages[i].blocks)
              /\ \A j \in 1 .. Len(pages[i].blocks) :
                    UpdateField(pages, op, field)[i].blocks[j].id =
                       pages[i].blocks[j].id
    BY UpdateFieldPages, Zenon
  <2>2. Len(after) = Len(pages)
    BY <1>1, <2>1 DEF SamePages
  <2> QED BY <1>1, <2>1, <2>2
<1>3. \A i \in 1 .. Len(pages) :
         /\ PageIds(after, i) = PageIds(pages, i)
         /\ Distinct(pages[i].blocks) => Distinct(after[i].blocks)
  BY <1>2 DEF PageIds, Ids, Distinct
<1>4. UniqueIds(pages) => UniqueIds(after)
  BY <1>2, <1>3, FewerIds
<1>5. \A x : x \in BlockIdsOf(pages) => x \in BlockIdsOf(after)
  BY <1>2, <1>3, DocumentIds
<1> QED BY <1>1, <1>4, <1>5 DEF Conserves

LEMMA InsertBlockConserves ==
    ASSUME NEW pages \in Seq(Page), NEW op \in Operation, op.type = "insertBlock",
           ~InsertBlockRaises(pages, op)
    PROVE  Conserves(op, pages, InsertBlock(pages, op))
<1>1. PICK after : after = InsertBlock(pages, op)
  OBVIOUS
<1>2. PICK b \in Block : b = op.block
  BY OperationFields
<1>3. CASE after = pages
  BY <1>1, <1>3 DEF Conserves
<1>4. CASE after # pages
  <2>. PICK n \in 1 .. Len(pages) : \E at \in 0 .. Len(pages[n].blocks) :
           OneChanged(pages, after, n, AddAt(pages[n].blocks, at, b))
    BY <1>1, <1>2, <1>4, InsertBlockPages
  <2>1. PICK at \in 0 .. Len(pages[n].blocks) :
           OneChanged(pages, after, n, AddAt(pages[n].blocks, at, b))
    OBVIOUS
  <2>2. pages[n].blocks \in Seq(Block)
    BY PageFields
  <2>3. /\ Len(after) = Len(pages)
        /\ after[n].blocks = AddAt(pages[n].blocks, at, b)
        /\ \A i \in 1 .. Len(pages) : i # n => after[i] = pages[i]
    BY <2>1 DEF OneChanged, SamePages
  <2>4. /\ PageIds(after, n) = PageIds(pages, n) \cup {b.id}
        /\ Distinct(pages[n].blocks) /\ b.id \notin PageIds(pages, n) =>
              Distinct(after[n].blocks)
    BY <2>2, <2>3, AddAtIds DEF PageIds
  <2>5. /\ BlockIdsOf(after) = BlockIdsOf(pages) \cup {b.id}
        /\ UniqueIds(pages) /\ b.id \notin BlockIdsOf(pages) => UniqueIds(after)
    BY <2>3, <2>4, OneMoreId
  <2> QED BY <1>1, <1>2, <2>5 DEF Conserves, MayDuplicate
<1> QED BY <1>3, <1>4

LEMMA DeleteBlockConserves ==
    ASSUME NEW pages \in Seq(Page), NEW op, op.type = "deleteBlock"
    PROVE  Conserves(op, pages, DeleteBlock(pages, op))
<1>1. PICK after : after = DeleteBlock(pages, op)
  OBVIOUS
<1>2. /\ Len(after) = Len(pages)
      /\ \A i \in 1 .. Len(pages) : after[i].blocks = Without(pages[i].blocks, {op.id})
  BY <1>1, DeleteBlockPages DEF SamePages
<1>3. \A i \in 1 .. Len(pages) :
         /\ PageIds(after, i) = PageIds(pages, i) \ {op.id}
         /\ Distinct(pages[i].blocks) => Distinct(after[i].blocks)
  BY <1>2, PageFields, WithoutIds DEF PageIds
<1>4. UniqueIds(pages) => UniqueIds(after)
  BY <1>2, <1>3, FewerIds
<1>5. \A x : x \in BlockIdsOf(pages) /\ x # op.id => x \in BlockIdsOf(after)
  BY <1>2, <1>3, DocumentIds
<1> QED BY <1>1, <1>4, <1>5 DEF Conserves, MayDrop

LEMMA MoveBlockConserves ==
    ASSUME NEW pages \in Seq(Page), NEW op \in Operation, op.type = "moveBlock",
           ~MoveBlockRaises(pages, op)
    PROVE  Conserves(op, pages, MoveBlock(pages, op))
<1>1. PICK after : after = MoveBlock(pages, op)
  OBVIOUS
<1>2. PICK rest : rest = WithoutMoved(pages, op)
  OBVIOUS
<1>3. PICK n : n = op.from + 1
  OBVIOUS
<1>4. rest \in Seq(Page) /\ Len(rest) = Len(pages)
  BY <1>2, WithoutMovedPages DEF SamePages
<1>5. Moves(pages, op) => IsIndex(op.from, pages)
  BY DEF Moves
<1>6. IsIndex(op.from, pages) =>
         /\ n \in 1 .. Len(pages)
         /\ PageIds(rest, n) = PageIds(pages, n) \ {op.id}
         /\ Distinct(pages[n].blocks) => Distinct(rest[n].blocks)
         /\ \A i \in 1 .. Len(pages) : i # n => rest[i] = pages[i]
  <2> SUFFICES ASSUME IsIndex(op.from, pages)
               PROVE  /\ n \in 1 .. Len(pages)
                      /\ PageIds(rest, n) = PageIds(pages, n) \ {op.id}
                      /\ Distinct(pages[n].blocks) => Distinct(rest[n].blocks)
                      /\ \A i \in 1 .. Len(pages) : i # n => rest[i] = pages[i]
    OBVIOUS
  <2>1. /\ n \in 1 .. Len(pages)
        /\ OneChanged(pages, rest, n, Without(pages[n].blocks, {op.id}))
    BY <1>2, <1>3, WithoutMovedPages
  <2>2. pages[n].blocks \in Seq(Block)
    BY <2>1, PageFields
  <2> QED BY <2>1, <2>2, WithoutIds DEF OneChanged, PageIds
<1>7. ~IsIndex(op.from, pages) => rest = pages
  BY <1>2, WithoutMovedPages
<1>8. UniqueIds(pages) => UniqueIds(rest)
  <2>1. \A i \in 1 .. Len(pages) :
           /\ PageIds(rest, i) \subseteq PageIds(pages, i)
           /\ Distinct(pages[i].blocks) => Distinct(rest[i].blocks)
    BY <1>6, <1>7 DEF PageIds
  <2> QED BY <1>4, <2>1, FewerIds
<1>9. \A x : x \in BlockIdsOf(pages) /\ x # op.id => x \in BlockIdsOf(rest)
  <2>1. \A i \in 1 .. Len(pages) : \A x \in PageIds(pages, i) :
           x # op.id => x \in PageIds(rest, i)
    BY <1>6, <1>7 DEF PageIds
  <2> QED BY <1>4, <2>1, DocumentIds
<1>10. CASE Moves(pages, op) /\ op.to < Len(pages)
  <2>1. PICK b \in Block : b = Moved(pages, op) /\ b.id = op.id
    BY <1>10, MovedProperties
  <2>. PICK m \in 1 .. Len(pages) : \E at \in 0 .. Len(rest[m].blocks) :
           OneChanged(rest, after, m, AddAt(rest[m].blocks, at, b))
    BY <1>1, <1>2, <1>10, <2>1, MoveBlockPages
  <2>2. PICK at \in 0 .. Len(rest[m].blocks) :
           OneChanged(rest, after, m, AddAt(rest[m].blocks, at, b))
    OBVIOUS
  <2>3. rest[m].blocks \in Seq(Block)
    BY <1>4, PageFields
  <2>4. /\ Len(after) = Len(rest)
        /\ after[m].blocks = AddAt(rest[m].blocks, at, b)
        /\ \A i \in 1 .. Len(rest) : i # m => after[i] = rest[i]
    BY <2>2 DEF OneChanged, SamePages
  <2>5. /\ PageIds(after, m) = PageIds(rest, m) \cup {op.id}
        /\ Distinct(rest[m].blocks) /\ op.id \notin PageIds(rest, m) =>
              Distinct(after[m].blocks)
    BY <2>1, <2>3, <2>4, AddAtIds DEF PageIds
  <2>6. /\ BlockIdsOf(after) = BlockIdsOf(rest) \cup {op.id}
        /\ UniqueIds(rest) /\ op.id \notin BlockIdsOf(rest) => UniqueIds(after)
    <3>1. m \in 1 .. Len(rest)
      BY <1>4
    <3>2. PICK id : id = op.id
      OBVIOUS
    <3> QED BY <2>4, <2>5, <3>1, <3>2, OneMoreId
  <2>7. UniqueIds(pages) => op.id \notin BlockIdsOf(rest)
    <3> SUFFICES ASSUME UniqueIds(pages), NEW i \in 1 .. Len(rest),
                        op.id \in PageIds(rest, i)
                 PROVE  FALSE
      BY DocumentIds
    <3>1. op.id \in PageIds(pages, n) /\ n \in 1 .. Len(pages)
      BY <1>3, <1>5, <1>6, <1>10 DEF Moves, PageIds
    <3>2. i # n
      BY <1>5, <1>6, <1>10
    <3>3. op.id \in PageIds(pages, i)
      BY <1>4, <1>5, <1>6, <1>10, <3>2 DEF PageIds
    <3> QED BY <1>4, <3>1, <3>2, <3>3 DEF UniqueIds, PageIds
  <2> QED BY <1>1, <1>8, <1>9, <2>6, <2>7 DEF Conserves
<1>11. CASE ~Moves(pages, op)
  <2>1. after = rest
    BY <1>1, <1>2, <1>11, MoveBlockPages
  <2>2. IsIndex(op.from, pages) => op.id \notin PageIds(pages, n)
    BY <1>3, <1>11 DEF Moves, PageIds
  <2>3. \A i \in 1 .. Len(pages) : PageIds(rest, i) = PageIds(pages, i)
    BY <1>6, <1>7, <2>2 DEF PageIds
  <2>4. \A x : x \in BlockIdsOf(pages) => x \in BlockIdsOf(rest)
    BY <1>4, <2>3, DocumentIds
  <2> QED BY <1>1, <1>8, <2>1, <2>4 DEF Conserves
<1>12. CASE Moves(pages, op) /\ ~(op.to < Len(pages))
  <2>1. after = rest
    BY <1>1, <1>2, <1>12, MoveBlockPages
  <2>2. op.to >= Len(pages)
    BY <1>12, OperationFields
  <2> QED BY <1>1, <1>8, <1>9, <2>1, <2>2 DEF Conserves, MayDrop
<1> QED BY <1>10, <1>11, <1>12

(* Renumbered pages have the ids they had.                                 *)
LEMMA RenumberIds ==
    ASSUME NEW pages \in Seq(Page)
    PROVE  /\ BlockIdsOf(Renumber(pages)) = BlockIdsOf(pages)
           /\ UniqueIds(pages) => UniqueIds(Renumber(pages))
<1>1. PICK after : after = Renumber(pages)
  OBVIOUS
<1>2. /\ Len(after) = Len(pages)
      /\ \A i \in 1 .. Len(pages) : after[i].blocks = pages[i].blocks
  BY <1>1, RenumberProperties
<1>3. \A i \in 1 .. Len(pages) : PageIds(after, i) = PageIds(pages, i)
  BY <1>2 DEF PageIds
<1>4. \A x : x \in BlockIdsOf(after) <=> x \in BlockIdsOf(pages)
  BY <1>2, <1>3, DocumentIds
<1>5. UniqueIds(pages) => UniqueIds(after)
  BY <1>2, <1>3, FewerIds
<1> QED BY <1>1, <1>4, <1>5

LEMMA AddPageProperties ==
    ASSUME NEW s \in Seq(Page), NEW at \in 0 .. Len(s), NEW p \in Page
    PROVE  /\ Len(AddAt(s, at, p)) = Len(s) + 1
           /\ \A i \in 1 .. Len(s) + 1 :
                 AddAt(s, at, p)[i] =
                     IF i <= at THEN s[i] ELSE IF i = at + 1 THEN p ELSE s[i - 1]
  BY AddAtProperties

LEMMA InsertPageConserves ==
    ASSUME NEW pages \in Seq(Page), NEW op \in Operation, op.type = "insertPage",
           ~InsertPageRaises(pages, op)
    PROVE  Conserves(op, pages, InsertPage(pages, op))
<1>1. PICK p \in Page : p = op.new
  BY OperationFields
<1>2. PICK at \in 0 .. Len(pages) :
         /\ AddAt(pages, at, p) \in Seq(Page)
         /\ InsertPage(pages, op) = Renumber(AddAt(pages, at, p))
  BY <1>1, InsertPageProperties
<1>3. PICK list \in Seq(Page) : list = AddAt(pages, at, p)
  BY <1>2
<1>4. /\ Len(list) = Len(pages) + 1
      /\ \A i \in 1 .. Len(pages) + 1 :
            list[i] = IF i <= at THEN pages[i] ELSE IF i = at + 1 THEN p ELSE pages[i - 1]
  <2>1. /\ Len(AddAt(pages, at, p)) = Len(pages) + 1
        /\ \A i \in 1 .. Len(pages) + 1 :
              AddAt(pages, at, p)[i] =
                 IF i <= at THEN pages[i] ELSE IF i = at + 1 THEN p ELSE pages[i - 1]
    BY AddPageProperties
  <2> QED BY <1>3, <2>1
<1>5. \A i \in 1 .. Len(list) :
         \/ i = at + 1 /\ list[i] = p
         \/ i < at + 1 /\ i \in 1 .. Len(pages) /\ list[i] = pages[i]
         \/ i > at + 1 /\ i - 1 \in 1 .. Len(pages) /\ list[i] = pages[i - 1]
  <2>1. PICK m \in Nat : m = Len(pages) /\ at \in 0 .. m /\ Len(list) = m + 1
    BY <1>4
  <2> SUFFICES ASSUME NEW i \in 1 .. m + 1
               PROVE  \/ i = at + 1 /\ list[i] = p
                      \/ i < at + 1 /\ i \in 1 .. m /\ list[i] = pages[i]
                      \/ i > at + 1 /\ i - 1 \in 1 .. m /\ list[i] = pages[i - 1]
    BY <2>1, Zenon
  <2>2. CASE i = at + 1
    BY <1>4, <2>1, <2>2
  <2>3. CASE i < at + 1
    BY <1>4, <2>1, <2>3
  <2>4. CASE i > at + 1
    BY <1>4, <2>1, <2>4
  <2> QED BY <2>1, <2>2, <2>3, <2>4
<1>6. \A i \in 1 .. Len(pages) : \E k \in 1 .. Len(list) : list[k] = pages[i]
  <2> TAKE i \in 1 .. Len(pages)
  <2>1. CASE i <= at
    <3>1. i \in 1 .. Len(list) /\ list[i] = pages[i]
      BY <1>4, <2>1
    <3> QED BY <3>1
  <2>2. CASE i > at
    <3>1. i + 1 \in 1 .. Len(list) /\ list[i + 1] = pages[i]
      BY <1>4, <2>2
    <3> QED BY <3>1
  <2> QED BY <2>1, <2>2
<1>7. \A x : x \in BlockIdsOf(pages) => x \in BlockIdsOf(list)
  <2> SUFFICES ASSUME NEW x, NEW i \in 1 .. Len(pages), x \in PageIds(pages, i)
               PROVE  x \in BlockIdsOf(list)
    BY DocumentIds
  <2>1. PICK k \in 1 .. Len(list) : list[k] = pages[i]
    BY <1>6
  <2>2. x \in PageIds(list, k)
    BY <2>1 DEF PageIds
  <2> QED BY <2>2, DocumentIds
<1>8. ASSUME UniqueIds(pages), Ids(p.blocks) \cap BlockIdsOf(pages) = {}, Distinct(p.blocks)
      PROVE  UniqueIds(list)
  <2>1. \A i \in 1 .. Len(list) : Distinct(list[i].blocks)
    BY <1>5, <1>8 DEF UniqueIds
  <2>2. \A i \in 1 .. Len(pages) : Ids(pages[i].blocks) \cap Ids(p.blocks) = {}
    <3>1. \A i \in 1 .. Len(pages) : \A x \in Ids(pages[i].blocks) : x \in BlockIdsOf(pages)
      BY DocumentIds DEF PageIds
    <3> QED BY <1>8, <3>1
  <2>3. \A i, k \in 1 .. Len(pages) :
           i # k => Ids(pages[i].blocks) \cap Ids(pages[k].blocks) = {}
    BY <1>8 DEF UniqueIds
  <2>4. ASSUME NEW i \in 1 .. Len(list), NEW k \in 1 .. Len(list), i # k
        PROVE  Ids(list[i].blocks) \cap Ids(list[k].blocks) = {}
    <3>1. CASE i = at + 1
      <4>1. list[i] = p /\ \E l \in 1 .. Len(pages) : list[k] = pages[l]
        BY <1>5, <2>4, <3>1
      <4> QED BY <2>2, <4>1
    <3>2. CASE k = at + 1
      <4>1. list[k] = p /\ \E j \in 1 .. Len(pages) : list[i] = pages[j]
        BY <1>5, <2>4, <3>2
      <4> QED BY <2>2, <4>1
    <3>3. CASE i # at + 1 /\ k # at + 1
      <4>1. PICK j \in 1 .. Len(pages) :
               list[i] = pages[j] /\ j = IF i < at + 1 THEN i ELSE i - 1
        BY <1>5, <3>3
      <4>2. PICK l \in 1 .. Len(pages) :
               list[k] = pages[l] /\ l = IF k < at + 1 THEN k ELSE k - 1
        BY <1>5, <3>3
      <4>3. i \in Int /\ k \in Int /\ at \in Int
        OBVIOUS
      <4>4. j # l
        BY <2>4, <3>3, <4>1, <4>2, <4>3
      <4> QED BY <2>3, <4>1, <4>2, <4>4
    <3> QED BY <3>1, <3>2, <3>3
  <2> QED BY <2>1, <2>4 DEF UniqueIds
<1>9. InsertPage(pages, op) = Renumber(list)
  BY <1>2, <1>3
<1>10. /\ BlockIdsOf(Renumber(list)) = BlockIdsOf(list)
       /\ UniqueIds(list) => UniqueIds(Renumber(list))
  BY RenumberIds
<1>11. ~MayDuplicate(op, pages) =>
          Ids(p.blocks) \cap BlockIdsOf(pages) = {} /\ Distinct(p.blocks)
  BY <1>1 DEF MayDuplicate
<1> QED BY <1>7, <1>8, <1>9, <1>10, <1>11 DEF Conserves

LEMMA DeletePageConserves ==
    ASSUME NEW pages \in Seq(Page), NEW op \in Operation, op.type = "deletePage"
    PROVE  Conserves(op, pages, DeletePage(pages, op))
<1>1. PICK left \in Seq(Page) :
         /\ DeletePage(pages, op) = Renumber(left)
         /\ ~IsIndex(op.page, pages) => left = pages
         /\ IsIndex(op.page, pages) =>
               /\ Len(left) = Len(pages) - 1
               /\ \A i \in 1 .. Len(left) :
                     left[i] = pages[IF i <= op.page THEN i ELSE i + 1]
  BY DeletePageProperties
<1>2. /\ BlockIdsOf(Renumber(left)) = BlockIdsOf(left)
      /\ UniqueIds(left) => UniqueIds(Renumber(left))
  BY RenumberIds
<1>3. CASE ~IsIndex(op.page, pages)
  BY <1>1, <1>2, <1>3 DEF Conserves
<1>4. CASE IsIndex(op.page, pages)
  <2>1. PICK n \in 0 .. Len(pages) - 1 : n = op.page
    BY <1>4, OperationFields DEF IsIndex
  <2>2. Len(left) = Len(pages) - 1
    BY <1>1, <1>4
  <2>3. \A i \in 1 .. Len(left) :
           \E j \in 1 .. Len(pages) :
              /\ left[i] = pages[j]
              /\ j = IF i <= n THEN i ELSE i + 1
    <3> TAKE i \in 1 .. Len(left)
    <3>1. PICK j : j = IF i <= n THEN i ELSE i + 1
      OBVIOUS
    <3>2. j \in 1 .. Len(pages)
      BY <2>2, <3>1
    <3>3. left[i] = pages[j]
      BY <1>1, <1>4, <2>1, <3>1
    <3> QED BY <3>1, <3>2, <3>3
  <2>4. \A i \in 1 .. Len(pages) : i # n + 1 =>
           \E k \in 1 .. Len(left) : left[k] = pages[i]
    <3> SUFFICES ASSUME NEW i \in 1 .. Len(pages), i # n + 1
                 PROVE  \E k \in 1 .. Len(left) : left[k] = pages[i]
      OBVIOUS
    <3>1. CASE i <= n
      <4>1. i \in 1 .. Len(left) /\ left[i] = pages[i]
        BY <1>1, <1>4, <2>1, <2>2, <3>1
      <4> QED BY <4>1
    <3>2. CASE i > n
      <4>1. i - 1 \in 1 .. Len(left) /\ ~(i - 1 <= n) /\ (i - 1) + 1 = i
        BY <2>2, <3>2
      <4>2. left[i - 1] = pages[i]
        BY <1>1, <1>4, <2>1, <4>1
      <4> QED BY <4>1, <4>2
    <3> QED BY <3>1, <3>2
  <2>5. ASSUME NEW x \in BlockIdsOf(pages), x \notin BlockIdsOf(left)
        PROVE  x \in Ids(pages[n + 1].blocks)
    <3>1. PICK i \in 1 .. Len(pages) : x \in PageIds(pages, i)
      BY DocumentIds
    <3>2. CASE i # n + 1
      <4>1. PICK k \in 1 .. Len(left) : left[k] = pages[i]
        BY <2>4, <3>2
      <4>2. x \in PageIds(left, k)
        BY <3>1, <4>1 DEF PageIds
      <4> QED BY <2>5, <4>2, DocumentIds
    <3> QED BY <3>1, <3>2 DEF PageIds
  <2>6. ASSUME UniqueIds(pages) PROVE UniqueIds(left)
    <3>1. \A i \in 1 .. Len(left) : Distinct(left[i].blocks)
      BY <2>3, <2>6 DEF UniqueIds
    <3>2. ASSUME NEW i \in 1 .. Len(left), NEW k \in 1 .. Len(left), i # k
          PROVE  Ids(left[i].blocks) \cap Ids(left[k].blocks) = {}
      <4>1. PICK j \in 1 .. Len(pages) :
               left[i] = pages[j] /\ j = IF i <= n THEN i ELSE i + 1
        BY <2>3
      <4>2. PICK l \in 1 .. Len(pages) :
               left[k] = pages[l] /\ l = IF k <= n THEN k ELSE k + 1
        BY <2>3
      <4>3. j # l
        BY <3>2, <4>1, <4>2
      <4> QED BY <2>6, <4>1, <4>2, <4>3 DEF UniqueIds
    <3> QED BY <3>1, <3>2 DEF UniqueIds
  <2> QED BY <1>1, <1>2, <1>4, <2>1, <2>5, <2>6 DEF Conserves, MayDrop
<1> QED BY <1>3, <1>4

LEMMA MergeBlocksConserves ==
    ASSUME NEW pages \in Seq(Page), NEW op \in Operation, op.type = "mergeBlocks"
    PROVE  Conserves(op, pages, MergeBlocks(pages, op))
<1>1. PICK after : after = MergeBlocks(pages, op)
  OBVIOUS
<1>2. /\ Len(after) = Len(pages)
      /\ \A i \in 1 .. Len(pages) : after[i].blocks = MergeOnPage(pages[i].blocks, op)
  BY <1>1, MergeBlocksPages DEF SamePages
<1> DEFINE Touched(i) == PageIds(pages, i) \cap op.ids # {}
<1>3. ASSUME NEW i \in 1 .. Len(pages), ~Touched(i)
      PROVE  after[i].blocks = pages[i].blocks /\ PageIds(after, i) = PageIds(pages, i)
  BY <1>2, <1>3 DEF MergeOnPage, PageIds
<1>4. ASSUME NEW i \in 1 .. Len(pages), Touched(i)
      PROVE  /\ PageIds(after, i) = (PageIds(pages, i) \ op.ids) \cup {op.id}
             /\ Distinct(pages[i].blocks) /\ op.id \notin PageIds(pages, i) \ op.ids =>
                   Distinct(after[i].blocks)
  <2>1. pages[i].blocks \in Seq(Block)
    BY PageFields
  <2> QED BY <1>2, <1>4, <2>1, MergeIds DEF PageIds
<1> HIDE DEF Touched
<1>5. ASSUME NEW x \in BlockIdsOf(pages), x \notin BlockIdsOf(after)
      PROVE  x \in op.ids
  <2>1. PICK i \in 1 .. Len(pages) : x \in PageIds(pages, i)
    BY DocumentIds
  <2>2. x \notin PageIds(after, i)
    BY <1>2, <1>5, DocumentIds
  <2> QED BY <1>3, <1>4, <2>1, <2>2
<1>6. ASSUME UniqueIds(pages), ~MayDuplicate(op, pages)
      PROVE  UniqueIds(after)
  <2>1. \A i \in 1 .. Len(pages) : op.id \notin PageIds(pages, i) \ op.ids
    <3>1. op.id \notin BlockIdsOf(pages) \ op.ids
      BY <1>6 DEF MayDuplicate
    <3> QED BY <3>1, DocumentIds
  <2>2. \A i, k \in 1 .. Len(pages) : i # k => ~Touched(i) \/ ~Touched(k)
    BY <1>6 DEF MayDuplicate, PageIds, Touched
  <2>3. \A i \in 1 .. Len(pages) : Distinct(pages[i].blocks)
    BY <1>6 DEF UniqueIds
  <2>4. \A i \in 1 .. Len(after) : Distinct(after[i].blocks)
    BY <1>2, <1>3, <1>4, <2>1, <2>3
  <2>5. \A i, k \in 1 .. Len(pages) :
           i # k => PageIds(pages, i) \cap PageIds(pages, k) = {}
    BY <1>6 DEF UniqueIds, PageIds
  <2>6. \A i \in 1 .. Len(pages) : ~Touched(i) => op.id \notin PageIds(pages, i)
    BY <2>1 DEF Touched
  <2>7. ASSUME NEW i \in 1 .. Len(pages), NEW k \in 1 .. Len(pages), i # k
        PROVE  PageIds(after, i) \cap PageIds(after, k) = {}
    <3>1. PageIds(pages, i) \cap PageIds(pages, k) = {}
      BY <2>5, <2>7
    <3>2. CASE ~Touched(i) /\ ~Touched(k)
      BY <1>3, <3>1, <3>2
    <3>3. CASE Touched(i) /\ ~Touched(k)
      BY <1>3, <1>4, <2>6, <3>1, <3>3
    <3>4. CASE ~Touched(i) /\ Touched(k)
      BY <1>3, <1>4, <2>6, <3>1, <3>4
    <3> QED BY <2>2, <2>7, <3>2, <3>3, <3>4
  <2> QED BY <1>2, <2>4, <2>7 DEF UniqueIds, PageIds
<1> QED BY <1>1, <1>5, <1>6 DEF Conserves, MayDrop

LEMMA ApplyConserves ==
    ASSUME NEW pages \in Seq(Page), NEW op \in Operation,
           ~OperationRaises(pages, op)
    PROVE  Conserves(op, pages, applyOperation(pages, op))
<1>1. CASE op.type \in {"replaceText", "updateStyle", "replaceImage"}
  <2>1. op.value \in Values
    BY <1>1, OperationFields
  <2>2. PICK field \in {"text", "style", "image"} :
           applyOperation(pages, op) = UpdateField(pages, op, field)
    BY <1>1 DEF applyOperation, ReplaceText, UpdateStyle, ReplaceImage
  <2>3. Conserves(op, pages, UpdateField(pages, op, field))
    BY <2>1, UpdateFieldConserves, Zenon
  <2> QED BY <2>2, <2>3
<1>2. CASE op.type = "insertBlock"
  BY <1>2, InsertBlockConserves DEF applyOperation, OperationRaises
<1>3. CASE op.type = "deleteBlock"
  BY <1>3, DeleteBlockConserves DEF applyOperation
<1>4. CASE op.type = "moveBlock"
  BY <1>4, MoveBlockConserves DEF applyOperation, OperationRaises
<1>5. CASE op.type = "insertPage"
  BY <1>5, InsertPageConserves DEF applyOperation, OperationRaises
<1>6. CASE op.type = "deletePage"
  BY <1>6, DeletePageConserves DEF applyOperation
<1>7. CASE op.type = "mergeBlocks"
  BY <1>7, MergeBlocksConserves DEF applyOperation
<1>8. CASE op.type = "updateMetadata"
  BY <1>8 DEF applyOperation, Conserves
<1> QED BY <1>1, <1>2, <1>3, <1>4, <1>5, <1>6, <1>7, <1>8, OperationFields

-----------------------------------------------------------------------------
(* The cache and the clients.  Of a call either all operations are in a    *)
(* version or none; the version a client works on has, of its own call,    *)
(* those it has applied.                                                   *)
Whole(k, applied) == \A i \in 1 .. k.size : <<k, i>> \in applied

CacheState ==
    \A d \in DOMAIN documentCache :
        /\ Numbered(documentCache[d].pages)
        /\ \A o \in documentCache[d].applied : Whole(o[1], documentCache[d].applied)

WorkState ==
    \A c \in Clients : pc[c] # "idle" =>
        /\ Numbered(work[c].pages)
        /\ call[c].size >= Len(todo[c])
        /\ pc[c] = "put" => todo[c] = << >>
        /\ \A i \in 1 .. call[c].size - Len(todo[c]) : <<call[c], i>> \in work[c].applied
        /\ \A o \in work[c].applied : o[1] = call[c] \/ Whole(o[1], work[c].applied)

(* An update can be lost at a later put only if the client that puts has   *)
(* got its document before: so the versions all clients work on have to    *)
(* contain it.                                                             *)
ReturnedState ==
    \A k \in returned \ exposed :
        /\ Whole(k, Applied(k.doc))
        /\ \A c \in Clients : Active(c, k.doc) => Whole(k, work[c].applied)

IInv == TypeOK /\ CacheState /\ WorkState /\ ReturnedState

USE CoreAssumption DEF CoreAssumption

LEMMA NoPagesType == NoPages \in Version /\ Numbered(NoPages.pages)
BY DEF NoPages, Version, Numbered

LEMMA InitIInv == Init => IInv
<1> SUFFICES ASSUME Init PROVE IInv
  OBVIOUS
<1> USE DEF Init
<1>1. TypeOK
  BY NoPagesType DEF TypeOK
<1>2. CacheState /\ WorkState /\ ReturnedState
  BY DEF CacheState, WorkState, ReturnedState
<1> QED BY <1>1, <1>2 DEF IInv

LEMMA ImportDocumentStep ==
    ASSUME IInv, NEW d \in DocIds, NEW ps \in Imports, ImportDocument(d, ps)
    PROVE  IInv'
<1> USE DEF IInv, ImportDocument, client
<1> DEFINE doc == [pages |-> ps, applied |-> {}]
<1>1. doc \in Version /\ Numbered(doc.pages) /\ doc.applied = {}
  BY DEF Version
<1>2. /\ DOMAIN documentCache' = DOMAIN documentCache \cup {d}
      /\ documentCache'[d] = doc
      /\ \A e \in DOMAIN documentCache : e # d => documentCache'[e] = documentCache[e]
  BY DEF Cached
<1> HIDE DEF doc
<1>3. TypeOK'
  BY <1>1, <1>2 DEF TypeOK
<1>4. CacheState'
  BY <1>1, <1>2 DEF CacheState
<1>5. WorkState'
  BY DEF WorkState
<1>6. ReturnedState'
  <2>1. \A k \in returned' \ exposed' : k \in returned \ exposed /\ k.doc # d
    OBVIOUS
  <2>2. \A e \in DocIds : e # d => Applied(e)' = Applied(e)
    BY <1>2 DEF Applied
  <2>3. \A k \in returned : k.doc \in DocIds
    BY DEF TypeOK, Call
  <2> QED BY <2>1, <2>2, <2>3 DEF ReturnedState, Active
<1> QED BY <1>3, <1>4, <1>5, <1>6

LEMMA RemoveDocumentStep ==
    ASSUME IInv, NEW d \in DocIds, RemoveDocument(d)
    PROVE  IInv'
<1> USE DEF IInv, RemoveDocument, client
<1>1. TypeOK'
  BY DEF TypeOK
<1>2. CacheState'
  BY DEF CacheState
<1>3. WorkState'
  BY DEF WorkState
<1>4. ReturnedState'
  <2>1. \A k \in returned' \ exposed' : k \in returned \ exposed /\ k.doc # d
    OBVIOUS
  <2>2. \A e \in DocIds : e # d => Applied(e)' = Applied(e)
    BY DEF Applied
  <2>3. \A k \in returned : k.doc \in DocIds
    BY DEF TypeOK, Call
  <2> QED BY <2>1, <2>2, <2>3 DEF ReturnedState, Active
<1> QED BY <1>1, <1>2, <1>3, <1>4

LEMMA GetDocumentStep ==
    ASSUME IInv, NEW c \in Clients, NEW d \in DocIds, NEW ps \in PatchSets,
           GetDocument(c, d, ps)
    PROVE  IInv'
<1> USE DEF IInv, GetDocument
<1> DEFINE k == [doc |-> d, n |-> calls, size |-> Len(ps.ops)]
<1>1. ps.ops \in Seq(Operation) /\ d \in DOMAIN documentCache
  OBVIOUS
<1>2. k \in Call /\ k.doc = d /\ k.size = Len(ps.ops)
  BY <1>1 DEF TypeOK, Call
<1>3. /\ pc' = [pc EXCEPT ![c] = "apply"] /\ call' = [call EXCEPT ![c] = k]
      /\ todo' = [todo EXCEPT ![c] = ps.ops]
      /\ work' = [work EXCEPT ![c] = documentCache[d]]
      /\ calls' = calls + 1 /\ calls < MaxCalls
      /\ UNCHANGED <<documentCache, returned, exposed>>
  OBVIOUS
<1> HIDE DEF k, GetDocument
<1>4. TypeOK'
  BY <1>1, <1>2, <1>3 DEF TypeOK
<1>5. CacheState'
  BY <1>3 DEF CacheState
<1>6. WorkState'
  <2>1. documentCache[d] \in Version
    BY <1>1 DEF TypeOK
  <2> QED BY <1>1, <1>2, <1>3, <2>1 DEF TypeOK, WorkState, CacheState
<1>7. ReturnedState'
  <2>1. Applied(d) = documentCache[d].applied
    BY <1>1 DEF Applied
  <2>2. \A e : Applied(e)' = Applied(e)
    BY <1>3 DEF Applied
  <2>3. \A e, o : Active(o, e)' /\ o \in Clients /\ o # c => Active(o, e) /\ work'[o] = work[o]
    BY <1>3 DEF Active, TypeOK
  <2>4. \A e : Active(c, e)' => e = d
    BY <1>2, <1>3 DEF Active, TypeOK
  <2>5. work'[c].applied = Applied(d)
    BY <1>3, <2>1 DEF TypeOK
  <2> QED BY <1>3, <2>2, <2>3, <2>4, <2>5 DEF ReturnedState
<1> QED BY <1>4, <1>5, <1>6, <1>7

LEMMA GetRaisesStep ==
    ASSUME IInv, NEW c \in Clients, NEW d \in DocIds, NEW ps \in PatchSets,
           GetRaises(c, d, ps)
    PROVE  IInv'
BY DEF IInv, GetRaises, client, TypeOK, CacheState, WorkState, ReturnedState, Applied, Active


(* The calls a client and a put concern.                                   *)
LEMMA ActiveCall ==
    ASSUME IInv, NEW c \in Clients, pc[c] # "idle"
    PROVE  call[c] \in Call /\ todo[c] \in Seq(Operation) /\ work[c] \in Version
BY DEF IInv, TypeOK

LEMMA ApplyOperationStep ==
    ASSUME IInv, NEW c \in Clients, ApplyOperation(c)
    PROVE  IInv'
<1> USE DEF IInv
<1>1. PICK k : k = call[c]
  OBVIOUS
<1>2. PICK op : op = Head(todo[c])
  OBVIOUS
<1>3. PICK rest : rest = Tail(todo[c])
  OBVIOUS
<1>4. PICK old : old = work[c]
  OBVIOUS
<1>5. PICK o : o = <<k, k.size - Len(todo[c]) + 1>>
  OBVIOUS
<1>6. PICK new : new = [pages |-> applyOperation(old.pages, op),
                        applied |-> old.applied \cup {o}]
  OBVIOUS
<1>7. k \in Call /\ todo[c] \in Seq(Operation) /\ todo[c] # << >> /\ old \in Version
  BY <1>1, <1>4, ActiveCall DEF ApplyOperation
<1>8. op \in Operation /\ rest \in Seq(Operation) /\ Len(rest) = Len(todo[c]) - 1
  BY <1>2, <1>3, <1>7, HeadTailProperties
<1>9. /\ pc[c] = "apply"
      /\ work' = [work EXCEPT ![c] = new]
      /\ todo' = [todo EXCEPT ![c] = rest]
      /\ UNCHANGED <<documentCache, pc, call, calls, returned, exposed>>
  BY <1>1, <1>2, <1>3, <1>4, <1>5, <1>6 DEF ApplyOperation, TypeOK
<1>10. Numbered(old.pages) /\ k.size >= Len(todo[c])
  BY <1>1, <1>4, <1>9 DEF WorkState
<1>11. old.pages \in Seq(Page) /\ ~OperationRaises(old.pages, op)
  BY <1>2, <1>4, <1>7 DEF ApplyOperation, Version
<1>12. new.pages \in Seq(Page) /\ Numbered(new.pages)
  BY <1>6, <1>8, <1>10, <1>11, ApplyPages
<1>13. o \in Call \X Nat /\ o[1] = k
  BY <1>5, <1>7, <1>10 DEF Call
<1>14. new \in Version /\ new.applied = old.applied \cup {o}
  BY <1>6, <1>7, <1>12, <1>13 DEF Version
<1>15. TypeOK'
  BY <1>8, <1>9, <1>14 DEF TypeOK
<1>16. CacheState'
  BY <1>9 DEF CacheState
<1>17. WorkState'
  <2>1. work'[c] = new /\ todo'[c] = rest /\ call'[c] = k /\ pc'[c] = "apply"
    BY <1>1, <1>9 DEF TypeOK
  <2>2. \A i \in 1 .. k.size - Len(todo[c]) : <<k, i>> \in old.applied
    BY <1>1, <1>4, <1>9 DEF WorkState
  <2>3. \A i \in 1 .. k.size - Len(rest) : <<k, i>> \in new.applied
    <3>1. PICK n \in Nat : n = k.size - Len(todo[c])
      BY <1>7, <1>10 DEF Call
    <3>2. k.size - Len(rest) = n + 1
      BY <1>7, <1>8, <3>1 DEF Call
    <3>3. <<k, n + 1>> \in new.applied
      BY <1>5, <1>14, <3>1
    <3>4. \A i \in 1 .. n : <<k, i>> \in new.applied
      BY <1>14, <2>2, <3>1
    <3> QED BY <3>2, <3>3, <3>4
  <2>4. \A p \in old.applied : p[1] = k \/ Whole(p[1], old.applied)
    BY <1>1, <1>4, <1>9 DEF WorkState
  <2>5. \A p \in new.applied : p[1] = k \/ Whole(p[1], new.applied)
    BY <1>13, <1>14, <2>4 DEF Whole
  <2>6. k.size >= Len(rest)
    BY <1>7, <1>8, <1>10 DEF Call
  <2>7. ASSUME NEW e \in Clients, e # c
        PROVE  work'[e] = work[e] /\ todo'[e] = todo[e] /\ call'[e] = call[e] /\ pc'[e] = pc[e]
    BY <1>9, <2>7 DEF TypeOK
  <2> QED BY <1>12, <2>1, <2>3, <2>5, <2>6, <2>7 DEF WorkState
<1>18. ReturnedState'
  <2>1. \A e \in Clients : work[e].applied \subseteq work'[e].applied
    BY <1>4, <1>9, <1>14 DEF TypeOK
  <2>2. \A d : Applied(d)' = Applied(d)
    BY <1>9 DEF Applied
  <2>3. \A d, e : Active(e, d)' => Active(e, d)
    BY <1>9 DEF Active
  <2> QED BY <1>9, <2>1, <2>2, <2>3 DEF ReturnedState, Whole
<1> QED BY <1>15, <1>16, <1>17, <1>18

(* A client that is done touches neither the cache nor the others.         *)
LEMMA DoneStep ==
    ASSUME IInv, NEW c \in Clients, Done(c)
    PROVE  /\ pc' \in [Clients -> {"idle", "apply", "put"}] /\ DOMAIN call' = Clients
           /\ todo' \in [Clients -> Seq(Operation)] /\ work' \in [Clients -> Version]
           /\ pc'[c] = "idle"
           /\ \A e \in Clients : e # c => /\ pc'[e] = pc[e] /\ call'[e] = call[e]
                                          /\ todo'[e] = todo[e] /\ work'[e] = work[e]
           /\ \A e \in Clients : pc'[e] # "idle" => call'[e] \in Call
           /\ WorkState'
<1> USE DEF IInv
<1>1. << >> \in Seq(Operation)
  OBVIOUS
<1>2. /\ pc' \in [Clients -> {"idle", "apply", "put"}] /\ DOMAIN call' = Clients
      /\ todo' \in [Clients -> Seq(Operation)] /\ work' \in [Clients -> Version]
  BY <1>1, NoPagesType DEF Done, TypeOK
<1>3. /\ pc'[c] = "idle"
      /\ \A e \in Clients : e # c => /\ pc'[e] = pc[e] /\ call'[e] = call[e]
                                     /\ todo'[e] = todo[e] /\ work'[e] = work[e]
  BY DEF Done, TypeOK
<1>4. \A e \in Clients : pc'[e] # "idle" => call'[e] \in Call
  BY <1>3 DEF TypeOK
<1>5. WorkState'
  BY <1>3 DEF WorkState
<1> QED BY <1>2, <1>3, <1>4, <1>5

LEMMA ApplyRaisesStep ==
    ASSUME IInv, NEW c \in Clients, ApplyRaises(c)
    PROVE  IInv'
<1> USE DEF IInv
<1>1. Done(c) /\ UNCHANGED <<documentCache, calls, returned, exposed>>
  BY DEF ApplyRaises
<1>2. TypeOK' /\ WorkState'
  BY <1>1, DoneStep DEF TypeOK
<1>3. CacheState'
  BY <1>1 DEF CacheState
<1>4. ReturnedState'
  <2>1. \A d : Applied(d)' = Applied(d)
    BY <1>1 DEF Applied
  <2>2. \A d : \A e \in Clients : Active(e, d)' => Active(e, d) /\ work'[e] = work[e]
    BY <1>1, DoneStep DEF Active
  <2> QED BY <1>1, <2>1, <2>2 DEF ReturnedState
<1> QED BY <1>2, <1>3, <1>4

LEMMA ApplyDoneStep ==
    ASSUME IInv, NEW c \in Clients, ApplyDone(c)
    PROVE  IInv'
<1> USE DEF IInv, ApplyDone
<1>1. TypeOK'
  BY DEF TypeOK
<1>2. CacheState'
  BY DEF CacheState
<1>3. WorkState'
  BY DEF WorkState, TypeOK
<1>4. ReturnedState'
  BY DEF ReturnedState, TypeOK, Applied, Active
<1> QED BY <1>1, <1>2, <1>3, <1>4

(* The put: the version that replaces the cached one contains every call   *)
(* that has returned and was not exposed, and the whole of its own call.   *)
LEMMA PutDocumentStep ==
    ASSUME IInv, NEW c \in Clients, PutDocument(c)
    PROVE  IInv'
<1> USE DEF IInv
<1>1. PICK k : k = call[c]
  OBVIOUS
<1>2. PICK new : new = work[c]
  OBVIOUS
<1>3. PICK d : d = k.doc
  OBVIOUS
<1>4. /\ pc[c] = "put" /\ Done(c)
      /\ documentCache' = Cached(d, new)
      /\ returned' = returned \cup {k}
      /\ exposed' = IF \E o \in Clients \ {c} : Active(o, d)
                    THEN exposed \cup {k} ELSE exposed
      /\ calls' = calls
  BY <1>1, <1>2, <1>3 DEF PutDocument
<1>5. k \in Call /\ new \in Version /\ d \in DocIds /\ k.size \in Nat
  BY <1>1, <1>2, <1>3, <1>4, ActiveCall DEF Call
<1>6. /\ DOMAIN documentCache' = DOMAIN documentCache \cup {d}
      /\ documentCache'[d] = new
      /\ \A e \in DOMAIN documentCache : e # d => documentCache'[e] = documentCache[e]
  BY <1>4 DEF Cached
<1>7. Whole(k, new.applied)
  <2>1. todo[c] = << >>
    BY <1>4 DEF WorkState
  <2>2. \A i \in 1 .. k.size - Len(todo[c]) : <<k, i>> \in new.applied
    BY <1>1, <1>2, <1>4 DEF WorkState
  <2> QED BY <1>5, <2>1, <2>2 DEF Whole
<1>8. \A o \in new.applied : Whole(o[1], new.applied)
  BY <1>1, <1>2, <1>4, <1>7 DEF WorkState
<1>9. TypeOK'
  BY <1>4, <1>5, <1>6, DoneStep DEF TypeOK
<1>10. CacheState'
  <2>1. Numbered(new.pages)
    BY <1>2, <1>4 DEF WorkState
  <2> QED BY <1>6, <1>8, <2>1 DEF CacheState
<1>11. WorkState'
  BY <1>4, DoneStep
<1>12. ReturnedState'
  <2>1. Applied(d)' = new.applied
    BY <1>6 DEF Applied
  <2>2. \A e : e # d => Applied(e)' = Applied(e)
    BY <1>6 DEF Applied
  <2>3. \A e : \A o \in Clients : Active(o, e)' =>
           o # c /\ Active(o, e) /\ work'[o] = work[o]
    BY <1>4, DoneStep DEF Active
  <2>4. Active(c, d)
    BY <1>1, <1>3, <1>4 DEF Active
  <2> SUFFICES ASSUME NEW r \in returned' \ exposed'
               PROVE  /\ Whole(r, Applied(r.doc)')
                      /\ \A o \in Clients : Active(o, r.doc)' => Whole(r, work'[o].applied)
    BY DEF ReturnedState, Whole
  <2>5. CASE r \in returned \ exposed
    <3>1. /\ Whole(r, Applied(r.doc))
          /\ \A o \in Clients : Active(o, r.doc) => Whole(r, work[o].applied)
      BY <2>5 DEF ReturnedState
    <3> QED BY <1>2, <2>1, <2>2, <2>3, <2>4, <3>1
  <2>6. CASE r = k
    <3>1. ~\E o \in Clients \ {c} : Active(o, d)
      BY <1>4, <2>6
    <3> QED BY <1>3, <1>7, <2>1, <2>3, <2>6, <3>1
  <2> QED BY <1>4, <2>5, <2>6
<1> QED BY <1>9, <1>10, <1>11, <1>12

-----------------------------------------------------------------------------
(* The inductive invariant holds.                                          *)
THEOREM Invariance == Spec => []IInv
<1>1. Init => IInv
  BY InitIInv
<1>2. IInv /\ [Next]_vars => IInv'
  <2> SUFFICES ASSUME IInv, [Next]_vars PROVE IInv'
    OBVIOUS
  <2>1. CASE Next
    BY <2>1, ImportDocumentStep, RemoveDocumentStep, GetDocumentStep, GetRaisesStep,
       ApplyOperationStep, ApplyRaisesStep, ApplyDoneStep, PutDocumentStep DEF Next
  <2>2. CASE UNCHANGED vars
    BY <2>2 DEF vars, client, IInv, TypeOK, CacheState, WorkState, ReturnedState,
                Applied, Active
  <2> QED BY <2>1, <2>2
<1> QED BY <1>1, <1>2, PTL DEF Spec

(* Every cached document is a list of pages of blocks, whatever was        *)
(* applied to it: applyOperation never leaves its lists' bounds.           *)
THEOREM TypeCorrect == Spec => []TypeOK
<1>1. IInv => TypeOK
  BY DEF IInv
<1> QED BY <1>1, Invariance, PTL

(* applyInsertPage and applyDeletePage renumber, and no other operation    *)
(* changes the list of pages.                                              *)
THEOREM PagesAreNumbered == Spec => []CachedPagesNumbered
<1>1. IInv => CachedPagesNumbered
  BY DEF IInv, CacheState, CachedPagesNumbered
<1> QED BY <1>1, Invariance, PTL

(* However the clients' gets and puts interleave, and whichever operation  *)
(* raises, a cached version has the whole of a patch set or nothing of it. *)
THEOREM PatchSetsAreApplied == Spec => []PatchSetsAreWhole
<1>1. IInv => PatchSetsAreWhole
  BY DEF IInv, TypeOK, CacheState, Applied, Whole, PatchSetsAreWhole
<1> QED BY <1>1, Invariance, PTL

(* applyPatches' result is lost only by a put that had overtaken it, or by *)
(* an import or removal.                                                   *)
THEOREM LossIsExposure == Spec => []UpdatesLostOnlyIfExposed
<1>1. IInv => UpdatesLostOnlyIfExposed
  BY DEF IInv, ReturnedState, Whole, UpdatesLostOnlyIfExposed
<1> QED BY <1>1, Invariance, PTL

(* An operation, whichever it is and whatever its document, loses no block *)
(* and repeats no id but where BlocksAreConserved says so.                 *)
THEOREM EngineConserves == Spec => BlocksAreConserved
<1>1. IInv /\ [Next]_vars =>
         [\A c \in Clients : ApplyOperation(c) =>
             Conserves(Head(todo[c]), work[c].pages, work'[c].pages)]_vars
  <2> SUFFICES ASSUME IInv, NEW c \in Clients, ApplyOperation(c)
               PROVE  Conserves(Head(todo[c]), work[c].pages, work'[c].pages)
    OBVIOUS
  <2>1. PICK op : op = Head(todo[c])
    OBVIOUS
  <2>2. PICK pages : pages = work[c].pages
    OBVIOUS
  <2>3. /\ todo[c] \in Seq(Operation) /\ todo[c] # << >> /\ work[c] \in Version
        /\ work \in [Clients -> Version]
        /\ ~OperationRaises(pages, op)
    BY <2>1, <2>2 DEF IInv, TypeOK, ApplyOperation
  <2>4. op \in Operation /\ pages \in Seq(Page)
    BY <2>1, <2>2, <2>3, HeadTailProperties DEF Version
  <2>5. work'[c].pages = applyOperation(pages, op)
    BY <2>1, <2>2, <2>3 DEF ApplyOperation
  <2> QED BY <2>1, <2>2, <2>3, <2>4, <2>5, ApplyConserves
<1> QED BY <1>1, Invariance, PTL DEF Spec, BlocksAreConserved

=============================================================================
