-------------------------- MODULE DocumentIrEngine --------------------------
(***************************************************************************)
(* document-core's DocumentIrEngine: what each patch operation makes of    *)
(* the pages of a document.  A page is [index, blocks], a block is [id,    *)
(* text, style, image]; geometry, roles and types play no part in any      *)
(* operation.  Java's lists count from 0, the sequences here from 1: page  *)
(* i of the code is pages[i + 1].                                          *)
(***************************************************************************)
EXTENDS Integers, Sequences, FiniteSets

\* java.lang.Integer.MAX_VALUE
MaxInt == 2147483647

\* x + 1 in 32 bits
Increment(x) == IF x = MaxInt THEN -MaxInt - 1 ELSE x + 1

Least(a, b) == IF a <= b THEN a ELSE b

(* List.add(at, e) for a valid 0 <= at <= size.                            *)
AddAt(s, at, e) == SubSeq(s, 1, at) \o <<e>> \o SubSeq(s, at + 1, Len(s))

OnBlocks(page, blocks) == [page EXCEPT !.blocks = blocks]

\* Is i, counted from 0, the index of an element of s?
IsIndex(i, s) == 0 <= i /\ i < Len(s)

Ids(blocks) == {blocks[j].id : j \in 1 .. Len(blocks)}

(* The n-th smallest element of a finite set of integers.                  *)
Nth(I, n) == CHOOSE i \in I : Cardinality({k \in I : k < i}) = n - 1

(* The loops that copy the blocks whose id is not among ids, in their      *)
(* order, to a new list.                                                   *)
Without(blocks, ids) ==
    LET stay == {j \in 1 .. Len(blocks) : blocks[j].id \notin ids}
    IN  [n \in 1 .. Cardinality(stay) |-> blocks[Nth(stay, n)]]

-----------------------------------------------------------------------------
(* The loop of applyReplaceText, applyUpdateStyle and applyReplaceImage:   *)
(* every block with the target id, on whatever page, gets the new value.   *)
UpdateField(pages, op, field) ==
    [i \in 1 .. Len(pages) |-> OnBlocks(pages[i],
        [j \in 1 .. Len(pages[i].blocks) |->
            LET b == pages[i].blocks[j]
            IN  IF b.id = op.id THEN [b EXCEPT ![field] = op.value] ELSE b])]

ReplaceText(pages, op) == UpdateField(pages, op, "text")
UpdateStyle(pages, op) == UpdateField(pages, op, "style")
ReplaceImage(pages, op) == UpdateField(pages, op, "image")

(* applyInsertBlock: an invalid page index is logged and ignored; a        *)
(* position beyond the end appends, a negative one raises.                 *)
InsertBlockRaises(pages, op) == IsIndex(op.page, pages) /\ op.pos < 0

InsertBlock(pages, op) ==
    IF ~IsIndex(op.page, pages) THEN pages
    ELSE LET p == pages[op.page + 1]
             at == Least(op.pos, Len(p.blocks))
         IN  [pages EXCEPT ![op.page + 1] =
                 OnBlocks(p, AddAt(p.blocks, at, op.block))]

(* applyDeleteBlock: on every page; the patch's pageIndex is not used.     *)
DeleteBlock(pages, op) ==
    [i \in 1 .. Len(pages) |->
        OnBlocks(pages[i], Without(pages[i].blocks, {op.id}))]

(* applyMoveBlock: every block with the id leaves the source page, the     *)
(* last of them is added to the target page.  A target index beyond the    *)
(* last page adds it nowhere; a negative one raises.                       *)
Moves(pages, op) ==
    IsIndex(op.from, pages) /\ op.id \in Ids(pages[op.from + 1].blocks)

Moved(pages, op) ==
    LET blocks == pages[op.from + 1].blocks
        last == CHOOSE j \in 1 .. Len(blocks) :
                    /\ blocks[j].id = op.id
                    /\ \A k \in j + 1 .. Len(blocks) : blocks[k].id # op.id
    IN  blocks[last]

WithoutMoved(pages, op) ==
    IF ~IsIndex(op.from, pages) THEN pages
    ELSE [pages EXCEPT ![op.from + 1] =
             OnBlocks(@, Without(@.blocks, {op.id}))]

MoveBlockRaises(pages, op) ==
    Moves(pages, op) /\ op.to < Len(pages) /\ (op.to < 0 \/ op.pos < 0)

MoveBlock(pages, op) ==
    LET rest == WithoutMoved(pages, op)
    IN  IF Moves(pages, op) /\ op.to < Len(pages)
        THEN LET p == rest[op.to + 1]
                 at == Least(op.pos, Len(p.blocks))
             IN  [rest EXCEPT ![op.to + 1] =
                     OnBlocks(p, AddAt(p.blocks, at, Moved(pages, op)))]
        ELSE rest

-----------------------------------------------------------------------------
(* The renumbering loop at the end of applyInsertPage and applyDeletePage. *)
Renumber(pages) == [i \in 1 .. Len(pages) |-> [pages[i] EXCEPT !.index = i - 1]]

InsertPageRaises(pages, op) == Increment(op.after) < 0

\* Seeded fault: only the inserted page is given its number.
InsertPage_NoRenumber(pages, op) ==
    LET at == Least(Increment(op.after), Len(pages))
    IN  AddAt(pages, at, [op.new EXCEPT !.index = at])

InsertPage(pages, op) ==
    Renumber(AddAt(pages, Least(Increment(op.after), Len(pages)), op.new))

(* applyDeletePage: an index that is no page deletes nothing.              *)
DeletePage(pages, op) ==
    Renumber(IF IsIndex(op.page, pages)
             THEN SubSeq(pages, 1, op.page) \o SubSeq(pages, op.page + 2, Len(pages))
             ELSE pages)

\* Seeded fault: blocks after the first merged one are lost with the others.
MergeOnPage_Truncates(blocks, op) ==
    IF Ids(blocks) \cap op.ids = {} THEN blocks
    ELSE LET first == CHOOSE j \in 1 .. Len(blocks) :
                          /\ blocks[j].id \in op.ids
                          /\ \A k \in 1 .. j - 1 : blocks[k].id \notin op.ids
         IN  SubSeq(blocks, 1, first - 1)
             \o << [blocks[first] EXCEPT !.id = op.id, !.text = op.text] >>

(* applyMergeBlocks, on one page: the first of the merged blocks becomes   *)
(* the target, the others go.                                              *)
MergeOnPage(blocks, op) ==
    IF Ids(blocks) \cap op.ids = {} THEN blocks
    ELSE LET first == CHOOSE j \in 1 .. Len(blocks) :
                          /\ blocks[j].id \in op.ids
                          /\ \A k \in 1 .. j - 1 : blocks[k].id \notin op.ids
         IN  SubSeq(blocks, 1, first - 1)
             \o << [blocks[first] EXCEPT !.id = op.id, !.text = op.text] >>
             \o Without(SubSeq(blocks, first + 1, Len(blocks)), op.ids)

(* applyMergeBlocks treats every page on its own, so a merge across pages  *)
(* leaves the target id on each of them.                                   *)
MergeBlocks(pages, op) ==
    [i \in 1 .. Len(pages) |-> OnBlocks(pages[i], MergeOnPage(pages[i].blocks, op))]

-----------------------------------------------------------------------------
(* applyOperation, as a test for an exception and a result without one.    *)
OperationRaises(pages, op) ==
    \/ op.type = "insertBlock" /\ InsertBlockRaises(pages, op)
    \/ op.type = "moveBlock" /\ MoveBlockRaises(pages, op)
    \/ op.type = "insertPage" /\ InsertPageRaises(pages, op)

applyOperation(pages, op) ==
    CASE op.type = "replaceText"  -> ReplaceText(pages, op)
      [] op.type = "updateStyle"  -> UpdateStyle(pages, op)
      [] op.type = "replaceImage" -> ReplaceImage(pages, op)
      [] op.type = "insertBlock"  -> InsertBlock(pages, op)
      [] op.type = "deleteBlock"  -> DeleteBlock(pages, op)
      [] op.type = "moveBlock"    -> MoveBlock(pages, op)
      [] op.type = "insertPage"   -> InsertPage(pages, op)
      [] op.type = "deletePage"   -> DeletePage(pages, op)
      [] op.type = "mergeBlocks"  -> MergeBlocks(pages, op)
      [] op.type = "updateMetadata" -> pages
=============================================================================
