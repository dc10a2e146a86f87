--------------------------- MODULE MCDocumentCore ---------------------------
(***************************************************************************)
(* DocumentCore for TLC: two clients, one document, and patch sets with    *)
(* every operation of the engine, alone and some of them in pairs.         *)
(***************************************************************************)
EXTENDS DocumentCore

MCDocIds == {"doc"}
MCBlockIds == {"a", "b", "c", "new"}
MCValues == {"old", "new"}

Original(id) == [id |-> id, text |-> "old", style |-> "old", image |-> "old"]

\* Two pages, two blocks and one.
MCImports ==
    {<< [index |-> 0, blocks |-> << Original("a"), Original("b") >>],
        [index |-> 1, blocks |-> << Original("c") >>] >>}

(* Without, which is stated by the rank of what stays, is the filter.       *)
ASSUME WithoutFilters ==
    \A a, b, c \in MCBlockIds : \A n \in 0 .. 3 : \A ids \in SUBSET MCBlockIds :
        LET blocks == SubSeq(<<Original(a), Original(b), Original(c)>>, 1, n)
        IN  Without(blocks, ids) = SelectSeq(blocks, LAMBDA o : o.id \notin ids)

-----------------------------------------------------------------------------
\* Page indices and positions: before the first, each page, beyond the last.
Indices == {-1, 0, 1, 5}

\* A page as a patch may carry it, with an index that fits nowhere.
NewPage == [index |-> 7, blocks |-> << Original("new") >>]

\* A page that has a block twice.
TwicePage == [index |-> 7, blocks |-> << Original("new"), Original("new") >>]

AllOperations ==
    {[type |-> t, id |-> i, value |-> "new"] :
        t \in {"replaceText", "updateStyle", "replaceImage"}, i \in {"a", "c"}}
    \cup {[type |-> "insertBlock", page |-> p, block |-> Original(i), pos |-> n] :
        p \in {-1, 1, 5}, i \in {"a", "new"}, n \in {-1, 1, 5}}
    \cup {[type |-> "deleteBlock", id |-> i] : i \in {"a", "c"}}
    \cup {[type |-> "moveBlock", id |-> "a", from |-> f, to |-> t, pos |-> n] :
        f \in Indices, t \in Indices, n \in {-1, 0, 5}}
    \cup {[type |-> "insertPage", after |-> n, new |-> NewPage] :
        n \in {-2, -1, 0, 5, MaxInt}}
    \cup {[type |-> "insertPage", after |-> 0, new |-> TwicePage]}
    \cup {[type |-> "deletePage", page |-> p] : p \in Indices}
    \cup {[type |-> "mergeBlocks", id |-> i, ids |-> s, text |-> "new"] :
        i \in {"a", "new"}, s \in {{"a", "b"}, {"a", "c"}, {"a"}}}
    \cup {[type |-> "updateMetadata"]}

ReplaceA == [type |-> "replaceText", id |-> "a", value |-> "new"]
DeleteFirst == [type |-> "deletePage", page |-> 0]
BadInsert == [type |-> "insertPage", after |-> -2, new |-> NewPage]
PageFirst == [type |-> "insertPage", after |-> -1, new |-> NewPage]
MergeAcross == [type |-> "mergeBlocks", id |-> "new", ids |-> {"a", "c"}, text |-> "new"]
MoveOver == [type |-> "moveBlock", id |-> "a", from |-> 0, to |-> 1, pos |-> 0]

\* What may follow one another in a patch set; BadInsert raises.
Paired == {ReplaceA, DeleteFirst, BadInsert, PageFirst, MergeAcross, MoveOver}

MCClients == {"one", "two"}

\* One patch set was made for another document.
MCPatchSets ==
    {[doc |-> "doc", ops |-> <<op>>] : op \in AllOperations}
    \cup {[doc |-> "doc", ops |-> <<first, second>>] : first, second \in Paired}
    \cup {[doc |-> "other", ops |-> <<ReplaceA>>]}
=============================================================================
