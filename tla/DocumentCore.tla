---------------------------- MODULE DocumentCore ----------------------------
(***************************************************************************)
(* document-core's DocumentCore: a cache of immutable documents that       *)
(* clients in several threads import, patch and remove.  applyPatches gets *)
(* the cached document, lets DocumentIrEngine apply the operations one     *)
(* after another to its own copy, and puts the result back: another        *)
(* client's put, import or remove may come between the get and the put.    *)
(***************************************************************************)
EXTENDS DocumentIrEngine

CONSTANTS
    Clients,     \* the threads that use the DocumentCore
    DocIds,      \* document ids
    PatchSets,   \* patch sets: [doc: the documentId in it, ops: a sequence]
    Imports,     \* the page lists importers produce
    Values,      \* texts, styles and images
    BlockIds,    \* block ids
    None,        \* Java's null
    MaxCalls     \* bound: calls of applyPatches in a behaviour

Block == [id : BlockIds, text : Values, style : Values, image : Values]
Page == [index : Int, blocks : Seq(Block)]

\* PatchOperation and its records.
Operation ==
    [type : {"replaceText", "updateStyle", "replaceImage"}, id : BlockIds, value : Values]
    \cup [type : {"insertBlock"}, page : Int, block : Block, pos : Int]
    \cup [type : {"deleteBlock"}, id : BlockIds]
    \cup [type : {"moveBlock"}, id : BlockIds, from : Int, to : Int, pos : Int]
    \cup [type : {"insertPage"}, after : -MaxInt - 1 .. MaxInt, new : Page]
    \cup [type : {"deletePage"}, page : Int]
    \cup [type : {"mergeBlocks"}, id : BlockIds, ids : SUBSET BlockIds, text : Values]
    \cup [type : {"updateMetadata"}]

(* The importers number the pages they build from 0.                       *)
Numbered(ps) == \A i \in 1 .. Len(ps) : ps[i].index = i - 1

ASSUME CoreAssumption ==
    /\ MaxCalls \in Nat
    /\ \A ps \in PatchSets : ps.ops \in Seq(Operation)
    /\ \A ps \in Imports : ps \in Seq(Page) /\ Numbered(ps)

VARIABLES
    documentCache, \* the map, with the cached ids as its domain, to [pages,
                   \* applied]; applied is history: the operations in this
                   \* version, as <<call, position>>
    pc,            \* each client: "idle", "apply" or "put"
    call,          \* the call it makes, [doc, n, size], or None; size is the
                   \* number of operations in its patch set
    todo,          \* the operations it still has to apply
    work,          \* its version of the document
    calls,         \* calls made so far
    returned,      \* history: the calls that have put their document
    exposed        \* history: the calls that were put while another client
                   \* was between its get and its put, or whose document was
                   \* imported again or removed

client == <<pc, call, todo, work>>
vars == <<documentCache, client, calls, returned, exposed>>

NoPages == [pages |-> << >>, applied |-> {}]

Init ==
    /\ documentCache = [d \in {} |-> NoPages]
    /\ pc = [c \in Clients |-> "idle"]
    /\ call = [c \in Clients |-> None]
    /\ todo = [c \in Clients |-> << >>]
    /\ work = [c \in Clients |-> NoPages]
    /\ calls = 0
    /\ returned = {}
    /\ exposed = {}

\* The operations the cached version of d contains.
Applied(d) == IF d \in DOMAIN documentCache THEN documentCache[d].applied ELSE {}

\* Map.put(d, doc)
Cached(d, doc) ==
    [e \in DOMAIN documentCache \cup {d} |-> IF e = d THEN doc ELSE documentCache[e]]

Active(c, d) == pc[c] # "idle" /\ call[c].doc = d

-----------------------------------------------------------------------------
(* importDocument: what the importer built replaces what was cached.       *)
ImportDocument(d, ps) ==
    /\ documentCache' = Cached(d, [pages |-> ps, applied |-> {}])
    /\ exposed' = exposed \cup {k \in returned : k.doc = d}
    /\ UNCHANGED <<client, calls, returned>>

RemoveDocument(d) ==
    /\ d \in DOMAIN documentCache
    /\ documentCache' = [e \in DOMAIN documentCache \ {d} |-> documentCache[e]]
    /\ exposed' = exposed \cup {k \in returned : k.doc = d}
    /\ UNCHANGED <<client, calls, returned>>

-----------------------------------------------------------------------------
(* applyPatches(documentId, patchSet): the get.  A missing document or a   *)
(* patch set made for another document raises, and nothing changes.        *)
GetDocument(c, d, ps) ==
    /\ pc[c] = "idle"
    /\ calls < MaxCalls
    /\ calls' = calls + 1
    /\ d \in DOMAIN documentCache /\ ps.doc = d
    /\ pc' = [pc EXCEPT ![c] = "apply"]
    /\ call' = [call EXCEPT ![c] = [doc |-> d, n |-> calls, size |-> Len(ps.ops)]]
    /\ todo' = [todo EXCEPT ![c] = ps.ops]
    /\ work' = [work EXCEPT ![c] = documentCache[d]]
    /\ UNCHANGED <<documentCache, returned, exposed>>

GetRaises(c, d, ps) ==
    /\ pc[c] = "idle"
    /\ calls < MaxCalls
    /\ calls' = calls + 1
    /\ d \notin DOMAIN documentCache \/ ps.doc # d
    /\ UNCHANGED <<documentCache, client, returned, exposed>>

Done(c) ==
    /\ pc' = [pc EXCEPT ![c] = "idle"]
    /\ call' = [call EXCEPT ![c] = None]
    /\ todo' = [todo EXCEPT ![c] = << >>]
    /\ work' = [work EXCEPT ![c] = NoPages]

(* DocumentIrEngine.apply: the loop over the operations, on the client's   *)
(* own list.  An operation that raises ends the call with nothing put.     *)
ApplyOperation(c) ==
    /\ pc[c] = "apply"
    /\ todo[c] # << >>
    /\ ~OperationRaises(work[c].pages, Head(todo[c]))
    /\ work' = [work EXCEPT ![c] =
                   [pages |-> applyOperation(@.pages, Head(todo[c])),
                    applied |-> @.applied \cup
                        {<<call[c], call[c].size - Len(todo[c]) + 1>>}]]
    /\ todo' = [todo EXCEPT ![c] = Tail(@)]
    /\ UNCHANGED <<documentCache, pc, call, calls, returned, exposed>>

\* Seeded fault: an exception in the loop still puts what was done so far.
ApplyRaises_KeepsPartial(c) ==
    /\ pc[c] = "apply"
    /\ todo[c] # << >>
    /\ OperationRaises(work[c].pages, Head(todo[c]))
    /\ documentCache' = Cached(call[c].doc, work[c])
    /\ Done(c)
    /\ UNCHANGED <<calls, returned, exposed>>

ApplyRaises(c) ==
    /\ pc[c] = "apply"
    /\ todo[c] # << >>
    /\ OperationRaises(work[c].pages, Head(todo[c]))
    /\ Done(c)
    /\ UNCHANGED <<documentCache, calls, returned, exposed>>

ApplyDone(c) ==
    /\ pc[c] = "apply"
    /\ todo[c] = << >>
    /\ pc' = [pc EXCEPT ![c] = "put"]
    /\ UNCHANGED <<documentCache, call, todo, work, calls, returned, exposed>>

\* Seeded fault: the result is put only if nothing is cached.
PutDocument_IfAbsent(c) ==
    LET k == call[c]
    IN  /\ pc[c] = "put"
        /\ documentCache' = IF k.doc \in DOMAIN documentCache THEN documentCache
                            ELSE Cached(k.doc, work[c])
        /\ returned' = returned \cup {k}
        /\ exposed' = IF \E o \in Clients \ {c} : Active(o, k.doc)
                      THEN exposed \cup {k} ELSE exposed
        /\ Done(c)
        /\ calls' = calls

(* The put.  From here on the caller has its patches applied, and every    *)
(* other client between its get and its put will undo them.                *)
PutDocument(c) ==
    LET k == call[c]
    IN  /\ pc[c] = "put"
        /\ documentCache' = Cached(k.doc, work[c])
        /\ returned' = returned \cup {k}
        /\ exposed' = IF \E o \in Clients \ {c} : Active(o, k.doc)
                      THEN exposed \cup {k} ELSE exposed
        /\ Done(c)
        /\ calls' = calls

-----------------------------------------------------------------------------
Next ==
    \/ \E d \in DocIds : RemoveDocument(d) \/ \E ps \in Imports : ImportDocument(d, ps)
    \/ \E c \in Clients :
        \/ \E d \in DocIds, ps \in PatchSets : GetDocument(c, d, ps) \/ GetRaises(c, d, ps)
        \/ ApplyOperation(c) \/ ApplyRaises(c) \/ ApplyDone(c) \/ PutDocument(c)

Spec == Init /\ [][Next]_vars

-----------------------------------------------------------------------------
Call == [doc : DocIds, n : 0 .. MaxCalls, size : Nat]
Version == [pages : Seq(Page), applied : SUBSET (Call \X Nat)]

TypeOK ==
    /\ DOMAIN documentCache \subseteq DocIds
    /\ \A d \in DOMAIN documentCache : documentCache[d] \in Version
    /\ pc \in [Clients -> {"idle", "apply", "put"}]
    /\ DOMAIN call = Clients
    /\ \A c \in Clients : pc[c] # "idle" => call[c] \in Call
    /\ todo \in [Clients -> Seq(Operation)]
    /\ work \in [Clients -> Version]
    /\ calls \in 0 .. MaxCalls
    /\ returned \subseteq Call
    /\ exposed \subseteq returned

(* The pages of every cached document are numbered by their position,      *)
(* whatever was inserted, deleted or moved, with whatever index the        *)
(* inserted page came: applyInsertPage and applyDeletePage renumber, and   *)
(* no other operation changes the list of pages.                           *)
CachedPagesNumbered ==
    \A d \in DOMAIN documentCache : Numbered(documentCache[d].pages)

BlockIdsOf(ps) == UNION {Ids(ps[i].blocks) : i \in 1 .. Len(ps)}

(* May this operation make a block id disappear from the document?  Only   *)
(* the deletions and merges that name it, and the one accident: a move to  *)
(* a page index beyond the last page, which drops the block.               *)
MayDrop(op, id, ps) ==
    \/ op.type = "deleteBlock" /\ op.id = id
    \/ op.type = "deletePage" /\ IsIndex(op.page, ps) /\ id \in Ids(ps[op.page + 1].blocks)
    \/ op.type = "mergeBlocks" /\ id \in op.ids
    \/ op.type = "moveBlock" /\ op.id = id /\ op.to >= Len(ps)

Distinct(blocks) ==
    \A j, k \in 1 .. Len(blocks) : blocks[j].id = blocks[k].id => j = k

UniqueIds(ps) ==
    /\ \A i \in 1 .. Len(ps) : Distinct(ps[i].blocks)
    /\ \A i, k \in 1 .. Len(ps) :
          i # k => Ids(ps[i].blocks) \cap Ids(ps[k].blocks) = {}

(* May this operation make two blocks share an id?  Insertions of an id    *)
(* that is there, or of a page that has an id twice, a merge onto an id    *)
(* that is there and not merged, and a merge of blocks on several pages.   *)
MayDuplicate(op, ps) ==
    \/ op.type = "insertBlock" /\ op.block.id \in BlockIdsOf(ps)
    \/ /\ op.type = "insertPage"
       /\ \/ Ids(op.new.blocks) \cap BlockIdsOf(ps) # {}
          \/ ~Distinct(op.new.blocks)
    \/ /\ op.type = "mergeBlocks"
       /\ \/ op.id \in BlockIdsOf(ps) \ op.ids
          \/ \E i, j \in 1 .. Len(ps) : /\ i # j
                                        /\ Ids(ps[i].blocks) \cap op.ids # {}
                                        /\ Ids(ps[j].blocks) \cap op.ids # {}

Conserves(op, before, after) ==
    /\ \A id \in BlockIdsOf(before) \ BlockIdsOf(after) : MayDrop(op, id, before)
    /\ UniqueIds(before) /\ ~MayDuplicate(op, before) => UniqueIds(after)

(* An operation loses no block that it may not drop, and makes no block id *)
(* ambiguous that it may not duplicate: moves included, which take a block *)
(* off one page and add it to another or to the same, and merges, which    *)
(* rebuild the lists of every page that has one of their blocks.           *)
BlocksAreConserved ==
    [][\A c \in Clients :
         ApplyOperation(c) =>
            Conserves(Head(todo[c]), work[c].pages, work'[c].pages)]_vars

(* The patches of a call that has returned are in the cached document,     *)
(* unless the call was exposed: put while another client was between its   *)
(* get and its put, or followed by an import or a removal.  DocumentCore   *)
(* loses updates only so.                                                  *)
UpdatesLostOnlyIfExposed ==
    \A k \in returned \ exposed :
        \A i \in 1 .. k.size : <<k, i>> \in Applied(k.doc)

(* A cached version contains the operations of a patch set all or not at   *)
(* all, however many clients patch, and also when one of the operations    *)
(* raises.                                                                 *)
PatchSetsAreWhole ==
    \A d \in DocIds : \A o \in Applied(d) :
        \A i \in 1 .. o[1].size : <<o[1], i>> \in Applied(d)
=============================================================================
