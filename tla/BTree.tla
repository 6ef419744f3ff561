-------------------------------- MODULE BTree --------------------------------
(***************************************************************************)
(* The B+ tree of aster-storage/src/btree.rs.  The tree's pages are        *)
(* explicit: leaves are linked both ways and to their parent, an internal  *)
(* page holds the smallest key below each of its children but the first,   *)
(* and every page has a byte budget.  One action is one call of insert or  *)
(* delete; the pages it saves are saved in the code's order, and a page    *)
(* that does not fit stops the call where it stands.                       *)
(*                                                                         *)
(* A key is a number standing for its rank, a value is its length: the     *)
(* tree looks at nothing else.                                             *)
(***************************************************************************)
EXTENDS Integers, SequencesExt

CONSTANTS
    Key,        \* Ranks of the keys callers use.
    KeyBytes,   \* KeyBytes[k]: the length of the key of rank k.
    Value,      \* Lengths of the values callers store.
    Capacity    \* Bytes of a page left for a node: PAGE_SIZE - NODE_DATA.

VARIABLE pages  \* The page store: page number -> node.

vars == pages

NoPage == 0
Root == 1

Leaf(parent, previous, next, entries) ==
    [kind |-> "leaf", parent |-> parent, previous |-> previous, next |-> next,
     entries |-> entries]

Internal(parent, keys, children) ==
    [kind |-> "internal", parent |-> parent, keys |-> keys, children |-> children]

Entry(k, v) == [key |-> k, value |-> v]

EntryBytes(e) == 4 + KeyBytes[e.key] + e.value

LeafBytes(entries) == FoldSeq(LAMBDA e, used : EntryBytes(e) + used, 0, entries)

InternalBytes(keys) == FoldSeq(LAMBDA k, used : 10 + KeyBytes[k] + used, 8, keys)

(* encode_node's size check. *)
NodeFits(node) ==
    Capacity >= IF node.kind = "leaf" THEN LeafBytes(node.entries)
                                      ELSE InternalBytes(node.keys)

------------------------------------------------------------------------------
(* A call in progress: the store it has reached and whether it got an error *)
(* yet.  Nothing is saved after an error.                                   *)

Started == [pages |-> pages, ok |-> TRUE]

SaveNode(s, id, node) ==
    IF ~s.ok THEN s
    ELSE IF NodeFits(node) THEN [s EXCEPT !.pages = (id :> node) @@ @]
    ELSE [s EXCEPT !.ok = FALSE]

(* The n-th page the call allocates: a page number no page in use has. *)
Allocated(s, n) ==
    LET free == 1..(Cardinality(DOMAIN s.pages) + n) \ DOMAIN s.pages
    IN  CHOOSE id \in free : Cardinality({i \in free : i <= id}) = n

(* A page no link of a page in use leads to is never loaded again: the     *)
(* model forgets it, so that its number stands for a fresh one.            *)
Links(node) ==
    {node.parent} \union IF node.kind = "leaf" THEN {node.previous, node.next}
                         ELSE {node.children[i] : i \in DOMAIN node.children}

RECURSIVE InUse(_, _)
InUse(store, found) ==
    LET more == found \union (UNION {Links(store[id]) : id \in found} \ {NoPage})
    IN  IF more = found THEN found ELSE InUse(store, more)

Kept(store) == [id \in InUse(store, {Root}) |-> store[id]]

(* Mutant of ChildIndex: a separator is not counted as at most itself. *)
ChildIndexBelow(keys, k) == Cardinality({i \in DOMAIN keys : keys[i] < k}) + 1

(* The number of separators that are at most the key selects the child. *)
ChildIndex(keys, k) == Cardinality({i \in DOMAIN keys : keys[i] <= k}) + 1

RECURSIVE Descend(_, _, _)
Descend(store, id, k) ==
    IF store[id].kind = "leaf" THEN id
    ELSE Descend(store, store[id].children[ChildIndex(store[id].keys, k)], k)

FindLeaf(store, k) == Descend(store, Root, k)

RECURSIVE SubtreeMin(_, _)
SubtreeMin(store, id) ==
    IF store[id].kind = "leaf" THEN store[id].entries[1].key
    ELSE SubtreeMin(store, store[id].children[1])

PositionOf(child, parent) == CHOOSE i \in DOMAIN parent.children : parent.children[i] = child

RelinkNeighbor(s, neighbor, link, new) ==
    IF neighbor = NoPage \/ ~s.ok THEN s
    ELSE SaveNode(s, neighbor, [s.pages[neighbor] EXCEPT ![link] = new])

ReparentChildren(s, id, children) ==
    FoldSeq(LAMBDA child, t : IF t.ok THEN SaveNode(t, child, [t.pages[child] EXCEPT !.parent = id])
                                      ELSE t,
            s, children)

(* A child's minimum changed: the one separator that names it, in the      *)
(* nearest ancestor where it is not on the leftmost path, is replaced.     *)
RECURSIVE PropagateMinChange(_, _)
PropagateMinChange(s, child) ==
    LET parent == s.pages[child].parent
        position == PositionOf(child, s.pages[parent])
    IN  IF ~s.ok \/ parent = NoPage THEN s
        ELSE IF position = 1 THEN PropagateMinChange(s, parent)
        ELSE SaveNode(s, parent, [s.pages[parent] EXCEPT !.keys[position - 1] = SubtreeMin(s.pages, child)])

------------------------------------------------------------------------------
(* Insertion *)

(* The first prefix that holds at least half of the bytes, always leaving  *)
(* one entry for the right half.                                           *)
BalancedLeafSplit(entries) ==
    LET Reaches(i) == 2 * LeafBytes(SubSeq(entries, 1, i)) >= LeafBytes(entries)
        halves == {i \in 1..(Len(entries) - 1) : Reaches(i)}
    IN  IF halves = {} THEN Len(entries) \div 2 ELSE Min(halves)

RECURSIVE InsertParent(_, _, _, _, _), SplitInternal(_, _, _)
InsertParent(s, left, separator, right, parentId) ==
    LET parent == s.pages[parentId]
        position == PositionOf(left, parent)
        grown == Internal(parent.parent,
                          InsertAt(parent.keys, position, separator),
                          InsertAt(parent.children, position + 1, right))
        adopted == SaveNode(s, right, [s.pages[right] EXCEPT !.parent = parentId])
    IN  IF ~s.ok THEN s
        ELSE IF NodeFits(grown) THEN SaveNode(adopted, parentId, grown)
        ELSE SplitInternal(adopted, parentId, grown)

SplitInternal(s, id, node) ==
    LET middle == Len(node.keys) \div 2 + 1
        promoted == node.keys[middle]
        isRoot == node.parent = NoPage
        leftId == IF isRoot THEN Allocated(s, 1) ELSE id
        rightId == IF isRoot THEN Allocated(s, 2) ELSE Allocated(s, 1)
        above == IF isRoot THEN Root ELSE node.parent
        left == Internal(above, SubSeq(node.keys, 1, middle - 1), SubSeq(node.children, 1, middle))
        right == Internal(above, SubSeq(node.keys, middle + 1, Len(node.keys)),
                          SubSeq(node.children, middle + 1, Len(node.children)))
        adopted == ReparentChildren(ReparentChildren(s, leftId, left.children), rightId, right.children)
        saved == SaveNode(SaveNode(adopted, leftId, left), rightId, right)
    IN  IF Len(node.children) < 3 THEN [s EXCEPT !.ok = FALSE]
        ELSE IF isRoot THEN SaveNode(saved, Root, Internal(NoPage, <<promoted>>, <<leftId, rightId>>))
        ELSE InsertParent(saved, id, promoted, rightId, node.parent)

SplitLeaf(s, id, node) ==
    LET split == BalancedLeafSplit(node.entries)
        isRoot == node.parent = NoPage
        leftId == IF isRoot THEN Allocated(s, 1) ELSE id
        rightId == IF isRoot THEN Allocated(s, 2) ELSE Allocated(s, 1)
        above == IF isRoot THEN Root ELSE node.parent
        left == Leaf(above, node.previous, rightId, SubSeq(node.entries, 1, split))
        right == Leaf(above, leftId, node.next, SubSeq(node.entries, split + 1, Len(node.entries)))
        separator == right.entries[1].key
        linked == RelinkNeighbor(IF isRoot THEN RelinkNeighbor(s, node.previous, "next", leftId) ELSE s,
                                 node.next, "previous", rightId)
        saved == SaveNode(SaveNode(linked, leftId, left), rightId, right)
    IN  IF Len(node.entries) < 2 THEN [s EXCEPT !.ok = FALSE]
        ELSE IF isRoot THEN SaveNode(saved, Root, Internal(NoPage, <<separator>>, <<leftId, rightId>>))
        ELSE InsertParent(saved, id, separator, rightId, node.parent)

(* Mutant of WithEntry: the entry at the insertion point is overwritten. *)
WithEntryInPlace(entries, k, v) ==
    LET below == SelectSeq(entries, LAMBDA e : e.key < k)
        above == SelectSeq(entries, LAMBDA e : e.key > k)
    IN  below \o <<Entry(k, v)>> \o SubSeq(above, 2, Len(above))

WithEntry(entries, k, v) ==
    LET below == SelectSeq(entries, LAMBDA e : e.key < k)
        above == SelectSeq(entries, LAMBDA e : e.key > k)
    IN  below \o <<Entry(k, v)>> \o above

Inserted(s, k, v) ==
    LET id == FindLeaf(s.pages, k)
        old == s.pages[id]
        new == [old EXCEPT !.entries = WithEntry(@, k, v)]
        newMin == old.entries = << >> \/ old.entries[1].key # new.entries[1].key
        saved == SaveNode(s, id, new)
    IN  IF NodeFits(new)
        THEN IF newMin THEN PropagateMinChange(saved, id) ELSE saved
        ELSE SplitLeaf(s, id, new)

------------------------------------------------------------------------------
(* Deletion *)

(* An internal page that lost all but one child at the root disappears,    *)
(* with the one-child pages below it.                                      *)
RECURSIVE CollapseRoot(_, _)
CollapseRoot(s, child) ==
    LET node == s.pages[child]
        linked == RelinkNeighbor(RelinkNeighbor(s, node.previous, "next", Root), node.next, "previous", Root)
        top == [node EXCEPT !.parent = NoPage]
    IN  IF node.kind = "leaf" THEN SaveNode(linked, Root, top)
        ELSE IF Len(node.children) = 1 THEN CollapseRoot(s, node.children[1])
        ELSE SaveNode(ReparentChildren(s, Root, node.children), Root, top)

RecomputeInternalSeparators(s, id) ==
    LET node == s.pages[id]
        minima == [i \in 1..(Len(node.children) - 1) |-> SubtreeMin(s.pages, node.children[i + 1])]
        saved == SaveNode(s, id, [node EXCEPT !.keys = minima])
    IN  IF s.ok THEN PropagateMinChange(saved, id) ELSE s

RECURSIVE RemoveChild(_, _, _)
RemoveChild(s, parentId, child) ==
    LET parent == s.pages[parentId]
        position == PositionOf(child, parent)
        separator == IF position = 1 THEN 1 ELSE position - 1
        children == RemoveAt(parent.children, position)
        keys == IF parent.keys = << >> THEN << >> ELSE RemoveAt(parent.keys, separator)
    IN  IF ~s.ok THEN s
        ELSE IF children = << >>
        THEN IF parentId = Root THEN SaveNode(s, Root, Leaf(NoPage, NoPage, NoPage, << >>))
             ELSE RemoveChild(s, parent.parent, parentId)
        ELSE IF parentId = Root /\ Len(children) = 1 THEN CollapseRoot(s, children[1])
        ELSE RecomputeInternalSeparators(SaveNode(s, parentId, Internal(parent.parent, keys, children)), parentId)

UnlinkEmptyLeaf(s, id) ==
    LET node == s.pages[id]
        before == RelinkNeighbor(s, node.previous, "next", node.next)
        linked == RelinkNeighbor(before, node.next, "previous", node.previous)
    IN  RemoveChild(linked, node.parent, id)

(* Mutant of Deleted: the separator above a changed minimum is left. *)
DeletedKeepingSeparators(s, k) ==
    LET id == FindLeaf(s.pages, k)
        new == [s.pages[id] EXCEPT !.entries = SelectSeq(@, LAMBDA e : e.key # k)]
    IN  IF new.entries = << >> /\ id # Root THEN UnlinkEmptyLeaf(s, id) ELSE SaveNode(s, id, new)

Deleted(s, k) ==
    LET id == FindLeaf(s.pages, k)
        old == s.pages[id]
        new == [old EXCEPT !.entries = SelectSeq(@, LAMBDA e : e.key # k)]
        saved == SaveNode(s, id, new)
    IN  IF new.entries = << >> /\ id # Root THEN UnlinkEmptyLeaf(s, id)
        ELSE IF old.entries[1].key = k /\ new.entries # << >> THEN PropagateMinChange(saved, id)
        ELSE saved

------------------------------------------------------------------------------
(* Lookups *)

Get(store, k) ==
    SelectSeq(store[FindLeaf(store, k)].entries, LAMBDA e : e.key = k)

(* The leaf chain from a leaf on, as range walks it. *)
RECURSIVE Chain(_, _, _)
Chain(store, id, visited) ==
    IF id = NoPage \/ id \in visited THEN << >>
    ELSE store[id].entries \o Chain(store, store[id].next, visited \union {id})

Range0(store, start) ==
    SelectSeq(Chain(store, FindLeaf(store, start), {}), LAMBDA e : e.key >= start)

------------------------------------------------------------------------------
(* validate: what the code itself requires of a tree it opens.             *)

Increasing(keys) == \A i \in 1..(Len(keys) - 1) : keys[i] < keys[i + 1]

KeysOf(entries) == [i \in DOMAIN entries |-> entries[i].key]

RECURSIVE Reached(_, _), Depth(_, _)
Reached(store, id) ==
    IF store[id].kind = "leaf" THEN <<id>>
    ELSE <<id>> \o FlattenSeq([i \in DOMAIN store[id].children |-> Reached(store, store[id].children[i])])

LeafOrder(store, id) == SelectSeq(Reached(store, id), LAMBDA page : store[page].kind = "leaf")

Depth(store, id) ==
    IF store[id].kind = "leaf" THEN 0 ELSE Depth(store, store[id].children[1]) + 1

EntriesBelow(store, id) ==
    LET leaves == LeafOrder(store, id)
    IN  FlattenSeq([i \in DOMAIN leaves |-> store[leaves[i]].entries])

RECURSIVE ValidateSubtree(_, _, _)
ValidateSubtree(store, id, parent) ==
    LET node == store[id]
        child(i) == node.children[i]
    IN  /\ node.parent = parent
        /\ IF node.kind = "leaf"
           THEN /\ id = Root \/ node.entries # << >>
                /\ Increasing(KeysOf(node.entries))
           ELSE /\ Len(node.children) = Len(node.keys) + 1
                /\ Increasing(node.keys)
                /\ \A i \in DOMAIN node.children : ValidateSubtree(store, child(i), id)
                /\ \A i \in DOMAIN node.children : Depth(store, child(i)) = Depth(store, child(1))
                /\ \A i \in DOMAIN node.keys :
                      /\ node.keys[i] = SubtreeMin(store, child(i + 1))
                      /\ Last(EntriesBelow(store, child(i))).key < node.keys[i]

LeavesLinked(store) ==
    LET leaves == LeafOrder(store, Root)
        leaf(i) == IF i \in DOMAIN leaves THEN leaves[i] ELSE NoPage
    IN  \A i \in DOMAIN leaves :
          store[leaves[i]].previous = leaf(i - 1) /\ store[leaves[i]].next = leaf(i + 1)

Validate(store) ==
    /\ IsInjective(Reached(store, Root))
    /\ ValidateSubtree(store, Root, NoPage)
    /\ LeavesLinked(store)

------------------------------------------------------------------------------
Create == (Root :> Leaf(NoPage, NoPage, NoPage, << >>))

Init == pages = Create

(* A legal entry fits a page alone: insert's own check. *)
LegalEntry(k, v) == 4 + KeyBytes[k] + v <= Capacity

Insert(k, v) ==
    LET s == Inserted(Started, k, v)
    IN  /\ LegalEntry(k, v)
        /\ pages' = Kept(s.pages)

Delete(k) ==
    LET s == Deleted(Started, k)
    IN  /\ Get(pages, k) # << >>
        /\ pages' = Kept(s.pages)

Next == \E k \in Key : (\E v \in Value : Insert(k, v)) \/ Delete(k)

Spec == Init /\ [][Next]_vars

------------------------------------------------------------------------------
(* After any sequence of insertions and deletions the tree passes the      *)
(* checks BPlusTree::validate makes when the database is reopened: every   *)
(* separator is exactly the smallest key on its right, all leaves are at   *)
(* one depth, and the leaf links follow the tree order.                    *)
TreeIsValid == Validate(pages)

(* The entries on the leaves in use, as a map. *)
StoredEntries == UNION {ToSet(pages[id].entries) : id \in {i \in DOMAIN pages : pages[i].kind = "leaf"}}

Stored ==
    [k \in {e.key : e \in StoredEntries} |-> (CHOOSE e \in StoredEntries : e.key = k).value]

(* Descending from the root finds every stored key and no other, and a     *)
(* range scan along the leaf chain from any start key returns exactly the  *)
(* keys from there on, in order: get and range agree on what is stored,    *)
(* whatever splits and collapses came before.                              *)
LookupsAgree ==
    LET map == Stored
    IN  \A k \in Key :
          /\ Get(pages, k) = IF k \in DOMAIN map THEN <<Entry(k, map[k])>> ELSE << >>
          /\ Increasing(KeysOf(Range0(pages, k)))
          /\ ToSet(KeysOf(Range0(pages, k))) = {j \in DOMAIN map : j >= k}
=============================================================================
