---------------------------- MODULE MCComponents ----------------------------
(***************************************************************************)
(* The components that share no state with any other: the query executor,  *)
(* the B+ tree with two page layouts, the heap page and the buffer pool.   *)
(* Each behaviour is one of one component.                                 *)
(***************************************************************************)
EXTENDS MCQuery

CONSTANTS p1, p2, p3, t1, t2, Nobody

VARIABLES component,
          pages,                         \* BTree
          page, held, retired,           \* HeapPage
          frames, hand, guards, disk,    \* BufferPool
          durable, log, flushed, latest

queryVars == <<tables, indexes, query, result>>
treeVars == pages
heapVars == <<page, held, retired>>
poolVars == <<frames, hand, guards, disk, durable, log, flushed, latest>>

\* Two entries to a leaf and three children to an internal page; or short keys
\* with values of two lengths, so that splits are uneven.
Even == INSTANCE BTree WITH
            Key <- 1..5, KeyBytes <- [k \in 1..5 |-> 6], Value <- {10}, Capacity <- 40
Uneven == INSTANCE BTree WITH
            Key <- 1..5, KeyBytes <- [k \in 1..5 |-> 2], Value <- {2, 6}, Capacity <- 36

Heap == INSTANCE HeapPage WITH
            Mark <- {1, 2}, Length <- {1, 4}, PageBytes <- 10, SlotBytes <- 2,
            Generations <- 65536, MaxReuse <- 2

Pool == INSTANCE BufferPool WITH
            PageId <- {p1, p2, p3}, Capacity <- 2, Thread <- {t1, t2}, MaxLsn <- 3

Trees == {"even tree", "uneven tree"}

NoQuery == tables = << >> /\ indexes = {} /\ query = None /\ result = None

InitComponents ==
    /\ Even!Init /\ Heap!Init /\ Pool!Init
    /\ \/ component = "query" /\ Init
       \/ component \in Trees \union {"heap", "pool"} /\ NoQuery

NextComponents ==
    \/ /\ component = "query" /\ Execute
       /\ UNCHANGED <<component, treeVars, heapVars, poolVars>>
    \/ /\ component = "even tree" /\ Even!Next
       /\ UNCHANGED <<component, queryVars, heapVars, poolVars>>
    \/ /\ component = "uneven tree" /\ Uneven!Next
       /\ UNCHANGED <<component, queryVars, heapVars, poolVars>>
    \/ /\ component = "heap" /\ Heap!Next
       /\ UNCHANGED <<component, queryVars, treeVars, poolVars>>
    \/ /\ component = "pool" /\ Pool!Next
       /\ UNCHANGED <<component, queryVars, treeVars, heapVars>>

SpecComponents ==
    InitComponents
    /\ [][NextComponents]_<<component, queryVars, treeVars, heapVars, poolVars>>

-----------------------------------------------------------------------------
(* The tree passes BPlusTree::validate after every call (BTree).           *)
TreeIsValid ==
    /\ component = "even tree" => Even!TreeIsValid
    /\ component = "uneven tree" => Uneven!TreeIsValid

(* get and range find exactly what is stored (BTree); the lookups do not   *)
(* depend on the page layout.                                              *)
LookupsAgree == component \in Trees => Even!LookupsAgree

Map == INSTANCE OrderedMap WITH
            Key <- 1..5, Value <- {2, 6, 10},
            map <- IF component \in Trees THEN Even!Stored ELSE << >>

(* Every insertion and deletion, with all the page splitting, unlinking    *)
(* and root collapsing it causes, is one step of the abstract map: the     *)
(* tree implements OrderedMap.                                             *)
ImplementsOrderedMap == Map!Spec

(* What a holder stored is what it reads back (HeapPage).                  *)
RecordsAreKept == component = "heap" => Heap!RecordsAreKept

(* A deleted record's identifier reaches no other record (HeapPage).       *)
RetiredStayGone == component = "heap" => Heap!RetiredStayGone

(* A fetch returns the image last committed (BufferPool).                  *)
NoCommittedImageIsLost == component = "pool" => Pool!NoCommittedImageIsLost

(* A flush that succeeds leaves every committed image durable (BufferPool). *)
FlushMakesDurable == Pool!FlushMakesDurable
=============================================================================
