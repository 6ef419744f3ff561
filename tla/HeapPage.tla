------------------------------ MODULE HeapPage ------------------------------
(***************************************************************************)
(* The slotted heap page of aster-storage/src/heap.rs.  A slot directory   *)
(* grows from the front of the page, record bodies are packed from its     *)
(* end, a record identifier is a slot number with the slot's generation.   *)
(* The page is modelled byte by byte, because the question is whether the  *)
(* bytes a caller stored are the bytes it reads back after other records   *)
(* were moved, shrunk, grown and deleted around them.  A record is a mark  *)
(* repeated over its length.                                               *)
(***************************************************************************)
EXTENDS Integers, SequencesExt

CONSTANTS
    Mark,           \* Contents records are filled with.
    Length,         \* Lengths of the records callers write.
    PageBytes,      \* Size of the page after its header.
    SlotBytes,      \* Size of a slot of the directory.
    Generations,    \* Number of values of the generation field: 2^16.
    MaxReuse        \* Bound on how often one slot is filled.

VARIABLES
    page,       \* slots, upper (where the bodies begin) and the bytes.
    held,       \* Record identifier -> the record its holder stored last.
    retired     \* Record identifiers that were deleted.

vars == <<page, held, retired>>

Slot(offset, length, live, generation) ==
    [offset |-> offset, length |-> length, live |-> live, generation |-> generation]

Rid(slot, generation) == [slot |-> slot, generation |-> generation]

Record(mark, length) == [mark |-> mark, length |-> length]

Lower(p) == SlotBytes * Len(p.slots)

ContiguousFreeBytes(p) == IF p.upper >= Lower(p) THEN p.upper - Lower(p) ELSE 0

Body(offset, length) == offset..(offset + length - 1)

(* Mutant of Filled: one byte too many is written. *)
FilledTooFar(bytes, offset, length, mark) ==
    [i \in DOMAIN bytes |-> IF i \in offset..(offset + length) THEN mark ELSE bytes[i]]

Filled(bytes, offset, length, mark) ==
    [i \in DOMAIN bytes |-> IF i \in Body(offset, length) THEN mark ELSE bytes[i]]

(* Mutant of NextGeneration: a reused slot keeps its generation. *)
SameGeneration(g) == g

NextGeneration(g) == IF (g + 1) % Generations = 0 THEN 1 ELSE (g + 1) % Generations

(* check_rid *)
Valid(p, rid) ==
    /\ rid.slot \in DOMAIN p.slots
    /\ p.slots[rid.slot].live
    /\ p.slots[rid.slot].generation = rid.generation

------------------------------------------------------------------------------
(* Live bodies are packed against the end of the page in slot order; the   *)
(* directory keeps the dead slots with their generations.                  *)
LiveBytesFrom(p, slot) ==
    LET sizes == [i \in DOMAIN p.slots |-> IF p.slots[i].live THEN p.slots[i].length ELSE 0]
    IN  FoldSeq(+, 0, SubSeq(sizes, 1, slot))

Compacted(p) ==
    LET offset(i) == PageBytes - LiveBytesFrom(p, i)
        moved == [i \in DOMAIN p.slots |->
                    IF p.slots[i].live THEN [p.slots[i] EXCEPT !.offset = offset(i)] ELSE p.slots[i]]
        byte(b) == {i \in DOMAIN moved : moved[i].live /\ b \in Body(moved[i].offset, moved[i].length)}
    IN  [slots |-> moved,
         upper |-> PageBytes - LiveBytesFrom(p, Len(p.slots)),
         bytes |-> [b \in DOMAIN p.bytes |->
                      IF byte(b) = {} THEN 0
                      ELSE LET i == CHOOSE i \in byte(b) : TRUE
                           IN  p.bytes[p.slots[i].offset + (b - moved[i].offset)]]]

(* The record's body goes below the others and its slot names it. *)
Placed(p, slot, generation, mark, length) ==
    LET offset == p.upper - length
        entry == Slot(offset, length, TRUE, generation)
    IN  [slots |-> IF slot \in DOMAIN p.slots THEN [p.slots EXCEPT ![slot] = entry]
                                              ELSE Append(p.slots, entry),
         upper |-> offset,
         bytes |-> Filled(p.bytes, offset, length, mark)]

------------------------------------------------------------------------------
Init ==
    /\ page = [slots |-> << >>, upper |-> PageBytes, bytes |-> [b \in 0..(PageBytes - 1) |-> 0]]
    /\ held = << >>
    /\ retired = {}

Reusable == {i \in DOMAIN page.slots : ~page.slots[i].live}

(* An insertion takes the first dead slot, or a new one, and compacts the  *)
(* page once when the record does not fit.  A refused insertion leaves the *)
(* page compacted.                                                         *)
Insert(mark, length) ==
    LET reuse == Reusable # {}
        slot == IF reuse THEN Min(Reusable) ELSE Len(page.slots) + 1
        need == length + IF reuse THEN 0 ELSE SlotBytes
        p == IF need > ContiguousFreeBytes(page) THEN Compacted(page) ELSE page
        generation == IF reuse THEN NextGeneration(page.slots[slot].generation) ELSE 1
    IN  /\ length > 0
        /\ Cardinality({rid \in retired : rid.slot = slot}) < MaxReuse
        /\ IF need > ContiguousFreeBytes(p)
           THEN page' = p /\ UNCHANGED held
           ELSE /\ page' = Placed(p, slot, generation, mark, length)
                /\ held' = (Rid(slot, generation) :> Record(mark, length)) @@ held
        /\ UNCHANGED retired

(* A shorter record overwrites the old body in place; a longer one is      *)
(* moved after a compaction, on a private copy that a refusal discards.    *)
Update(rid, mark, length) ==
    LET slot == page.slots[rid.slot]
        shrunk == [page EXCEPT !.slots[rid.slot].length = length,
                               !.bytes = Filled(Filled(@, slot.offset, slot.length, 0),
                                                slot.offset, length, mark)]
        freed == Compacted([page EXCEPT !.slots[rid.slot].live = FALSE])
    IN  /\ Valid(page, rid)
        /\ IF length <= slot.length
           THEN page' = shrunk /\ held' = [held EXCEPT ![rid] = Record(mark, length)]
           ELSE IF length > ContiguousFreeBytes(freed)
           THEN UNCHANGED <<page, held>>
           ELSE /\ page' = Placed(freed, rid.slot, rid.generation, mark, length)
                /\ held' = [held EXCEPT ![rid] = Record(mark, length)]
        /\ UNCHANGED retired

Delete(rid) ==
    /\ Valid(page, rid)
    /\ page' = [page EXCEPT !.slots[rid.slot].live = FALSE]
    /\ held' = [r \in DOMAIN held \ {rid} |-> held[r]]
    /\ retired' = retired \union {rid}

Compact ==
    /\ page' = Compacted(page)
    /\ UNCHANGED <<held, retired>>

Next ==
    \/ \E mark \in Mark, length \in Length : Insert(mark, length)
    \/ \E rid \in DOMAIN held, mark \in Mark, length \in Length : Update(rid, mark, length)
    \/ \E rid \in DOMAIN held : Delete(rid)
    \/ Compact

Spec == Init /\ [][Next]_vars

------------------------------------------------------------------------------
(* What get returns for a held identifier is what its holder stored last,  *)
(* byte for byte, however the bodies around it were moved, grown, shrunk   *)
(* and reused (get, update_in_place, compact).                             *)
RecordsAreKept ==
    \A rid \in DOMAIN held :
      LET slot == page.slots[rid.slot]
      IN  /\ Valid(page, rid)
          /\ slot.length = held[rid].length
          /\ \A b \in Body(slot.offset, slot.length) : page.bytes[b] = held[rid].mark

(* An identifier whose record was deleted never reaches another record:    *)
(* "a reused slot cannot resurrect an old RecordId after compaction"       *)
(* (heap.rs, compact).                                                     *)
RetiredStayGone == \A rid \in retired : ~Valid(page, rid)
=============================================================================
