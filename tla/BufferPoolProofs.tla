-------------------------- MODULE BufferPoolProofs --------------------------
(***************************************************************************)
(* What the buffer pool promises, for every number of pages, frames and    *)
(* threads: a committed image is never lost to an eviction or to a flush   *)
(* that failed half-way, a flush that succeeds makes every committed image *)
(* durable, and no page reaches the file before its log record does.       *)
(*                                                                         *)
(* None of these is inductive.  An eviction takes a clean frame on the     *)
(* word of two fields: "not dirty" must mean that the file has the image,  *)
(* and "no pins" that no guard is left on the frame.  PoolInv says what    *)
(* the fields mean: an image the file does not have is in a dirty frame    *)
(* (Unwritten), and the pins of a frame are the guards on it (PinsCount).  *)
(***************************************************************************)
EXTENDS BufferPool, FiniteSetTheorems, WellFoundedInduction, NaturalsInduction, TLAPS

Guard == [frame : Frame, page : PageId]

\* What the proofs assume of the constants: some frame, finitely many
\* threads, and a Nobody that is neither the content of a frame nor a guard.
PoolConstants ==
    /\ Capacity \in Nat \ {0}
    /\ IsFiniteSet(Thread)
    /\ MaxLsn \in Nat
    /\ Nobody \notin Frames \cup Guard

PoolTypes ==
    /\ frames \in [Frame -> Frames \cup {Nobody}]
    /\ hand \in Frame
    /\ guards \in [Thread -> Guard \cup {Nobody}]
    /\ disk \in [PageId -> 0 .. MaxLsn]
    /\ durable \in [PageId -> 0 .. MaxLsn]
    /\ latest \in [PageId -> 0 .. MaxLsn]
    /\ log \in 0 .. MaxLsn
    /\ flushed \in 0 .. MaxLsn

Holds(f, p) == frames[f] # Nobody /\ frames[f].page = p

\* A page is in one frame at most.
OneFrame == \A p \in PageId : \A f, g \in Frame : Holds(f, p) /\ Holds(g, p) => f = g

\* A frame has the latest image of its page.
Images == \A p \in PageId : \A f \in Frame : Holds(f, p) => frames[f].lsn = latest[p]

\* The image of a page that the file does not have is in a dirty frame.
Unwritten ==
    \A p \in PageId : disk[p] = latest[p] \/ \E f \in Frame : Holds(f, p) /\ frames[f].dirty

Holders(f) == {t \in Thread : guards[t] # Nobody /\ guards[t].frame = f}

\* A guard is on a frame that has its page.
GuardsHold == \A t \in Thread : guards[t] # Nobody => Holds(guards[t].frame, guards[t].page)

\* The pins of a frame are the guards on it.
PinsCount == \A f \in Frame : frames[f] # Nobody => frames[f].pins = Cardinality(Holders(f))

(* The log is durable through every image that has reached the file: the   *)
(* write-ahead rule that flush_all keeps by flushing the log first.        *)
LogBeforeImage == \A p \in PageId : disk[p] <= flushed /\ durable[p] <= flushed

\* Sequence numbers are handed out in order.
Numbered == flushed <= log /\ \A p \in PageId : latest[p] <= log

PoolInv ==
    /\ PoolTypes
    /\ OneFrame /\ Images /\ Unwritten
    /\ GuardsHold /\ PinsCount
    /\ LogBeforeImage /\ Numbered

------------------------------------------------------------------------------
(***************************************************************************)
(* Least and greatest numbers, and the clock.                              *)
(***************************************************************************)

\* A nonempty set of naturals has a least element, the one Min chooses.
LEMMA LeastNatural ==
    ASSUME NEW S, S \subseteq Nat, S # {}
    PROVE  Min(S) \in S
<1> DEFINE Less == {ss \in Nat \X Nat : ss[1] < ss[2]}
<1>1. IsWellFoundedOn(Less, Nat)
      BY Zenon, NatLessThanWellFounded DEF OpToRel
<1> HIDE DEF Less
<1>2. PICK x \in S : \A y \in S : ~ (<<y, x>> \in Less)
      BY Zenon, <1>1, WFMin
<1>3. ASSUME NEW y \in S
      PROVE  x <= y
      <2>1. SUFFICES ASSUME y < x PROVE <<y, x>> \in Less
            BY <1>2
      <2>   QED  BY <2>1 DEF Less
<1>   QED  BY Zenon, <1>3 DEF Min

\* A nonempty set of naturals below a bound has a greatest element, the one
\* Max chooses: it is as far below the bound as the least of the distances.
LEMMA GreatestNatural ==
    ASSUME NEW b \in Nat, NEW S, S \subseteq 0 .. b, S # {}
    PROVE  Max(S) \in S /\ \A y \in S : y <= Max(S)
<1> DEFINE Less == {ss \in Nat \X Nat : ss[1] < ss[2]}
           D == {d \in 0 .. b : b - d \in S}
<1>1. IsWellFoundedOn(Less, Nat)
      BY Zenon, NatLessThanWellFounded DEF OpToRel
<1>2. D \subseteq Nat /\ D # {}
      <2>1. PICK y \in S : TRUE
            OBVIOUS
      <2>2. b - y \in 0 .. b /\ b - (b - y) = y
            OBVIOUS
      <2>   QED  BY <2>1, <2>2
<1> HIDE DEF Less
<1>3. PICK d \in D : \A e \in D : ~ (<<e, d>> \in Less)
      <2> HIDE DEF D
      <2> QED  BY Zenon, <1>1, <1>2, WFMin
<1>4. ASSUME NEW y \in S
      PROVE  y <= b - d
      <2>1. b - y \in D
            OBVIOUS
      <2>2. ~ (b - y < d)
            <3>1. ~ (<<b - y, d>> \in Less)
                  <4> HIDE DEF D
                  <4> QED  BY Zenon, <1>3, <2>1
            <3>   QED  BY <3>1 DEF Less
      <2>   QED  BY <2>2
<1>5. b - d \in S
      OBVIOUS
<1> HIDE DEF D
<1>   QED  BY Zenon, <1>4, <1>5 DEF Max

\* The clock hand stays on a frame.
LEMMA ClockFrame ==
    ASSUME PoolConstants, NEW i \in Frame, NEW d \in Nat
    PROVE  (i + d) % Capacity \in Frame
BY DEF PoolConstants, Frame

------------------------------------------------------------------------------
(***************************************************************************)
(* choose_frame.  SameContent(x, y): two states of a frame differ at most  *)
(* in the reference bit, which is all the clock clears on its way.         *)
(***************************************************************************)

SameContent(x, y) ==
    /\ x \in Frames
    /\ x.page = y.page /\ x.lsn = y.lsn /\ x.pins = y.pins /\ x.dirty = y.dirty

Passed(new) ==
    \A f \in Frame : \/ frames[f] = Nobody /\ new[f] = Nobody
                     \/ frames[f] # Nobody /\ SameContent(new[f], frames[f])

Free(c) == frames[c] = Nobody \/ Evictable(c)

\* choose_frame returns a frame that is empty or clean and unpinned.
LEMMA ChoiceIsFree ==
    ASSUME PoolConstants, PoolTypes, ~ Exhausted
    PROVE  /\ Choice.frame \in Frame /\ Free(Choice.frame)
           /\ Choice.hand \in Frame
           /\ Choice.frames \in [Frame -> Frames \cup {Nobody}]
           /\ Passed(Choice.frames)
<1>1. Frame \subseteq Nat
      BY DEF Frame, PoolConstants
<1>2. \A d \in Nat : At(d) \in Frame
      BY Zenon, ClockFrame DEF At, PoolTypes
<1>3. \A f \in Frame : frames[f] # Nobody => frames[f] \in Frames
      BY Zenon DEF PoolTypes
<1>4. CASE Empty # {}
      <2>1. Choice = [frame |-> Min(Empty), frames |-> frames, hand |-> hand]
            BY Zenon, <1>4 DEF Choice
      <2>2. Empty \subseteq Nat
            BY <1>1 DEF Empty
      <2>3. Min(Empty) \in Empty
            BY Zenon, <1>4, <2>2, LeastNatural
      <2>4. Choice.frame = Min(Empty) /\ Choice.frames = frames /\ Choice.hand = hand
            BY <2>1
      <2>5. Passed(frames)
            BY Zenon, <1>3 DEF Passed, SameContent
      <2>   QED  BY Zenon, <2>3, <2>4, <2>5 DEF Empty, Free, PoolTypes
<1>5. CASE Empty = {}
      <2>1. Candidates # {} /\ Candidates \subseteq Nat /\ Cleared \subseteq Candidates
            BY <1>1, <1>5 DEF Exhausted, Candidates, Cleared
      <2>2. \A f \in Frame : frames[f] \in Frames
            BY Zenon, <1>3, <1>5 DEF Empty
      <2> DEFINE stop == IF Cleared # {} THEN Min(Cleared) ELSE Min(Candidates)
                 passed == IF Cleared # {} THEN {d \in Candidates : d < stop}
                                           ELSE Candidates
                 new == [f \in Frame |-> IF \E d \in passed : At(d) = f
                                         THEN [frames[f] EXCEPT !.referenced = FALSE]
                                         ELSE frames[f]]
      <2>3. Choice = [frame |-> At(stop), frames |-> new, hand |-> At(stop + 1)]
            BY Zenon, <1>5 DEF Choice
      <2>4. stop \in Candidates
            <3>1. CASE Cleared # {}
                  <4>1. Cleared \subseteq Nat
                        BY <2>1
                  <4>2. Min(Cleared) \in Cleared
                        BY Zenon, <3>1, <4>1, LeastNatural
                  <4>   QED  BY <3>1, <4>2, <2>1
            <3>2. CASE Cleared = {}
                  BY Zenon, <3>2, <2>1, LeastNatural
            <3>   QED  BY <3>1, <3>2
      <2> HIDE DEF stop, passed
      <2>5. stop \in Nat /\ stop + 1 \in Nat
            BY <2>1, <2>4
      <2>6. /\ new \in [Frame -> Frames \cup {Nobody}]
            /\ \A f \in Frame : SameContent(new[f], frames[f])
            <3>1. \A f \in Frame : SameContent(new[f], frames[f])
                  <4>1. TAKE f \in Frame
                  <4>2. frames[f] \in Frames
                        BY <2>2
                  <4>3. CASE \E d \in passed : At(d) = f
                        <5>1. new[f] = [frames[f] EXCEPT !.referenced = FALSE]
                              BY Zenon, <4>3
                        <5>   HIDE DEF new
                        <5>   QED  BY <4>2, <5>1 DEF SameContent, Frames
                  <4>4. CASE ~ \E d \in passed : At(d) = f
                        <5>1. new[f] = frames[f]
                              BY Zenon, <4>4
                        <5>   HIDE DEF new
                        <5>   QED  BY Zenon, <4>2, <5>1 DEF SameContent
                  <4>   QED  BY <4>3, <4>4
            <3>2. \A f \in Frame : new[f] \in Frames \cup {Nobody}
                  <4> HIDE DEF new
                  <4> QED  BY Zenon, <3>1 DEF SameContent
            <3>3. new = [f \in Frame |-> new[f]]
                  BY Zenon
            <3>   HIDE DEF new
            <3>   QED  BY Zenon, <3>1, <3>2, <3>3
      <2> HIDE DEF new
      <2>7. Choice.frame = At(stop) /\ Choice.frames = new /\ Choice.hand = At(stop + 1)
            BY <2>3
      <2>8. Free(At(stop)) /\ Passed(new)
            <3>1. Evictable(At(stop))
                  BY Zenon, <2>4 DEF Candidates
            <3>2. \A f \in Frame : frames[f] # Nobody
                  BY Zenon, <1>5 DEF Empty
            <3>   QED  BY Zenon, <2>6, <3>1, <3>2 DEF Free, Passed
      <2>   QED  BY Zenon, <1>2, <2>5, <2>6, <2>7, <2>8
<1>   QED  BY Zenon, <1>4, <1>5
\* No guard is on a frame that choose_frame may return.
LEMMA FreeUnheld ==
    ASSUME PoolConstants, PoolInv, NEW c \in Frame, Free(c)
    PROVE  Holders(c) = {}
<1>1. CASE frames[c] = Nobody
      BY Zenon, <1>1 DEF PoolInv, GuardsHold, Holders, Holds
<1>2. CASE frames[c] # Nobody
      <2>1. Cardinality(Holders(c)) = 0
            BY Zenon, <1>2 DEF Free, Evictable, PoolInv, PinsCount
      <2>2. IsFiniteSet(Holders(c))
            BY Zenon, FS_Subset DEF PoolConstants, Holders
      <2>   QED  BY Zenon, <2>1, <2>2, FS_EmptySet
<1>   QED  BY Zenon, <1>1, <1>2

\* The record choose_frame's caller puts in the frame, field by field.
LEMMA FrameRecord ==
    ASSUME PoolConstants, NEW p \in PageId, NEW i \in 0 .. MaxLsn, NEW d \in BOOLEAN
    PROVE  LET x == [page |-> p, lsn |-> i, pins |-> 1, dirty |-> d, referenced |-> TRUE]
           IN  /\ x \in Frames /\ x # Nobody
               /\ x.page = p /\ x.lsn = i /\ x.pins = 1 /\ x.dirty = d
<1> DEFINE x == [page |-> p, lsn |-> i, pins |-> 1, dirty |-> d, referenced |-> TRUE]
<1>1. x \in Frames
      BY DEF Frames
<1>2. x # Nobody
      BY Zenon, <1>1 DEF PoolConstants
<1>3. x.page = p /\ x.lsn = i
      OBVIOUS
<1>4. x.pins = 1
      OBVIOUS
<1>5. x.dirty = d
      BY Zenon
<1>   QED  BY Zenon, <1>1, <1>2, <1>3, <1>4, <1>5

LEMMA GuardRecord ==
    ASSUME PoolConstants, NEW c \in Frame, NEW p \in PageId
    PROVE  LET g == [frame |-> c, page |-> p]
           IN  g \in Guard /\ g # Nobody /\ g.frame = c /\ g.page = p
BY DEF Guard, PoolConstants

\* What a thread's page in a chosen frame leaves of the others: their content
\* and their guards.
Occupied(t, p, lsn, dirty, c) ==
    /\ Free(c)
    /\ frames' \in [Frame -> Frames \cup {Nobody}] /\ hand' \in Frame
    /\ frames'[c] # Nobody /\ frames'[c].page = p /\ frames'[c].lsn = lsn
    /\ frames'[c].pins = 1 /\ frames'[c].dirty = dirty
    /\ \A f \in Frame \ {c} : \/ frames[f] = Nobody /\ frames'[f] = Nobody
                              \/ /\ frames[f] # Nobody /\ frames'[f] # Nobody
                                 /\ SameContent(frames'[f], frames[f])
    /\ guards' \in [Thread -> Guard \cup {Nobody}]
    /\ guards'[t] # Nobody /\ guards'[t].frame = c /\ guards'[t].page = p
    /\ \A u \in Thread \ {t} : guards'[u] = guards[u]

LEMMA OccupyFrames ==
    ASSUME PoolConstants, PoolTypes, NEW t \in Thread, NEW p \in PageId,
           NEW lsn \in 0 .. MaxLsn, NEW dirty \in BOOLEAN,
           ~ Exhausted, Occupy(t, p, lsn, dirty)
    PROVE  \E c \in Frame : Occupied(t, p, lsn, dirty, c)
<1> DEFINE c == Choice.frame
           x == [page |-> p, lsn |-> lsn, pins |-> 1, dirty |-> dirty, referenced |-> TRUE]
           g == [frame |-> c, page |-> p]
<1>1. /\ c \in Frame /\ Free(c) /\ Choice.hand \in Frame
      /\ Choice.frames \in [Frame -> Frames \cup {Nobody}] /\ Passed(Choice.frames)
      BY Zenon, ChoiceIsFree
<1>2. /\ frames' = [Choice.frames EXCEPT ![c] = x]
      /\ hand' = Choice.hand
      /\ guards' = [guards EXCEPT ![t] = g]
      BY Zenon DEF Occupy
<1> HIDE DEF c
<1>3. /\ x \in Frames /\ x # Nobody
      /\ x.page = p /\ x.lsn = lsn /\ x.pins = 1 /\ x.dirty = dirty
      BY Zenon, FrameRecord
<1>4. g \in Guard /\ g # Nobody /\ g.frame = c /\ g.page = p
      BY Zenon, <1>1, GuardRecord
<1> HIDE DEF x, g
<1>5. /\ frames' \in [Frame -> Frames \cup {Nobody}]
      /\ frames'[c] = x /\ \A f \in Frame \ {c} : frames'[f] = Choice.frames[f]
      BY Zenon, <1>1, <1>2, <1>3
<1>6. /\ guards' \in [Thread -> Guard \cup {Nobody}]
      /\ guards'[t] = g /\ \A u \in Thread \ {t} : guards'[u] = guards[u]
      BY Zenon, <1>2, <1>4 DEF PoolTypes
<1>7. \A f \in Frame \ {c} : \/ frames[f] = Nobody /\ frames'[f] = Nobody
                             \/ /\ frames[f] # Nobody /\ frames'[f] # Nobody
                                /\ SameContent(frames'[f], frames[f])
      <2>1. Nobody \notin Frames
            BY Zenon DEF PoolConstants
      <2>2. TAKE f \in Frame \ {c}
      <2>3. frames'[f] = Choice.frames[f]
            BY Zenon, <1>5
      <2>4. \/ frames[f] = Nobody /\ Choice.frames[f] = Nobody
            \/ frames[f] # Nobody /\ SameContent(Choice.frames[f], frames[f])
            BY Zenon, <1>1 DEF Passed
      <2>5. SameContent(Choice.frames[f], frames[f]) => Choice.frames[f] # Nobody
            BY Zenon, <2>1 DEF SameContent
      <2>   QED  BY Zenon, <2>3, <2>4, <2>5
<1>   QED  BY Zenon, <1>1, <1>2, <1>3, <1>4, <1>5, <1>6, <1>7 DEF Occupied
\* A page that was in no frame enters a chosen one with its latest image: the
\* frame that is given up is clean and unpinned, so nothing is lost with it.
LEMMA OccupyKeeps ==
    ASSUME PoolConstants, PoolInv, NEW t \in Thread, NEW p \in PageId,
           NEW lsn, NEW dirty, NEW c \in Frame, Occupied(t, p, lsn, dirty, c),
           guards[t] = Nobody, Resident(p) = {},
           disk' = disk, latest' \in [PageId -> 0 .. MaxLsn], latest'[p] = lsn,
           \A q \in PageId \ {p} : latest'[q] = latest[q],
           disk[p] = lsn \/ dirty
    PROVE  OneFrame' /\ Images' /\ Unwritten' /\ GuardsHold' /\ PinsCount'
<1>1. Holders(c) = {}
      BY Zenon, FreeUnheld DEF Occupied
<1>2. \A q \in PageId : Holds(c, q)' <=> q = p
      BY Zenon DEF Occupied, Holds
<1>3. \A q \in PageId : \A f \in Frame \ {c} :
          Holds(f, q)' => Holds(f, q) /\ q # p /\ SameContent(frames'[f], frames[f])
      <2>1. TAKE q \in PageId
      <2>2. TAKE f \in Frame \ {c}
      <2>3. HAVE Holds(f, q)'
      <2>4. frames[f] # Nobody /\ SameContent(frames'[f], frames[f])
            BY Zenon, <2>3 DEF Occupied, Holds
      <2>5. Holds(f, q)
            BY Zenon, <2>3, <2>4 DEF Holds, SameContent
      <2>   QED  BY Zenon, <2>4, <2>5 DEF Resident, Holds
<1>4. \A q \in PageId : \A f \in Frame \ {c} :
          Holds(f, q) => Holds(f, q)' /\ frames'[f].dirty = frames[f].dirty
      BY Zenon DEF Occupied, Holds, SameContent
<1>5. OneFrame'
      <2>1. SUFFICES ASSUME NEW q \in PageId, NEW f \in Frame, NEW g \in Frame,
                            Holds(f, q)', Holds(g, q)'
                     PROVE  f = g
            BY Zenon DEF OneFrame
      <2>2. CASE f = c \/ g = c
            BY Zenon, <1>2, <1>3, <2>1, <2>2
      <2>3. CASE f # c /\ g # c
            <3>1. Holds(f, q) /\ Holds(g, q)
                  BY Zenon, <1>3, <2>1, <2>3
            <3>   QED  BY Zenon, <3>1 DEF PoolInv, OneFrame
      <2>   QED  BY Zenon, <2>2, <2>3
<1>6. Images'
      <2>1. SUFFICES ASSUME NEW q \in PageId, NEW f \in Frame, Holds(f, q)'
                     PROVE  frames'[f].lsn = latest'[q]
            BY Zenon DEF Images
      <2>2. CASE f = c
            BY Zenon, <1>2, <2>1, <2>2 DEF Occupied
      <2>3. CASE f # c
            <3>1. Holds(f, q) /\ q # p /\ frames'[f].lsn = frames[f].lsn
                  BY Zenon, <1>3, <2>1, <2>3 DEF SameContent
            <3>2. latest'[q] = latest[q]
                  BY Zenon, <3>1
            <3>   QED  BY Zenon, <3>1, <3>2 DEF PoolInv, Images
      <2>   QED  BY Zenon, <2>2, <2>3
<1>7. Unwritten'
      <2>1. SUFFICES ASSUME NEW q \in PageId, disk[q] # latest'[q]
                     PROVE  \E f \in Frame : Holds(f, q)' /\ frames'[f].dirty
            BY Zenon DEF Unwritten
      <2>2. CASE q = p
            BY Zenon, <1>2, <2>1, <2>2 DEF Occupied
      <2>3. CASE q # p
            <3>1. disk[q] # latest[q]
                  BY Zenon, <2>1, <2>3
            <3>2. PICK f \in Frame : Holds(f, q) /\ frames[f].dirty
                  BY Zenon, <3>1 DEF PoolInv, Unwritten
            <3>3. f # c
                  BY Zenon, <3>2 DEF Occupied, Free, Evictable, Holds
            <3>   QED  BY Zenon, <1>4, <3>2, <3>3
      <2>   QED  BY Zenon, <2>2, <2>3
<1>8. GuardsHold'
      <2>1. SUFFICES ASSUME NEW u \in Thread, guards'[u] # Nobody
                     PROVE  Holds(guards[u].frame, guards[u].page)'
            BY Zenon DEF GuardsHold
      <2>2. CASE u = t
            BY Zenon, <2>2 DEF Occupied, Holds
      <2>3. CASE u # t
            <3>1. guards'[u] = guards[u]
                  BY Zenon, <2>3 DEF Occupied
            <3>2. guards[u] \in Guard
                  BY Zenon, <2>1, <3>1 DEF PoolInv, PoolTypes
            <3>3. guards[u].frame \in Frame /\ guards[u].page \in PageId
                  BY <3>2 DEF Guard
            <3>4. guards[u].frame # c
                  BY Zenon, <1>1, <2>1, <3>1 DEF Holders
            <3>5. Holds(guards[u].frame, guards[u].page)
                  BY Zenon, <2>1, <3>1 DEF PoolInv, GuardsHold
            <3>6. frames'[guards[u].frame] # Nobody
                  /\ frames'[guards[u].frame].page = guards[u].page
                  BY Zenon, <1>4, <3>3, <3>4, <3>5 DEF Holds
            <3>   QED  BY Zenon, <3>1, <3>6 DEF Holds
      <2>   QED  BY Zenon, <2>2, <2>3
<1>9. PinsCount'
      <2>1. SUFFICES ASSUME NEW f \in Frame, frames'[f] # Nobody
                     PROVE  frames'[f].pins = Cardinality(Holders(f)')
            BY Zenon DEF PinsCount
      <2>2. CASE f = c
            <3>1. Holders(f)' = {t}
                  <4>1. \A u \in Thread \ {t} :
                            ~ (guards'[u] # Nobody /\ guards'[u].frame = c)
                        <5>1. TAKE u \in Thread \ {t}
                        <5>2. guards'[u] = guards[u]
                              BY Zenon DEF Occupied
                        <5>   QED  BY Zenon, <1>1, <5>2 DEF Holders
                  <4>2. guards'[t] # Nobody /\ guards'[t].frame = c
                        BY Zenon DEF Occupied
                  <4>   QED  BY Zenon, <2>2, <4>1, <4>2 DEF Holders
            <3>2. Cardinality({t}) = 1
                  BY Zenon, FS_Singleton
            <3>   QED  BY Zenon, <2>2, <3>1, <3>2 DEF Occupied
      <2>3. CASE f # c
            <3>1. Holders(f)' = Holders(f)
                  BY Zenon, <2>3 DEF Occupied, Holders
            <3>2. frames[f] # Nobody /\ frames'[f].pins = frames[f].pins
                  BY Zenon, <2>1, <2>3 DEF Occupied, SameContent
            <3>   QED  BY Zenon, <3>1, <3>2 DEF PoolInv, PinsCount
      <2>   QED  BY Zenon, <2>2, <2>3
<1>   QED  BY Zenon, <1>5, <1>6, <1>7, <1>8, <1>9
------------------------------------------------------------------------------
(***************************************************************************)
(* One lemma per action.                                                   *)
(***************************************************************************)

LEMMA FetchMissKeeps ==
    ASSUME PoolConstants, PoolInv, NEW t \in Thread, NEW p \in PageId, FetchMiss(t, p)
    PROVE  PoolInv'
<1>1. disk[p] \in 0 .. MaxLsn /\ FALSE \in BOOLEAN
      BY Zenon DEF PoolInv, PoolTypes
<1>2. PICK c \in Frame : Occupied(t, p, disk[p], FALSE, c)
      BY Zenon, <1>1, OccupyFrames DEF PoolInv, FetchMiss
<1>3. disk[p] = latest[p]
      BY Zenon DEF FetchMiss, Resident, PoolInv, Unwritten, Holds
<1>4. /\ disk' = disk /\ latest' = latest /\ durable' = durable
      /\ log' = log /\ flushed' = flushed /\ guards[t] = Nobody /\ Resident(p) = {}
      BY Zenon DEF FetchMiss
<1>5. OneFrame' /\ Images' /\ Unwritten' /\ GuardsHold' /\ PinsCount'
      <2>1. latest' \in [PageId -> 0 .. MaxLsn] /\ latest'[p] = disk[p]
            BY Zenon, <1>3, <1>4 DEF PoolInv, PoolTypes
      <2>   QED  BY Zenon, <1>2, <1>4, <2>1, OccupyKeeps
<1>6. PoolTypes'
      BY Zenon, <1>2, <1>4 DEF PoolInv, PoolTypes, Occupied
<1>7. LogBeforeImage' /\ Numbered'
      BY Zenon, <1>4 DEF PoolInv, LogBeforeImage, Numbered
<1>   QED  BY Zenon, <1>5, <1>6, <1>7 DEF PoolInv

\* A new number is above every number in use.
LEMMA NewNumber ==
    ASSUME PoolConstants, PoolInv, NEW p \in PageId, log < MaxLsn, log' = log + 1,
           latest' = [latest EXCEPT ![p] = log'],
           UNCHANGED <<disk, durable, flushed>>
    PROVE  /\ log' \in 0 .. MaxLsn /\ log + 1 \in 0 .. MaxLsn
           /\ latest' \in [PageId -> 0 .. MaxLsn] /\ latest'[p] = log'
           /\ \A q \in PageId \ {p} : latest'[q] = latest[q]
           /\ LogBeforeImage' /\ Numbered'
<1>1. /\ log \in Nat /\ flushed \in Nat /\ latest \in [PageId -> 0 .. MaxLsn]
      /\ flushed <= log /\ \A q \in PageId : latest[q] <= log
      BY DEF PoolInv, PoolTypes, Numbered
<1>2. log' \in 0 .. MaxLsn /\ log + 1 \in 0 .. MaxLsn /\ flushed <= log'
      BY <1>1 DEF PoolConstants
<1>3. /\ latest' \in [PageId -> 0 .. MaxLsn] /\ latest'[p] = log'
      /\ \A q \in PageId \ {p} : latest'[q] = latest[q]
      BY Zenon, <1>1, <1>2
<1>4. LogBeforeImage'
      BY Zenon DEF PoolInv, LogBeforeImage
<1>5. \A q \in PageId : latest'[q] <= log'
      <2>1. TAKE q \in PageId
      <2>2. CASE q = p
            BY <1>2, <1>3, <2>2
      <2>3. CASE q # p
            <3>1. latest'[q] = latest[q] /\ latest[q] <= log /\ latest[q] \in 0 .. MaxLsn
                  BY Zenon, <1>1, <1>3, <2>3
            <3>   QED  BY <1>1, <3>1
      <2>   QED  BY <2>2, <2>3
<1>6. Numbered'
      BY Zenon, <1>2, <1>5 DEF Numbered
<1>   QED  BY Zenon, <1>2, <1>3, <1>4, <1>6

LEMMA InstallKeeps ==
    ASSUME PoolConstants, PoolInv, NEW t \in Thread, NEW p \in PageId, Install(t, p)
    PROVE  PoolInv'
<1>1. /\ UNCHANGED <<disk, durable, flushed>> /\ guards[t] = Nobody /\ Resident(p) = {}
      /\ log < MaxLsn /\ log' = log + 1 /\ latest' = [latest EXCEPT ![p] = log']
      BY Zenon DEF Install
<1>2. /\ log' \in 0 .. MaxLsn /\ log + 1 \in 0 .. MaxLsn
      /\ latest' \in [PageId -> 0 .. MaxLsn] /\ latest'[p] = log'
      /\ \A q \in PageId \ {p} : latest'[q] = latest[q]
      /\ LogBeforeImage' /\ Numbered'
      BY Zenon, <1>1, NewNumber
<1>3. PICK c \in Frame : Occupied(t, p, log + 1, TRUE, c)
      <2>1. Occupy(t, p, log + 1, TRUE) /\ ~ Exhausted
            BY Zenon, <1>1 DEF Install
      <2>2. PoolTypes /\ TRUE \in BOOLEAN
            BY Zenon DEF PoolInv
      <2>   QED  BY Zenon, <1>2, <2>1, <2>2, OccupyFrames
<1>4. OneFrame' /\ Images' /\ Unwritten' /\ GuardsHold' /\ PinsCount'
      <2>1. latest'[p] = log + 1
            BY Zenon, <1>1, <1>2
      <2>   QED  BY Zenon, <1>1, <1>2, <1>3, <2>1, OccupyKeeps
<1>5. PoolTypes'
      BY Zenon, <1>1, <1>2, <1>3 DEF PoolInv, PoolTypes, Occupied
<1>   QED  BY Zenon, <1>2, <1>4, <1>5 DEF PoolInv
\* The fields of a frame after one of them was assigned.
LEMMA PinsRecord ==
    ASSUME NEW y \in Frames, NEW k \in Nat
    PROVE  LET x == [y EXCEPT !.pins = k]
           IN  /\ x \in Frames /\ x.page = y.page /\ x.lsn = y.lsn
               /\ x.dirty = y.dirty /\ x.pins = k
BY DEF Frames

LEMMA ReferencedRecord ==
    ASSUME NEW y \in Frames, NEW r \in BOOLEAN
    PROVE  LET x == [y EXCEPT !.referenced = r]
           IN  /\ x \in Frames /\ x.page = y.page /\ x.lsn = y.lsn
               /\ x.dirty = y.dirty /\ x.pins = y.pins
BY DEF Frames

LEMMA ImageRecord ==
    ASSUME NEW y \in Frames, NEW i \in 0 .. MaxLsn
    PROVE  LET x == [y EXCEPT !.lsn = i]
           IN  /\ x \in Frames /\ x.page = y.page /\ x.lsn = i
               /\ x.dirty = y.dirty /\ x.pins = y.pins
BY DEF Frames

LEMMA DirtyRecord ==
    ASSUME NEW y \in Frames, NEW d \in BOOLEAN
    PROVE  LET x == [y EXCEPT !.dirty = d]
           IN  /\ x \in Frames /\ x.page = y.page /\ x.lsn = y.lsn
               /\ x.dirty = d /\ x.pins = y.pins
BY DEF Frames

\* A step that changes one frame, and not its page.
Touched(f, x) ==
    /\ frames[f] # Nobody /\ x \in Frames /\ x.page = frames[f].page
    /\ frames' = [frames EXCEPT ![f] = x]

LEMMA TouchKeeps ==
    ASSUME PoolConstants, PoolInv, NEW f \in Frame, NEW x, Touched(f, x)
    PROVE  /\ frames' \in [Frame -> Frames \cup {Nobody}]
           /\ frames'[f] = x /\ x # Nobody /\ \A g \in Frame \ {f} : frames'[g] = frames[g]
           /\ \A g \in Frame : frames'[g] # Nobody <=> frames[g] # Nobody
           /\ \A g \in Frame : \A q : Holds(g, q)' <=> Holds(g, q)
           /\ OneFrame'
<1>1. x # Nobody
      BY Zenon DEF Touched, PoolConstants
<1>2. /\ frames' \in [Frame -> Frames \cup {Nobody}]
      /\ frames'[f] = x /\ \A g \in Frame \ {f} : frames'[g] = frames[g]
      BY Zenon DEF Touched, PoolInv, PoolTypes
<1>3. \A g \in Frame : frames'[g] # Nobody <=> frames[g] # Nobody
      BY Zenon, <1>1, <1>2 DEF Touched
<1>4. \A g \in Frame : \A q : Holds(g, q)' <=> Holds(g, q)
      <2>1. TAKE g \in Frame
      <2>2. TAKE q
      <2>3. CASE g = f
            BY Zenon, <1>1, <1>2, <2>3 DEF Touched, Holds
      <2>4. CASE g # f
            <3>1. frames'[g] = frames[g]
                  BY Zenon, <1>2, <2>4
            <3>   QED  BY Zenon, <3>1 DEF Holds
      <2>   QED  BY Zenon, <2>3, <2>4
<1>5. OneFrame'
      BY Zenon, <1>4 DEF PoolInv, OneFrame
<1>   QED  BY Zenon, <1>1, <1>2, <1>3, <1>4, <1>5

\* A step that changes the pins of one frame, and one guard with them.
LEMMA PinKeeps ==
    ASSUME PoolConstants, PoolInv, NEW f \in Frame, NEW x, Touched(f, x),
           x.lsn = frames[f].lsn, x.dirty = frames[f].dirty,
           UNCHANGED <<hand, disk, durable, log, flushed, latest>>,
           guards' \in [Thread -> Guard \cup {Nobody}], GuardsHold',
           x.pins = Cardinality(Holders(f)'),
           \A g \in Frame \ {f} : Holders(g)' = Holders(g)
    PROVE  PoolInv'
<1>1. /\ frames' \in [Frame -> Frames \cup {Nobody}]
      /\ frames'[f] = x /\ \A g \in Frame \ {f} : frames'[g] = frames[g]
      /\ \A g \in Frame : frames'[g] # Nobody <=> frames[g] # Nobody
      /\ \A g \in Frame : \A q : Holds(g, q)' <=> Holds(g, q)
      /\ OneFrame'
      BY Zenon, TouchKeeps
<1>2. \A g \in Frame : frames'[g].lsn = frames[g].lsn /\ frames'[g].dirty = frames[g].dirty
      BY Zenon, <1>1
<1>3. PoolTypes'
      BY Zenon, <1>1 DEF PoolInv, PoolTypes
<1>4. Images' /\ Unwritten'
      BY Zenon, <1>1, <1>2 DEF PoolInv, Images, Unwritten
<1>5. PinsCount'
      <2>1. SUFFICES ASSUME NEW g \in Frame, frames'[g] # Nobody
                     PROVE  frames'[g].pins = Cardinality(Holders(g)')
            BY Zenon DEF PinsCount
      <2>2. CASE g = f
            BY Zenon, <1>1, <2>2
      <2>3. CASE g # f
            <3>1. frames[g] # Nobody /\ frames'[g] = frames[g] /\ Holders(g)' = Holders(g)
                  BY Zenon, <1>1, <2>1, <2>3
            <3>   QED  BY Zenon, <3>1 DEF PoolInv, PinsCount
      <2>   QED  BY Zenon, <2>2, <2>3
<1>6. LogBeforeImage' /\ Numbered'
      BY Zenon DEF PoolInv, LogBeforeImage, Numbered
<1>   QED  BY Zenon, <1>1, <1>3, <1>4, <1>5, <1>6 DEF PoolInv

LEMMA FetchHitKeeps ==
    ASSUME PoolConstants, PoolInv, NEW t \in Thread, NEW p \in PageId, FetchHit(t, p)
    PROVE  PoolInv'
<1>1. PICK f \in Frame :
          /\ f \in Resident(p)
          /\ frames' = [frames EXCEPT ![f].pins = @ + 1, ![f].referenced = TRUE]
          /\ guards' = [guards EXCEPT ![t] = [frame |-> f, page |-> p]]
      BY Zenon DEF FetchHit, Resident
<1>2. frames[f] # Nobody /\ frames[f].page = p /\ frames[f] \in Frames
      BY Zenon, <1>1 DEF Resident, PoolInv, PoolTypes
<1>3. frames[f].pins + 1 \in Nat
      BY <1>2 DEF Frames
<1> DEFINE y == [frames[f] EXCEPT !.pins = frames[f].pins + 1]
           x == [y EXCEPT !.referenced = TRUE]
           g == [frame |-> f, page |-> p]
<1>4. frames' = [frames EXCEPT ![f] = x]
      BY <1>1, <1>2 DEF PoolInv, PoolTypes
<1>5. /\ y \in Frames /\ y.page = frames[f].page /\ y.lsn = frames[f].lsn
      /\ y.dirty = frames[f].dirty /\ y.pins = frames[f].pins + 1
      BY Zenon, <1>2, <1>3, PinsRecord
<1> HIDE DEF y
<1>6. /\ x \in Frames /\ x.page = frames[f].page /\ x.lsn = frames[f].lsn
      /\ x.dirty = frames[f].dirty /\ x.pins = frames[f].pins + 1
      <2>1. /\ x \in Frames /\ x.page = y.page /\ x.lsn = y.lsn
            /\ x.dirty = y.dirty /\ x.pins = y.pins
            BY Zenon, <1>5, ReferencedRecord
      <2>   HIDE DEF x
      <2>   QED  BY Zenon, <1>5, <2>1
<1>7. g \in Guard /\ g # Nobody /\ g.frame = f /\ g.page = p
      BY Zenon, GuardRecord
<1>8. guards' = [guards EXCEPT ![t] = g] /\ guards[t] = Nobody
      BY Zenon, <1>1 DEF FetchHit
<1> HIDE DEF x, g
<1>9. /\ guards' \in [Thread -> Guard \cup {Nobody}]
      /\ guards'[t] = g /\ \A u \in Thread \ {t} : guards'[u] = guards[u]
      BY Zenon, <1>7, <1>8 DEF PoolInv, PoolTypes
<1>10. Touched(f, x)
      BY Zenon, <1>2, <1>4, <1>6 DEF Touched
<1>11. GuardsHold'
      <2>1. SUFFICES ASSUME NEW u \in Thread, guards'[u] # Nobody
                     PROVE  Holds(guards[u].frame, guards[u].page)'
            BY Zenon DEF GuardsHold
      <2>2. \A h \in Frame : \A q : Holds(h, q)' <=> Holds(h, q)
            BY Zenon, <1>10, TouchKeeps
      <2>3. CASE u = t
            <3>1. Holds(f, p)'
                  BY Zenon, <1>2, <2>2 DEF Holds
            <3>2. guards'[u].frame = f /\ guards'[u].page = p
                  BY Zenon, <1>7, <1>9, <2>3
            <3>   QED  BY Zenon, <3>1, <3>2 DEF Holds
      <2>4. CASE u # t
            <3>1. guards'[u] = guards[u] /\ guards[u] \in Guard
                  BY Zenon, <1>9, <2>1, <2>4 DEF PoolInv, PoolTypes
            <3>2. guards[u].frame \in Frame
                  BY <3>1 DEF Guard
            <3>3. Holds(guards[u].frame, guards[u].page)
                  BY Zenon, <2>1, <3>1 DEF PoolInv, GuardsHold
            <3>4. /\ frames'[guards[u].frame] # Nobody
                  /\ frames'[guards[u].frame].page = guards[u].page
                  BY Zenon, <2>2, <3>2, <3>3 DEF Holds
            <3>   QED  BY Zenon, <3>1, <3>4 DEF Holds
      <2>   QED  BY Zenon, <2>3, <2>4
<1>12. \A h \in Frame \ {f} : Holders(h)' = Holders(h)
      <2>1. TAKE h \in Frame \ {f}
      <2>2. \A u \in Thread : guards'[u] # Nobody /\ guards'[u].frame = h
                              <=> guards[u] # Nobody /\ guards[u].frame = h
            BY Zenon, <1>7, <1>8, <1>9
      <2>   QED  BY Zenon, <2>2 DEF Holders
<1>13. x.pins = Cardinality(Holders(f)')
      <2>1. Holders(f)' = Holders(f) \cup {t} /\ t \notin Holders(f)
            <3>1. \A u \in Thread : guards'[u] # Nobody /\ guards'[u].frame = f
                                    <=> u = t \/ (guards[u] # Nobody /\ guards[u].frame = f)
                  BY Zenon, <1>7, <1>8, <1>9
            <3>2. Holders(f)' = Holders(f) \cup {t}
                  BY Zenon, <3>1 DEF Holders
            <3>   QED  BY Zenon, <1>8, <3>2 DEF Holders
      <2>2. IsFiniteSet(Holders(f))
            BY Zenon, FS_Subset DEF PoolConstants, Holders
      <2>3. Cardinality(Holders(f) \cup {t}) = Cardinality(Holders(f)) + 1
            BY Zenon, <2>1, <2>2, FS_AddElement
      <2>4. frames[f].pins = Cardinality(Holders(f))
            BY Zenon, <1>2 DEF PoolInv, PinsCount
      <2>   QED  BY Zenon, <1>6, <2>1, <2>3, <2>4
<1>   QED  BY Zenon, <1>6, <1>9, <1>10, <1>11, <1>12, <1>13, PinKeeps DEF FetchHit
\* The frame of a guard has the guard's page.
LEMMA GuardedFrame ==
    ASSUME PoolInv, NEW t \in Thread, guards[t] # Nobody
    PROVE  /\ guards[t].frame \in Frame /\ guards[t].page \in PageId
           /\ frames[guards[t].frame] # Nobody
           /\ frames[guards[t].frame].page = guards[t].page
           /\ frames[guards[t].frame] \in Frames
<1>1. guards[t] \in Guard
      BY Zenon DEF PoolInv, PoolTypes
<1>2. guards[t].frame \in Frame /\ guards[t].page \in PageId
      BY <1>1 DEF Guard
<1>3. Holds(guards[t].frame, guards[t].page)
      BY Zenon DEF PoolInv, GuardsHold
<1>   QED  BY Zenon, <1>2, <1>3 DEF Holds, PoolInv, PoolTypes

LEMMA DropKeeps ==
    ASSUME PoolConstants, PoolInv, NEW t \in Thread, Drop(t)
    PROVE  PoolInv'
<1>1. guards[t] # Nobody
      BY Zenon DEF Drop
<1>2. PICK f \in Frame : f = guards[t].frame
      BY Zenon, <1>1, GuardedFrame
<1>3. frames[f] # Nobody /\ frames[f] \in Frames
      BY Zenon, <1>1, <1>2, GuardedFrame
<1>4. IsFiniteSet(Holders(f)) /\ t \in Holders(f)
      BY Zenon, <1>1, <1>2, FS_Subset DEF PoolConstants, Holders
<1>5. /\ Cardinality(Holders(f) \ {t}) = Cardinality(Holders(f)) - 1
      /\ Cardinality(Holders(f) \ {t}) \in Nat
      BY Zenon, <1>4, FS_RemoveElement, FS_CardinalityType
<1>6. frames[f].pins = Cardinality(Holders(f))
      BY Zenon, <1>3 DEF PoolInv, PinsCount
<1>7. frames[f].pins - 1 \in Nat
      BY Zenon, <1>5, <1>6
<1> DEFINE x == [frames[f] EXCEPT !.pins = frames[f].pins - 1]
<1>8. frames' = [frames EXCEPT ![f] = x]
      BY Zenon, <1>2 DEF Drop
<1>9. /\ x \in Frames /\ x.page = frames[f].page /\ x.lsn = frames[f].lsn
      /\ x.dirty = frames[f].dirty /\ x.pins = frames[f].pins - 1
      BY Zenon, <1>3, <1>7, PinsRecord
<1> HIDE DEF x
<1>10. Touched(f, x)
      BY Zenon, <1>3, <1>8, <1>9 DEF Touched
<1>11. /\ guards' \in [Thread -> Guard \cup {Nobody}]
       /\ guards'[t] = Nobody /\ \A u \in Thread \ {t} : guards'[u] = guards[u]
      BY Zenon DEF PoolInv, PoolTypes, Drop
<1>12. GuardsHold'
      <2>1. SUFFICES ASSUME NEW u \in Thread, guards'[u] # Nobody
                     PROVE  Holds(guards[u].frame, guards[u].page)'
            BY Zenon DEF GuardsHold
      <2>2. \A h \in Frame : \A q : Holds(h, q)' <=> Holds(h, q)
            BY Zenon, <1>10, TouchKeeps
      <2>3. guards'[u] = guards[u] /\ guards[u] # Nobody
            BY Zenon, <1>11, <2>1
      <2>4. guards[u].frame \in Frame /\ Holds(guards[u].frame, guards[u].page)
            BY Zenon, <2>3, GuardedFrame DEF Holds
      <2>5. /\ frames'[guards[u].frame] # Nobody
            /\ frames'[guards[u].frame].page = guards[u].page
            BY Zenon, <2>2, <2>4 DEF Holds
      <2>   QED  BY Zenon, <2>3, <2>5 DEF Holds
<1>13. \A h \in Frame \ {f} : Holders(h)' = Holders(h)
      <2>1. TAKE h \in Frame \ {f}
      <2>2. \A u \in Thread : guards'[u] # Nobody /\ guards'[u].frame = h
                              <=> guards[u] # Nobody /\ guards[u].frame = h
            BY Zenon, <1>2, <1>11
      <2>   QED  BY Zenon, <2>2 DEF Holders
<1>14. x.pins = Cardinality(Holders(f)')
      <2>1. \A u \in Thread : guards'[u] # Nobody /\ guards'[u].frame = f
                              <=> u # t /\ guards[u] # Nobody /\ guards[u].frame = f
            BY Zenon, <1>11
      <2>2. Holders(f)' = Holders(f) \ {t}
            BY Zenon, <2>1 DEF Holders
      <2>   QED  BY Zenon, <1>5, <1>6, <1>9, <2>2
<1>   QED  BY Zenon, <1>9, <1>10, <1>11, <1>12, <1>13, <1>14, PinKeeps DEF Drop

LEMMA ReplaceKeeps ==
    ASSUME PoolConstants, PoolInv, NEW t \in Thread, Replace(t)
    PROVE  PoolInv'
<1>1. guards[t] # Nobody
      BY Zenon DEF Replace
<1>2. PICK f \in Frame : f = guards[t].frame
      BY Zenon, <1>1, GuardedFrame
<1>3. PICK p \in PageId : p = guards[t].page
      BY Zenon, <1>1, GuardedFrame
<1>4. frames[f] # Nobody /\ frames[f] \in Frames /\ frames[f].page = p
      BY Zenon, <1>1, <1>2, <1>3, GuardedFrame
<1>5. /\ UNCHANGED <<hand, guards, disk, durable, flushed>>
      /\ log < MaxLsn /\ log' = log + 1 /\ latest' = [latest EXCEPT ![p] = log']
      BY Zenon, <1>3 DEF Replace
<1>6. /\ log' \in 0 .. MaxLsn /\ log + 1 \in 0 .. MaxLsn
      /\ latest' \in [PageId -> 0 .. MaxLsn] /\ latest'[p] = log'
      /\ \A q \in PageId \ {p} : latest'[q] = latest[q]
      /\ LogBeforeImage' /\ Numbered'
      BY Zenon, <1>5, NewNumber
<1> DEFINE y == [frames[f] EXCEPT !.lsn = log']
           z == [y EXCEPT !.dirty = TRUE]
           x == [z EXCEPT !.referenced = TRUE]
<1>7. frames' = [frames EXCEPT ![f] = x]
      BY <1>2, <1>4 DEF Replace, PoolInv, PoolTypes
<1>8. /\ y \in Frames /\ y.page = p /\ y.lsn = log' /\ y.pins = frames[f].pins
      BY Zenon, <1>4, <1>6, ImageRecord
<1> HIDE DEF y
<1>9. /\ z \in Frames /\ z.page = p /\ z.lsn = log' /\ z.dirty = TRUE
      /\ z.pins = frames[f].pins
      <2>1. /\ z \in Frames /\ z.page = y.page /\ z.lsn = y.lsn
            /\ z.dirty = TRUE /\ z.pins = y.pins
            BY Zenon, <1>8, DirtyRecord
      <2>   HIDE DEF z
      <2>   QED  BY Zenon, <1>8, <2>1
<1> HIDE DEF z
<1>10. /\ x \in Frames /\ x.page = p /\ x.lsn = log' /\ x.dirty = TRUE
       /\ x.pins = frames[f].pins
      <2>1. /\ x \in Frames /\ x.page = z.page /\ x.lsn = z.lsn
            /\ x.dirty = z.dirty /\ x.pins = z.pins
            BY Zenon, <1>9, ReferencedRecord
      <2>   HIDE DEF x
      <2>   QED  BY Zenon, <1>9, <2>1
<1> HIDE DEF x
<1>11. Touched(f, x)
      BY Zenon, <1>4, <1>7, <1>10 DEF Touched
<1>12. /\ frames' \in [Frame -> Frames \cup {Nobody}]
       /\ frames'[f] = x /\ \A g \in Frame \ {f} : frames'[g] = frames[g]
       /\ \A g \in Frame : frames'[g] # Nobody <=> frames[g] # Nobody
       /\ \A g \in Frame : \A q : Holds(g, q)' <=> Holds(g, q)
       /\ OneFrame'
      BY Zenon, <1>11, TouchKeeps
<1>13. PoolTypes'
      BY Zenon, <1>5, <1>6, <1>12 DEF PoolInv, PoolTypes
<1>14. Holds(f, p) /\ \A g \in Frame : Holds(g, p) => g = f
      BY Zenon, <1>4 DEF Holds, PoolInv, OneFrame
<1>15. Images'
      <2>1. SUFFICES ASSUME NEW q \in PageId, NEW g \in Frame, Holds(g, q)'
                     PROVE  frames'[g].lsn = latest'[q]
            BY Zenon DEF Images
      <2>2. CASE g = f
            <3>1. q = p
                  BY Zenon, <1>4, <1>12, <2>1, <2>2 DEF Holds
            <3>   QED  BY Zenon, <1>6, <1>10, <1>12, <2>2, <3>1
      <2>3. CASE g # f
            <3>1. Holds(g, q) /\ frames'[g] = frames[g]
                  BY Zenon, <1>12, <2>1, <2>3
            <3>2. q # p
                  BY Zenon, <1>14, <2>3, <3>1
            <3>3. latest'[q] = latest[q]
                  BY Zenon, <1>6, <3>2
            <3>   QED  BY Zenon, <3>1, <3>3 DEF PoolInv, Images
      <2>   QED  BY Zenon, <2>2, <2>3
<1>16. Unwritten'
      <2>1. SUFFICES ASSUME NEW q \in PageId, disk'[q] # latest'[q]
                     PROVE  \E g \in Frame : Holds(g, q)' /\ frames'[g].dirty
            BY Zenon DEF Unwritten
      <2>2. CASE q = p
            BY Zenon, <1>10, <1>12, <1>14, <2>2
      <2>3. CASE q # p
            <3>1. disk[q] # latest[q]
                  BY Zenon, <1>5, <1>6, <2>1, <2>3
            <3>2. PICK g \in Frame : Holds(g, q) /\ frames[g].dirty
                  BY Zenon, <3>1 DEF PoolInv, Unwritten
            <3>3. g # f
                  BY Zenon, <1>4, <2>3, <3>2 DEF Holds
            <3>   QED  BY Zenon, <1>12, <3>2, <3>3
      <2>   QED  BY Zenon, <2>2, <2>3
<1>17. GuardsHold'
      <2>1. SUFFICES ASSUME NEW u \in Thread, guards[u] # Nobody
                     PROVE  Holds(guards[u].frame, guards[u].page)'
            BY Zenon, <1>5 DEF GuardsHold
      <2>2. guards[u].frame \in Frame /\ Holds(guards[u].frame, guards[u].page)
            BY Zenon, <2>1, GuardedFrame DEF Holds
      <2>3. /\ frames'[guards[u].frame] # Nobody
            /\ frames'[guards[u].frame].page = guards[u].page
            BY Zenon, <1>12, <2>2 DEF Holds
      <2>   QED  BY Zenon, <1>5, <2>3 DEF Holds
<1>18. PinsCount'
      <2>1. \A g \in Frame : Holders(g)' = Holders(g)
            BY Zenon, <1>5 DEF Holders
      <2>2. \A g \in Frame : frames'[g].pins = frames[g].pins
            BY Zenon, <1>10, <1>12
      <2>   QED  BY Zenon, <1>12, <2>1, <2>2 DEF PoolInv, PinsCount
<1>   QED  BY Zenon, <1>6, <1>12, <1>13, <1>15, <1>16, <1>17, <1>18 DEF PoolInv
\* The log is flushed through every dirty image, and no further than it goes.
LEMMA FlushedLog ==
    ASSUME PoolConstants, PoolInv, FlushLog
    PROVE  /\ flushed' \in 0 .. MaxLsn /\ flushed <= flushed' /\ flushed' <= log
           /\ \A f \in DirtyFrames : frames[f].lsn <= flushed'
<1>1. /\ log \in Nat /\ log \in 0 .. MaxLsn /\ flushed \in Nat /\ flushed <= log
      /\ flushed \in 0 .. MaxLsn
      BY DEF PoolInv, PoolTypes, Numbered
<1>2. CASE DirtyFrames = {}
      <2>1. flushed' = flushed
            BY Zenon, <1>2 DEF FlushLog
      <2>   QED  BY <1>1, <1>2, <2>1
<1>3. CASE DirtyFrames # {}
      <2> DEFINE S == {flushed} \union {frames[f].lsn : f \in DirtyFrames}
      <2>1. \A f \in DirtyFrames : frames[f].lsn \in 0 .. log
            <3>1. TAKE f \in DirtyFrames
            <3>2. f \in Frame /\ frames[f] # Nobody /\ frames[f] \in Frames
                  BY Zenon DEF DirtyFrames, PoolInv, PoolTypes
            <3>3. PICK p \in PageId : p = frames[f].page
                  BY <3>2 DEF Frames
            <3>4. frames[f].lsn = latest[p] /\ latest[p] <= log /\ latest[p] \in 0 .. MaxLsn
                  BY Zenon, <3>2, <3>3 DEF PoolInv, PoolTypes, Images, Numbered, Holds
            <3>   QED  BY <1>1, <3>4
      <2>2. S \subseteq 0 .. log /\ S # {}
            BY <1>1, <2>1
      <2>3. flushed \in S /\ \A f \in DirtyFrames : frames[f].lsn \in S
            BY Zenon
      <2>4. flushed' = Max(S)
            BY Zenon, <1>3 DEF FlushLog
      <2>   HIDE DEF S
      <2>5. Max(S) \in S /\ \A y \in S : y <= Max(S)
            BY Zenon, <1>1, <2>2, GreatestNatural
      <2>6. Max(S) \in 0 .. log
            BY Zenon, <2>2, <2>5
      <2>7. flushed' \in 0 .. MaxLsn /\ flushed' <= log
            BY <1>1, <2>4, <2>6 DEF PoolConstants
      <2>   QED  BY Zenon, <2>3, <2>4, <2>5, <2>7
<1>   QED  BY Zenon, <1>2, <1>3

\* What writing some dirty frames does: the file gets the latest images of
\* their pages and the frames become clean.
LEMMA WrittenFrames ==
    ASSUME PoolConstants, PoolInv, NEW W \in SUBSET DirtyFrames, WriteFrames(W)
    PROVE  /\ frames' \in [Frame -> Frames \cup {Nobody}]
           /\ \A f \in Frame \ W : frames'[f] = frames[f]
           /\ \A f \in W : frames[f] # Nobody /\ frames'[f] # Nobody
           /\ \A f \in W : /\ frames'[f].page = frames[f].page
                           /\ frames'[f].lsn = frames[f].lsn
                           /\ frames'[f].pins = frames[f].pins
           /\ disk' \in [PageId -> 0 .. MaxLsn]
           /\ \A p \in PageId : \/ disk'[p] = disk[p] /\ \A f \in W : ~ Holds(f, p)
                                \/ disk'[p] = latest[p] /\ \E f \in W : Holds(f, p)
<1>1. \A f \in W : f \in Frame /\ frames[f] # Nobody /\ frames[f] \in Frames
      BY Zenon DEF DirtyFrames, PoolInv, PoolTypes
<1>2. \A f \in Frame : frames'[f] = IF f \in W THEN [frames[f] EXCEPT !.dirty = FALSE]
                                               ELSE frames[f]
      BY Zenon DEF WriteFrames
<1>3. \A f \in Frame \ W : frames'[f] = frames[f]
      BY Zenon, <1>2
<1>4. \A f \in W : /\ frames'[f] \in Frames /\ frames'[f].page = frames[f].page
                   /\ frames'[f].lsn = frames[f].lsn /\ frames'[f].pins = frames[f].pins
      <2>1. TAKE f \in W
      <2>2. frames'[f] = [frames[f] EXCEPT !.dirty = FALSE]
            BY Zenon, <1>1, <1>2
      <2>3. frames[f] \in Frames /\ FALSE \in BOOLEAN
            BY Zenon, <1>1
      <2>   QED  BY Zenon, <2>2, <2>3, DirtyRecord
<1>5. frames' \in [Frame -> Frames \cup {Nobody}]
      <2>1. \A f \in Frame : frames'[f] \in Frames \cup {Nobody}
            BY Zenon, <1>3, <1>4 DEF PoolInv, PoolTypes
      <2>2. frames' = [f \in Frame |-> frames'[f]]
            BY Zenon DEF WriteFrames
      <2>   QED  BY Zenon, <2>1, <2>2
<1>6. \A f \in W : frames'[f] # Nobody
      BY Zenon, <1>4 DEF PoolConstants
<1>7. \A p \in PageId : \/ disk'[p] = disk[p] /\ \A f \in W : ~ Holds(f, p)
                        \/ disk'[p] = latest[p] /\ \E f \in W : Holds(f, p)
      <2>1. TAKE p \in PageId
      <2>2. disk'[p] = IF \E f \in W : frames[f].page = p
                       THEN frames[CHOOSE f \in W : frames[f].page = p].lsn
                       ELSE disk[p]
            BY Zenon DEF WriteFrames
      <2>3. CASE \E f \in W : frames[f].page = p
            <3>1. PICK f \in W : /\ f = CHOOSE h \in W : frames[h].page = p
                                 /\ frames[f].page = p
                  BY Zenon, <2>3
            <3>2. f \in Frame /\ Holds(f, p) /\ disk'[p] = frames[f].lsn
                  BY Zenon, <1>1, <2>2, <2>3, <3>1 DEF Holds
            <3>   QED  BY Zenon, <3>2 DEF PoolInv, Images
      <2>4. CASE ~ \E f \in W : frames[f].page = p
            BY Zenon, <2>2, <2>4 DEF Holds
      <2>   QED  BY Zenon, <2>3, <2>4
<1>8. disk' \in [PageId -> 0 .. MaxLsn]
      <2>1. \A p \in PageId : disk'[p] \in 0 .. MaxLsn
            BY Zenon, <1>7 DEF PoolInv, PoolTypes
      <2>2. disk' = [p \in PageId |-> disk'[p]]
            BY Zenon DEF WriteFrames
      <2>   QED  BY Zenon, <2>1, <2>2
<1>   QED  BY Zenon, <1>1, <1>3, <1>4, <1>5, <1>6, <1>7, <1>8
LEMMA WriteKeeps ==
    ASSUME PoolConstants, PoolInv, NEW W \in SUBSET DirtyFrames, WriteFrames(W),
           FlushLog, UNCHANGED <<hand, guards, log, latest>>,
           durable' = durable \/ durable' = disk'
    PROVE  PoolInv'
<1>1. /\ frames' \in [Frame -> Frames \cup {Nobody}]
      /\ \A f \in Frame \ W : frames'[f] = frames[f]
      /\ \A f \in W : frames[f] # Nobody /\ frames'[f] # Nobody
      /\ \A f \in W : /\ frames'[f].page = frames[f].page
                      /\ frames'[f].lsn = frames[f].lsn
                      /\ frames'[f].pins = frames[f].pins
      /\ disk' \in [PageId -> 0 .. MaxLsn]
      /\ \A p \in PageId : \/ disk'[p] = disk[p] /\ \A f \in W : ~ Holds(f, p)
                           \/ disk'[p] = latest[p] /\ \E f \in W : Holds(f, p)
      BY Zenon, WrittenFrames
<1>2. /\ flushed' \in 0 .. MaxLsn /\ flushed <= flushed' /\ flushed' <= log
      /\ \A f \in DirtyFrames : frames[f].lsn <= flushed'
      BY Zenon, FlushedLog
<1>3. \A f \in Frame : \A q : Holds(f, q)' <=> Holds(f, q)
      <2>1. TAKE f \in Frame
      <2>2. TAKE q
      <2>3. CASE f \in W
            BY Zenon, <1>1, <2>3 DEF Holds
      <2>4. CASE f \notin W
            <3>1. frames'[f] = frames[f]
                  BY Zenon, <1>1, <2>4
            <3>   QED  BY Zenon, <3>1 DEF Holds
      <2>   QED  BY Zenon, <2>3, <2>4
<1>4. \A f \in Frame : /\ frames'[f].lsn = frames[f].lsn /\ frames'[f].pins = frames[f].pins
                       /\ frames'[f] # Nobody <=> frames[f] # Nobody
      BY Zenon, <1>1
<1>5. PoolTypes'
      BY Zenon, <1>1, <1>2 DEF PoolInv, PoolTypes
<1>6. OneFrame' /\ Images'
      BY Zenon, <1>3, <1>4 DEF PoolInv, OneFrame, Images
<1>7. Unwritten'
      <2>1. SUFFICES ASSUME NEW p \in PageId, disk'[p] # latest[p]
                     PROVE  \E f \in Frame : Holds(f, p)' /\ frames'[f].dirty
            BY Zenon DEF Unwritten
      <2>2. disk'[p] = disk[p] /\ \A f \in W : ~ Holds(f, p)
            BY Zenon, <1>1, <2>1
      <2>3. PICK f \in Frame : Holds(f, p) /\ frames[f].dirty
            BY Zenon, <2>1, <2>2 DEF PoolInv, Unwritten
      <2>4. frames'[f] = frames[f]
            BY Zenon, <1>1, <2>2, <2>3
      <2>   QED  BY Zenon, <1>3, <2>3, <2>4
<1>8. GuardsHold'
      <2>1. SUFFICES ASSUME NEW u \in Thread, guards[u] # Nobody
                     PROVE  Holds(guards[u].frame, guards[u].page)'
            BY Zenon DEF GuardsHold
      <2>2. guards[u].frame \in Frame /\ Holds(guards[u].frame, guards[u].page)
            BY Zenon, <2>1, GuardedFrame DEF Holds
      <2>3. /\ frames'[guards[u].frame] # Nobody
            /\ frames'[guards[u].frame].page = guards[u].page
            BY Zenon, <1>3, <2>2 DEF Holds
      <2>   QED  BY Zenon, <2>3 DEF Holds
<1>9. PinsCount'
      <2>1. \A g \in Frame : Holders(g)' = Holders(g)
            BY Zenon DEF Holders
      <2>   QED  BY Zenon, <1>4, <2>1 DEF PoolInv, PinsCount
<1>10. \A p \in PageId : disk'[p] <= flushed'
      <2>1. TAKE p \in PageId
      <2>2. CASE disk'[p] = disk[p]
            <3>1. disk[p] <= flushed /\ disk[p] \in 0 .. MaxLsn /\ flushed \in 0 .. MaxLsn
                  BY Zenon DEF PoolInv, PoolTypes, LogBeforeImage
            <3>   QED  BY <1>2, <2>2, <3>1
      <2>3. CASE disk'[p] = latest[p] /\ \E f \in W : Holds(f, p)
            <3>1. PICK f \in W : Holds(f, p)
                  BY Zenon, <2>3
            <3>2. f \in Frame /\ f \in DirtyFrames
                  BY Zenon DEF DirtyFrames
            <3>3. latest[p] = frames[f].lsn
                  BY Zenon, <3>1, <3>2 DEF PoolInv, Images
            <3>   QED  BY Zenon, <1>2, <2>3, <3>2, <3>3
      <2>   QED  BY Zenon, <1>1, <2>2, <2>3
<1>11. \A p \in PageId : durable'[p] <= flushed'
      <2>1. TAKE p \in PageId
      <2>2. CASE durable' = durable
            <3>1. /\ durable[p] <= flushed /\ durable[p] \in 0 .. MaxLsn
                  /\ flushed \in 0 .. MaxLsn
                  BY Zenon DEF PoolInv, PoolTypes, LogBeforeImage
            <3>   QED  BY <1>2, <2>2, <3>1
      <2>3. CASE durable' = disk'
            BY Zenon, <1>10, <2>3
      <2>   QED  BY Zenon, <2>2, <2>3
<1>12. LogBeforeImage' /\ Numbered'
      BY Zenon, <1>2, <1>10, <1>11 DEF PoolInv, LogBeforeImage, Numbered
<1>   QED  BY Zenon, <1>5, <1>6, <1>7, <1>8, <1>9, <1>12 DEF PoolInv

\* A whole flush leaves the latest images in the file.
LEMMA FlushAllWrites ==
    ASSUME PoolConstants, PoolInv, FlushAll
    PROVE  PoolInv' /\ durable' = latest'
<1>1. /\ WriteFrames(DirtyFrames) /\ FlushLog /\ UNCHANGED <<hand, guards, log, latest>>
      /\ durable' = disk'
      BY Zenon DEF FlushAll
<1>2. PoolInv'
      BY Zenon, <1>1, WriteKeeps
<1>3. \A p \in PageId : disk'[p] = latest[p]
      <2>1. TAKE p \in PageId
      <2>2. \/ disk'[p] = disk[p] /\ \A f \in DirtyFrames : ~ Holds(f, p)
            \/ disk'[p] = latest[p]
            BY Zenon, <1>1, WrittenFrames
      <2>3. (\A f \in DirtyFrames : ~ Holds(f, p)) => disk[p] = latest[p]
            BY Zenon DEF PoolInv, Unwritten, DirtyFrames, Holds
      <2>   QED  BY Zenon, <2>2, <2>3
<1>4. disk' \in [PageId -> 0 .. MaxLsn] /\ latest \in [PageId -> 0 .. MaxLsn]
      BY Zenon, <1>2 DEF PoolInv, PoolTypes
<1>5. disk' = latest
      BY <1>3, <1>4
<1>   QED  BY Zenon, <1>1, <1>2, <1>5

LEMMA FlushFailsKeeps ==
    ASSUME PoolConstants, PoolInv, FlushFails
    PROVE  PoolInv'
<1>1. PICK n \in 0 .. Capacity : WriteFrames({f \in DirtyFrames : f < n})
      BY Zenon DEF FlushFails
<1>2. {f \in DirtyFrames : f < n} \in SUBSET DirtyFrames
      BY Zenon
<1>   QED  BY Zenon, <1>1, <1>2, WriteKeeps DEF FlushFails
\* The pool as it starts and as a power failure leaves it: empty, with what the
\* file has as the latest images.
EmptyPoolState ==
    /\ frames = [f \in Frame |-> Nobody] /\ hand = 0 /\ guards = [t \in Thread |-> Nobody]
    /\ disk \in [PageId -> 0 .. MaxLsn] /\ durable = disk /\ latest = disk
    /\ log \in 0 .. MaxLsn /\ flushed = log /\ \A p \in PageId : disk[p] <= flushed

LEMMA EmptyPoolNow ==
    ASSUME PoolConstants
    PROVE  EmptyPoolState => PoolInv
<1> SUFFICES ASSUME EmptyPoolState PROVE PoolInv
    OBVIOUS
<1>1. 0 \in Frame
      BY DEF PoolConstants, Frame
<1>2. \A f \in Frame : frames[f] = Nobody
      BY Zenon DEF EmptyPoolState
<1>3. PoolTypes
      BY Zenon, <1>1, <1>2 DEF PoolTypes, EmptyPoolState
<1>4. OneFrame /\ Images /\ PinsCount
      BY Zenon, <1>2 DEF OneFrame, Images, PinsCount, Holds
<1>5. Unwritten /\ GuardsHold
      BY Zenon DEF Unwritten, GuardsHold, EmptyPoolState
<1>6. flushed <= log
      BY DEF EmptyPoolState
<1>7. LogBeforeImage /\ Numbered
      BY Zenon, <1>6 DEF LogBeforeImage, Numbered, EmptyPoolState
<1>   QED  BY Zenon, <1>3, <1>4, <1>5, <1>7 DEF PoolInv

LEMMA EmptyPoolNext ==
    ASSUME PoolConstants
    PROVE  EmptyPoolState' => PoolInv'
<1>1. EmptyPoolState => PoolInv
      BY Zenon, EmptyPoolNow
<1>   QED  BY <1>1, PTL

LEMMA PowerFailureKeeps ==
    ASSUME PoolConstants, PoolInv, PowerFailure
    PROVE  PoolInv'
<1>1. PICK kept \in SUBSET PageId :
          disk' = [p \in PageId |-> IF p \in kept THEN disk[p] ELSE durable[p]]
      BY Zenon DEF PowerFailure
<1>2. \A p \in PageId : disk'[p] = disk[p] \/ disk'[p] = durable[p]
      BY Zenon, <1>1
<1>3. disk' \in [PageId -> 0 .. MaxLsn]
      <2>1. \A p \in PageId : disk'[p] \in 0 .. MaxLsn
            BY Zenon, <1>2 DEF PoolInv, PoolTypes
      <2>2. disk' = [p \in PageId |-> disk'[p]]
            BY Zenon, <1>1
      <2>   QED  BY Zenon, <2>1, <2>2
<1>4. \A p \in PageId : disk'[p] <= flushed
      BY Zenon, <1>2 DEF PoolInv, LogBeforeImage
<1>5. flushed \in 0 .. MaxLsn
      BY Zenon DEF PoolInv, PoolTypes
<1>6. EmptyPoolState'
      BY Zenon, <1>3, <1>4, <1>5 DEF EmptyPoolState, PowerFailure
<1>   QED  BY Zenon, <1>6, EmptyPoolNext

------------------------------------------------------------------------------
\* The invariant of the pool: what its dirty bits and pins mean holds at every
\* step of fetch, install, replace, drop and flush_all, failed flushes and
\* power failures included.
THEOREM PoolInvariance ==
    ASSUME PoolConstants
    PROVE  Spec => []PoolInv
<1>1. Init => PoolInv
      <2>1. SUFFICES ASSUME Init PROVE EmptyPoolState
            BY Zenon, EmptyPoolNow
      <2>2. 0 \in 0 .. MaxLsn /\ 0 <= 0
            BY DEF PoolConstants
      <2>3. disk = [p \in PageId |-> 0] /\ flushed = 0 /\ log = 0
            BY Zenon, <2>1 DEF Init
      <2>4. disk \in [PageId -> 0 .. MaxLsn] /\ \A p \in PageId : disk[p] <= flushed
            BY Zenon, <2>2, <2>3
      <2>   QED  BY Zenon, <2>1, <2>2, <2>3, <2>4 DEF Init, EmptyPoolState
<1>2. PoolInv /\ [Next]_vars => PoolInv'
      <2>1. ASSUME PoolInv, Next
            PROVE  PoolInv'
            BY Zenon, <2>1, FetchHitKeeps, FetchMissKeeps, InstallKeeps, ReplaceKeeps,
               DropKeeps, FlushAllWrites, FlushFailsKeeps, PowerFailureKeeps DEF Next
      <2>2. ASSUME PoolInv, UNCHANGED vars
            PROVE  PoolInv'
            <3>1. PoolTypes' /\ LogBeforeImage' /\ Numbered'
                  BY Zenon, <2>2 DEF vars, PoolInv, PoolTypes, LogBeforeImage, Numbered
            <3>2. OneFrame' /\ Images'
                  BY Zenon, <2>2 DEF vars, PoolInv, OneFrame, Images, Holds
            <3>3. Unwritten'
                  BY Zenon, <2>2 DEF vars, PoolInv, Unwritten, Holds
            <3>4. GuardsHold'
                  BY Zenon, <2>2 DEF vars, PoolInv, GuardsHold, Holds
            <3>5. PinsCount'
                  BY Zenon, <2>2 DEF vars, PoolInv, PinsCount, Holders
            <3>   QED  BY Zenon, <3>1, <3>2, <3>3, <3>4, <3>5 DEF PoolInv
      <2>   QED  BY Zenon, <2>1, <2>2
<1>   QED  BY <1>1, <1>2, PTL DEF Spec

\* Whoever fetches a page sees the image last committed to it, in its one
\* frame or in the file: eviction by choose_frame, which trusts the dirty bit
\* and the pin count, never loses one, and neither does a failed flush_all.
THEOREM CommittedImagesKept ==
    ASSUME PoolConstants
    PROVE  Spec => []NoCommittedImageIsLost
<1>1. PoolInv => NoCommittedImageIsLost
      <2>1. SUFFICES ASSUME PoolInv, NEW p \in PageId
                     PROVE  /\ Cardinality(Resident(p)) <= 1
                            /\ latest[p] = IF Resident(p) = {} THEN disk[p]
                                           ELSE frames[CHOOSE f \in Resident(p) : TRUE].lsn
            BY Zenon DEF NoCommittedImageIsLost
      <2>2. CASE Resident(p) = {}
            <3>1. latest[p] = disk[p]
                  BY Zenon, <2>1, <2>2 DEF PoolInv, Unwritten, Resident, Holds
            <3>2. Cardinality(Resident(p)) = 0
                  BY Zenon, <2>2, FS_EmptySet
            <3>   QED  BY <2>2, <3>1, <3>2
      <2>3. CASE Resident(p) # {}
            <3>1. PICK f \in Resident(p) : f = CHOOSE g \in Resident(p) : TRUE
                  BY Zenon, <2>3
            <3>2. f \in Frame /\ Holds(f, p)
                  BY Zenon DEF Resident, Holds
            <3>3. latest[p] = frames[f].lsn
                  BY Zenon, <2>1, <3>2 DEF PoolInv, Images
            <3>4. \A g \in Resident(p) : g = f
                  BY Zenon, <2>1, <3>2 DEF Resident, Holds, PoolInv, OneFrame
            <3>5. Resident(p) = {f}
                  BY Zenon, <3>4
            <3>6. Cardinality(Resident(p)) = 1
                  BY Zenon, <3>5, FS_Singleton
            <3>   QED  BY <2>3, <3>1, <3>3, <3>6
      <2>   QED  BY Zenon, <2>2, <2>3
<1>   QED  BY <1>1, PoolInvariance, PTL

\* A flush_all that returns Ok has made every committed image durable, the ones
\* an earlier failed flush left clean and unsynced included.
THEOREM FlushesMakeDurable ==
    ASSUME PoolConstants
    PROVE  Spec => FlushMakesDurable
<1>1. PoolInv /\ FlushAll => durable' = latest'
      BY Zenon, FlushAllWrites
<1>2. PoolInv /\ [Next]_vars => [FlushAll => durable' = latest']_vars
      BY Zenon, <1>1
<1>   QED  BY <1>2, PoolInvariance, PTL DEF Spec, FlushMakesDurable

\* No page image is in the file before the log is durable through it.
THEOREM LogFirst ==
    ASSUME PoolConstants
    PROVE  Spec => []LogBeforeImage
<1>1. PoolInv => LogBeforeImage
      BY Zenon DEF PoolInv
<1>   QED  BY <1>1, PoolInvariance, PTL
=============================================================================
