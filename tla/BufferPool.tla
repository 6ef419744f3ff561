----------------------------- MODULE BufferPool -----------------------------
(***************************************************************************)
(* The bounded clock buffer pool of aster-storage/src/buffer.rs, shared by *)
(* several threads.  Every method runs under the pool's mutex, so each is  *)
(* one action; what interleaves is the guards threads hold between calls.  *)
(* A page image is its log sequence number: each replacement has a new     *)
(* one, and number 0 is the image the disk starts with.                    *)
(***************************************************************************)
EXTENDS Integers, FiniteSetsExt, TLC

CONSTANTS
    PageId,     \* The pages of the database file.
    Capacity,   \* Number of frames.
    Thread,     \* Threads, each holding at most one guard.
    MaxLsn,     \* Bound on the images ever written to the log.
    Nobody      \* No guard, or an empty frame.

VARIABLES
    frames,     \* Frame number -> Nobody or the page, pins and bits it holds.
    hand,       \* The clock hand.
    guards,     \* Thread -> Nobody or the guard (frame and page) it holds.
    disk,       \* Page -> the image a read of the file returns.
    durable,    \* Page -> the image that survives a power failure.
    log,        \* Highest log sequence number handed out.
    flushed,    \* Log sequence number through which the log is durable.
    latest      \* Page -> the image last committed to the pool.

vars == <<frames, hand, guards, disk, durable, log, flushed, latest>>

Frame == 0..(Capacity - 1)

Frames == [page : PageId, lsn : 0..MaxLsn, pins : Nat, dirty : BOOLEAN, referenced : BOOLEAN]

Init ==
    /\ frames = [f \in Frame |-> Nobody]
    /\ hand = 0
    /\ guards = [t \in Thread |-> Nobody]
    /\ disk = [p \in PageId |-> 0]
    /\ durable = disk
    /\ log = 0
    /\ flushed = 0
    /\ latest = disk

Resident(p) == {f \in Frame : frames[f] # Nobody /\ frames[f].page = p}

(* Mutant of Evictable: dirty frames may be stolen. *)
EvictableDirty(f) == frames[f].pins = 0

Evictable(f) == frames[f].pins = 0 /\ ~frames[f].dirty

------------------------------------------------------------------------------
(* choose_frame: an empty frame if there is one; else the clock passes at  *)
(* most twice over the frames, clearing the reference bit of each clean    *)
(* unpinned one it passes and taking the first it finds cleared.           *)

At(d) == (hand + d) % Capacity

Empty == {f \in Frame : frames[f] = Nobody}

Candidates == {d \in Frame : Evictable(At(d))}

Cleared == {d \in Candidates : ~frames[At(d)].referenced}

Choice ==
    IF Empty # {}
    THEN [frame |-> Min(Empty), frames |-> frames, hand |-> hand]
    ELSE LET stop == IF Cleared # {} THEN Min(Cleared) ELSE Min(Candidates)
             passed == IF Cleared # {} THEN {d \in Candidates : d < stop} ELSE Candidates
         IN  [frame |-> At(stop),
              frames |-> [f \in Frame |-> IF \E d \in passed : At(d) = f
                                          THEN [frames[f] EXCEPT !.referenced = FALSE]
                                          ELSE frames[f]],
              hand |-> At(stop + 1)]

Exhausted == Empty = {} /\ Candidates = {}

Occupy(t, p, lsn, dirty) ==
    /\ frames' = [Choice.frames EXCEPT ![Choice.frame] =
                    [page |-> p, lsn |-> lsn, pins |-> 1, dirty |-> dirty, referenced |-> TRUE]]
    /\ hand' = Choice.hand
    /\ guards' = [guards EXCEPT ![t] = [frame |-> Choice.frame, page |-> p]]

------------------------------------------------------------------------------
FetchHit(t, p) ==
    /\ guards[t] = Nobody
    /\ \E f \in Resident(p) :
         /\ frames' = [frames EXCEPT ![f].pins = @ + 1, ![f].referenced = TRUE]
         /\ guards' = [guards EXCEPT ![t] = [frame |-> f, page |-> p]]
    /\ UNCHANGED <<hand, disk, durable, log, flushed, latest>>

FetchMiss(t, p) ==
    /\ guards[t] = Nobody
    /\ Resident(p) = {}
    /\ ~Exhausted
    /\ Occupy(t, p, disk[p], FALSE)
    /\ UNCHANGED <<disk, durable, log, flushed, latest>>

(* A page whose identifier was just reserved enters the pool dirty, with   *)
(* the image its creator logged.                                           *)
Install(t, p) ==
    /\ guards[t] = Nobody
    /\ Resident(p) = {}
    /\ latest[p] = 0
    /\ ~Exhausted
    /\ log < MaxLsn
    /\ log' = log + 1
    /\ Occupy(t, p, log', TRUE)
    /\ latest' = [latest EXCEPT ![p] = log']
    /\ UNCHANGED <<disk, durable, flushed>>

(* A committed image, logged under a fresh number, replaces the one in the *)
(* guard's frame.                                                          *)
Replace(t) ==
    /\ guards[t] # Nobody
    /\ log < MaxLsn
    /\ log' = log + 1
    /\ frames' = [frames EXCEPT ![guards[t].frame].lsn = log',
                                ![guards[t].frame].dirty = TRUE,
                                ![guards[t].frame].referenced = TRUE]
    /\ latest' = [latest EXCEPT ![guards[t].page] = log']
    /\ UNCHANGED <<hand, guards, disk, durable, flushed>>

(* Dropping a guard unpins its frame. *)
Drop(t) ==
    /\ guards[t] # Nobody
    /\ frames' = [frames EXCEPT ![guards[t].frame].pins = @ - 1]
    /\ guards' = [guards EXCEPT ![t] = Nobody]
    /\ UNCHANGED <<hand, disk, durable, log, flushed, latest>>

------------------------------------------------------------------------------
(* flush_all: refused while a dirty page is pinned; flushes the log through *)
(* the newest dirty image, writes the dirty frames in frame order, marking  *)
(* each clean as it is written, and syncs the file.                         *)

(* Mutant of DirtyFrames: the last frame is passed over. *)
DirtyFramesButLast == {f \in 0..(Capacity - 2) : frames[f] # Nobody /\ frames[f].dirty}

DirtyFrames == {f \in Frame : frames[f] # Nobody /\ frames[f].dirty}

MayFlush == \A f \in DirtyFrames : frames[f].pins = 0

FlushLog ==
    IF DirtyFrames = {} THEN UNCHANGED flushed
    ELSE flushed' = Max({flushed} \union {frames[f].lsn : f \in DirtyFrames})

WriteFrames(written) ==
    /\ disk' = [p \in PageId |-> IF \E f \in written : frames[f].page = p
                                 THEN frames[CHOOSE f \in written : frames[f].page = p].lsn
                                 ELSE disk[p]]
    /\ frames' = [f \in Frame |-> IF f \in written THEN [frames[f] EXCEPT !.dirty = FALSE] ELSE frames[f]]

FlushAll ==
    /\ MayFlush
    /\ FlushLog
    /\ WriteFrames(DirtyFrames)
    /\ durable' = disk'
    /\ UNCHANGED <<hand, guards, log, latest>>

(* The write of a page or the sync fails: the pages before it are already  *)
(* clean in the pool and in the file, and nothing was made durable.        *)
FlushFails ==
    /\ MayFlush
    /\ FlushLog
    /\ \E n \in 0..Capacity : WriteFrames({f \in DirtyFrames : f < n})
    /\ UNCHANGED <<hand, guards, durable, log, latest>>

(* The machine loses power: the pool is gone, and of the pages written     *)
(* since the last sync any may have reached the medium.  The image a       *)
(* reader finds afterwards is the file's; recovery from the log is not the *)
(* pool's.                                                                 *)
PowerFailure ==
    /\ frames' = [f \in Frame |-> Nobody]
    /\ hand' = 0
    /\ guards' = [t \in Thread |-> Nobody]
    /\ \E kept \in SUBSET PageId :
         disk' = [p \in PageId |-> IF p \in kept THEN disk[p] ELSE durable[p]]
    /\ durable' = disk'
    /\ latest' = disk'
    /\ log' = flushed
    /\ UNCHANGED flushed

Next ==
    \/ \E t \in Thread, p \in PageId : FetchHit(t, p) \/ FetchMiss(t, p) \/ Install(t, p)
    \/ \E t \in Thread : Replace(t) \/ Drop(t)
    \/ FlushAll
    \/ FlushFails
    \/ PowerFailure

Spec == Init /\ [][Next]_vars

------------------------------------------------------------------------------
(* Whoever fetches a page sees the image last committed to it: it is in    *)
(* the one frame that holds the page or, when none does, in the file, even *)
(* after evictions and flushes that failed half-way.                       *)
NoCommittedImageIsLost ==
    \A p \in PageId :
      /\ Cardinality(Resident(p)) <= 1
      /\ latest[p] = IF Resident(p) = {} THEN disk[p]
                     ELSE frames[CHOOSE f \in Resident(p) : TRUE].lsn

(* When flush_all returns successfully, every committed image is durable,  *)
(* including those that an earlier failed flush left clean in the pool and *)
(* unsynced in the file.                                                   *)
FlushMakesDurable == [][FlushAll => durable' = latest']_vars
=============================================================================
