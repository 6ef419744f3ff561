--------------------------- MODULE WriteAheadLog ---------------------------
(***************************************************************************)
(* The write-ahead log of the storage layer (aster-storage/src/wal.rs): a  *)
(* sequence of frames.  A serialized apply is one group of frames (begin,  *)
(* page images, commit); a checkpoint is a frame of its own.               *)
(*                                                                         *)
(* The byte offset of a frame, its LSN, is its position counted from zero, *)
(* and the end of a frame is the position of the next.  A frame that does  *)
(* not decode (short, bad length or checksum) can only be the last one and *)
(* has the kind "torn".  The state hash of a group is its command; hist is *)
(* the sequence of commands the group's state results from, so that the    *)
(* apply index is Len(hist) and the hash Hash(hist).                       *)
(***************************************************************************)
EXTENDS Naturals, SequencesExt

\* The state hash; << >> is that of the state nothing was applied to.
Hash(hist) == IF hist = << >> THEN << >> ELSE <<Last(hist)>>

BeginApply(hist, next, root) ==
    [kind |-> "begin", hist |-> hist, next |-> next, root |-> root]
PageImage(id, val) == [kind |-> "page", id |-> id, val |-> val]
CommitApply == [kind |-> "commit"]
CheckpointFrame(hist) == [kind |-> "checkpoint", hist |-> hist]
TornFrame == [kind |-> "torn"]

(***************************************************************************)
(* What a scan knows after some frames.  begin is the position of the      *)
(* group being read (0: none), groups and checkpoints what was found, safe *)
(* the end of the last complete group or checkpoint, done is set where the *)
(* scan stops: at a torn frame, or at a frame that starts something while  *)
(* a group is still open.                                                  *)
(***************************************************************************)
EmptyScan ==
    [groups |-> << >>, checkpoints |-> {}, safe |-> 0, begin |-> 0,
     images |-> << >>, done |-> FALSE]

\* The group that the commit frame at position n closes.
ClosedGroup(wal, s, n) ==
    [hist |-> wal[s.begin].hist, next |-> wal[s.begin].next,
     root |-> wal[s.begin].root, images |-> s.images, end |-> n]

ScanFrame(wal, s, n) ==
    CASE s.done \/ wal[n].kind = "torn" -> [s EXCEPT !.done = TRUE]
      [] wal[n].kind = "begin" ->
            IF s.begin # 0 THEN [s EXCEPT !.done = TRUE]
            ELSE [s EXCEPT !.begin = n, !.images = << >>]
      [] wal[n].kind = "page" ->
            [s EXCEPT !.images = Append(@, [id |-> wal[n].id, lsn |-> n - 1,
                                            val |-> wal[n].val])]
      [] wal[n].kind = "commit" ->
            [s EXCEPT !.groups = Append(@, ClosedGroup(wal, s, n)),
                      !.safe = n, !.begin = 0, !.images = << >>]
      [] wal[n].kind = "checkpoint" ->
            IF s.begin # 0 THEN [s EXCEPT !.done = TRUE]
            ELSE [s EXCEPT !.checkpoints =
                               @ \cup {[hist |-> wal[n].hist, end |-> n]},
                           !.safe = n]

Scan(wal) ==
    LET scan[n \in 0 .. Len(wal)] ==
            IF n = 0 THEN EmptyScan ELSE ScanFrame(wal, scan[n - 1], n)
    IN  scan[Len(wal)]

\* The log as every append finds it: cut back to the last safe position.
Trimmed(wal) == SubSeq(wal, 1, Scan(wal).safe)

(***************************************************************************)
(* The checks of append_apply_with_metadata on a log and a state history.  *)
(* A group with the same index and hash is returned as it is; another hash *)
(* or an index that does not advance is refused.                           *)
(***************************************************************************)
GroupAt(wal, index) ==
    SelectSeq(Scan(wal).groups, LAMBDA g : Len(g.hist) = index)

\* Mutant of AlreadyAppended: the hash of the group is not compared.
AlreadyAppendedByIndex(wal, hist) == GroupAt(wal, Len(hist)) # << >>

AlreadyAppended(wal, hist) ==
    /\ GroupAt(wal, Len(hist)) # << >>
    /\ Hash(Head(GroupAt(wal, Len(hist))).hist) = Hash(hist)

MayAppend(wal, hist) ==
    LET groups == Scan(wal).groups
    IN  groups # << >> => Len(hist) > Len(Last(groups).hist)

\* The frames of a group whose images are vals, one <<id, value>> per page.
GroupFrames(hist, vals, next, root) ==
    <<BeginApply(hist, next, root)>>
        \o [i \in 1 .. Len(vals) |-> PageImage(vals[i][1], vals[i][2])]
        \o <<CommitApply>>

\* append_checkpoint: the marker must name the state of the last group.
MayCheckpoint(wal, hist) ==
    LET groups == Scan(wal).groups
    IN  groups # << >> => /\ Len(hist) = Len(Last(groups).hist)
                          /\ Hash(hist) = Hash(Last(groups).hist)
============================================================================
