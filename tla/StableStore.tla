---------------------------- MODULE StableStore ----------------------------
(***************************************************************************)
(* The durable Raft store of aster-runtime/src/stable.rs: the state file,  *)
(* the snapshot sidecars and the install intent of one directory, and what *)
(* each storage mutation makes of the state.                               *)
(*                                                                         *)
(* A stable state holds the hard state (term, vote, commit), the log with  *)
(* its snapshot boundary base, and the applied index.  The entries up to   *)
(* base stand for the snapshot: the file holds only those after it, and    *)
(* the snapshot itself is in a sidecar named by its boundary.              *)
(***************************************************************************)
EXTENDS Integers, SequencesExt

None == << >>

InitialState ==
    [term |-> 0, vote |-> "none", commit |-> 0, base |-> 0, log |-> << >>,
     applied |-> 0]

EmptyDirectory == [state |-> None, install |-> None, sidecars |-> {}]

TermOf(s, index) == IF index = 0 THEN 0 ELSE s.log[index].term

Retained(s) == SubSeq(s.log, s.base + 1, Len(s.log))

-----------------------------------------------------------------------------
\* The validations.
ValidEntrySequence(s, entries) ==
    \A i \in DOMAIN entries :
        entries[i].term >= IF i = 1 THEN TermOf(s, Len(s.log))
                           ELSE entries[i - 1].term

ValidIndexes(s) ==
    /\ s.base <= s.applied /\ s.applied <= s.commit /\ s.commit <= Len(s.log)
    /\ ValidEntrySequence([s EXCEPT !.log = SubSeq(s.log, 1, s.base)],
                          Retained(s))

Monotonic(s, hard) ==
    /\ hard.term >= s.term /\ hard.commit >= s.commit
    /\ hard.term = s.term /\ s.vote # "none" => hard.vote = s.vote

WithHardState(s, hard) ==
    [s EXCEPT !.term = hard.term, !.vote = hard.vote, !.commit = hard.commit]

-----------------------------------------------------------------------------
(***************************************************************************)
(* The mutations persist accepts, and what they make of a state.           *)
(***************************************************************************)
HardState(c) == [kind |-> "hard", term |-> c.term, vote |-> c.vote,
                 commit |-> c.commit]
AppendEntries(entries) == [kind |-> "append", entries |-> entries]
TruncateAndAppend(from, entries) ==
    [kind |-> "truncate", from |-> from, entries |-> entries]
CompactSnapshot(index, retained) ==
    [kind |-> "compact", index |-> index, retained |-> retained]

Cut(s, from) == [s EXCEPT !.log = SubSeq(s.log, 1, from - 1)]

Accepts(s, m) ==
    CASE m.kind = "hard" -> Monotonic(s, m) /\ m.commit <= Len(s.log)
      [] m.kind = "append" -> ValidEntrySequence(s, m.entries)
      [] m.kind = "truncate" -> /\ m.from > s.commit /\ m.from > s.base
                                /\ m.from <= Len(s.log) + 1
                                /\ ValidEntrySequence(Cut(s, m.from), m.entries)
      [] m.kind = "compact" -> /\ m.index <= s.applied /\ m.index >= s.base
                               /\ m.retained = SubSeq(s.log, m.index + 1,
                                                      Len(s.log))

Mutated(s, m) ==
    CASE m.kind = "hard" -> WithHardState(s, m)
      [] m.kind = "append" -> [s EXCEPT !.log = @ \o m.entries]
      [] m.kind = "truncate" ->
            [s EXCEPT !.log = Cut(s, m.from).log \o m.entries]
      [] m.kind = "compact" -> [s EXCEPT !.base = m.index]

(***************************************************************************)
(* PendingSnapshotInstall::stable_state and the checks of                  *)
(* begin_snapshot_install: the suffix kept after the snapshot must be the  *)
(* durable log's, and none unless the log holds the snapshot's last entry. *)
(***************************************************************************)
Intent(snapshot, retained, hard) ==
    [snapshot |-> snapshot, retained |-> retained, hard |-> hard]

Desired(intent) ==
    WithHardState([term |-> 0, vote |-> "none", commit |-> 0,
                   base |-> Len(intent.snapshot),
                   log |-> intent.snapshot \o intent.retained,
                   applied |-> Len(intent.snapshot)], intent.hard)

RetainedSuffix(s, snapshot) ==
    IF /\ Len(snapshot) >= s.base /\ Len(snapshot) <= Len(s.log)
       /\ TermOf(s, Len(snapshot)) = Last(snapshot).term
    THEN SubSeq(s.log, Len(snapshot) + 1, Len(s.log))
    ELSE << >>

MayInstall(s, intent) ==
    /\ Monotonic(s, intent.hard)
    /\ ValidIndexes(Desired(intent))
    /\ intent.retained = RetainedSuffix(s, intent.snapshot)
    /\ Len(intent.snapshot) > s.applied
=============================================================================
