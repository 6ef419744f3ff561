---------------------------- MODULE DurablePager ----------------------------
(***************************************************************************)
(* The durable pager (aster-storage/src/recovery.rs) over a write-ahead    *)
(* log and a page device (disk.rs), with the page changes that             *)
(* FilePersistence (aster-db/src/persistence.rs) hands to it.              *)
(*                                                                         *)
(* An operation is a script of single I/O calls, executed in order under   *)
(* the pager's lock: append a frame, sync the log, write a page, sync the  *)
(* device.  Each call may fail and end the operation with an error, and    *)
(* the process may die between any two.  What a power failure leaves of    *)
(* unsynced writes is open: any prefix of the log's unsynced frames, the   *)
(* next one perhaps torn, and of each page any value written since the     *)
(* last sync, a torn page included.  A killed process leaves the operating *)
(* system's view as it was.                                                *)
(*                                                                         *)
(* A database is a tree on a few pages at fixed distances (offsets) from   *)
(* its root page.  A command rewrites the pages Footprint gives it; what   *)
(* it writes on a page is identified by the history it leads to.           *)
(***************************************************************************)
EXTENDS WriteAheadLog, FiniteSetsExt

CONSTANTS
    Command,          \* what is applied
    Footprint,        \* command -> offsets of the pages it rewrites
    Absent, Torn      \* a page never written; a page that does not decode

VARIABLES
    setting,          \* how the pager is used and what fails, fixed by Init
    wal,              \* the frames of the log file
    synced,           \* how many of them are known to be durable
    disk,             \* the pages of the data file as reads see them
    survivors,        \* per page, what a power failure may leave
    state,            \* DurablePager::state, the superblock in memory
    op,               \* the operation in progress
    faults,           \* how many faults have happened
    visible,          \* history: the commands of the last state reported
    asked             \* history: the states operations tried to reach

vars == <<setting, wal, synced, disk, survivors, state, op, faults, visible,
          asked>>

(***************************************************************************)
(* What a setting says.                                                    *)
(***************************************************************************)
Committed == setting.committed           \* the replicated commands, or << >>
StaysOpen == setting.staysOpen           \* an error leaves the pager in use
Faults == setting.faults                 \* steps that may fail; "power", "kill"
MaxFaults == setting.maxFaults           \* bound: faults in a behaviour
MaxIndex == setting.maxIndex             \* bound: applies
MaxPage == setting.maxPage               \* bound: the last page of the device
MaxCheckpoints == setting.maxCheckpoints \* bound: checkpoint frames in the log

Offset == UNION {Footprint[c] : c \in Command} \cup {0}
Page == 0 .. MaxPage
NoRoot == 0

(***************************************************************************)
(* Superblocks and pages.  ckpt is the end of the checkpoint frame the     *)
(* superblock is bound to, 0 for none.                                     *)
(***************************************************************************)
Genesis == [slot |-> 0, gen |-> 1, hist |-> << >>, ckpt |-> 0, next |-> 2,
            root |-> NoRoot]

Decodes(p) == disk[p] \notin {Absent, Torn}

Publish(previous, hist, ckpt, next, root) ==
    [slot |-> 1 - previous.slot, gen |-> previous.gen + 1, hist |-> hist,
     ckpt |-> ckpt, next |-> next, root |-> root]

\* Mutant of LatestSuperblock: the generations are compared the wrong way.
OldestSuperblock ==
    LET valid == {disk[s] : s \in {t \in {0, 1} : Decodes(t)}}
    IN  CHOOSE sb \in valid : \A other \in valid : sb.gen <= other.gen

\* read_superblock: the valid copy with the higher generation.
LatestSuperblock ==
    LET valid == {disk[s] : s \in {t \in {0, 1} : Decodes(t)}}
    IN  CHOOSE sb \in valid : \A other \in valid : sb.gen >= other.gen

(***************************************************************************)
(* The state hist describes: what each offset of its tree holds, namely    *)
(* the state whose last command wrote it.  The first apply creates the     *)
(* root page.                                                              *)
(***************************************************************************)
Writes(hist) == Footprint[Last(hist)] \cup (IF Len(hist) = 1 THEN {0} ELSE {})
WrittenBy(hist, o) == {i \in 1 .. Len(hist) : o \in Writes(SubSeq(hist, 1, i))}
UsedOffsets(hist) == {o \in Offset : WrittenBy(hist, o) # {}}
Logical(hist, o) == SubSeq(hist, 1, Max(WrittenBy(hist, o)))

Holds(sb) ==
    \A o \in UsedOffsets(sb.hist) :
        /\ Decodes(sb.root + o)
        /\ disk[sb.root + o].val = Logical(sb.hist, o)

-----------------------------------------------------------------------------
\* The scripts.
Step(do) == [do |-> do]
AppendSteps(frames) ==
    [i \in 1 .. Len(frames) |-> [do |-> "append", frame |-> frames[i]]]
WriteStep(page, val) == [do |-> "write", page |-> page, val |-> val]

\* Mutant of ReplaySteps: a page that decodes is taken for current.
ReplayMissing(images) ==
    LET missing == SelectSeq(images, LAMBDA i : ~Decodes(i.id))
    IN  [i \in 1 .. Len(missing) |->
            WriteStep(missing[i].id, [lsn |-> missing[i].lsn, val |-> missing[i].val])]

\* replay_group: the images newer than the page on the device, in page order.
ReplaySteps(images) ==
    LET stale == SelectSeq(images, LAMBDA i : ~Decodes(i.id)
                                              \/ disk[i.id].lsn < i.lsn)
    IN  [i \in 1 .. Len(stale) |->
            WriteStep(stale[i].id, [lsn |-> stale[i].lsn, val |-> stale[i].val])]

\* publish_superblock.
PublishSteps(sb) == <<WriteStep(sb.slot, sb), Step("sync_disk")>>

Idle == [task |-> "idle", script |-> << >>]
Down == [task |-> "down", script |-> << >>]
Refused == [task |-> "refused", script |-> << >>]

Run(task, script, sb) == [task |-> task, script |-> script, super |-> sb]

Init ==
    /\ wal = << >> /\ synced = 0
    /\ disk = [p \in Page |-> Absent]
    /\ survivors = [p \in Page |-> {Absent}]
    /\ state = Genesis
    /\ op = Down
    /\ faults = 0
    /\ visible = << >> /\ asked = {}

-----------------------------------------------------------------------------
(***************************************************************************)
(* DurablePager::open.  The log is cut to its safe end, the superblock     *)
(* read and compared with the checkpoint it is bound to, the groups above  *)
(* it are replayed one by one, and a device without superblocks gets both. *)
(***************************************************************************)
BoundToCheckpoint(sb, scan) ==
    sb.ckpt # 0 => \E c \in scan.checkpoints : /\ c.end = sb.ckpt
                                               /\ Len(c.hist) = Len(sb.hist)
                                               /\ Hash(c.hist) = Hash(sb.hist)


AgreesWithGroups(sb, scan) ==
    \A i \in DOMAIN scan.groups :
        Len(scan.groups[i].hist) = Len(sb.hist)
            => Hash(scan.groups[i].hist) = Hash(sb.hist)

Open ==
    /\ op.task = "down"
    /\ wal' = Trimmed(wal)
    /\ synced' = Min({synced, Scan(wal).safe})
    /\ \/ /\ {disk[0], disk[1]} \subseteq {Absent, Torn}
          /\ state' = Genesis
          /\ op' = IF Torn \in {disk[0], disk[1]} THEN Refused
                   ELSE Run("format", << >>, Genesis)
       \/ /\ Decodes(0) \/ Decodes(1)
          /\ state' = LatestSuperblock
          /\ op' = IF /\ BoundToCheckpoint(LatestSuperblock, Scan(wal))
                      /\ AgreesWithGroups(LatestSuperblock, Scan(wal))
                   THEN Run("recover", << >>, LatestSuperblock) ELSE Refused
    /\ UNCHANGED <<disk, survivors, faults, visible, asked>>

\* The groups recover has still to replay.
Unreplayed ==
    SelectSeq(Scan(wal).groups, LAMBDA g : Len(g.hist) > Len(state.hist))

Recovering == op.task \in {"recover", "format"} /\ op.script = << >>

RecoverGroup ==
    /\ Recovering
    /\ Unreplayed # << >>
    /\ LET g == Head(Unreplayed)
           next == Publish(state, g.hist, state.ckpt, g.next, g.root)
       IN  op' = IF state.hist # << >> /\ Len(g.hist) # Len(state.hist) + 1
                 THEN Refused
                 ELSE Run(op.task, ReplaySteps(g.images)
                                       \o <<Step("sync_disk")>>
                                       \o PublishSteps(next), next)
    /\ UNCHANGED <<wal, synced, disk, survivors, state, faults, visible, asked>>

EndRecovery ==
    /\ Recovering
    /\ Unreplayed = << >>
    /\ \/ /\ op.task = "recover"
          /\ op' = Idle
          /\ visible' = state.hist
       \/ /\ op.task = "format"
          /\ LET second == Publish(state, state.hist, state.ckpt, state.next,
                                   state.root)
             IN  op' = Run("establish",
                           PublishSteps(state) \o PublishSteps(second), second)
          /\ UNCHANGED visible
    /\ UNCHANGED <<wal, synced, disk, survivors, state, faults, asked>>

-----------------------------------------------------------------------------
(***************************************************************************)
(* FilePersistence::persist_state and DurablePager::apply: one command.    *)
(* The tree is read from the device, so every page of it must decode, and  *)
(* only freshly allocated pages and pages that change are staged; without  *)
(* any the call fails.  A group of the log with the same index and hash is *)
(* taken as it is; another hash is an error.                               *)
(***************************************************************************)
TreeReadable == \A o \in UsedOffsets(state.hist) : Decodes(state.root + o)

RootFor(sb) == IF sb.root = NoRoot THEN sb.next ELSE sb.root

Staged(hist) ==
    LET pages == {RootFor(state) + o : o \in Writes(hist)}
        unchanged == {p \in pages : /\ p < state.next
                                    /\ Decodes(p) /\ disk[p].val = hist}
    IN  SetToSortSeq(pages \ unchanged, <)

NextPage(hist) == Max({state.next, RootFor(state) + Max(Writes(hist)) + 1})

\* The images the appended frames will have, with their positions.
AppendedImages(frames) == Last(Scan(Trimmed(wal) \o frames).groups).images

ApplySteps(hist) ==
    LET staged == Staged(hist)
        frames == GroupFrames(hist, [i \in 1 .. Len(staged) |-> <<staged[i], hist>>],
                              NextPage(hist), RootFor(state))
    IN  IF AlreadyAppended(wal, hist)
        THEN ReplaySteps(Head(GroupAt(wal, Len(hist))).images)
        ELSE AppendSteps(frames) \o <<Step("sync_wal")>>
                 \o ReplaySteps(AppendedImages(frames))

Apply(c) ==
    LET hist == Append(state.hist, c)
        next == Publish(state, hist, 0, NextPage(hist), RootFor(state))
    IN  /\ op.task = "idle"
        /\ Len(hist) <= MaxIndex
        /\ Committed # << >> => IsPrefix(hist, Committed)
        /\ TreeReadable
        /\ Staged(hist) # << >>
        /\ AlreadyAppended(wal, hist) \/ MayAppend(wal, hist)
        /\ NextPage(hist) <= MaxPage + 1
        /\ wal' = Trimmed(wal)
        /\ synced' = Min({synced, Scan(wal).safe})
        /\ op' = Run("apply", ApplySteps(hist) \o <<Step("sync_disk")>>
                                  \o PublishSteps(next), next)
        /\ asked' = asked \cup {hist}
        /\ UNCHANGED <<disk, survivors, state, faults, visible>>

(***************************************************************************)
(* FilePersistence::install_state and DurablePager::install_snapshot: the  *)
(* state a later history describes, on fresh pages.                        *)
(***************************************************************************)
InstallSnapshot(hist) ==
    LET offsets == SetToSortSeq(UsedOffsets(hist), <)
        next == state.next + Last(offsets) + 1
        sb == Publish(state, hist, 0, next, state.next)
    IN  /\ op.task = "idle"
        /\ IsStrictPrefix(state.hist, hist)
        /\ next <= MaxPage + 1
        /\ op' = Run("install",
                     [i \in 1 .. Len(offsets) |->
                        WriteStep(state.next + offsets[i],
                                  [lsn |-> 0, val |-> Logical(hist, offsets[i])])]
                     \o <<Step("sync_disk")>> \o PublishSteps(sb), sb)
        /\ asked' = asked \cup {hist}
        /\ UNCHANGED <<wal, synced, disk, survivors, state, faults, visible>>

(***************************************************************************)
(* DurablePager::checkpoint.  The marker is refused, after the device has  *)
(* been synced, when the last group is not the current state.              *)
(***************************************************************************)
Checkpoint ==
    LET sb == Publish(state, state.hist, Scan(wal).safe + 1, state.next,
                      state.root)
    IN  /\ op.task = "idle"
        /\ Cardinality(Scan(wal).checkpoints) < MaxCheckpoints
        /\ wal' = Trimmed(wal)
        /\ synced' = Min({synced, Scan(wal).safe})
        /\ op' = IF MayCheckpoint(wal, state.hist)
                 THEN Run("checkpoint",
                          <<Step("sync_disk")>>
                              \o AppendSteps(<<CheckpointFrame(state.hist)>>)
                              \o <<Step("sync_wal")>> \o PublishSteps(sb), sb)
                 ELSE Run("checkpoint", <<Step("sync_disk")>>, state)
        /\ UNCHANGED <<disk, survivors, state, faults, visible, asked>>

-----------------------------------------------------------------------------
(***************************************************************************)
(* One I/O call of the script succeeds.  The last call of every script     *)
(* makes a superblock durable, and the operation returns.                  *)
(***************************************************************************)
Does(do) == op.script # << >> /\ Head(op.script).do = do
Continue == op' = [op EXCEPT !.script = Tail(op.script)]

AppendFrame ==
    /\ Does("append")
    /\ wal' = Append(wal, Head(op.script).frame)
    /\ Continue
    /\ UNCHANGED <<synced, disk, survivors, state, faults, visible, asked>>

\* Mutant of SyncWal: the log is not synced.
SyncWalSkipped ==
    /\ Does("sync_wal")
    /\ Continue
    /\ UNCHANGED <<wal, synced, disk, survivors, state, faults, visible, asked>>

SyncWal ==
    /\ Does("sync_wal")
    /\ synced' = Len(wal)
    /\ Continue
    /\ UNCHANGED <<wal, disk, survivors, state, faults, visible, asked>>

WritePage ==
    /\ Does("write")
    /\ LET w == Head(op.script)
       IN  /\ disk' = [disk EXCEPT ![w.page] = w.val]
           /\ survivors' = [survivors EXCEPT ![w.page] = @ \cup {w.val, Torn}]
    /\ Continue
    /\ UNCHANGED <<wal, synced, state, faults, visible, asked>>

SyncDisk ==
    /\ Does("sync_disk")
    /\ survivors' = [p \in Page |-> {disk[p]}]
    /\ \/ /\ Len(op.script) > 1
          /\ Continue
          /\ UNCHANGED <<state, visible>>
       \/ /\ Len(op.script) = 1
          /\ state' = op.super
          /\ \/ /\ op.task \in {"recover", "format"}
                /\ op' = [op EXCEPT !.script = << >>]
                /\ UNCHANGED visible
             \/ /\ op.task \notin {"recover", "format"}
                /\ op' = Idle
                /\ visible' = op.super.hist
    /\ UNCHANGED <<wal, synced, disk, faults, asked>>

(***************************************************************************)
(* The call fails: a short append or a torn page write may have happened.  *)
(* An error while opening leaves no pager.                                 *)
(***************************************************************************)
Fail ==
    /\ op.script # << >>
    /\ faults < MaxFaults
    /\ Head(op.script).do \in Faults
    /\ wal' \in IF Does("append") THEN {wal, Append(wal, TornFrame)} ELSE {wal}
    /\ \E torn \in BOOLEAN :
          LET page == Head(op.script).page
          IN  /\ torn => Does("write")
              /\ disk' = IF torn THEN [disk EXCEPT ![page] = Torn] ELSE disk
              /\ survivors' = IF torn
                              THEN [survivors EXCEPT ![page] = @ \cup {Torn}]
                              ELSE survivors
    /\ op' = IF StaysOpen /\ op.task \in {"apply", "install", "checkpoint"}
             THEN Idle ELSE Down
    /\ faults' = faults + 1
    /\ UNCHANGED <<synced, state, visible, asked>>

\* The process dies; the operating system keeps what was written.
Kill ==
    /\ "kill" \in Faults /\ faults < MaxFaults
    /\ op.task # "down"
    /\ op' = Down
    /\ faults' = faults + 1
    /\ UNCHANGED <<wal, synced, disk, survivors, state, visible, asked>>

Unsynced == {p \in Page : survivors[p] # {disk[p]}}

\* The devices a power failure may leave: a survivor of every unsynced page.
Leftovers ==
    FoldSet(LAMBDA p, ds : {[d EXCEPT ![p] = v] : d \in ds, v \in survivors[p]},
            {disk}, Unsynced)

PowerFailure ==
    /\ "power" \in Faults /\ faults < MaxFaults
    /\ \E k \in synced .. Len(wal), torn \in BOOLEAN :
          /\ torn => k < Len(wal)
          /\ wal' = SubSeq(wal, 1, k) \o (IF torn THEN <<TornFrame>> ELSE << >>)
          /\ synced' = Len(wal')
    /\ disk' \in Leftovers
    /\ survivors' = [p \in Page |-> {disk'[p]}]
    /\ op' = Down
    /\ faults' = faults + 1
    /\ UNCHANGED <<state, visible, asked>>

-----------------------------------------------------------------------------
Progress ==
    Open \/ RecoverGroup \/ EndRecovery
        \/ AppendFrame \/ SyncWal \/ WritePage \/ SyncDisk

Next ==
    \/ Progress
    \/ \E c \in Command : Apply(c)
    \/ \E i \in DOMAIN Committed : InstallSnapshot(SubSeq(Committed, 1, i))
    \/ Checkpoint
    \/ Fail \/ Kill \/ PowerFailure

Spec == Init /\ [][Next /\ UNCHANGED setting]_vars

-----------------------------------------------------------------------------
(***************************************************************************)
(* open reads the log and the superblocks back without syncing them.  What *)
(* it finds is durable after a power failure; a process that died, or that *)
(* failed to sync its log, may have left it in the page cache alone.       *)
(***************************************************************************)
SyncedBeforeReopen == {"sync_wal", "kill"} \cap Faults = {}

(***************************************************************************)
(* WAL-before-data (docs/FAILURE_MODEL.md): a page image from the log is   *)
(* written to the device only when the group it belongs to is durable in   *)
(* the log (apply_group, replay_group).                                    *)
(***************************************************************************)
DurableGroups ==
    {g \in Range(Scan(wal).groups) : g.end <= synced}

WalBeforeData ==
    SyncedBeforeReopen =>
      \A p \in Page \ {0, 1} : \A v \in survivors[p] \ {Absent, Torn} :
        v.lsn # 0 => \E g \in DurableGroups : \E i \in DOMAIN g.images :
                        g.images[i] = [id |-> p, lsn |-> v.lsn, val |-> v.val]

(***************************************************************************)
(* Recovery exposes all and only what the superblock names: whenever a     *)
(* state is reported, by an operation that succeeds or by a recovery that  *)
(* ends, every page of its tree holds exactly what the commands up to it   *)
(* wrote (publish_superblock after sync, recover).                         *)
(***************************************************************************)
ReportedStateIsOnDisk ==
    [][/\ SyncedBeforeReopen
       /\ op'.task = "idle" /\ faults' = faults
       /\ state' # state \/ op.task = "recover"
       => Holds(state)']_vars

(***************************************************************************)
(* The pager implements a state that only advances to requested states     *)
(* and never loses one it has reported, across failures at every I/O call  *)
(* (DurablePager::apply, install_snapshot, open).  This is about a pager   *)
(* that applies replicated commands: a standalone one may be asked for     *)
(* another command at the index of one that failed half-way.               *)
(***************************************************************************)
Promises == Committed # << >> /\ SyncedBeforeReopen

Durable == INSTANCE DurableState WITH
               history <- IF Promises THEN visible ELSE << >>,
               asked <- IF Promises THEN asked ELSE {}
ImplementsDurableState == Durable!Spec
============================================================================
