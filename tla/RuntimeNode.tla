---------------------------- MODULE RuntimeNode ----------------------------
(***************************************************************************)
(* The runtime of one replica (aster-runtime/src/lib.rs): it executes the  *)
(* batches of actions the Raft core returns, one action at a time, against *)
(* the durable Raft store (StableStore) and the database, and it answers   *)
(* clients.  The process may be killed between any two I/O calls, and a    *)
(* power failure keeps any part of the directory changes made since the    *)
(* directory was last synced.  An I/O error stops the runtime, which for   *)
(* the stores is a kill before the call.                                   *)
(*                                                                         *)
(* The database is the abstract state of DurableState, which DurablePager  *)
(* implements: the entries applied so far, advanced atomically.            *)
(*                                                                         *)
(* The rest of the group appears through the terms it goes through, given  *)
(* by Reign: who leads each term and, where another node does, its log and *)
(* how much of it gets committed.  Raft's own safety, the subject of       *)
(* RaftNode, is the assumption that a log that is committed in one term is *)
(* a prefix of every later leader's log.                                   *)
(***************************************************************************)
EXTENDS StableStore, FiniteSetsExt

CONSTANTS
    Command,           \* client requests
    Noop,              \* the payload of a new leader's first entry
    PendingReadLimit,  \* event_queue_capacity, as it bounds pending_reads
    MaxIndex           \* bound: the length of the log

VARIABLES
    setting,           \* the group's terms and what fails, fixed by Init
    live, disk,        \* the directory as processes see it, and as synced
    db,                \* the entries the database has durably applied
    status,            \* "down", "starting", "up" or "refused"
    store, pending,    \* StableStore::state and pending_install
    core,              \* the Raft core: a stable state and the role
    script,            \* the actions still to execute
    proposal, reads,   \* pending_proposal and pending_reads
    nextCommand, nextRead,
    acked,             \* history: the commands answered with success
    faults

fileVars == <<live, disk, db>>
memoryVars == <<store, pending>>
clientVars == <<proposal, reads, nextCommand, nextRead, acked>>
vars == <<setting, fileVars, status, memoryVars, core, script, clientVars, faults>>

(***************************************************************************)
(* What a setting says.                                                    *)
(***************************************************************************)
Reign == setting.reign          \* term -> [leader : {"self", "other"}, log,
                                \*          commit]
Threshold == setting.threshold  \* snapshot_threshold_entries
Faults == setting.faults        \* "kill" or "power" or both
MaxFaults == setting.maxFaults  \* bound: how many of them
MaxReads == setting.maxReads    \* bound: reads one process numbers

ASSUME RuntimeAssumption == Noop \notin Command

\* Entries are tagged with the number their proposer gave them; 0 is for
\* no-ops and for the commands of other nodes.
Entry(term, id, cmd) == [term |-> term, id |-> id, cmd |-> cmd]

CoreOf(s, role) == s @@ [role |-> role]

Init ==
    /\ live = EmptyDirectory /\ disk = EmptyDirectory
    /\ db = << >>
    /\ status = "down"
    /\ store = InitialState /\ pending = None
    /\ core = CoreOf(InitialState, "follower")
    /\ script = << >>
    /\ proposal = None /\ reads = {}
    /\ nextCommand = 1 /\ nextRead = 1
    /\ acked = {}
    /\ faults = 0

-----------------------------------------------------------------------------
(***************************************************************************)
(* The steps of a script.                                                  *)
(***************************************************************************)
Do(do) == [do |-> do]
Persist(m) == [do |-> "persist", mutation |-> m]
Rename(file, value) == [do |-> "rename", file |-> file, value |-> value]
Remember(s, p) == [do |-> "remember", store |-> s, pending |-> p]
ApplyAt(i) == [do |-> "apply", index |-> i]
Committed(i) == [do |-> "committed", index |-> i]

\* publish_snapshot: a sidecar that is there is left alone.
PublishSnapshot(index) ==
    IF index = 0 \/ index \in live.sidecars THEN << >>
    ELSE <<Rename("sidecars", live.sidecars \cup {index}), Do("sync")>>


\* publish: the sidecar, then the state file.
Publish(s) ==
    PublishSnapshot(s.base) \o <<Rename("state", s), Do("sync")>>

\* cleanup_snapshot_files for what will then be in memory.
Cleanup(s, p) ==
    LET keep == {s.base} \cup IF p = None THEN {} ELSE {Len(p.snapshot)}
    IN  [do |-> "cleanup", keep |-> keep]

PersistSteps(s) == Publish(s) \o <<Remember(s, pending), Cleanup(s, pending)>>

BeginInstallSteps(intent) ==
    PublishSnapshot(Len(intent.snapshot))
        \o <<Rename("install", intent), Do("sync"), Remember(store, intent)>>

CompleteInstallSteps(intent) ==
    LET desired == Desired(intent)
    IN  (IF store = desired THEN << >> ELSE Publish(desired))
            \o <<Rename("install", None), Do("sync"), Remember(desired, None),
                 Cleanup(desired, None)>>

\* apply_committed: entries (from, to], each applied and marked; a leader
\* also reports the commands.
ApplySteps(l, from, to, role) ==
    FlattenSeq([k \in 1 .. to - from |->
        LET i == from + k
        IN  <<ApplyAt(i), [do |-> "mark", index |-> i]>>
                \o (IF role = "leader" /\ l[i].cmd # Noop
                    THEN <<Committed(i)>> ELSE << >>)])

-----------------------------------------------------------------------------
(***************************************************************************)
(* start: StableStore::open, recover_pending_snapshot_install,             *)
(* reconcile_database, next_command_counter and Raft::recover; the first   *)
(* step of run applies what is committed.                                  *)
(***************************************************************************)
Loads(s) == s # None => /\ s.base = 0 \/ s.base \in live.sidecars
                        /\ ValidIndexes(s)

LoadsIntent(p) == p # None => /\ Len(p.snapshot) \in live.sidecars
                              /\ ValidIndexes(Desired(p))

Start ==
    LET s == IF live.state = None THEN InitialState ELSE live.state
        p == live.install
    IN  /\ status = "down"
        /\ status' = IF Loads(live.state) /\ LoadsIntent(p) THEN "starting"
                     ELSE "refused"
        /\ script' =
              (IF live.state = None THEN Publish(s) ELSE << >>)
              \o <<Remember(s, p), Cleanup(s, p)>>
              \o (IF p = None THEN << >>
                  ELSE <<Do("install_db"), Do("complete_install")>>)
              \o <<Do("recover")>>
        /\ UNCHANGED <<fileVars, memoryVars, core, clientVars, faults>>

Reconciled ==
    /\ store.applied <= Len(db) /\ Len(db) <= store.commit
    /\ Len(db) <= store.applied + 1

NextCommandCounter(s) ==
    1 + Max({0} \cup {e.id : e \in Range(Retained(s))})

Recover ==
    /\ script # << >> /\ Head(script).do = "recover"
    /\ status' = IF Reconciled THEN "up" ELSE "refused"
    /\ core' = CoreOf([store EXCEPT !.applied = store.commit], "follower")
    /\ script' = ApplySteps(store.log, store.applied, store.commit, "follower")
                    \o <<Do("maybe_snapshot")>>
    /\ nextCommand' = NextCommandCounter(store)
    /\ nextRead' = 1
    /\ UNCHANGED <<fileVars, memoryVars, proposal, reads, acked, faults>>

-----------------------------------------------------------------------------
(***************************************************************************)
(* The execution of a script.                                              *)
(***************************************************************************)
Next1(do) == script # << >> /\ Head(script).do = do
Replace(steps) == script' = steps \o Tail(script)
Refuse == status' = "refused" /\ UNCHANGED script

\* atomic_publish after its temporary file is synced, and remove_file.
RenameFile ==
    /\ Next1("rename")
    /\ live' = [live EXCEPT ![Head(script).file] = Head(script).value]
    /\ Replace(<< >>)
    /\ UNCHANGED <<disk, db, status, memoryVars, core, clientVars, faults>>

\* Mutant of SyncDirectory: the directory is not synced after a rename.
SyncDirectorySkipped ==
    /\ Next1("sync")
    /\ Replace(<< >>)
    /\ UNCHANGED <<fileVars, status, memoryVars, core, clientVars, faults>>

SyncDirectory ==
    /\ Next1("sync")
    /\ disk' = live
    /\ Replace(<< >>)
    /\ UNCHANGED <<live, db, status, memoryVars, core, clientVars, faults>>

CleanupFiles ==
    LET left == live.sidecars \cap Head(script).keep
    IN  /\ Next1("cleanup")
        /\ live' = [live EXCEPT !.sidecars = left]
        /\ Replace(IF left = live.sidecars THEN << >> ELSE <<Do("sync")>>)
        /\ UNCHANGED <<disk, db, status, memoryVars, core, clientVars, faults>>

RememberState ==
    /\ Next1("remember")
    /\ store' = Head(script).store /\ pending' = Head(script).pending
    /\ Replace(<< >>)
    /\ UNCHANGED <<fileVars, status, core, clientVars, faults>>

\* StableStore::persist and mark_applied.
PersistMutation ==
    LET m == Head(script).mutation
        next == Mutated(store, m)
    IN  /\ Next1("persist")
        /\ IF Accepts(store, m) /\ ValidIndexes(next)
           THEN Replace(PersistSteps(next)) /\ UNCHANGED status
           ELSE Refuse
        /\ UNCHANGED <<fileVars, memoryVars, core, clientVars, faults>>

\* Once the marker is durable the waiting proposal learns its result.
MarkApplied ==
    LET i == Head(script).index
        next == [store EXCEPT !.applied = i]
        waiting == proposal # None /\ proposal.id = core.log[i].id
    IN  /\ Next1("mark")
        /\ IF i = store.applied \/ (i = store.applied + 1 /\ i <= store.commit)
           THEN /\ Replace(IF i = store.applied THEN << >>
                           ELSE Publish(next) \o <<Remember(next, pending)>>)
                /\ UNCHANGED status
           ELSE Refuse
        /\ proposal' = IF waiting THEN [proposal EXCEPT !.applied = i]
                       ELSE proposal
        /\ UNCHANGED <<fileVars, memoryVars, core, reads, nextCommand,
                       nextRead, acked, faults>>

(***************************************************************************)
(* apply_entry: Database::apply_replicated and apply_raft_noop.  The index *)
(* the database is at may come again with the same entry; any other index  *)
(* than the next is an error.                                              *)
(***************************************************************************)
ApplyEntry ==
    LET i == Head(script).index
        entry == core.log[i]
    IN  /\ Next1("apply")
        /\ IF i = Len(db) + 1 \/ (i = Len(db) /\ db[i] = entry)
           THEN Replace(<< >>) /\ UNCHANGED status
           ELSE Refuse
        /\ db' = IF i = Len(db) + 1 THEN Append(db, entry) ELSE db
        /\ UNCHANGED <<live, disk, memoryVars, core, clientVars, faults>>

(***************************************************************************)
(* install_received_snapshot and recover_pending_snapshot_install.         *)
(***************************************************************************)
BeginInstall ==
    LET intent == Head(script).intent
    IN  /\ Next1("begin_install")
        /\ IF MayInstall(store, intent) /\ pending \in {None, intent}
           THEN /\ Replace(IF pending = intent THEN << >>
                           ELSE BeginInstallSteps(intent))
                /\ UNCHANGED status
           ELSE Refuse
        /\ UNCHANGED <<fileVars, memoryVars, core, clientVars, faults>>

\* Mutant of InstallDatabase: the intent is completed without the database.
InstallDatabaseSkipped ==
    /\ Next1("install_db")
    /\ Replace(<< >>)
    /\ UNCHANGED <<fileVars, status, memoryVars, core, clientVars, faults>>

\* Database::install_snapshot_at: an older snapshot is refused, the one the
\* database is at must be the same.
InstallDatabase ==
    LET snapshot == pending.snapshot
    IN  /\ Next1("install_db")
        /\ IF Len(snapshot) > Len(db) \/ snapshot = db
           THEN /\ db' = snapshot
                /\ Replace(<< >>)
                /\ UNCHANGED status
           ELSE Refuse /\ UNCHANGED db
        /\ UNCHANGED <<live, disk, memoryVars, core, clientVars, faults>>

CompleteInstall ==
    /\ Next1("complete_install")
    /\ Replace(CompleteInstallSteps(pending))
    /\ UNCHANGED <<fileVars, status, memoryVars, core, clientVars, faults>>

(***************************************************************************)
(* maybe_snapshot, at the end of every event: the database's state at the  *)
(* applied index replaces the retained entries up to it.                   *)
(***************************************************************************)
SnapshotDue ==
    /\ Len(Retained(store)) >= Threshold
    /\ core.applied # 0 /\ store.base < core.applied

\* Mutant of MaybeSnapshot: it snapshots until few enough entries are retained.
MaybeSnapshotAgain ==
    LET due == Len(Retained(store)) >= Threshold /\ core.applied # 0
    IN  /\ Next1("maybe_snapshot")
        /\ Replace(IF due
                   THEN <<Persist(CompactSnapshot(core.applied,
                              SubSeq(core.log, core.applied + 1,
                                     Len(core.log)))),
                          Do("maybe_snapshot")>>
                   ELSE << >>)
        /\ core' = IF due THEN [core EXCEPT !.base = core.applied] ELSE core
        /\ UNCHANGED <<fileVars, status, memoryVars, clientVars, faults>>

MaybeSnapshot ==
    /\ Next1("maybe_snapshot")
    /\ IF pending # None \/ (SnapshotDue /\ Len(db) # core.applied) THEN Refuse
       ELSE /\ Replace(IF SnapshotDue
                       THEN <<Persist(CompactSnapshot(core.applied,
                                  SubSeq(core.log, core.applied + 1,
                                         Len(core.log))))>>
                       ELSE << >>)
            /\ UNCHANGED status
    /\ core' = IF SnapshotDue THEN [core EXCEPT !.base = core.applied] ELSE core
    /\ UNCHANGED <<fileVars, memoryVars, clientVars, faults>>

\* send_peer; the message is built from the core.
SendPeer ==
    /\ Next1("send")
    /\ Replace(<< >>)
    /\ UNCHANGED <<fileVars, status, memoryVars, core, clientVars, faults>>

\* RoleChanged to anything but leader: reject_pending.
RejectPending ==
    /\ Next1("role_lost")
    /\ proposal' = None /\ reads' = {}
    /\ Replace(<< >>)
    /\ UNCHANGED <<fileVars, status, memoryVars, core, nextCommand, nextRead,
                   acked, faults>>

\* ProposalCommitted: the answer goes to the waiter with this identifier.
ProposalCommitted ==
    LET i == Head(script).index
        mine == proposal # None /\ proposal.id = core.log[i].id
    IN  /\ Next1("committed")
        /\ IF mine /\ proposal.applied # i THEN Refuse
           ELSE Replace(<< >>) /\ UNCHANGED status
        /\ proposal' = IF mine THEN None ELSE proposal
        /\ acked' = IF mine /\ proposal.applied = i
                    THEN acked \cup {proposal.cmd} ELSE acked
        /\ UNCHANGED <<fileVars, memoryVars, core, reads, nextCommand, nextRead,
                       faults>>

\* ReadReady: the query runs on the database as it is then.
ReadReady ==
    LET r == Head(script).read
    IN  /\ Next1("ready")
        /\ IF r \in reads /\ Len(db) < r.index THEN Refuse
           ELSE Replace(<< >>) /\ UNCHANGED status
        /\ reads' = reads \ {r}
        /\ UNCHANGED <<fileVars, memoryVars, core, proposal, nextCommand,
                       nextRead, acked, faults>>

Execute ==
    \/ Recover \/ RenameFile \/ SyncDirectory \/ CleanupFiles \/ RememberState
    \/ PersistMutation \/ MarkApplied \/ ApplyEntry
    \/ BeginInstall \/ InstallDatabase \/ CompleteInstall \/ MaybeSnapshot
    \/ SendPeer \/ RejectPending \/ ProposalCommitted \/ ReadReady

-----------------------------------------------------------------------------
(***************************************************************************)
(* The events on_event and on_timer hand to the core, and the batches it   *)
(* returns (aster-raft/src/node.rs).  maybe_snapshot ends every event.     *)
(***************************************************************************)
Waiting == status = "up" /\ script = << >>

Hard(term, vote, commit) ==
    Persist(HardState([term |-> term, vote |-> vote, commit |-> commit]))

RoleLost == IF core.role = "follower" THEN << >> ELSE <<Do("role_lost")>>

\* become_follower in a term that may be new.
FollowSteps(t) ==
    (IF t > core.term THEN <<Hard(t, "none", core.commit)>> ELSE << >>)
        \o RoleLost

Follower(t) ==
    [core EXCEPT !.term = t, !.role = "follower",
                 !.vote = IF t > core.term THEN "none" ELSE core.vote]

Handle(next, steps) ==
    /\ core' = next
    /\ script' = steps \o <<Do("maybe_snapshot")>>
    /\ UNCHANGED <<fileVars, status, memoryVars, faults>>

\* Some other node leads term t, and this node may learn of it.
LedByOther(t) == Reign[t].leader = "other" /\ t >= core.term

\* on_vote_request, granted: first the term, then the vote.
GrantVote(t) ==
    /\ Waiting /\ LedByOther(t)
    /\ IsPrefix(SubSeq(core.log, 1, core.commit), Reign[t].log)
    /\ t > core.term \/ core.vote = "none"
    /\ core.role # "leader" \/ t > core.term
    /\ Handle([Follower(t) EXCEPT !.vote = "other"],
              (IF t > core.term THEN FollowSteps(t) ELSE << >>)
                  \o <<Hard(t, "other", core.commit), Do("send")>>)
    /\ UNCHANGED clientVars

(***************************************************************************)
(* on_append_entries with the entries of the leader's log up to index k    *)
(* that this node lacks or holds differently, and a commit index c.        *)
(***************************************************************************)
MergeSteps(l, k) ==
    LET agree == Max({i \in 0 .. Min({k, Len(core.log)}) :
                         SubSeq(core.log, 1, i) = SubSeq(l, 1, i)})
        entries == SubSeq(l, agree + 1, k)
    IN  IF entries = << >> THEN << >>
        ELSE IF agree = Len(core.log) THEN <<Persist(AppendEntries(entries))>>
        ELSE <<Persist(TruncateAndAppend(agree + 1, entries))>>

OnAppendEntries(t, k, c) ==
    LET l == Reign[t].log
        merged == IF MergeSteps(l, k) = << >> THEN core.log ELSE SubSeq(l, 1, k)
        commit == Max({core.commit, c})
        next == [Follower(t) EXCEPT !.log = merged, !.commit = commit,
                                    !.applied = commit]
    IN  /\ Waiting /\ LedByOther(t)
        /\ core.role # "leader" \/ t > core.term
        /\ k \in core.base .. Len(l) /\ c \in 0 .. Min({k, Reign[t].commit})
        /\ IsPrefix(SubSeq(core.log, 1, core.commit), l)
        /\ Handle(next,
              FollowSteps(t) \o MergeSteps(l, k)
                  \o (IF c > core.commit
                      THEN <<Hard(t, next.vote, commit)>>
                               \o ApplySteps(merged, core.applied, commit,
                                             "follower")
                      ELSE << >>)
                  \o <<Do("send")>>)
        /\ UNCHANGED clientVars

\* on_install_snapshot, the last chunk of a snapshot of the first k entries.
OnInstallSnapshot(t, k) ==
    LET snapshot == SubSeq(Reign[t].log, 1, k)
        retained == RetainedSuffix(core, snapshot)
        commit == Max({core.commit, k})
        next == [Follower(t) EXCEPT !.log = snapshot \o retained, !.base = k,
                                    !.commit = commit, !.applied = k]
        hard == [term |-> t, vote |-> next.vote, commit |-> commit]
    IN  /\ Waiting /\ LedByOther(t)
        /\ core.role # "leader" \/ t > core.term
        /\ k \in core.applied + 1 .. Reign[t].commit
        /\ Handle(next,
              FollowSteps(t)
                  \o <<[do |-> "begin_install",
                        intent |-> Intent(snapshot, retained, hard)],
                       Do("install_db"), Do("complete_install"), Do("send")>>)
        /\ UNCHANGED clientVars

(***************************************************************************)
(* start_election and become_leader in a term this node leads: it holds    *)
(* whatever was committed before.                                          *)
(***************************************************************************)
HoldsCommitted(t) ==
    \A u \in 1 .. t - 1 :
        Reign[u].leader = "other" =>
            IsPrefix(SubSeq(Reign[u].log, 1, Reign[u].commit), core.log)

Campaign(t) ==
    /\ Waiting /\ core.role # "leader"
    /\ Reign[t].leader = "self" /\ t > core.term
    /\ HoldsCommitted(t)
    /\ Handle([core EXCEPT !.term = t, !.vote = "self", !.role = "candidate"],
              <<Hard(t, "self", core.commit), Do("role_lost"), Do("send")>>)
    /\ UNCHANGED clientVars

BecomeLeader ==
    LET first == Entry(core.term, 0, Noop)
    IN  /\ Waiting /\ core.role = "candidate" /\ Len(core.log) < MaxIndex
        /\ Handle([core EXCEPT !.role = "leader", !.log = Append(@, first)],
                  <<Persist(AppendEntries(<<first>>)), Do("send")>>)
        /\ UNCHANGED clientVars

\* Tick::CheckQuorum without a quorum.
LoseQuorum ==
    /\ Waiting /\ core.role = "leader"
    /\ Handle([core EXCEPT !.role = "follower"], <<Do("role_lost")>>)
    /\ UNCHANGED clientVars

(***************************************************************************)
(* A quorum has matched index i, of this term: set_commit.  What is        *)
(* committed is in the log of every later leader.                          *)
(***************************************************************************)
AdvanceCommit(i) ==
    /\ Waiting /\ core.role = "leader"
    /\ i \in core.commit + 1 .. Len(core.log)
    /\ core.log[i].term = core.term
    /\ \A t \in core.term + 1 .. Len(Reign) :
          Reign[t].leader = "other" =>
              IsPrefix(SubSeq(core.log, 1, i), Reign[t].log)
    /\ Handle([core EXCEPT !.commit = i, !.applied = i],
              <<Hard(core.term, core.vote, i)>>
                  \o ApplySteps(core.log, core.applied, i, "leader")
                  \o <<Do("send")>>)
    /\ UNCHANGED clientVars

\* Mutant of AlreadyApplied: the request is looked up in the log.
AlreadyLogged(c) == \E i \in DOMAIN core.log : core.log[i].cmd = c

(***************************************************************************)
(* propose.  A request the database has already applied is answered at     *)
(* once; otherwise the command gets the next identifier and waits in the   *)
(* one slot there is.  A client that stops waiting leaves it taken.        *)
(***************************************************************************)
AlreadyApplied(c) == \E i \in DOMAIN db : db[i].cmd = c

Propose(c) ==
    /\ Waiting /\ core.role = "leader" /\ proposal = None
    /\ \/ /\ AlreadyApplied(c)
          /\ c \notin acked
          /\ acked' = acked \cup {c}
          /\ Handle(core, << >>)
          /\ UNCHANGED <<proposal, nextCommand>>
       \/ /\ ~AlreadyApplied(c)
          /\ Len(core.log) < MaxIndex
          /\ LET entry == Entry(core.term, nextCommand, c)
             IN  Handle([core EXCEPT !.log = Append(@, entry)],
                        <<Persist(AppendEntries(<<entry>>)), Do("send")>>)
          /\ proposal' = [id |-> nextCommand, cmd |-> c, applied |-> 0]
          /\ nextCommand' = nextCommand + 1
          /\ UNCHANGED acked
    /\ UNCHANGED <<reads, nextRead>>

(***************************************************************************)
(* read and the quorum's confirmation of it.                               *)
(***************************************************************************)
Read ==
    /\ Waiting /\ core.role = "leader"
    /\ Cardinality(reads) < PendingReadLimit /\ nextRead <= MaxReads
    /\ nextRead' = nextRead + 1
    /\ IF TermOf(core, core.commit) = core.term
       THEN /\ reads' = reads \cup {[context |-> nextRead, index |-> core.commit]}
            /\ Handle(core, <<Do("send")>>)
       ELSE UNCHANGED reads /\ Handle(core, << >>)
    /\ UNCHANGED <<proposal, nextCommand, acked>>

ConfirmRead(r) ==
    /\ Waiting /\ core.role = "leader"
    /\ Handle(core, <<[do |-> "ready", read |-> r]>>)
    /\ UNCHANGED clientVars

Event ==
    \/ \E t \in DOMAIN Reign : GrantVote(t) \/ Campaign(t)
    \/ \E t \in DOMAIN Reign : \E k, c \in 0 .. Len(Reign[t].log) :
          OnAppendEntries(t, k, c) \/ OnInstallSnapshot(t, k)
    \/ BecomeLeader \/ LoseQuorum
    \/ \E i \in DOMAIN core.log : AdvanceCommit(i)
    \/ \E c \in Command : Propose(c)
    \/ Read
    \/ \E r \in reads : ConfirmRead(r)

-----------------------------------------------------------------------------
\* The process ends: RunningNode::crash, shutdown, or an I/O error.
Stop ==
    /\ faults < MaxFaults /\ status \in {"starting", "up"}
    /\ status' = "down" /\ script' = << >>
    /\ store' = InitialState /\ pending' = None
    /\ core' = CoreOf(InitialState, "follower")
    /\ proposal' = None /\ reads' = {}
    /\ nextCommand' = 1 /\ nextRead' = 1
    /\ faults' = faults + 1
    /\ UNCHANGED <<db, acked>>

Kill ==
    /\ "kill" \in Faults
    /\ Stop
    /\ UNCHANGED <<live, disk>>

PowerFailure ==
    /\ "power" \in Faults
    /\ Stop
    /\ \E s \in {live.state, disk.state}, p \in {live.install, disk.install},
          kept \in SUBSET (live.sidecars \cup disk.sidecars) :
          /\ live.sidecars \cap disk.sidecars \subseteq kept
          /\ live' = [state |-> s, install |-> p, sidecars |-> kept]
    /\ disk' = live'

Next == Start \/ Execute \/ Event \/ Kill \/ PowerFailure

Spec == Init /\ [][Next /\ UNCHANGED setting]_vars

-----------------------------------------------------------------------------

(***************************************************************************)
(* A message leaves only when all that the core has decided is durable:    *)
(* the term and vote, the entries acknowledged, the installed snapshot     *)
(* (execute_actions runs Persist before Send).  A process killed between   *)
(* the rename of its state file and the sync of the directory leaves a     *)
(* state that open takes over without syncing it; that case is left out.   *)
(***************************************************************************)
WriteBeforeSend ==
    Next1("send") /\ "kill" \notin Faults =>
        \A s \in {live.state, disk.state} :
            s # None /\ CoreOf(s, core.role) = core

(***************************************************************************)
(* Between two events the database has applied exactly the committed       *)
(* prefix of the log, entry by entry (apply_entry, install_snapshot_at).   *)
(***************************************************************************)
DatabaseFollowsLog ==
    Waiting => db = SubSeq(core.log, 1, core.commit)

(***************************************************************************)
(* The acknowledgement a client gets never precedes the durable apply of   *)
(* its own command (the module comment of aster-runtime/src/lib.rs: "the   *)
(* ordering boundary that prevents a client acknowledgement from preceding *)
(* local durable database apply"), and no crash takes it back.             *)
(***************************************************************************)
AcknowledgedIsApplied == \A c \in acked : \E i \in DOMAIN db : db[i].cmd = c
=============================================================================
