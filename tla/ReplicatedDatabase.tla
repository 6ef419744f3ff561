------------------------- MODULE ReplicatedDatabase -------------------------
(***************************************************************************)
(* The database under replication (aster-db/src/database.rs, as driven by  *)
(* aster-runtime): any node may believe it leads and prepare a mutation at *)
(* the state it has applied; consensus decides commands into one log, in   *)
(* any order, some never; every node applies the log, durably and then     *)
(* marked, may crash between the two and apply the last entry again, and   *)
(* may take a snapshot of another node instead of the entries.             *)
(***************************************************************************)
EXTENDS DatabaseState

CONSTANTS
    Node,           \* The replicas.
    Client,         \* Client identifiers.
    Request,        \* What clients may ask for: [client, seq, statement].
    MaxIndex,       \* Bound on the log.
    MaxInflight,    \* Bound on proposals that are not decided.
    MaxTxn          \* Bound on transaction ids, which reads take.

ASSUME ReplicationConstants == {MaxIndex, MaxInflight, MaxTxn} \subseteq Nat

VARIABLES
    log,            \* The decided entries: commands, and None for a leader's no-op.
    inflight,       \* Commands proposed and not decided.
    db,             \* Node -> its database, with the transaction ids of this run.
    saved,          \* Node -> the next transaction id on disk.
    marked,         \* Node -> the applied index in its Raft store.
    phase,          \* Node -> "apply", or "mark" when the database is one ahead.
    installing,     \* Node -> the snapshot its install intent holds, or None.
    told            \* History: client -> the answer it was given last, or None.

vars == <<log, inflight, db, saved, marked, phase, installing, told>>

Start(first) ==
    /\ log = [i \in 1..first.engine.applied |-> None]
    /\ inflight = {}
    /\ db = [n \in Node |-> first]
    /\ saved = [n \in Node |-> first.next]
    /\ marked = [n \in Node |-> first.engine.applied]
    /\ phase = [n \in Node |-> "apply"]
    /\ installing = [n \in Node |-> None]
    /\ told = [client \in Client |-> None]

Init == Start(EmptyDatabase)

Command(attempt, request, rows) == [attempt |-> attempt, request |-> request, rows |-> rows]

Applied(n) == db[n].engine.applied

------------------------------------------------------------------------------
(* prepare_replicated_mutation *)
PrepareReplay(n, client, seq, statement) ==
    /\ ReplayRecord(db[n].requests, client, seq, statement) = "recorded"
    /\ told' = [told EXCEPT ![client] = db[n].requests[client]]
    /\ UNCHANGED <<log, inflight, db, saved, marked, phase, installing>>

Prepare(n, client, seq, statement) ==
    LET run == ExecuteBound(db[n].engine, Transaction(db[n].engine), statement)
    IN  /\ ReplayRecord(db[n].requests, client, seq, statement) = None
        /\ run.ok
        /\ Cardinality(inflight) < MaxInflight
        /\ inflight' = inflight \union {Command(Attempt(run.txn, client, seq), statement, run.rows)}
        /\ UNCHANGED <<log, db, saved, marked, phase, installing, told>>

(* A linearizable query runs as an autocommit statement on the leader. *)
Read(n) ==
    /\ db[n].next < MaxTxn
    /\ db' = [db EXCEPT ![n].next = @ + 1]
    /\ UNCHANGED <<log, inflight, saved, marked, phase, installing, told>>

Decide(command) ==
    /\ Len(log) < MaxIndex
    /\ log' = Append(log, command)
    /\ inflight' = inflight \ {command}
    /\ UNCHANGED <<db, saved, marked, phase, installing, told>>

DecideNoop ==
    /\ Len(log) < MaxIndex
    /\ log' = Append(log, None)
    /\ UNCHANGED <<inflight, db, saved, marked, phase, installing, told>>

------------------------------------------------------------------------------
(* apply_replicated *)
NextEntry(n) == log[marked[n] + 1]

HasNext(n) == phase[n] = "apply" /\ installing[n] = None /\ marked[n] < Len(log)

Store(n, candidate) ==
    /\ db' = [db EXCEPT ![n] = candidate]
    /\ saved' = [saved EXCEPT ![n] = candidate.next]
    /\ phase' = [phase EXCEPT ![n] = "mark"]
    /\ UNCHANGED <<log, inflight, marked, installing>>

ApplyReplicated(n) ==
    LET index == marked[n] + 1
        command == NextEntry(n)
        client == command.attempt.client
        candidate == Candidate(db[n], command.attempt, index, command.request, command.rows)
    IN  /\ HasNext(n)
        /\ command # None
        /\ index = Applied(n) + 1
        /\ Store(n, candidate)
        /\ told' = IF candidate.engine.outcome.kind = "Rejected" THEN told
                   ELSE [told EXCEPT ![client] = candidate.requests[client]]

ApplyRaftNoop(n) ==
    LET index == marked[n] + 1
    IN  /\ HasNext(n)
        /\ NextEntry(n) = None
        /\ index = Applied(n) + 1
        /\ Store(n, [db[n] EXCEPT !.engine = ApplyNoop(@, index)])
        /\ UNCHANGED told

(* The entry is the one the database applied last.  validate_durable_replay *)
(* may refuse it, but apply_entry marks it applied also then, since the    *)
(* database is at the entry's index.                                       *)
ApplyAgain(n) ==
    /\ HasNext(n)
    /\ IsReplay(db[n].engine, marked[n] + 1, marked[n] + 1)
    /\ phase' = [phase EXCEPT ![n] = "mark"]
    /\ UNCHANGED <<log, inflight, db, saved, marked, installing, told>>

MarkApplied(n) ==
    /\ phase[n] = "mark"
    /\ marked' = [marked EXCEPT ![n] = @ + 1]
    /\ phase' = [phase EXCEPT ![n] = "apply"]
    /\ UNCHANGED <<log, inflight, db, saved, installing, told>>

(* The process restarts: ids that no apply made durable are forgotten. *)
Crash(n) ==
    /\ phase[n] = "mark" \/ db[n].next # saved[n]
    /\ phase' = [phase EXCEPT ![n] = "apply"]
    /\ db' = [db EXCEPT ![n].next = saved[n]]
    /\ UNCHANGED <<log, inflight, saved, marked, installing, told>>

------------------------------------------------------------------------------
(* create_snapshot on one node, received by another that is behind. *)
ReceiveSnapshot(n, from) ==
    /\ phase[n] = "apply"
    /\ installing[n] = None
    /\ Applied(n) = marked[n]
    /\ Applied(from) > Applied(n)
    /\ ValidRequests(db[from])
    /\ installing' = [installing EXCEPT ![n] = db[from]]
    /\ UNCHANGED <<log, inflight, db, saved, marked, phase, told>>

(* Mutant of InstallAccepts: an image that is installed already is refused. *)
InstallAcceptsNewer(d, snapshot) ==
    /\ SnapshotAccepts(snapshot.engine)
    /\ ValidRequests(snapshot)
    /\ snapshot.engine.applied > d.engine.applied

(* install_decoded_snapshot; the same image a second time is accepted.     *)
InstallAccepts(d, snapshot) ==
    /\ SnapshotAccepts(snapshot.engine)
    /\ ValidRequests(snapshot)
    /\ \/ snapshot.engine.applied > d.engine.applied
       \/ snapshot = d

(* Mutant of InstallSnapshot: the stored answers are not part of the image. *)
InstallEngineOnly(n) ==
    /\ installing[n] # None
    /\ InstallAccepts(db[n], installing[n])
    /\ db' = [db EXCEPT ![n].engine = installing[n].engine]
    /\ UNCHANGED <<log, inflight, saved, marked, phase, installing, told>>

InstallSnapshot(n) ==
    /\ installing[n] # None
    /\ InstallAccepts(db[n], installing[n])
    /\ db' = [db EXCEPT ![n] = installing[n]]
    /\ saved' = [saved EXCEPT ![n] = installing[n].next]
    /\ UNCHANGED <<log, inflight, marked, phase, installing, told>>

(* complete_snapshot_install *)
CompleteInstall(n) ==
    /\ installing[n] # None
    /\ Applied(n) = installing[n].engine.applied
    /\ marked' = [marked EXCEPT ![n] = Applied(n)]
    /\ installing' = [installing EXCEPT ![n] = None]
    /\ UNCHANGED <<log, inflight, db, saved, phase, told>>

Next ==
    \/ \E n \in Node :
         \/ \E r \in Request :
              Prepare(n, r.client, r.seq, r.statement) \/ PrepareReplay(n, r.client, r.seq, r.statement)
         \/ Read(n)
         \/ ApplyReplicated(n) \/ ApplyRaftNoop(n) \/ ApplyAgain(n) \/ MarkApplied(n) \/ Crash(n)
         \/ \E from \in Node : ReceiveSnapshot(n, from)
         \/ InstallSnapshot(n) \/ CompleteInstall(n)
    \/ \E command \in inflight : Decide(command)
    \/ DecideNoop

Spec == Init /\ [][Next]_vars

------------------------------------------------------------------------------
(* Replicas at the same index hold the same rows, versions, indexes and    *)
(* answers, whichever of them crashed, applied an entry again or took a    *)
(* snapshot on the way (apply_replicated, install_snapshot).               *)
ReplicasAgree ==
    \A m, n \in Node : Applied(m) = Applied(n) =>
      db[m].engine = db[n].engine /\ db[m].requests = db[n].requests

(* Every replica that knows a request a client was answered gives the same *)
(* answer, the number of rows included, also when another leader prepared  *)
(* the request again and its copy was decided too.                         *)
ReplicasAnswerAlike ==
    \A client \in Client : told[client] # None =>
      \A n \in Node : client \in DOMAIN db[n].requests =>
        \/ db[n].requests[client].seq # told[client].seq
        \/ db[n].requests[client] = told[client]

(* The marker follows the database by at most one entry, as the check at   *)
(* start-up demands, and a snapshot that is being installed can be         *)
(* installed again after a crash (reconcile_database,                      *)
(* recover_pending_snapshot_install).                                      *)
RestartsAreAccepted ==
    \A n \in Node :
      IF installing[n] = None THEN Applied(n) \in marked[n]..(marked[n] + 1)
      ELSE InstallAccepts([db[n] EXCEPT !.next = saved[n]], installing[n])
=============================================================================
