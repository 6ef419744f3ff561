------------------------------ MODULE Database ------------------------------
(***************************************************************************)
(* The standalone database (aster-db/src/database.rs): explicit            *)
(* transactions, autocommit statements and retries under one lock, over    *)
(* the storage of DurablePager reduced to what it promises: persist_state  *)
(* takes the durable state from one to the next, or fails, and a failed    *)
(* one may have left its group in the write-ahead log, where a restart may *)
(* find it and where it answers for any later group of the same index.     *)
(***************************************************************************)
EXTENDS DatabaseState

VARIABLES
    setting,    \* Who uses the database and how, fixed by Init.
    mem,        \* DatabaseState: the shared engine, requests and next id.
    active,     \* Transaction id -> open transaction.
    disk,       \* The durable database.
    wal,        \* A database whose group a failed persist left in the log, or None.
    faults,     \* Failed persists so far.
    told        \* History: client -> its last definite answer, or None.

vars == <<setting, mem, active, disk, wal, faults, told>>

(* What a setting says. *)
Client == setting.clients           \* Client identifiers.
Statement == setting.statements     \* The statements clients may execute.
MaxActive == setting.maxActive      \* max_active_transactions.
StaysOpen == setting.staysOpen      \* Whether a failed persist leaves the database in use.
MaxIndex == setting.maxIndex        \* Bound on applied indexes.
MaxSequence == setting.maxSequence  \* Bound on request numbers.
MaxTxn == setting.maxTxn            \* Bound on transaction ids.
MaxFaults == setting.maxFaults      \* Bound on failed persists.

Start(db) ==
    /\ mem = db
    /\ disk = db
    /\ active = << >>
    /\ wal = None
    /\ faults = 0
    /\ told = [client \in Client |-> None]

Init == Start(EmptyDatabase)

CommitRequest(id) == [op |-> "commit", id |-> id]

Without(id) == [other \in DOMAIN active \ {id} |-> active[other]]

Answered(client, record) == told' = [told EXCEPT ![client] = record]

------------------------------------------------------------------------------
(* Mutant of Persist: the answer does not wait for the device. *)
PersistLater(candidate) ==
    /\ wal = None
    /\ mem' = candidate
    /\ UNCHANGED <<disk, wal, faults>>

(* persist_state, and the swap of the shared state once it has succeeded.  *)
(* A group of the same index already in the log is taken for the           *)
(* candidate's when the state hash agrees, and then it is that group which *)
(* becomes durable; otherwise the candidate is refused.                    *)
Persist(candidate) ==
    /\ wal # None => StaysOpen /\ wal.engine.hash = candidate.engine.hash
    /\ disk' = IF wal = None THEN candidate ELSE wal
    /\ wal' = None
    /\ mem' = candidate
    /\ UNCHANGED faults

PersistFails(candidate) ==
    /\ wal # None => StaysOpen
    /\ faults < MaxFaults
    /\ faults' = faults + 1
    /\ wal' \in IF wal = None THEN {None, candidate} ELSE {wal}
    /\ UNCHANGED <<mem, disk>>

------------------------------------------------------------------------------
Begin(client) ==
    /\ Cardinality(DOMAIN active) < MaxActive
    /\ mem.next <= MaxTxn
    /\ active' = (mem.next :> [txn |-> Transaction(mem.engine), by |-> client, asked |-> << >>]) @@ active
    /\ mem' = [mem EXCEPT !.next = @ + 1]
    /\ UNCHANGED <<disk, wal, faults, told>>

(* What a successful statement asks to be written. *)
Asked(t, statement) ==
    LET visible == {key \in Key : ReadKey(mem.engine, t, Place(key)) # Gone}
        row == IF statement.op = "delete" THEN Gone ELSE statement.row
        keys == CASE statement.op = "insert" -> statement.keys
                  [] statement.op \in {"update", "delete"} -> statement.keys \intersect visible
                  [] OTHER -> {}
    IN  [loc \in {Place(key) : key \in keys} |-> row]

(* Mutant of ExecuteInTransaction: rows staged before a failure stay. *)
ExecuteKeepingPartial(id, statement) ==
    LET original == active[id]
        run == ExecuteBound(mem.engine, original.txn, statement)
        asked == IF run.ok THEN Asked(original.txn, statement) ELSE << >>
    IN  /\ id \in DOMAIN active
        /\ active' = [active EXCEPT ![id] = [original EXCEPT !.txn = run.txn, !.asked = asked @@ @]]
        /\ UNCHANGED <<mem, disk, wal, faults, told>>

(* execute_in_transaction: a statement that fails leaves the transaction   *)
(* as it was.                                                              *)
ExecuteInTransaction(id, statement) ==
    LET original == active[id]
        run == ExecuteBound(mem.engine, original.txn, statement)
    IN  /\ id \in DOMAIN active
        /\ active' = [active EXCEPT ![id] =
                        IF run.ok THEN [original EXCEPT !.txn = run.txn,
                                                        !.asked = Asked(original.txn, statement) @@ @]
                                  ELSE original]
        /\ UNCHANGED <<mem, disk, wal, faults, told>>

Rollback(id) ==
    /\ id \in DOMAIN active
    /\ active' = Without(id)
    /\ UNCHANGED <<mem, disk, wal, faults, told>>

(* commit of a transaction that is not active: answered from the record of *)
(* the same request, if there is one.                                      *)
CommitReplay(client, seq, id) ==
    /\ id \notin DOMAIN active
    /\ ReplayRecord(mem.requests, client, seq, CommitRequest(id)) = "recorded"
    /\ Answered(client, mem.requests[client])
    /\ UNCHANGED <<mem, active, disk, wal, faults>>

CommitCandidate(client, seq, id) ==
    LET attempt == Attempt(active[id].txn, client, seq)
    IN  Candidate(mem, attempt, attempt, CommitRequest(id), Cardinality(DOMAIN active[id].txn.writes))

(* commit: a request rejected for its number is applied and durable as     *)
(* well, but its transaction stays active.                                 *)
Commit(client, seq, id) ==
    LET candidate == CommitCandidate(client, seq, id)
        rejected == candidate.engine.outcome.kind = "Rejected"
    IN  /\ id \in DOMAIN active
        /\ mem.engine.applied < MaxIndex
        /\ Persist(candidate)
        /\ active' = IF rejected THEN active ELSE Without(id)
        /\ IF rejected THEN UNCHANGED told ELSE Answered(client, candidate.requests[client])

CommitFails(client, seq, id) ==
    /\ id \in DOMAIN active
    /\ mem.engine.applied < MaxIndex
    /\ PersistFails(CommitCandidate(client, seq, id))
    /\ UNCHANGED <<active, told>>

(* execute_autocommit of a mutation that was recorded. *)
AutocommitReplay(client, seq, statement) ==
    /\ IsMutating(statement)
    /\ ReplayRecord(mem.requests, client, seq, statement) = "recorded"
    /\ Answered(client, mem.requests[client])
    /\ UNCHANGED <<mem, active, disk, wal, faults>>

Executes(client, seq, statement) ==
    /\ mem.next <= MaxTxn
    /\ IsMutating(statement) => ReplayRecord(mem.requests, client, seq, statement) = None

(* execute_autocommit takes a transaction id whatever comes of it.  A      *)
(* statement that fails or that changes nothing is not applied.            *)
AutocommitUnapplied(client, seq, statement) ==
    LET run == ExecuteBound(mem.engine, Transaction(mem.engine), statement)
    IN  /\ Executes(client, seq, statement)
        /\ ~run.ok \/ IsReadOnly(run.txn)
        /\ mem' = [mem EXCEPT !.next = @ + 1]
        /\ UNCHANGED <<active, disk, wal, faults, told>>

AutocommitCandidate(client, seq, statement) ==
    LET run == ExecuteBound(mem.engine, Transaction(mem.engine), statement)
        attempt == Attempt(run.txn, client, seq)
    IN  Candidate([mem EXCEPT !.next = @ + 1], attempt, attempt, statement, run.rows)

Applies(client, seq, statement) ==
    LET run == ExecuteBound(mem.engine, Transaction(mem.engine), statement)
    IN  /\ Executes(client, seq, statement)
        /\ run.ok /\ ~IsReadOnly(run.txn)
        /\ mem.engine.applied < MaxIndex

Autocommit(client, seq, statement) ==
    LET candidate == AutocommitCandidate(client, seq, statement)
    IN  /\ Applies(client, seq, statement)
        /\ Persist(candidate)
        /\ IF candidate.engine.outcome.kind = "Rejected" THEN UNCHANGED told
                                                        ELSE Answered(client, candidate.requests[client])
        /\ UNCHANGED active

(* The id taken for the statement is not given back. *)
AutocommitFails(client, seq, statement) ==
    /\ Applies(client, seq, statement)
    /\ wal # None => StaysOpen
    /\ faults < MaxFaults
    /\ faults' = faults + 1
    /\ wal' \in IF wal = None THEN {None, AutocommitCandidate(client, seq, statement)} ELSE {wal}
    /\ mem' = [mem EXCEPT !.next = @ + 1]
    /\ UNCHANGED <<active, disk, told>>

(* open after a crash: open transactions are gone, and a group left in the *)
(* log is replayed if it reached the device.                               *)
Restart ==
    /\ active # << >> \/ mem # disk \/ wal # None
    /\ disk' \in {disk} \union ({wal} \ {None})
    /\ ValidRequests(disk')
    /\ mem' = disk'
    /\ active' = << >>
    /\ wal' = None
    /\ UNCHANGED <<faults, told>>

Call(client) ==
    \/ Begin(client)
    \/ \E id \in DOMAIN active, statement \in Statement : ExecuteInTransaction(id, statement)
    \/ \E id \in DOMAIN active : Rollback(id)
    \/ \E seq \in 1..MaxSequence :
         \/ \E id \in 1..MaxTxn : CommitReplay(client, seq, id) \/ Commit(client, seq, id) \/ CommitFails(client, seq, id)
         \/ \E statement \in Statement :
              \/ AutocommitReplay(client, seq, statement) \/ AutocommitUnapplied(client, seq, statement)
              \/ Autocommit(client, seq, statement) \/ AutocommitFails(client, seq, statement)

Next == (\E client \in Client : Call(client)) \/ Restart

Spec == Init /\ [][Next /\ UNCHANGED setting]_vars

------------------------------------------------------------------------------
Latest(db, record, client) ==
    /\ client \in DOMAIN db.requests
    /\ \/ db.requests[client].seq > record.seq
       \/ db.requests[client] = record

(* A definite answer is durable: after any crash the database still has    *)
(* it, for the same request, unless the client has moved on.  So a retry   *)
(* of the last request is never applied again and never told anything      *)
(* else (commit, execute_autocommit, publish_candidate).  It is so when    *)
(* the database is reopened after a failed persist; one that is used on    *)
(* may make the group of the failed call durable in place of its own.      *)
AnswersSurvive ==
    ~StaysOpen => \A client \in Client : told[client] # None =>
      /\ Latest(disk, told[client], client)
      /\ wal # None => Latest(wal, told[client], client)

(* open accepts every state a restart can find: the engine's client        *)
(* records and the stored answers agree one to one, also for rejected,     *)
(* duplicate and aborted requests (validate_durable_requests).             *)
RequestsMatchEngine ==
    ValidRequests(mem) /\ ValidRequests(disk) /\ (wal # None => ValidRequests(wal))

(* A transaction id that names a recorded commit is never given to another *)
(* transaction, by this process or the next: the fingerprint of a commit   *)
(* is its id alone, so a reused one would be answered with the old result  *)
(* and its writes dropped (begin, commit_fingerprint); again if the        *)
(* database is reopened after a failed persist.                            *)
CommittedIdsStayUsed ==
    ~StaysOpen => \A client \in DOMAIN mem.requests :
      LET request == mem.requests[client].request
      IN  request.op = "commit" => request.id < mem.next /\ request.id < disk.next

(* A transaction holds exactly the writes of its acknowledged statements:  *)
(* one that failed after some of its rows were staged leaves nothing       *)
(* behind (execute_in_transaction).                                        *)
WritesAreAcknowledged ==
    \A id \in DOMAIN active : active[id].txn.writes = active[id].asked
=============================================================================
