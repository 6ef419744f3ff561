------------------------------- MODULE Engine -------------------------------
(***************************************************************************)
(* The engine under concurrent sessions: transactions begun at different   *)
(* indexes read and stage writes while others commit, create tables and    *)
(* indexes, and old versions are vacuumed; clients retry requests whose    *)
(* answer they lost; the engine is saved to a snapshot and restored.       *)
(***************************************************************************)
EXTENDS EngineState

CONSTANTS
    Session,        \* Sessions, each with at most one open transaction.
    Client,         \* Client identifiers requests carry.
    Request,        \* Fingerprints of what clients ask for.
    TableName,      \* Names for tables.
    IndexName,      \* Names for secondary indexes.
    MaxIndex,       \* Bound on applied indexes.
    MaxSequence     \* Bound on request numbers.

ASSUME EngineConstants == MaxIndex \in Nat /\ MaxSequence \in Nat

VARIABLES
    engine,     \* The engine.
    txn         \* Session -> its open transaction, or None.

vars == <<engine, txn>>

Init ==
    /\ engine = EmptyEngine
    /\ txn = [s \in Session |-> None]

Open(s) == txn[s] # None

SetTxn(s, t) == txn' = [txn EXCEPT ![s] = t]

Begin(s) ==
    /\ ~Open(s)
    /\ SetTxn(s, Transaction(engine))
    /\ UNCHANGED engine

Insert(s, loc, row) ==
    /\ Open(s)
    /\ MayInsert(engine, txn[s], loc)
    /\ SetTxn(s, Stage(txn[s], loc, row))
    /\ UNCHANGED engine

Upsert(s, loc, row) ==
    /\ Open(s)
    /\ MayUpsert(engine, txn[s], loc)
    /\ SetTxn(s, Stage(txn[s], loc, row))
    /\ UNCHANGED engine

Update(s, loc, row) ==
    /\ Open(s)
    /\ MayChange(engine, txn[s], loc)
    /\ SetTxn(s, Stage(txn[s], loc, row))
    /\ UNCHANGED engine

Delete(s, loc) ==
    /\ Open(s)
    /\ MayChange(engine, txn[s], loc)
    /\ SetTxn(s, Stage(txn[s], loc, Gone))
    /\ UNCHANGED engine

CreateTable(s, name) ==
    /\ Open(s)
    /\ MayCreateTable(engine, txn[s], name)
    /\ SetTxn(s, StageTable(engine, txn[s], name))
    /\ UNCHANGED engine

CreateIndex(s, name, table) ==
    /\ Open(s)
    /\ MayCreateIndex(engine, txn[s], name, table)
    /\ SetTxn(s, StageIndex(engine, txn[s], name, table))
    /\ UNCHANGED engine

Rollback(s) ==
    /\ Open(s)
    /\ SetTxn(s, None)
    /\ UNCHANGED engine

(* The attempt is applied at the next index for a client's request: a new  *)
(* one, one that was applied before and is submitted again, perhaps        *)
(* prepared anew at another snapshot, or one out of order.  A rejected     *)
(* request leaves the transaction open.                                    *)
Commit(s, client, seq, request) ==
    /\ Open(s)
    /\ engine.applied < MaxIndex
    /\ engine' = Apply(engine, Attempt(txn[s], client, seq), engine.applied + 1, request)
    /\ SetTxn(s, IF engine'.outcome.kind = "Rejected" THEN txn[s] ELSE None)

Noop ==
    /\ engine.applied < MaxIndex
    /\ engine' = ApplyNoop(engine, engine.applied + 1)
    /\ UNCHANGED txn

Vacuum(retain) ==
    /\ retain > engine.floor
    /\ engine' = VacuumOffline(engine, retain)
    /\ UNCHANGED txn

(* The process restarts from a snapshot: open transactions are lost. *)
Restore ==
    /\ SnapshotAccepts(engine)
    /\ txn' = [s \in Session |-> None]
    /\ UNCHANGED engine

Places == [table : 1..Cardinality(TableName), key : Key]

Next ==
    \/ \E s \in Session :
         \/ Begin(s) \/ Rollback(s)
         \/ \E loc \in Places :
              \/ \E row \in Row : Insert(s, loc, row) \/ Upsert(s, loc, row) \/ Update(s, loc, row)
              \/ Delete(s, loc)
         \/ \E name \in TableName : CreateTable(s, name)
         \/ \E name \in IndexName, table \in 1..Cardinality(TableName) : CreateIndex(s, name, table)
         \/ \E client \in Client, seq \in 1..MaxSequence, request \in Request : Commit(s, client, seq, request)
    \/ Noop
    \/ \E retain \in 1..engine.applied : Vacuum(retain)
    \/ Restore

Spec == Init /\ [][Next]_vars

------------------------------------------------------------------------------
(* Snapshot isolation: every step of the engine is a step of the abstract  *)
(* history, in which a kept state never changes, a transaction commits     *)
(* only over unchanged rows, and aborted, duplicate and rejected requests  *)
(* change nothing.                                                         *)
SI == INSTANCE SnapshotIsolation
        WITH Place <- Places, Content <- Row \union {Gone}, Blank <- Gone, Idle <- None,
             floor <- engine.floor, last <- engine.applied,
             states <- [i \in engine.floor..engine.applied |->
                          [p \in Places |-> VisibleRow(engine, p, i)]],
             txns <- [s \in Session |-> IF Open(s) THEN [read |-> txn[s].read, writes |-> txn[s].writes]
                                                   ELSE None]

ImplementsSnapshotIsolation == SI!Spec

LocsOf(table) == {loc \in Places : loc.table = table}

TableRows(s, index, value) ==
    {loc \in LocsOf(engine.indexes[index].table) : ReadKey(engine, txn[s], loc) = value}

(* A lookup through a secondary index finds exactly the rows a scan of the *)
(* table finds, for every open transaction that began under the present    *)
(* schema: after updates, deletes, backfills and vacuums, at every         *)
(* snapshot, and with the transaction's own writes (scan_secondary).       *)
IndexAgreesWithTable ==
    \A s \in Session : Open(s) /\ Readable(engine, txn[s]) /\ txn[s].epoch = engine.epoch =>
      \A index \in DOMAIN engine.indexes, value \in Value :
        ScanSecondary(engine, txn[s], index, value) = TableRows(s, index, value)

(* A restart accepts every snapshot the engine can produce: chains stay    *)
(* non-empty, strictly ordered and within the applied indexes, and index   *)
(* entries keep their index, whatever was vacuumed (from_snapshot).        *)
SnapshotIsRestorable == SnapshotAccepts(engine)

=============================================================================
