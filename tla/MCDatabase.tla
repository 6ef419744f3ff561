----------------------------- MODULE MCDatabase -----------------------------
(* The standalone database, called directly and through the server, after  *)
(* a first request of another client has created the table.                *)
EXTENDS Server

CONSTANTS
    Setup,          \* That client.
    c1, c2,         \* The clients.
    w1, w2          \* The server's workers.

CreateTable == [op |-> "table", keys |-> {}, row |-> Null, fails |-> {}]

Booted ==
    LET run == ExecuteBound(EmptyEngine, Transaction(EmptyEngine), CreateTable)
        attempt == Attempt(run.txn, Setup, 1)
    IN  Candidate([EmptyDatabase EXCEPT !.next = 2], attempt, attempt, CreateTable, run.rows)

SomeValue == CHOOSE value \in Value : TRUE

Put(key, row) == [op |-> "insert", keys |-> {key}, row |-> row, fails |-> {}]

Change(keys, row, fails) == [op |-> "update", keys |-> keys, row |-> row, fails |-> fails]

(* An insert, an update of both rows, and one whose expression fails on    *)
(* the second row.                                                         *)
Mutations == {Put(1, SomeValue), Put(2, Null), Change({1, 2}, SomeValue, {}), Change({1, 2}, Null, {2})}

Whole(op) == [op |-> op, keys |-> Key, row |-> Null, fails |-> {}]

Others == {Put(1, SomeValue), Whole("delete"), Whole("index")}

Setting(clients, workers, restarts, statements, staysOpen, maxTxn, maxSequence) ==
    [clients |-> clients, workers |-> workers, restarts |-> restarts,
     statements |-> statements, staysOpen |-> staysOpen,
     maxActive |-> 2, maxIndex |-> 3, maxTxn |-> maxTxn, maxSequence |-> maxSequence, maxFaults |-> 1]

(* One client and several kinds of writes; two clients, deletes and an     *)
(* index; a database that is used on after a failed persist; a server that *)
(* stays up; and one that restarts under its clients.                      *)
Embedded == Setting({c1}, {}, TRUE, Mutations, FALSE, 3, 2)
Shared == Setting({c1, c2}, {}, TRUE, Others, FALSE, 3, 1)
Retried == Setting({c1}, {}, TRUE, {Put(1, SomeValue), Put(2, Null), Whole("select")}, TRUE, 3, 2)
Serving == Setting({c1, c2}, {w1, w2}, FALSE, {Put(1, Null)}, FALSE, 3, 1)
Restarted == Setting({c1, c2}, {w1, w2}, TRUE, {Put(1, Null)}, FALSE, 2, 1)

Served == setting.workers # {}

SettingsNext ==
    \/ ~Served /\ Next /\ UNCHANGED <<setting, owners, job, held>>
    \/ Served /\ ServerNext /\ UNCHANGED setting

SettingsInit ==
    /\ setting \in {Embedded, Shared, Retried, Serving, Restarted}
    /\ ServerStart(Booted)

SettingsSpec == SettingsInit /\ [][SettingsNext]_serverVars

Workers == Permutations({w1, w2})
=============================================================================
