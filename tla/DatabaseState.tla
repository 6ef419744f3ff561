--------------------------- MODULE DatabaseState ---------------------------
(***************************************************************************)
(* What the standalone and the replicated database share (aster-db,        *)
(* database.rs, executor.rs and the state part of persistence.rs): a       *)
(* database record holds the engine, the durable answer to every client's  *)
(* last request, and the next transaction id; statements run against a     *)
(* transaction; an attempt is applied to a copy, which is then published.  *)
(*                                                                         *)
(* A statement is [op, keys, row, fails]: WHERE selects keys, an insert    *)
(* has one, and evaluating an expression fails on the rows in fails.       *)
(***************************************************************************)
EXTENDS EngineState

CONSTANTS
    NewTable,   \* The name CREATE TABLE gives.
    NewIndex    \* The name CREATE INDEX gives.

Database(engine, requests, next) == [engine |-> engine, requests |-> requests, next |-> next]

EmptyDatabase == Database(EmptyEngine, << >>, 1)

------------------------------------------------------------------------------
(* Statements *)

Executed(ok, t, rows) == [ok |-> ok, txn |-> t, rows |-> rows]

Place(key) == [table |-> 1, key |-> key]

StageAll(t, keys, row) ==
    [t EXCEPT !.writes = [loc \in {Place(key) : key \in keys} |-> row] @@ @]

(* UPDATE and DELETE scan in key order and stop at the first row that      *)
(* fails, with the earlier ones staged.                                    *)
ExecuteRows(e, t, statement, row) ==
    LET matched == {loc.key : loc \in ScanTable(e, t, 1)} \intersect statement.keys
        failing == matched \intersect statement.fails
        reached == {key \in matched : \A bad \in failing : key < bad}
    IN  Executed(failing = {}, StageAll(t, reached, row), Cardinality(matched))

(* execute_bound *)
ExecuteBound(e, t, statement) ==
    CASE statement.op = "select" -> Executed(TRUE, t, 0)
      [] statement.op = "table" ->
           IF MayCreateTable(e, t, NewTable) THEN Executed(TRUE, StageTable(e, t, NewTable), 0)
                                             ELSE Executed(FALSE, t, 0)
      [] statement.op = "index" ->
           IF MayCreateIndex(e, t, NewIndex, 1) THEN Executed(TRUE, StageIndex(e, t, NewIndex, 1), 0)
                                                ELSE Executed(FALSE, t, 0)
      [] statement.op = "insert" ->
           IF \A key \in statement.keys : MayInsert(e, t, Place(key))
           THEN Executed(TRUE, StageAll(t, statement.keys, statement.row), 1)
           ELSE Executed(FALSE, t, 0)
      [] statement.op = "update" -> ExecuteRows(e, t, statement, statement.row)
      [] statement.op = "delete" -> ExecuteRows(e, t, statement, Gone)

IsMutating(statement) == statement.op # "select"

------------------------------------------------------------------------------
(* Requests *)

Record(seq, request, result, rows) ==
    [seq |-> seq, request |-> request, result |-> result, rows |-> rows]

(* replay_record: the recorded answer, "mismatch" when the number was used *)
(* for something else, or None.                                            *)
ReplayRecord(requests, client, seq, request) ==
    IF client \notin DOMAIN requests \/ requests[client].seq # seq THEN None
    ELSE IF requests[client].request # request THEN "mismatch"
    ELSE "recorded"

(* validate_durable_requests *)
ValidRequests(db) ==
    /\ DOMAIN db.requests = DOMAIN db.engine.clients
    /\ \A client \in DOMAIN db.requests :
         LET record == db.requests[client]
             known == db.engine.clients[client]
         IN  record.seq = known.seq /\ record.request = known.request /\ record.result = known.result

(* Mutants of CandidateRequests: rejected requests are recorded, or a      *)
(* duplicate replaces the first answer.                                    *)
RecordsRejected(requests, outcome, client, seq, request, rows) ==
    (client :> Record(seq, request, outcome.result, rows)) @@ requests

RecordsDuplicates(requests, outcome, client, seq, request, rows) ==
    IF outcome.kind \in {"Applied", "Duplicate"}
    THEN (client :> Record(seq, request, outcome.result, rows)) @@ requests
    ELSE requests

(* The requests publish_candidate stores with a candidate engine. *)
CandidateRequests(requests, outcome, client, seq, request, rows) ==
    IF outcome.kind = "Applied" \/ (outcome.kind = "Duplicate" /\ client \notin DOMAIN requests)
    THEN (client :> Record(seq, request, outcome.result, rows)) @@ requests
    ELSE requests

(* Mutant of Candidate: the next transaction id is not part of the state. *)
CandidateForgettingIds(db, attempt, hash, request, rows) ==
    LET e == Apply(db.engine, attempt, hash, request)
    IN  Database(e, CandidateRequests(db.requests, e.outcome, attempt.client, attempt.seq, request, rows), 1)

(* apply_transaction and apply_replicated up to persist_state. *)
Candidate(db, attempt, hash, request, rows) ==
    LET e == Apply(db.engine, attempt, hash, request)
    IN  Database(e, CandidateRequests(db.requests, e.outcome, attempt.client, attempt.seq, request, rows), db.next)
=============================================================================
