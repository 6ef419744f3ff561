---------------------------- MODULE EngineState ----------------------------
(***************************************************************************)
(* The replicated state machine of aster-engine (engine.rs, transaction.rs,*)
(* catalog.rs) as operators on an engine record: the catalog, the version  *)
(* chains of rows and of secondary-index entries (newest first), the last  *)
(* request of every client, and the position and result of the last apply. *)
(*                                                                         *)
(* A table has a primary key and one nullable column; a row is the value   *)
(* of that column, and every secondary index is on it.                     *)
(***************************************************************************)
EXTENDS Integers, SequencesExt

CONSTANTS
    Key,        \* Primary keys.
    Value,      \* Values of the other column.
    Null,       \* That column's null.
    Gone,       \* No row: never inserted, or deleted.
    None        \* No hash, no outcome, no transaction.

Row == Value \union {Null}

Loc == [table : Nat \ {0}, key : Key]

Version(commit, row) == [commit |-> commit, row |-> row]

EmptyEngine ==
    [epoch |-> 0, tables |-> << >>, indexes |-> << >>,
     primary |-> << >>, secondary |-> << >>, clients |-> << >>,
     applied |-> 0, hash |-> None, outcome |-> None, floor |-> 0]

------------------------------------------------------------------------------
(* Reading *)

(* The newest version a snapshot sees; absent is what a chain without one  *)
(* shows.                                                                  *)
VisibleAt(chains, key, ts, absent) ==
    LET seen == IF key \in DOMAIN chains
                THEN SelectSeq(chains[key], LAMBDA version : version.commit <= ts) ELSE << >>
    IN  IF seen = << >> THEN absent ELSE seen[1].row

VisibleRow(e, loc, ts) == VisibleAt(e.primary, loc, ts, Gone)

VisibleSecondary(e, entry, ts) == VisibleAt(e.secondary, entry, ts, FALSE)

Transaction(e) ==
    [read |-> e.applied, epoch |-> e.epoch, writes |-> << >>, tables |-> << >>, indexes |-> << >>]

IsReadOnly(t) == t.writes = << >> /\ t.tables = << >> /\ t.indexes = << >>

(* ensure_transaction_snapshot *)
Readable(e, t) == e.floor <= t.read /\ t.read <= e.applied

ReadKey(e, t, loc) ==
    IF loc \in DOMAIN t.writes THEN t.writes[loc] ELSE VisibleRow(e, loc, t.read)

KnownTable(e, t, table) == table \in DOMAIN e.tables \union DOMAIN t.tables

ScanTable(e, t, table) ==
    {loc \in DOMAIN e.primary \union DOMAIN t.writes :
       loc.table = table /\ ReadKey(e, t, loc) # Gone}

(* Candidates are the entries visible to the snapshot and all of the       *)
(* transaction's own writes; each is checked against the row itself.       *)
ScanSecondary(e, t, index, value) ==
    LET table == e.indexes[index].table
        listed == {entry \in DOMAIN e.secondary :
                     /\ entry.index = index
                     /\ entry.value = value
                     /\ VisibleSecondary(e, entry, t.read)}
        candidates == {[table |-> table, key |-> entry.key] : entry \in listed}
                        \union {loc \in DOMAIN t.writes : loc.table = table}
    IN  {loc \in candidates : ReadKey(e, t, loc) = value}

------------------------------------------------------------------------------
(* Staging *)

Stage(t, loc, row) == [t EXCEPT !.writes = (loc :> row) @@ @]

MayInsert(e, t, loc) ==
    Readable(e, t) /\ KnownTable(e, t, loc.table) /\ ReadKey(e, t, loc) = Gone

MayUpsert(e, t, loc) == Readable(e, t) /\ KnownTable(e, t, loc.table)

(* update and delete do nothing to a row that is not there. *)
MayChange(e, t, loc) == MayUpsert(e, t, loc) /\ ReadKey(e, t, loc) # Gone

FreshId(taken, staged) ==
    CHOOSE id \in 1..(Cardinality(taken) + Cardinality(staged) + 1) :
      /\ \A old \in taken : id > old
      /\ id \notin staged
      /\ \A other \in 1..(id - 1) : other \in staged \/ \E old \in taken : other <= old

Names(tables) == {tables[id] : id \in DOMAIN tables}

IndexNames(indexes) == {indexes[id].name : id \in DOMAIN indexes}

MayCreateTable(e, t, name) == Readable(e, t) /\ name \notin Names(e.tables) \union Names(t.tables)

StageTable(e, t, name) ==
    [t EXCEPT !.tables = (FreshId(DOMAIN e.tables, DOMAIN @) :> name) @@ @]

MayCreateIndex(e, t, name, table) ==
    /\ Readable(e, t)
    /\ KnownTable(e, t, table)
    /\ name \notin IndexNames(e.indexes) \union IndexNames(t.indexes)

StageIndex(e, t, name, table) ==
    [t EXCEPT !.indexes = (FreshId(DOMAIN e.indexes, DOMAIN @) :> [name |-> name, table |-> table]) @@ @]

(* into_attempt *)
Attempt(t, client, seq) == [client |-> client, seq |-> seq, txn |-> t]

------------------------------------------------------------------------------
(* Applying *)

CatalogAccepts(e, t) ==
    /\ DOMAIN t.tables \intersect DOMAIN e.tables = {}
    /\ DOMAIN t.indexes \intersect DOMAIN e.indexes = {}
    /\ Names(t.tables) \intersect Names(e.tables) = {}
    /\ IndexNames(t.indexes) \intersect IndexNames(e.indexes) = {}
    /\ \A id \in DOMAIN t.indexes : t.indexes[id].table \in DOMAIN e.tables \union DOMAIN t.tables

(* Mutant of Overwritten: a commit right after the snapshot is missed. *)
OverwrittenLater(e, loc, ts) == loc \in DOMAIN e.primary /\ e.primary[loc][1].commit > ts + 1

Overwritten(e, loc, ts) == loc \in DOMAIN e.primary /\ e.primary[loc][1].commit > ts

(* validate_attempt_for_apply: the reason to abort, or None. *)
ValidateAttempt(e, t) ==
    IF t.read < e.floor THEN "SnapshotVacuumed"
    ELSE IF t.read > e.applied THEN "Validation"
    ELSE IF t.epoch # e.epoch THEN "SchemaChanged"
    ELSE IF ~CatalogAccepts(e, t) THEN "Validation"
    ELSE IF \E loc \in DOMAIN t.writes : loc.table \notin DOMAIN e.tables \union DOMAIN t.tables
    THEN "Validation"
    ELSE IF \E loc \in DOMAIN t.writes : Overwritten(e, loc, t.read) THEN "WriteConflict"
    ELSE None

Entry(index, value, key, present) ==
    [entry |-> [index |-> index, value |-> value, key |-> key], present |-> present]

(* Mutant of SecondaryChanges: only rows that had an entry get a new one. *)
SecondaryReplacements(e, t) ==
    UNION {LET old == VisibleRow(e, loc, e.applied)
               touched == {id \in DOMAIN e.indexes : e.indexes[id].table = loc.table /\ old \in Value}
           IN  IF old = t.writes[loc] THEN {}
               ELSE {Entry(id, old, loc.key, FALSE) : id \in touched}
                      \union {Entry(id, t.writes[loc], loc.key, TRUE) : id \in touched} :
             loc \in DOMAIN t.writes}

(* update_secondary: an index entry changes only when the row's value does; *)
(* rows that are gone or null have none.                                    *)
SecondaryChanges(e, t) ==
    UNION {LET old == VisibleRow(e, loc, e.applied)
               new == t.writes[loc]
               touched == {id \in DOMAIN e.indexes : e.indexes[id].table = loc.table}
           IN  IF old = new THEN {}
               ELSE {Entry(id, old, loc.key, FALSE) : id \in {i \in touched : old \in Value}}
                      \union {Entry(id, new, loc.key, TRUE) : id \in {i \in touched : new \in Value}} :
             loc \in DOMAIN t.writes}

(* Mutant of Backfill: a new index starts empty. *)
BackfillNothing(t, primary, commit) == {}

(* backfill_index: the rows of the table as the commit leaves them. *)
Backfill(t, primary, commit) ==
    UNION {LET full == {loc \in DOMAIN primary :
                          /\ loc.table = t.indexes[id].table
                          /\ VisibleAt(primary, loc, commit, Gone) \in Value}
           IN  {Entry(id, VisibleAt(primary, loc, commit, Gone), loc.key, TRUE) : loc \in full} :
             id \in DOMAIN t.indexes}

(* push_secondary, and the same for rows: the new version comes first.     *)
Push(chains, versions) ==
    [k \in DOMAIN chains \union DOMAIN versions |->
       (IF k \in DOMAIN versions THEN <<versions[k]>> ELSE << >>)
           \o (IF k \in DOMAIN chains THEN chains[k] ELSE << >>)]

(* evaluate_and_apply once the attempt is valid. *)
Committed(e, t) ==
    LET commit == e.applied + 1
        primary == Push(e.primary, [loc \in DOMAIN t.writes |-> Version(commit, t.writes[loc])])
        changes == SecondaryChanges(e, t) \union Backfill(t, primary, commit)
        presence == [k \in {c.entry : c \in changes} |->
                       Version(commit, (CHOOSE c \in changes : c.entry = k).present)]
    IN  [e EXCEPT !.epoch = IF t.tables = << >> /\ t.indexes = << >> THEN @ ELSE @ + 1,
                  !.tables = t.tables @@ @,
                  !.indexes = t.indexes @@ @,
                  !.primary = primary,
                  !.secondary = Push(@, presence)]


(* admit_request *)
AdmitRequest(e, client, seq, request) ==
    LET known == client \in DOMAIN e.clients
        latest == IF known THEN e.clients[client].seq ELSE 0
    IN  IF seq = latest + 1 THEN "New"
        ELSE IF known /\ seq = latest /\ request = e.clients[client].request THEN "Duplicate"
        ELSE "Rejected"

Aborted(e, reason) == [kind |-> "Aborted", index |-> e.applied + 1, reason |-> reason, rows |-> 0]

CommitResult(e, t) ==
    [kind |-> "Committed", index |-> e.applied + 1, reason |-> None, rows |-> Cardinality(DOMAIN t.writes)]

NoResult == [kind |-> "None", index |-> 0, reason |-> None, rows |-> 0]

Outcome(kind, result) == [kind |-> kind, result |-> result]

Advance(e, hash, outcome) ==
    [e EXCEPT !.applied = @ + 1, !.hash = hash, !.outcome = outcome]

(* apply_with_request_hash at the next index. *)
Apply(e, a, hash, request) ==
    LET admission == AdmitRequest(e, a.client, a.seq, request)
        reason == ValidateAttempt(e, a.txn)
        result == IF reason = None THEN CommitResult(e, a.txn) ELSE Aborted(e, reason)
        changed == IF reason = None THEN Committed(e, a.txn) ELSE e
        record == [seq |-> a.seq, request |-> request, result |-> result]
    IN  CASE admission = "New" ->
               Advance([changed EXCEPT !.clients = (a.client :> record) @@ @], hash, Outcome("Applied", result))
          [] admission = "Duplicate" -> Advance(e, hash, Outcome("Duplicate", e.clients[a.client].result))
          [] admission = "Rejected" -> Advance(e, hash, Outcome("Rejected", NoResult))

ApplyNoop(e, hash) == Advance(e, hash, Outcome("Noop", NoResult))

(* An index that was applied already is answered from the last outcome,    *)
(* if it is the same entry.                                                *)
IsReplay(e, index, hash) == index = e.applied /\ hash = e.hash

------------------------------------------------------------------------------
(* Vacuum and snapshots *)

VacuumChain(versions, floor, absent) ==
    LET newer == SelectSeq(versions, LAMBDA version : version.commit > floor)
        older == SelectSeq(versions, LAMBDA version : version.commit <= floor)
    IN  IF older = << >> \/ older[1].row = absent THEN newer ELSE Append(newer, older[1])

(* Mutant of VacuumChains: chains that became empty stay. *)
VacuumKeepingEmpty(chains, floor, absent) ==
    [k \in DOMAIN chains |-> VacuumChain(chains[k], floor, absent)]

VacuumChains(chains, floor, absent) ==
    LET kept == {k \in DOMAIN chains : VacuumChain(chains[k], floor, absent) # << >>}
    IN  [k \in kept |-> VacuumChain(chains[k], floor, absent)]

VacuumOffline(e, retain) ==
    LET floor == IF retain > e.floor THEN retain ELSE e.floor
    IN  [e EXCEPT !.floor = floor,
                  !.primary = VacuumChains(@, floor, Gone),
                  !.secondary = VacuumChains(@, floor, FALSE)]

ValidChain(versions, applied) ==
    /\ versions # << >>
    /\ \A i \in DOMAIN versions : versions[i].commit \in 1..applied
    /\ \A i \in 1..(Len(versions) - 1) : versions[i].commit > versions[i + 1].commit

(* from_snapshot's checks. *)
SnapshotAccepts(e) ==
    /\ Cardinality(Names(e.tables)) = Cardinality(DOMAIN e.tables)
    /\ Cardinality(IndexNames(e.indexes)) = Cardinality(DOMAIN e.indexes)
    /\ \A id \in DOMAIN e.indexes : id # 0 /\ e.indexes[id].table \in DOMAIN e.tables
    /\ e.floor <= e.applied
    /\ (e.applied = 0) = (e.hash = None)
    /\ (e.applied = 0) = (e.outcome = None)
    /\ \A loc \in DOMAIN e.primary : ValidChain(e.primary[loc], e.applied)
    /\ \A entry \in DOMAIN e.secondary :
         ValidChain(e.secondary[entry], e.applied) /\ entry.index \in DOMAIN e.indexes
    /\ \A client \in DOMAIN e.clients : e.clients[client].seq # 0
=============================================================================
