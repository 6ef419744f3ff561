------------------------------- MODULE Query -------------------------------
(***************************************************************************)
(* SELECT, from the bound statement to its rows: the logical plan of       *)
(* bind_select (aster-sql/src/binder.rs), the physical plan of optimize    *)
(* (plan.rs), expression evaluation (eval.rs) and the operators of the     *)
(* executor (aster-db/src/executor.rs).                                    *)
(*                                                                         *)
(* Rows are sequences of integers and nulls; truth values are strings.     *)
(* A column names its table, its position there and its slot in the joined *)
(* row.  Error is the result of a statement that fails: the negation or    *)
(* the sum of integers overflowed.                                         *)
(***************************************************************************)
EXTENDS Integers, SequencesExt, FiniteSetsExt

CONSTANTS
    Null, Error, None,
    MinInt, MaxInt,     \* The range of INT64.
    Table,              \* Table identifiers.
    Contents,           \* Table contents: sequences of rows in key order.
    Indexable,          \* Columns [table, column] that may have an index.
    Queries             \* The SELECT statements.

ASSUME QueryConstants == MinInt \in Int /\ MaxInt \in Int /\ MinInt < 0 /\ MaxInt > 0

VARIABLES
    tables,     \* Table -> its rows as the transaction sees them.
    indexes,    \* The indexed columns.
    query,      \* The statement.
    result      \* Its rows, Error, or None before it is executed.

vars == <<tables, indexes, query, result>>

Operators == {"=", "<>", "<", "<=", ">", ">="}

------------------------------------------------------------------------------
(* Expressions *)

Literal(value) == [kind |-> "literal", value |-> value]
Parameter(value) == [kind |-> "parameter", value |-> value]
Column(table, column, slot) == [kind |-> "column", table |-> table, column |-> column, slot |-> slot]
Negate(e) == [kind |-> "negate", of |-> e]
Aggregate(function, argument) == [kind |-> "aggregate", function |-> function, argument |-> argument]
Compare(op, left, right) == [kind |-> "compare", op |-> op, left |-> left, right |-> right]
And(left, right) == [kind |-> "and", left |-> left, right |-> right]
Or(left, right) == [kind |-> "or", left |-> left, right |-> right]
Not(e) == [kind |-> "not", of |-> e]
IsNull(e) == [kind |-> "isnull", of |-> e]

Joint(values, aggregates) == [values |-> values, aggregates |-> aggregates]

Checked(value) == IF value \in MinInt..MaxInt THEN value ELSE Error

RECURSIVE Evaluate(_, _)
Evaluate(e, row) ==
    CASE e.kind \in {"literal", "parameter"} -> e.value
      [] e.kind = "column" -> row.values[e.slot]
      [] e.kind = "aggregate" -> row.aggregates[e]
      [] e.kind = "negate" ->
           LET value == Evaluate(e.of, row)
           IN  IF value \in {Null, Error} THEN value ELSE Checked(-value)

Holds(op, left, right) ==
    CASE op = "=" -> left = right
      [] op = "<>" -> left # right
      [] op = "<" -> left < right
      [] op = "<=" -> left <= right
      [] op = ">" -> left > right
      [] op = ">=" -> left >= right

Truth(holds) == IF holds THEN "true" ELSE "false"

(* TruthValue::and, or, not *)
AndTruth(p, q) ==
    IF "false" \in {p, q} THEN "false" ELSE IF {p, q} = {"true"} THEN "true" ELSE "unknown"

OrTruth(p, q) ==
    IF "true" \in {p, q} THEN "true" ELSE IF {p, q} = {"false"} THEN "false" ELSE "unknown"

NotTruth(p) == CASE p = "true" -> "false" [] p = "false" -> "true" [] OTHER -> p

(* The right side of AND and OR is not evaluated when the left decides. *)
RECURSIVE Predicate(_, _)
Predicate(e, row) ==
    CASE e.kind = "compare" ->
           LET left == Evaluate(e.left, row)
               right == Evaluate(e.right, row)
           IN  IF Error \in {left, right} THEN "error"
               ELSE IF Null \in {left, right} THEN "unknown"
               ELSE Truth(Holds(e.op, left, right))
      [] e.kind = "isnull" ->
           LET value == Evaluate(e.of, row) IN IF value = Error THEN "error" ELSE Truth(value = Null)
      [] e.kind = "not" -> NotTruth(Predicate(e.of, row))
      [] e.kind = "and" ->
           LET left == Predicate(e.left, row)
           IN  IF left \in {"error", "false"} THEN left
               ELSE LET right == Predicate(e.right, row)
                    IN  IF right = "error" THEN right ELSE AndTruth(left, right)
      [] e.kind = "or" ->
           LET left == Predicate(e.left, row)
           IN  IF left \in {"error", "true"} THEN left
               ELSE LET right == Predicate(e.right, row)
                    IN  IF right = "error" THEN right ELSE OrTruth(left, right)

------------------------------------------------------------------------------
(* Plans *)

Scan(table) == [node |-> "scan", table |-> table]
IndexScan(table, column, op, value) ==
    [node |-> "index", table |-> table, column |-> column, op |-> op, value |-> value]
Filter(input, predicate) == [node |-> "filter", input |-> input, predicate |-> predicate]
Join(left, right, on, algorithm) ==
    [node |-> "join", left |-> left, right |-> right, on |-> on, algorithm |-> algorithm]
Group(input, by, aggregates) == [node |-> "group", input |-> input, by |-> by, aggregates |-> aggregates]
Sort(input, by) == [node |-> "sort", input |-> input, by |-> by]
Limit(input, limit) == [node |-> "limit", input |-> input, limit |-> limit]
Project(input, output) == [node |-> "project", input |-> input, output |-> output]

Aggregates(q) ==
    {e \in ToSet(q.output) \union {o.expr : o \in ToSet(q.order)} : e.kind = "aggregate"}

(* bind_select: joins to the left, then the clauses in their fixed order. *)
BindSelect(q) ==
    LET joined == FoldLeft(LAMBDA plan, i : Join(plan, Scan(q.from[i + 1]), q.on[i], None),
                           Scan(q.from[1]), [i \in DOMAIN q.on |-> i])
        filtered == IF q.where = None THEN joined ELSE Filter(joined, q.where)
        grouped == IF Aggregates(q) = {} /\ q.group = << >> THEN filtered
                   ELSE Group(filtered, q.group, Aggregates(q))
        sorted == IF q.order = << >> THEN grouped ELSE Sort(grouped, q.order)
        limited == IF q.limit = None THEN sorted ELSE Limit(sorted, q.limit)
    IN  Project(limited, q.output)

ReverseComparison(op) ==
    CASE op = "<" -> ">" [] op = "<=" -> ">=" [] op = ">" -> "<" [] op = ">=" -> "<=" [] OTHER -> op

IsConstant(e) == e.kind = "parameter" \/ (e.kind = "literal" /\ e.value # Null)

(* sargable: a comparison of a column with a constant, column first. *)
Sargable(e) ==
    IF e.kind # "compare" THEN None
    ELSE IF e.left.kind = "column" /\ IsConstant(e.right)
    THEN [column |-> e.left, op |-> e.op, value |-> e.right]
    ELSE IF e.right.kind = "column" /\ IsConstant(e.left)
    THEN [column |-> e.right, op |-> ReverseComparison(e.op), value |-> e.left]
    ELSE None

Indexed(table, column) == [table |-> table, column |-> column] \in indexes

RECURSIVE ChooseIndex(_, _)
ChooseIndex(table, e) ==
    IF e.kind = "and"
    THEN LET left == ChooseIndex(table, e.left) IN IF left # None THEN left ELSE ChooseIndex(table, e.right)
    ELSE LET found == Sargable(e)
         IN  IF found # None /\ found.column.table = table /\ Indexed(table, found.column.column)
             THEN found ELSE None

(* The sides of an equality of two columns, or None. *)
Equates(on) ==
    IF on.kind = "compare" /\ on.op = "=" /\ on.left.kind = "column" /\ on.right.kind = "column"
    THEN <<on.left, on.right>> ELSE None

(* choose_join_algorithm; an index nested loop runs as a hash join. *)
ChooseJoinAlgorithm(on) == IF Equates(on) = None THEN "nested" ELSE "hash"

RECURSIVE Optimize(_)
Optimize(plan) ==
    CASE plan.node = "scan" -> plan
      [] plan.node = "filter" ->
           LET found == IF plan.input.node = "scan" THEN ChooseIndex(plan.input.table, plan.predicate) ELSE None
           IN  IF found = None THEN [plan EXCEPT !.input = Optimize(@)]
               ELSE Filter(IndexScan(plan.input.table, found.column.column, found.op, found.value), plan.predicate)
      [] plan.node = "join" ->
           Join(Optimize(plan.left), Optimize(plan.right), plan.on, ChooseJoinAlgorithm(plan.on))
      [] OTHER -> [plan EXCEPT !.input = Optimize(@)]

------------------------------------------------------------------------------
(* Execution *)

Plain(values) == Joint(values, << >>)

Rows(table) == [i \in DOMAIN tables[table] |-> Plain(tables[table][i])]

Combine(left, right) == Joint(left.values \o right.values, << >>)

(* The rows on which a predicate is true; an error anywhere fails. *)
Keep(rows, predicate) ==
    IF \E i \in DOMAIN rows : Predicate(predicate, rows[i]) = "error" THEN Error
    ELSE SelectSeq(rows, LAMBDA row : Predicate(predicate, row) = "true")

RECURSIVE PlanTables(_)
PlanTables(plan) ==
    CASE plan.node \in {"scan", "index"} -> {plan.table}
      [] plan.node = "join" -> PlanTables(plan.left) \union PlanTables(plan.right)
      [] OTHER -> PlanTables(plan.input)

(* hash_join_keys: the side that belongs to the inner plan's tables is the *)
(* inner column, if the other does not.                                    *)
HashJoinKeys(on, inner) ==
    LET sides == Equates(on)
    IN  IF sides = None THEN None
        ELSE IF sides[2].table \in inner /\ sides[1].table \notin inner
        THEN [outer |-> sides[1], column |-> sides[2].column]
        ELSE IF sides[1].table \in inner /\ sides[2].table \notin inner
        THEN [outer |-> sides[2], column |-> sides[1].column]
        ELSE None

(* The bucket an outer row probes: inner rows with the same value. *)
Bucket(outer, right, keys) ==
    LET value == Evaluate(keys.outer, outer)
    IN  IF value = Null THEN << >>
        ELSE SelectSeq(right, LAMBDA inner : inner.values[keys.column] = value)

ExecuteJoin(left, right, plan) ==
    LET keys == HashJoinKeys(plan.on, PlanTables(plan.right))
        candidates(outer) == IF keys # None /\ plan.algorithm = "hash" THEN Bucket(outer, right, keys) ELSE right
        pairs(outer) == [j \in DOMAIN candidates(outer) |-> Combine(outer, candidates(outer)[j])]
    IN  Keep(FlattenSeq([i \in DOMAIN left |-> pairs(left[i])]), plan.on)

(* compute_aggregate *)
Total(values) ==
    FoldLeft(LAMBDA sum, value : IF sum = Error \/ value = Null THEN sum
                                 ELSE IF sum = Null THEN value ELSE Checked(sum + value), Null, values)

(* sign: 1 for the greatest, -1 for the least *)
Extreme(values, sign) ==
    FoldLeft(LAMBDA best, value : IF value = Null THEN best
                                  ELSE IF best = Null \/ sign * value > sign * best THEN value ELSE best, Null, values)

(* Mutant of ComputeAggregate: COUNT of a column counts nulls. *)
CountingNulls(e, rows) ==
    LET values == IF e.argument = None THEN << >> ELSE [i \in DOMAIN rows |-> Evaluate(e.argument, rows[i])]
    IN  CASE e.function = "count" -> Len(rows)
          [] e.function = "sum" -> Total(values)
          [] e.function = "min" -> Extreme(values, -1)
          [] e.function = "max" -> Extreme(values, 1)

ComputeAggregate(e, rows) ==
    LET values == IF e.argument = None THEN << >> ELSE [i \in DOMAIN rows |-> Evaluate(e.argument, rows[i])]
        known == SelectSeq(values, LAMBDA value : value # Null)
    IN  CASE Error \in ToSet(values) -> Error
          [] e.function = "count" -> IF e.argument = None THEN Len(rows) ELSE Len(known)
          [] e.function = "sum" -> Total(values)
          [] e.function = "min" -> Extreme(values, -1)
          [] e.function = "max" -> Extreme(values, 1)

(* aggregate_rows: one row per group, and one for no rows at all when      *)
(* nothing is grouped by.                                                  *)
AggregateRows(rows, plan) ==
    LET key(row) == [i \in DOMAIN plan.by |-> Evaluate(plan.by[i], row)]
        keys == {key(rows[i]) : i \in DOMAIN rows} \union (IF plan.by = << >> THEN {<< >>} ELSE {})
        members(k) == SelectSeq(rows, LAMBDA row : key(row) = k)
        computed(k) == [e \in plan.aggregates |-> ComputeAggregate(e, members(k))]
        representative(k) == IF members(k) = << >> THEN << >> ELSE members(k)[1].values
    IN  IF \E k \in keys : Error \in ToSet(k) \union {computed(k)[e] : e \in plan.aggregates} THEN Error
        ELSE [i \in 1..Cardinality(keys) |-> LET k == SetToSeq(keys)[i] IN Joint(representative(k), computed(k))]


(* compare_sort_values: nulls after everything else. *)
Precedes(left, right) == left # right /\ (right = Null \/ (left # Null /\ left < right))

Before(left, right, by) ==
    \E i \in DOMAIN by :
      /\ \A j \in 1..(i - 1) : left[j] = right[j]
      /\ IF by[i].descending THEN Precedes(right[i], left[i]) ELSE Precedes(left[i], right[i])

(* sort_rows: a stable sort. *)
SortRows(rows, by) ==
    LET keys == [i \in DOMAIN rows |-> [j \in DOMAIN by |-> Evaluate(by[j].expr, rows[i])]]
        first(i, j) == Before(keys[i], keys[j], by) \/ (i < j /\ ~Before(keys[j], keys[i], by))
        rank(i) == 1 + Cardinality({j \in DOMAIN rows \ {i} : first(j, i)})
    IN  IF \E i \in DOMAIN rows : Error \in ToSet(keys[i]) THEN Error
        ELSE [r \in DOMAIN rows |-> rows[CHOOSE i \in DOMAIN rows : rank(i) = r]]

(* LIMIT is a non-negative integer. *)
LimitRows(rows, limit) ==
    IF limit.value = Null THEN Error
    ELSE IF limit.value < 0 THEN Error
    ELSE SubSeq(rows, 1, IF limit.value < Len(rows) THEN limit.value ELSE Len(rows))

ProjectRows(rows, output) ==
    LET projected == [i \in DOMAIN rows |-> [j \in DOMAIN output |-> Evaluate(output[j], rows[i])]]
    IN  IF \E i \in DOMAIN rows : Error \in ToSet(projected[i]) THEN Error
        ELSE [i \in DOMAIN rows |-> Plain(projected[i])]

(* Mutant of ProbeIndex: every comparison is answered as an equality. *)
ProbeEqual(plan) ==
    IF plan.value.value # Null
    THEN SelectSeq(Rows(plan.table), LAMBDA row : row.values[plan.column] = plan.value.value)
    ELSE Rows(plan.table)

(* An index answers equality with a value; anything else scans the table. *)
ProbeIndex(plan) ==
    IF plan.op = "=" /\ plan.value.value # Null
    THEN SelectSeq(Rows(plan.table), LAMBDA row : row.values[plan.column] = plan.value.value)
    ELSE Rows(plan.table)

RECURSIVE ExecutePlan(_)
ExecutePlan(plan) ==
    CASE plan.node = "scan" -> Rows(plan.table)
      [] plan.node = "index" -> ProbeIndex(plan)
      [] plan.node = "join" ->
           LET left == ExecutePlan(plan.left)
           IN  IF left = Error THEN Error ELSE ExecuteJoin(left, ExecutePlan(plan.right), plan)
      [] OTHER ->
           LET rows == ExecutePlan(plan.input)
           IN  CASE rows = Error -> Error
                 [] plan.node = "filter" -> Keep(rows, plan.predicate)
                 [] plan.node = "group" -> AggregateRows(rows, plan)
                 [] plan.node = "sort" -> SortRows(rows, plan.by)
                 [] plan.node = "limit" -> LimitRows(rows, plan.limit)
                 [] plan.node = "project" -> ProjectRows(rows, plan.output)

------------------------------------------------------------------------------
Init ==
    /\ tables \in [Table -> Contents]
    /\ indexes \in SUBSET Indexable
    /\ query \in Queries
    /\ result = None

Execute ==
    /\ result = None
    /\ result' = ExecutePlan(Optimize(BindSelect(query)))
    /\ UNCHANGED <<tables, indexes, query>>

Spec == Init /\ [][Execute]_vars

------------------------------------------------------------------------------
(* What the statement means: every combination of rows of the tables, in   *)
(* the order of the FROM clause, for which all conditions are true.        *)
Product == FoldLeft(LAMBDA rows, table :
                      FlattenSeq([i \in DOMAIN rows |->
                        [j \in DOMAIN tables[table] |-> Plain(rows[i].values \o tables[table][j])]]),
                    <<Plain(<< >>)>>, query.from)

Conditions == ToSet(query.on) \union (IF query.where = None THEN {} ELSE {query.where})

Matching == SelectSeq(Product, LAMBDA row : \A e \in Conditions : Predicate(e, row) = "true")

NoErrors == \A row \in ToSet(Product), e \in Conditions : Predicate(e, row) # "error"

Output(row) == [j \in DOMAIN query.output |-> Evaluate(query.output[j], row)]

Grouped == Aggregates(query) # {} \/ query.group # << >>

Done == result \notin {None, Error}

Answer == [i \in DOMAIN result |-> result[i].values]

Expected == [i \in DOMAIN Matching |-> Output(Matching[i])]

Times(seq, x) == Cardinality({i \in DOMAIN seq : seq[i] = x})

(* Whatever access paths and join algorithms were chosen, the answer is    *)
(* what evaluating the conditions on every combination of rows gives, in   *)
(* the same order: no row lost to an index or a hash table, none twice,    *)
(* nulls matching nothing (optimize, execute_plan).                        *)
PlansAgree ==
    Done /\ NoErrors /\ ~Grouped /\ query.order = << >> /\ query.limit = None => Answer = Expected

(* Where a value stands in an ascending order. *)
Rank(value) == IF value = Null THEN MaxInt + 1 ELSE value

(* One output row must come before another: they differ first in a sort    *)
(* column, which the queries with an ORDER BY output first.                *)
MustPrecede(x, y) ==
    \E i \in DOMAIN query.order :
      /\ \A j \in 1..(i - 1) : x[j] = y[j]
      /\ IF query.order[i].descending THEN Rank(x[i]) > Rank(y[i]) ELSE Rank(x[i]) < Rank(y[i])

(* ORDER BY and LIMIT return the first rows in the order asked for, nulls  *)
(* last when ascending, and no row that was left out belongs before one    *)
(* that is in the answer (sort_rows, Limit).                               *)
FirstRowsInOrder ==
    LET wanted == IF query.limit = None THEN Len(Expected) ELSE query.limit.value
        left == {x \in ToSet(Expected) : Times(Expected, x) > Times(Answer, x)}
    IN  /\ Len(Answer) = IF wanted < Len(Expected) THEN wanted ELSE Len(Expected)
        /\ \A x \in ToSet(Answer) : Times(Answer, x) <= Times(Expected, x)
        /\ \A i, j \in DOMAIN Answer : i < j => ~MustPrecede(Answer[j], Answer[i])
        /\ \A x \in left, i \in DOMAIN Answer : ~MustPrecede(x, Answer[i])

GroupRows(key) ==
    SelectSeq(Matching, LAMBDA row : [i \in DOMAIN query.group |-> Evaluate(query.group[i], row)] = key)

Known(rows, e) == {i \in DOMAIN rows : Evaluate(e, rows[i]) # Null}

IsAggregate(value, e, rows) ==
    LET at(i) == Evaluate(e.argument, rows[i])
        known == Known(rows, e.argument)
    IN  CASE e.argument = None -> value = Len(rows)
          [] e.function = "count" -> value = Cardinality(known)
          [] known = {} -> value = Null
          [] e.function = "sum" -> value = MapThenSumSet(at, known)
          [] e.function = "min" -> value = Min({at(i) : i \in known})
          [] e.function = "max" -> value = Max({at(i) : i \in known})

(* GROUP BY gives one row for each combination of the grouping columns,    *)
(* null being one of their values, with the aggregates of exactly its      *)
(* rows; without GROUP BY there is one row even for an empty table         *)
(* (aggregate_rows, compute_aggregate).                                    *)
GroupsAreRight ==
    LET columns == Len(query.group)
        keys == {[i \in 1..columns |-> Evaluate(query.group[i], row)] : row \in ToSet(Matching)}
        key(i) == SubSeq(Answer[i], 1, columns)
    IN  /\ {key(i) : i \in DOMAIN Answer} = keys \union (IF columns = 0 THEN {<< >>} ELSE {})
        /\ \A i, j \in DOMAIN Answer : key(i) = key(j) => i = j
        /\ \A i \in DOMAIN Answer, j \in (columns + 1)..Len(query.output) :
             IsAggregate(Answer[i][j], query.output[j], GroupRows(key(i)))

=============================================================================
