------------------------------ MODULE MCQuery ------------------------------
(* Two tables of up to two rows: a key and a nullable integer of two bits. *)
EXTENDS Query

Lowest == -2

Row(key) == {<<key, value>> : value \in {Null, MinInt, 1}}

SmallTables == {<< >>} \union {<<row>> : row \in Row(1)} \union {<<r, s>> : r \in Row(1), s \in Row(2)}

ValueColumns == [table : Table, column : {2}]

Select(from, on, where, group, output, order, limit) ==
    [from |-> from, on |-> on, where |-> where, group |-> group, output |-> output, order |-> order, limit |-> limit]

V == Column(1, 2, 2)

Star == <<Column(1, 1, 1), V>>

Where(e) == Select(<<1>>, << >>, e, << >>, Star, << >>, None)

Comparisons ==
    {Compare(op, V, Literal(1)) : op \in Operators} \union {Compare(op, Literal(1), V) : op \in Operators}
      \union {Compare("=", V, Parameter(value)) : value \in {Null, 1}}

Fails == Compare("=", Negate(V), Literal(1))

Filters ==
    {Where(e) : e \in Comparisons}
      \union {Where(And(e, IsNull(V))) : e \in Comparisons}
      \union {Where(Or(IsNull(V), e)) : e \in Comparisons}
      \union {Where(Not(e)) : e \in Comparisons}
      \union {Where(And(Fails, e)) : e \in Comparisons}
      \union {Where(And(e, Fails)) : e \in Comparisons}

(* Two tables, two roles of one table, and three roles of two tables. *)
W == Column(2, 2, 4)
V2 == Column(1, 2, 4)
V3 == Column(1, 2, 6)

Joining(from, on, where) ==
    Select(from, on, where, << >>, [i \in DOMAIN from |-> Column(from[i], 2, 2 * i)], << >>, None)

Joins ==
    {Joining(<<1, 2>>, <<e>>, where) :
       e \in {Compare("=", V, W), Compare("=", W, V), Compare("<", V, W), And(Compare("=", V, W), IsNull(V))},
       where \in {None, Compare("=", V, Literal(1))}}
      \union {Joining(<<1, 1>>, <<Compare("=", V, V2)>>, None)}
      \union {Joining(<<1, 2, 1>>, <<Compare("=", V, W), Compare(op, W, V3)>>, None) : op \in {"=", "<"}}

Ordered(direction, limit) ==
    Select(<<1>>, << >>, None, << >>, <<V, Column(1, 1, 1)>>, <<[expr |-> V, descending |-> direction]>>, limit)

Orders == {Ordered(direction, limit) : direction \in BOOLEAN, limit \in {None, Literal(0), Literal(1), Parameter(Null), Parameter(-1)}}

Grouping(by, aggregates) ==
    Select(<<1, 2>>, <<Compare("<=", Column(1, 1, 1), Column(2, 1, 3))>>, None, by, by \o aggregates, << >>, None)

Groups ==
    {Grouping(by, <<Aggregate("count", None), Aggregate(function, V)>>) :
       by \in {<< >>, <<W>>}, function \in {"count", "sum", "min", "max"}}

AllQueries == Filters \union Joins \union Orders \union Groups
=============================================================================
