--------------------------- MODULE QueryProperties ---------------------------
(***************************************************************************)
(* What a query promises, stated over the whole relation its child         *)
(* delivered, without batches.                                             *)
(***************************************************************************)
EXTENDS QueryExecutors

Done(kind) == plan # <<>> /\ node.kind = kind /\ status = "done"
Input == Flat(given)
Output == Flat(out)

\* Batches are only a way of delivery: however the rows fall into batches, a
\* filter keeps exactly the rows that pass, in order; a projection maps each
\* row once; a sort returns each row once; a limit with enough rows below it
\* returns the first of them; and no batch is longer than was asked for.
StreamIsTheRelation ==
    /\ Done("filter")     => Output = Selected(Input)
    /\ Done("projection") => Output = Project(Input)
    /\ Done("sort")       => ToBag(Output) = ToBag(Input)
    /\ Done("limit") /\ Len(Input) >= node.limit => Output = SubSeq(Input, 1, node.limit)
    /\ \A b \in Range(out) : Len(b) \in 1 .. BatchSize

\* Of two rows alike on the earlier sort keys, just one of which is NULL in the
\* next, the NULL stands on the side the query asked for, or on SQL's default:
\* NULLs last, first for DESC.  Two NULLs are alike.
Alike(x, y) == IF x.null THEN y.null ELSE x = y
NullsAskedFirst(order) ==
    CASE order.nulls = "NULLS_FIRST" -> TRUE
      [] order.nulls = "NULLS_LAST"  -> FALSE
      [] order.nulls = "DEFAULT"     -> order.type = "DESC"
NullsWhereOrdered ==
    Done("sort") =>
        \A i, j \in DOMAIN Output : \A k \in DOMAIN node.order_bys :
            LET a == SortKeys(Output[i])
                b == SortKeys(Output[j])
            IN  (/\ i < j
                 /\ \A m \in 1 .. k - 1 : Alike(a[m], b[m])
                 /\ a[k].null # b[k].null)
                => a[k].null = NullsAskedFirst(node.order_bys[k])

\* ORDER BY orders the rows: a later row is never strictly before an earlier
\* one by the first key on which they differ.
SortIsOrdered ==
    Done("sort") =>
        \A i, j \in DOMAIN Output : \A k \in DOMAIN node.order_bys :
            LET a == SortKeys(Output[i])
                b == SortKeys(Output[j])
            IN  (/\ i < j
                 /\ \A m \in 1 .. k - 1 : Alike(a[m], b[m])
                 /\ ~a[k].null /\ ~b[k].null)
                => IF node.order_bys[k].type = "DESC"
                   THEN Halves(a[k]) >= Halves(b[k]) ELSE Halves(a[k]) <= Halves(b[k])

(* -- aggregation -------------------------------------------------------------- *)
\* the rows of a group: those with its key, where a key with a NULL is like no
\* other, so that each such row is a group by itself
HasNull(key) == \E i \in DOMAIN key : key[i].null
Groups ==
    LET like(i) == IF HasNull(AggregateKeyOf(Input[i])) THEN {i}
                   ELSE {j \in DOMAIN Input : AggregateKeyOf(Input[j]) = AggregateKeyOf(Input[i])}
    IN  {like(i) : i \in DOMAIN Input}

\* what function number f should say of a group, as a test on its result
Says(f, group, v) ==
    LET arg(i) == AggregateArgs(Input[i])[f]
        seen == {i \in group : ~arg(i).null}
        total == MapThenSumSet(LAMBDA i : Halves(arg(i)), seen)
        numbers == {Halves(arg(i)) : i \in seen}
        name == node.functions[f]
        lost == \E upTo \in group : MapThenSumSet(LAMBDA i : Halves(arg(i)),
                                        {i \in seen : i <= upTo}) = 2 * Lowest("TINYINT")
    IN  CASE name = "count_star" -> Halves(v) = 2 * Cardinality(group)
          [] name = "count" -> Halves(v) = 2 * Cardinality(seen)
          [] name = "sum"   -> IF lost THEN v.null ELSE ~v.null /\ Halves(v) = total
          [] name = "avg"   -> IF lost THEN v.null
                               ELSE v = Inexact \/ Halves(v) * Cardinality(seen) = total
          [] name = "min"   -> Halves(v) = Min(numbers)
          [] name = "max"   -> Halves(v) = Max(numbers)

\* Every row is in exactly one group, every group gives one row, and that row,
\* read back through the output schema as main.cpp does, holds the key of the
\* group and what the functions say of its rows: the sum unless a partial sum
\* met the sentinel and stayed NULL.  Columns behind a NULL are left out, they
\* are read from the wrong place: of a group with a NULL in its key the results
\* are lost.  A query over no rows without GROUP BY is left out too: its one
\* group is made by a row that nobody stored.
GroupsAreRight ==
    Done("aggregate") /\ Input # <<>> =>
        LET keys == Len(node.group_bys)
            legible(t, c) == \A e \in 1 .. c - 1 : e \notin t.nulls
            row(g, t) ==
                LET key == AggregateKeyOf(Input[CHOOSE i \in g : TRUE])
                    column(c) == TupleValue(node.output, t, c)
                IN  /\ \A c \in 1 .. keys :
                           /\ c \in t.nulls <=> key[c].null
                           /\ legible(t, c) /\ ~key[c].null => column(c) = key[c]
                    /\ \A f \in DOMAIN node.functions :
                           legible(t, keys + f) => Says(f, g, column(keys + f))
        IN  /\ Len(Output) = Cardinality(Groups)
            /\ \A g \in Groups : \E t \in Range(Output) : row(g, t)
            /\ \A t \in Range(Output) : \E g \in Groups : row(g, t)

(* -- tuples ------------------------------------------------------------------- *)
\* The columns of a tuple read back as the values it was made of, up to and
\* including the first NULL: of the table's rows, and of every projected row.
\* What follows a NULL column is read from the wrong place.
Leading(values) == {i \in DOMAIN values : \A j \in 1 .. i - 1 : ~values[j].null}
ReadsBack(schema, tuple, values) ==
    \A i \in Leading(values) :
        LET v == TupleValue(schema, tuple, i)
        IN  v.null = values[i].null /\ (~v.null => v = values[i])
ColumnsReadBack ==
    /\ Done("projection") =>
           \A i \in DOMAIN Output : ReadsBack(node.output, Output[i], Projected(Input[i]))
    /\ Done("filter") => \A t \in Range(Output) : \E i \in DOMAIN table :
           t = MakeTuple(table[i]) /\ ReadsBack(node.schema, t, table[i])
=============================================================================
