--------------------------- MODULE QueryExecutors ---------------------------
(***************************************************************************)
(* The read side of the executor tree: Filter, Projection, Sort, Limit and *)
(* Aggregation over a scan.  A plan is run from its leaf: each node reads  *)
(* the batches the node below it delivered and produces its own.  Nodes    *)
(* share nothing but these batches, so the order of the nested next calls  *)
(* does not matter.                                                        *)
(***************************************************************************)
EXTENDS Aggregates

CONSTANTS
    Tables,        \* the tables a query may meet: sequences of rows of values
    Plans,         \* sequences of plan nodes, the one next to the scan first
    BatchSize      \* the batch_size the consumers ask for

VARIABLES
    table,         \* the rows as they were inserted
    plan,          \* the nodes left to run; Head(plan) is running
    given,         \* the batches the child of that node delivers
    child,         \* those not pulled yet
    buffer,        \* child_tuples_
    offset,        \* child_offset_
    batch,         \* tuple_batch of a call of FilterExecutor::next
    entries,       \* sorted_entries_, or the groups in iteration order
    emitted,       \* emitted_count_
    out,           \* the batches the node has returned
    status         \* "init", "running", "done" or "failed"

\* What the plan nodes' constructors are given.  A filter stands on the scan or on
\* another filter; rows of Limit and Aggregation are read by no node.
WellFormed(n) ==
    /\ n.kind \in {"filter", "projection", "sort", "limit", "aggregate"}
    /\ IsList(n.schema) /\ \A c \in DOMAIN n.schema : n.schema[c] \in {"TINYINT", "BOOLEAN"}
    /\ n.kind = "filter" => WellTyped(n.predicate, n.schema)
    /\ n.kind = "projection" =>
          /\ IsList(n.output) /\ DOMAIN n.expressions = DOMAIN n.output
          /\ \A i \in DOMAIN n.output :
                /\ WellTyped(n.expressions[i], n.schema)
                /\ Last(n.expressions[i]).type = n.output[i]
    /\ n.kind = "sort" =>
          /\ IsList(n.order_bys)
          /\ \A k \in DOMAIN n.order_bys :
                /\ WellTyped(n.order_bys[k].expr, n.schema)
                /\ n.order_bys[k].nulls \in {"DEFAULT", "NULLS_FIRST", "NULLS_LAST"}
    /\ n.kind = "limit" => n.limit \in Nat
    /\ n.kind = "aggregate" => n.output = ResultSchema(n.group_bys, n.aggregates, n.functions)
\* the schema of the rows a node returns
Produces(n) == IF n.kind = "projection" THEN n.output ELSE n.schema
Runnable(nodes) ==
    /\ IsList(nodes) /\ nodes # <<>>
    /\ \A k \in DOMAIN nodes : WellFormed(nodes[k])
    /\ \A k \in 2 .. Len(nodes) :
          /\ nodes[k].schema = Produces(nodes[k - 1])
          /\ nodes[k - 1].kind \notin {"limit", "aggregate"}
          /\ nodes[k].kind = "filter" => nodes[k - 1].kind = "filter"
FitsSchema(values, schema) ==
    /\ DOMAIN values = DOMAIN schema
    /\ \A c \in DOMAIN schema : values[c] \in Bytes /\ values[c].type = schema[c]
ASSUME QueryAssumption ==
    /\ BatchSize \in Nat \ {0}
    /\ \A nodes \in Plans : Runnable(nodes)
    /\ \A rows \in Tables :
          /\ IsList(rows)
          /\ \A nodes \in Plans : \A i \in DOMAIN rows : FitsSchema(rows[i], nodes[1].schema)

vars == <<table, plan, given, child, buffer, offset, batch, entries, emitted, out, status>>

node == Head(plan)
Flat(batches) == FlattenSeq(batches)
Running(kind) == plan # <<>> /\ node.kind = kind /\ status = "running"
Starting(kind) == plan # <<>> /\ node.kind = kind /\ status = "init"

\* SeqScanExecutor::next over the whole table: batches filled to batch_size
Chunks(rows) ==
    [k \in 1 .. (Len(rows) + BatchSize - 1) \div BatchSize |->
        SubSeq(rows, (k - 1) * BatchSize + 1, Min({k * BatchSize, Len(rows)}))]

Perms(n) == {p \in [1 .. n -> 1 .. n] : \A i, j \in 1 .. n : i # j => p[i] # p[j]}

Fresh(batches) ==
    /\ given' = batches /\ child' = batches
    /\ buffer' = <<>> /\ offset' = 0 /\ batch' = <<>>
    /\ entries' = <<>> /\ emitted' = 0 /\ out' = <<>>

Init ==
    /\ table \in Tables /\ plan \in Plans
    /\ given = Chunks([i \in DOMAIN table |-> MakeTuple(table[i])])
    /\ child = given
    /\ buffer = <<>> /\ offset = 0 /\ batch = <<>>
    /\ entries = <<>> /\ emitted = 0 /\ out = <<>>
    /\ status = IF Head(plan).kind \in {"sort", "aggregate"} THEN "init" ELSE "running"

\* the node returned false: its batches are what the node above it is given
NextNode ==
    /\ status = "done" /\ Len(plan) > 1
    /\ plan' = Tail(plan)
    /\ Fresh(out)
    /\ status' = IF plan[2].kind \in {"sort", "aggregate"} THEN "init" ELSE "running"
    /\ UNCHANGED table

\* an expression threw, which ends the query
Throws(values) == \E i \in DOMAIN values : values[i] = Thrown

Return(rows) == out' = Append(out, rows) /\ status' = status
ReturnFalse == out' = out /\ status' = "done"
Fail == out' = out /\ status' = "failed"

(* -- FilterExecutor --------------------------------------------------------- *)
Verdict(tuple) == Evaluate(node.predicate, node.schema, tuple)
Passes(tuple) == LET v == Verdict(tuple) IN v # Thrown /\ ~v.null /\ v.raw[1] # 0

Selected(rows) == Flat([i \in DOMAIN rows |-> IF Passes(rows[i]) THEN <<rows[i]>> ELSE <<>>])

\* Mutant: the batch is full one row later
ReachPastFull(rows, n) ==
    Min({i \in DOMAIN rows : Passes(rows[i]) /\ Len(Selected(SubSeq(rows, 1, i))) > n}
        \union {Len(rows)})

\* how many rows of a child batch are looked at when n rows are wanted yet
Reach(rows, n) ==
    Min({i \in DOMAIN rows : Passes(rows[i]) /\ Len(Selected(SubSeq(rows, 1, i))) >= n}
        \union {Len(rows)})

\* One turn of the loop in next: the rest of the last child batch, without a
\* look at batch_size, then another child batch until the output is full
FilterTurn ==
    /\ Running("filter")
    /\ LET rest   == IF offset = 0 THEN <<>> ELSE SubSeq(buffer, offset + 1, Len(buffer))
           pulled == IF child = <<>> THEN <<>> ELSE Head(child)
       IN  \E filling \in {batch \o Selected(rest)} :
           \E n \in {Reach(pulled, BatchSize - Len(filling))} :
           \E filled \in {filling \o Selected(SubSeq(pulled, 1, n))} :
               /\ buffer' = pulled
               /\ child' = IF child = <<>> THEN child ELSE Tail(child)
               /\ offset' = IF n < Len(pulled) THEN n ELSE 0
               /\ \/ /\ \E t \in Range(rest \o SubSeq(pulled, 1, n)) : Verdict(t) = Thrown
                     /\ Fail /\ batch' = <<>>
                  \/ /\ \A t \in Range(rest \o SubSeq(pulled, 1, n)) : Verdict(t) # Thrown
                     /\ \/ /\ child = <<>> /\ filled = <<>>
                           /\ ReturnFalse /\ batch' = <<>>
                        \/ /\ filled # <<>> /\ (child = <<>> \/ Len(filled) >= BatchSize)
                           /\ Return(filled) /\ batch' = <<>>
                        \/ /\ child # <<>> /\ Len(filled) < BatchSize
                           /\ batch' = filled /\ UNCHANGED <<out, status>>
    /\ UNCHANGED <<table, plan, given, entries, emitted>>

(* -- ProjectionExecutor ------------------------------------------------------ *)
Projected(tuple) ==
    [i \in DOMAIN node.expressions |-> Evaluate(node.expressions[i], node.schema, tuple)]
Project(rows) == [i \in DOMAIN rows |-> MakeTuple(Projected(rows[i]))]

ProjectionNext ==
    /\ Running("projection")
    /\ LET rest    == IF offset = 0 THEN <<>> ELSE SubSeq(buffer, offset + 1, Len(buffer))
           pulled  == IF child = <<>> THEN <<>> ELSE Head(child)
           stop    == Min({Len(pulled), IF BatchSize > Len(rest) THEN BatchSize - Len(rest) ELSE 1})
           reads   == rest \o SubSeq(pulled, 1, stop)
       IN  /\ buffer' = pulled
           /\ child' = IF child = <<>> THEN child ELSE Tail(child)
           /\ offset' = IF stop < Len(pulled) THEN stop ELSE 0
           /\ CASE reads = <<>> -> ReturnFalse
                [] \E i \in DOMAIN reads : Throws(Projected(reads[i])) -> Fail
                [] OTHER -> Return(Project(reads))
    /\ UNCHANGED <<table, plan, given, batch, entries, emitted>>

(* -- SortExecutor ------------------------------------------------------------- *)
SortKeys(tuple) ==
    [i \in DOMAIN node.order_bys |-> Evaluate(node.order_bys[i].expr, node.schema, tuple)]
\* Mutant: the default is the other way round
NullsFirstForASC(order) ==
    order.nulls = "NULLS_FIRST" \/ (order.nulls = "DEFAULT" /\ order.type # "DESC")
NullsFirst(order) ==
    order.nulls = "NULLS_FIRST" \/ (order.nulls = "DEFAULT" /\ order.type = "DESC")

\* What SortComparator asks of two values that are not NULL: the test for "go
\* on to the next key" compares val_a with itself
SkipsKey(a, b) == ValueCompare("==", a, a) = {"CmpTrue"}
KeyBefore(order, a, b) ==
    ValueCompare(IF order.type = "DESC" THEN ">" ELSE "<", a, b) = {"CmpTrue"}

\* SortComparator: entry a goes before entry b, by the first key that decides
Decides(a, b) == ~(a.null /\ b.null) /\ ~(~a.null /\ ~b.null /\ SkipsKey(a, b))
DecidedBefore(order, a, b) ==
    IF a.null THEN NullsFirst(order) ELSE IF b.null THEN ~NullsFirst(order)
    ELSE KeyBefore(order, a, b)
GoesBefore(a, b) ==
    \E k \in DOMAIN node.order_bys :
        /\ Decides(a[k], b[k]) /\ DecidedBefore(node.order_bys[k], a[k], b[k])
        /\ \A m \in 1 .. k - 1 : ~Decides(a[m], b[m])

\* init: the child is read to its end; std::sort leaves any order in which no
\* entry goes before an earlier one
SortInit ==
    /\ Starting("sort")
    /\ LET rows == Flat(child)
           keys == [i \in DOMAIN rows |-> SortKeys(rows[i])]
       IN  \/ /\ \E i \in DOMAIN rows : Throws(keys[i])
              /\ status' = "failed" /\ UNCHANGED entries
           \/ /\ \A i \in DOMAIN rows : ~Throws(keys[i])
              /\ \E p \in Perms(Len(rows)) :
                     /\ \A i, j \in DOMAIN rows : i < j => ~GoesBefore(keys[p[j]], keys[p[i]])
                     /\ entries' = [i \in DOMAIN rows |-> rows[p[i]]]
              /\ status' = "running"
    /\ child' = <<>>
    /\ UNCHANGED <<table, plan, given, buffer, offset, batch, emitted, out>>

\* next, with the entries before the cursor taken off
SortNext ==
    /\ Running("sort")
    /\ LET n == Min({BatchSize, Len(entries)})
       IN  /\ IF entries = <<>> THEN ReturnFalse ELSE Return(SubSeq(entries, 1, n))
           /\ entries' = SubSeq(entries, n + 1, Len(entries))
    /\ UNCHANGED <<table, plan, given, child, buffer, offset, batch, emitted>>

(* -- LimitExecutor ------------------------------------------------------------- *)
\* next takes fetch_size rows of the child batch without asking how many there
\* are: past the end lies whatever the vector's memory holds, or a crash.  A
\* longer child batch loses its other rows.
Garbage == [nulls |-> {}, cells |-> <<>>]
LimitNext ==
    /\ Running("limit")
    /\ LET fetch == Min({BatchSize, node.limit - emitted})
           pulled == IF child = <<>> THEN <<>> ELSE Head(child)
           taken == [i \in 1 .. fetch |-> IF i <= Len(pulled) THEN pulled[i] ELSE Garbage]
       IN  \/ /\ child = <<>> \/ fetch = 0
              /\ ReturnFalse /\ UNCHANGED emitted
           \/ /\ child # <<>> /\ fetch > 0
              /\ Return(taken) /\ emitted' = emitted + fetch
           \/ /\ child # <<>> /\ fetch > Len(pulled)
              /\ Fail /\ UNCHANGED emitted
    /\ child' = IF child = <<>> THEN child ELSE Tail(child)
    /\ UNCHANGED <<table, plan, given, buffer, offset, batch, entries>>

(* -- AggregationExecutor -------------------------------------------------------- *)
AggregateKeyOf(tuple) ==
    [i \in DOMAIN node.group_bys |-> Evaluate(node.group_bys[i], node.schema, tuple)]
AggregateArgs(tuple) ==
    [i \in DOMAIN node.aggregates |-> Evaluate(node.aggregates[i], node.schema, tuple)]

\* the single group of a query without GROUP BY over no rows is made by the
\* same insert_combine, with a NULL per function as arguments
Broken(groups) == \E g \in Range(groups) : \E st \in Range(g.states) : st.value = Thrown
GroupsOf(rows) ==
    LET groups[i \in 0 .. Len(rows)] ==
            IF i = 0 THEN <<>>
            ELSE LET old == groups[i - 1]
                 IN  IF Broken(old) THEN old
                     ELSE InsertCombine(node.functions, old, AggregateKeyOf(rows[i]),
                                        AggregateArgs(rows[i]))
        none == [f \in DOMAIN node.functions |-> Uninitialised("INVALID")]
        all  == groups[Len(rows)]
    IN  IF all = <<>> /\ node.group_bys = <<>>
        THEN InsertCombine(node.functions, <<>>, <<>>, none) ELSE all

AggregateInit ==
    /\ Starting("aggregate")
    /\ LET rows == Flat(child)
           unread == \E t \in Range(rows) : Throws(AggregateKeyOf(t)) \/ Throws(AggregateArgs(t))
           groups == GroupsOf(rows)
       IN  \/ /\ unread \/ Broken(groups)
              /\ status' = "failed" /\ UNCHANGED entries
           \/ /\ ~unread /\ ~Broken(groups)
              \* unordered_map iterates in no particular order
              /\ \E p \in Perms(Len(groups)) : entries' = [i \in DOMAIN groups |-> groups[p[i]]]
              /\ status' = "running"
    /\ child' = <<>>
    /\ UNCHANGED <<table, plan, given, buffer, offset, batch, emitted, out>>

\* next: a row is a Tuple of the key and the results, which main.cpp reads back
AggregateRow(group) ==
    group.key \o [f \in DOMAIN node.functions |-> Finalize(node.functions[f], group.states[f])]
AggregateNext ==
    /\ Running("aggregate")
    /\ LET n == Min({BatchSize, Len(entries)})
           values == [i \in 1 .. n |-> AggregateRow(entries[i])]
       IN  /\ CASE n = 0 -> ReturnFalse
                [] \E i \in 1 .. n : Throws(values[i]) -> Fail
                [] OTHER -> Return([i \in 1 .. n |-> MakeTuple(values[i])])
           /\ entries' = SubSeq(entries, n + 1, Len(entries))
    /\ UNCHANGED <<table, plan, given, child, buffer, offset, batch, emitted>>

Next == \/ FilterTurn \/ ProjectionNext
        \/ SortInit \/ SortNext
        \/ LimitNext
        \/ AggregateInit \/ AggregateNext
        \/ NextNode

Spec == Init /\ [][Next]_vars
=============================================================================
