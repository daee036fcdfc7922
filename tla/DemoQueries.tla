----------------------------- MODULE DemoQueries -----------------------------
(***************************************************************************)
(* The queries main.cpp runs over its `people` table, with the columns     *)
(* they depend on, each one byte wide: age, is_lived, is_active, weight.   *)
(***************************************************************************)
EXTENDS Aggregates

people == <<"TINYINT", "TINYINT", "BOOLEAN", "TINYINT">>
age == ColumnValue(1, "TINYINT")
is_lived == ColumnValue(2, "TINYINT")
is_active == ColumnValue(3, "BOOLEAN")
weight == ColumnValue(4, "TINYINT")

\* build_predicate: And, although its comment says OR
build_predicate ==
    Logic("and", Comparison("==", is_active, Constant(MakeInteger("BOOLEAN", 1))),
                 Comparison("==", is_lived, Constant(MakeInteger("TINYINT", 1))))

\* make_projection_columns; weight_height is the sum of two columns
projected == <<"TINYINT", "TINYINT", "BOOLEAN", "TINYINT">>
weight_height == ColumnValue(4, "TINYINT")

Filter(predicate) == [kind |-> "filter", schema |-> people, predicate |-> predicate]
Projection ==
    [kind |-> "projection", schema |-> people, output |-> projected,
     expressions |-> <<age, is_lived, is_active, Arithmetic("add", age, weight)>>]
Sort(order_bys) == [kind |-> "sort", schema |-> projected, order_bys |-> order_bys]
OrderBy(type, nulls, expr) == [type |-> type, nulls |-> nulls, expr |-> expr]
Limit(n) == [kind |-> "limit", schema |-> projected, limit |-> n]
Aggregation(group_bys, aggregates, functions) ==
    [kind |-> "aggregate", schema |-> people, group_bys |-> group_bys,
     aggregates |-> aggregates, functions |-> functions,
     output |-> ResultSchema(group_bys, aggregates, functions)]

run_query == <<Filter(build_predicate), Projection>>

run_sort(n) ==
    run_query \o <<Sort(<<OrderBy("DESC", "NULLS_LAST", weight_height),
                          OrderBy("ASC", "NULLS_FIRST", age)>>),
                   Limit(n)>>

\* the filter of run_delete: age % 2 != 0
run_delete ==
    <<Filter(Comparison("!=", Arithmetic("modulo", age, Constant(MakeInteger("TINYINT", 2))),
                              Constant(MakeInteger("TINYINT", 0))))>>

run_aggregation ==
    <<Aggregation(<<is_lived, is_active>>, <<age, weight, weight>>,
                  <<"count_star", "sum", "avg">>)>>
=============================================================================
