----------------------------- MODULE MCQueries -----------------------------
(***************************************************************************)
(* The queries of main.cpp and a few more over tables of up to four rows.  *)
(***************************************************************************)
EXTENDS QueryProperties, DemoQueries

MCHalf == [TINYINT |-> 4, SMALLINT |-> 8, INTEGER |-> 128, BIGINT |-> 512,
           BOOLEAN |-> 4, TIMESTAMP |-> 8]
\* doubles with all halves up to 256 and every fourth one beyond
MCMantissa == 256
MCDecimalTop == 1024
MCDoubleNumbers == -256 .. 256 \union {4 * k : k \in -256 .. 256}
MCNearest == [n \in -1024 .. 1024 |->
                 IF n \in -256 .. 256 THEN n ELSE 4 * ((n + 2) \div 4)]
MCLetters == {7}
MCDateTexts == <<>>

T(n) == MakeInteger("TINYINT", n)
B(n) == MakeInteger("BOOLEAN", n)
Row(a, l, s, w) == <<a, l, s, w>>
Active   == Row(T(1), T(1), B(1), T(2))
Light    == Row(T(2), T(1), B(1), T(-3))
Dead     == Row(T(2), T(0), B(1), T(2))
Unknown  == Row(T(1), T(1), NullOfType("BOOLEAN"), T(-1))
Weighs   == Row(T(2), T(1), B(1), NullOfType("TINYINT"))
Ageless  == Row(NullOfType("TINYINT"), T(1), B(1), T(1))
Overflow == Row(T(2), T(1), B(1), T(2))

MCTables ==
    UNION {[1 .. n -> {Active, Light, Dead, Unknown, Weighs, Ageless, Overflow}] : n \in 0 .. 3}
    \union [1 .. 4 -> {Active, Dead, Weighs}]

MCPlans ==
    {run_query, run_delete, run_aggregation, run_sort(3),
     <<Sort(<<OrderBy("DEFAULT", "DEFAULT", Arithmetic("add", age, weight))>>)>>,
     <<Sort(<<OrderBy("DESC", "DEFAULT", is_active), OrderBy("ASC", "NULLS_LAST", age)>>)>>,
     <<Aggregation(<<is_lived>>, <<weight, weight, weight>>, <<"count", "min", "max">>)>>,
     <<Aggregation(<<>>, <<age, weight>>, <<"count_star", "sum">>)>>,
     <<Aggregation(<<>>, <<age>>, <<"count_star">>)>>,
     <<Filter(Comparison(">", Arithmetic("add", age, weight), Constant(T(0))))>>,
     <<Limit(2)>>}
=============================================================================
