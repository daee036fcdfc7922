----------------------------- MODULE Aggregates -----------------------------
(***************************************************************************)
(* The aggregate functions with their accumulators, and the hash table     *)
(* that keeps one accumulator per function for every group.                *)
(***************************************************************************)
EXTENDS Rows

\* BasicAccumulatorState and MomentAccumulatorState: fresh is is_null, which
\* the first value that is not NULL clears
FreshState == [value |-> Uninitialised("INVALID"), count |-> 0, fresh |-> TRUE]

Started(st, v) == [st EXCEPT !.value = v, !.fresh = FALSE]

(* -- update ---------------------------------------------------------------- *)
CountUpdate(st, arg) == IF arg.null THEN st ELSE [st EXCEPT !.count = @ + 1, !.fresh = FALSE]
CountStarUpdate(st, arg) == [st EXCEPT !.count = @ + 1, !.fresh = FALSE]
SumUpdate(st, arg) ==
    IF arg.null THEN st
    ELSE IF st.fresh THEN Started(st, arg)
    ELSE [st EXCEPT !.value = The(ValueArith("add", @, arg))]
MinUpdate(st, arg) ==
    IF arg.null THEN st
    ELSE IF st.fresh THEN Started(st, arg)
    ELSE [st EXCEPT !.value = The(ValueExtreme("min", @, arg))]
MaxUpdate(st, arg) ==
    IF arg.null THEN st
    ELSE IF st.fresh THEN Started(st, arg)
    ELSE [st EXCEPT !.value = The(ValueExtreme("max", @, arg))]
AvgUpdate(st, arg) ==
    IF arg.null THEN st ELSE [SumUpdate(st, arg) EXCEPT !.count = @ + 1]

(* -- finalize -------------------------------------------------------------- *)
CountFinalize(st) == MakeInteger("INTEGER", st.count)
CountStarFinalize(st) == MakeInteger("BIGINT", st.count)
\* no value was seen: get_null_value_by_type(INVALID), which throws
SumFinalize(st) == IF st.fresh THEN NullOfType(st.value.type) ELSE st.value
MinFinalize(st) == IF st.fresh THEN NullOfType(st.value.type) ELSE st.value
MaxFinalize(st) == IF st.fresh THEN NullOfType(st.value.type) ELSE st.value
AvgFinalize(st) ==
    IF st.fresh \/ st.count = 0 THEN NullOfType(st.value.type)
    ELSE The(ValueArith("divide", st.value, MakeDecimal(2 * st.count)))

\* what AggregateFunctionRegistry hands out
Update(function, st, arg) ==
    CASE function = "count"      -> CountUpdate(st, arg)
      [] function = "count_star" -> CountStarUpdate(st, arg)
      [] function = "sum"        -> SumUpdate(st, arg)
      [] function = "min"        -> MinUpdate(st, arg)
      [] function = "max"        -> MaxUpdate(st, arg)
      [] function = "avg"        -> AvgUpdate(st, arg)
Finalize(function, st) ==
    CASE function = "count"      -> CountFinalize(st)
      [] function = "count_star" -> CountStarFinalize(st)
      [] function = "sum"        -> SumFinalize(st)
      [] function = "min"        -> MinFinalize(st)
      [] function = "max"        -> MaxFinalize(st)
      [] function = "avg"        -> AvgFinalize(st)

\* the type of what Finalize returns for arguments of type t, which the plan
\* gives the column
ResultType(function, t) ==
    CASE function = "count"      -> "INTEGER"
      [] function = "count_star" -> "BIGINT"
      [] function = "avg"        -> "DECIMAL"
      [] OTHER                   -> t
ResultSchema(group_bys, aggregates, functions) ==
    [i \in DOMAIN group_bys |-> Last(group_bys[i]).type]
    \o [f \in DOMAIN functions |-> ResultType(functions[f], Last(aggregates[f]).type)]

(* -- the hash table -------------------------------------------------------- *)
\* Mutant: two NULLs are equal
NullsAreAlike(k1, k2) ==
    \A i \in DOMAIN k1 : ValueCompare("==", k1[i], k2[i]) \subseteq {"CmpTrue", "CmpNull"}

\* AggregateKey::operator==: a NULL equals nothing, not even itself.  The hash
\* of equal keys is equal, so find is a search by ==.
SameKey(k1, k2) ==
    \A i \in DOMAIN k1 : ValueCompare("==", k1[i], k2[i]) = {"CmpTrue"}

\* insert_combine on the table as a sequence of [key, states]
InsertCombine(functions, table, key, args) ==
    LET old == {g \in DOMAIN table : SameKey(table[g].key, key)}
        at  == IF old = {} THEN Len(table) + 1 ELSE CHOOSE g \in old : TRUE
        grown == IF old # {} THEN table
                 ELSE Append(table, [key |-> key, states |-> [f \in DOMAIN functions |-> FreshState]])
    IN  [grown EXCEPT ![at].states = [f \in DOMAIN functions |->
            IF f <= Len(args) THEN Update(functions[f], @[f], args[f]) ELSE @[f]]]
=============================================================================
