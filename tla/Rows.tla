-------------------------------- MODULE Rows --------------------------------
(***************************************************************************)
(* storage::table::Tuple as the executors use it: values written behind a  *)
(* NULL bitmap, columns found again by adding up the sizes before them;    *)
(* and expression trees evaluated over a tuple.                            *)
(*                                                                         *)
(* The columns read by executors are one byte wide (TINYINT, BOOLEAN), so  *)
(* byte i of the data is cells[i] and offsets count cells.  In the rows of *)
(* an aggregation, whose results are wider, a cell is a column's bytes:    *)
(* exact up to the first NULL.  Behind it the code reads bytes of several  *)
(* columns where the model moves whole cells; nothing here reads them.     *)
(***************************************************************************)
EXTENDS Expressions, SequencesExt

\* bool is kept in a byte as int8_t is, and a byte holds more than 0 and -1
ASSUME ByteAssumption == Half["BOOLEAN"] = Half["TINYINT"] /\ Half["TINYINT"] > 1

\* The operations on one-byte types have one outcome; a double that the model
\* cannot represent is Inexact
Inexact == [type |-> "DECIMAL", null |-> FALSE, raw |-> <<DecimalTop + 1>>]
The(outcomes) == IF outcomes = {} THEN Inexact ELSE CHOOSE v \in outcomes : TRUE

(* -- Tuple ---------------------------------------------------------------- *)
\* The constructor: the memory is zeroed and has room for every column, but a
\* NULL column writes nothing, so what follows it moves up
MakeTuple(values) ==
    LET written == FlattenSeq([i \in DOMAIN values |->
                                  IF values[i].null THEN <<>> ELSE <<values[i].raw[1]>>])
    IN  [nulls |-> {i \in DOMAIN values : values[i].null},
         cells |-> [i \in DOMAIN values |-> IF i <= Len(written) THEN written[i] ELSE 0]]

\* Mutant: the NULL bitmap is read one bit off
BitOffByOne(schema, tuple, column) ==
    IF column - 1 \in tuple.nulls THEN Uninitialised(schema[column])
    ELSE The(ValueStore([type |-> schema[column], null |-> FALSE,
                         raw |-> <<tuple.cells[column]>>]))

\* Tuple::value: the offset counts every column before this one, NULL or not
TupleValue(schema, tuple, column) ==
    IF column \in tuple.nulls THEN Uninitialised(schema[column])
    ELSE The(ValueStore([type |-> schema[column], null |-> FALSE,
                         raw |-> <<tuple.cells[column]>>]))

(* -- expression trees ------------------------------------------------------ *)
\* A tree is the sequence of its nodes, children first; a node says how many
\* places before it its children stand, and has its return_type_.
ColumnValue(i, t) == <<[node |-> "column", index |-> i, type |-> t]>>
Constant(v) == <<[node |-> "constant", value |-> v, type |-> v.type]>>
Binary(node, op, type, l, r) ==
    l \o r \o <<[node |-> node, op |-> op, type |-> type, left |-> Len(r) + 1, right |-> 1]>>
Arithmetic(op, l, r) == Binary("arithmetic", op, ArithmeticType(Last(l).type, Last(r).type), l, r)
Comparison(op, l, r) == Binary("comparison", op, "BOOLEAN", l, r)
Logic(op, l, r) == Binary("logic", op, LogicType(Last(l).type, Last(r).type), l, r)

\* The operations a node performs on one-byte values, tabulated
Bytes == {v \in [type : {"TINYINT", "BOOLEAN"}, null : BOOLEAN,
                 raw : {<<>>} \union {<<n>> : n \in Lowest("TINYINT") .. (MAX("TINYINT"))}] :
             v.null = (v.raw \in {<<>>, <<Lowest("TINYINT")>>})}
Byte(t) == {v \in Bytes : v.type = t}
PerformArithmetic == [c \in ArithmeticOps \X Byte("TINYINT") \X Byte("TINYINT") |->
                         The(TinyintArith(c[1], c[2], c[3]))]
PerformComparison == [c \in Comparisons \X Bytes \X Bytes |->
                         The(EvaluateComparison(c[1], c[2], c[3]))]
PerformLogic == [c \in {"and", "or"} \X Byte("BOOLEAN") \X Byte("BOOLEAN") |->
                    The(EvaluateLogic(c[1], c[2], c[3]))]

IsList(s) == Len(s) \in Nat /\ s = [i \in 1 .. Len(s) |-> s[i]]

\* What the constructors check: an operation's children stand before it and
\* have types it is defined on; a column is one of the tuple's
WellTyped(expr, schema) ==
    /\ IsList(expr) /\ expr # <<>>
    /\ \A i \in DOMAIN expr :
          LET e == expr[i]
              Typed(place, t) == place \in 1 .. i - 1 /\ expr[place].type = t
              Operands(t, u) == Typed(i - e.left, t) /\ Typed(i - e.right, u)
          IN  \/ /\ e.node = "column"
                 /\ e.index \in DOMAIN schema /\ e.type = schema[e.index]
              \/ e.node = "constant" /\ e.value \in Bytes /\ e.type = e.value.type
              \/ /\ e.node = "arithmetic" /\ e.op \in ArithmeticOps
                 /\ e.type = "TINYINT" /\ Operands("TINYINT", "TINYINT")
              \/ /\ e.node = "comparison" /\ e.op \in Comparisons /\ e.type = "BOOLEAN"
                 /\ \E t, u \in {"TINYINT", "BOOLEAN"} : Operands(t, u)
              \/ /\ e.node = "logic" /\ e.op \in {"and", "or"}
                 /\ e.type = "BOOLEAN" /\ Operands("BOOLEAN", "BOOLEAN")

\* What a node makes of its children's values, or of what they throw
Perform(e, l, r) ==
    IF Thrown \in {l, r} THEN Thrown
    ELSE CASE e.node = "arithmetic" -> PerformArithmetic[<<e.op, l, r>>]
           [] e.node = "comparison" -> PerformComparison[<<e.op, l, r>>]
           [] e.node = "logic"      -> PerformLogic[<<e.op, l, r>>]

\* AbstractExpression::evaluate: both children first
Evaluate(expr, schema, tuple) ==
    LET value[i \in DOMAIN expr] ==
            CASE expr[i].node = "column"   -> TupleValue(schema, tuple, expr[i].index)
              [] expr[i].node = "constant" -> expr[i].value
              [] OTHER -> Perform(expr[i], value[i - expr[i].left], value[i - expr[i].right])
    IN  value[Len(expr)]
=============================================================================
