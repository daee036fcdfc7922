---------------------------- MODULE NumericTypes ----------------------------
(***************************************************************************)
(* TINYINT, SMALLINT, INTEGER, BIGINT and DECIMAL: the templates of        *)
(* IntegerParentType and what each type's file makes of them.              *)
(***************************************************************************)
EXTENDS Values

ArithmeticOps == {"add", "subtract", "multiply", "divide", "modulo"}

(* -- IntegerParentType: add_value .. modulo_value ------------------------- *)
\* The type C++ computes x OP y in: int, or int64_t when a BIGINT takes part
Computed(t, u) == IF "BIGINT" \in {t, u} THEN "BIGINT" ELSE "INTEGER"

\* Mutant: the result has the left operand's type
LeftType(t, u) == t

\* The result has the wider operand's type, the left one's when equal
Wider(t, u) == IF Half[t] >= Half[u] THEN t ELSE u

ExactInteger(op, x, y) ==
    CASE op = "add"      -> x + y
      [] op = "subtract" -> x - y
      [] op = "multiply" -> x * y
      [] op = "divide"   -> Quotient(x, y)
      [] op = "modulo"   -> Remainder(x, y)

\* n fits the type it is computed in
Computable(n, t) == n \in Lowest(t) .. (MAX(t))

\* Mutant: a sum out of range is narrowed silently
AddNarrowed(l, r) ==
    LET t == Wider(l.type, r.type)
    IN  {MakeInteger(t, Wrap(t, l.raw[1] + r.raw[1]))}

\* In the type the code computes in, a result that fits neither operand's
\* type throws.  A result that does not fit the type computed in is signed
\* overflow, undefined: the checks below it may be folded away, so the wrapped
\* number comes out, or they may see it and throw.
AddValue(l, r) ==
    LET n == l.raw[1] + r.raw[1]
        t == Wider(l.type, r.type)
    IN  IF Computable(n, Computed(l.type, r.type))
        THEN {IF n # Wrap(t, n) THEN Thrown ELSE MakeInteger(t, n)}
        ELSE {Thrown, MakeInteger(t, Wrap(t, n))}

SubtractValue(l, r) ==
    LET n == l.raw[1] - r.raw[1]
        t == Wider(l.type, r.type)
    IN  IF Computable(n, Computed(l.type, r.type))
        THEN {IF n # Wrap(t, n) THEN Thrown ELSE MakeInteger(t, n)}
        ELSE {Thrown, MakeInteger(t, Wrap(t, n))}

MultiplyValue(l, r) ==
    LET n == l.raw[1] * r.raw[1]
        t == Wider(l.type, r.type)
    IN  IF Computable(n, Computed(l.type, r.type))
        THEN {IF n # Wrap(t, n) \/ (r.raw[1] # 0 /\ Quotient(Wrap(t, n), r.raw[1]) # l.raw[1])
              THEN Thrown ELSE MakeInteger(t, n)}
        ELSE {Thrown, MakeInteger(t, Wrap(t, n))}

DivideValue(l, r) ==
    LET t == Wider(l.type, r.type)
    IN  {IF r.raw[1] = 0 THEN Thrown
         ELSE MakeInteger(t, Wrap(t, Quotient(l.raw[1], r.raw[1])))}

ModuloValue(l, r) ==
    LET t == Wider(l.type, r.type)
    IN  {IF r.raw[1] = 0 THEN Thrown
         ELSE MakeInteger(t, Wrap(t, Remainder(l.raw[1], r.raw[1])))}

IntegerArith(op, l, r) ==
    CASE op = "add"      -> AddValue(l, r)
      [] op = "subtract" -> SubtractValue(l, r)
      [] op = "multiply" -> MultiplyValue(l, r)
      [] op = "divide"   -> DivideValue(l, r)
      [] op = "modulo"   -> ModuloValue(l, r)

(* -- doubles: the exact result, rounded ----------------------------------- *)
\* NumericType::val_mod
ValMod(a, b) == a - Quotient(a, b) * b

\* a OP b for the doubles a/2 and b/2.  No value where the exact result is no
\* number of halves, or val_mod's quotient is beyond what a double holds exactly.
DoubleArith(op, a, b) ==
    CASE op = "add"      -> Doubles(a + b)
      [] op = "subtract" -> Doubles(a - b)
      [] op = "multiply" -> IF Remainder(a * b, 2) = 0 THEN Doubles(Quotient(a * b, 2)) ELSE {}
      [] op = "divide"   -> IF Remainder(2 * a, b) = 0 THEN Doubles(Quotient(2 * a, b)) ELSE {}
      [] op = "modulo"   -> IF {a, b} \subseteq -Mantissa .. Mantissa
                            THEN Doubles(ValMod(a, b)) ELSE {}

\* std::sqrt, where the root is a double of whole halves
DoubleSqrt(a) == {MakeDecimal(k) : k \in {k \in 0 .. a + 2 : k * k = 2 * a /\ k \in DoubleNumbers}}

IsZero(v) == v.raw[1] = 0

(* -- the shape the four integer types share ------------------------------- *)
\* NULL first, by the type's own table; then division by zero; then the switch
\* on the right operand's type.  VARCHAR operands are cast, which throws.
Modify(nullOf(_), op, l, r) ==
    IF l.null \/ r.null THEN {nullOf(r)}
    ELSE IF op \in {"divide", "modulo"} /\ (r.type \notin Numeric \/ IsZero(r)) THEN {Thrown}
    ELSE IF r.type \in IntegerTypes THEN IntegerArith(op, l, r)
    ELSE IF r.type = "DECIMAL" THEN DoubleArith(op, ToDouble(l), ToDouble(r))
    ELSE {Thrown}

CompareNumbers(cmp, l, r) ==
    IF l.null \/ r.null THEN "CmpNull"
    ELSE IF r.type \notin Numeric THEN "Throw"
    ELSE IF "DECIMAL" \in {l.type, r.type} THEN CmpBool(Holds(cmp, ToDouble(l), ToDouble(r)))
    ELSE CmpBool(Holds(cmp, l.raw[1], r.raw[1]))

\* cast_as of an integer to a numeric type: widening needs no check, and a
\* BIGINT is rounded to a DECIMAL
CastInteger(v, to) ==
    IF v.null THEN {NullOfType(to)}
    ELSE IF to = "DECIMAL" THEN Doubles(Halves(v))
    ELSE IF Half[to] >= Half[v.type] THEN {MakeInteger(to, v.raw[1])}
    ELSE IF v.raw[1] > MAX(to) \/ v.raw[1] < MIN(to) THEN {Thrown}
    ELSE {MakeInteger(to, v.raw[1])}

CastToText(v) == {IF v.null THEN NullVarchar ELSE MakeVarchar(TextOf(v))}
=============================================================================
