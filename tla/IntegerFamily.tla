---------------------------- MODULE IntegerFamily ----------------------------
(***************************************************************************)
(* TinyintType, SmallintType, IntegerType and BigintType: what each file   *)
(* adds to the templates, its table of NULL results, casts and storage.    *)
(***************************************************************************)
EXTENDS NumericTypes

\* min and max: operate_null, then a copy of the operand that a strict
\* comparison picks
ExtremeCmp(op) == IF op = "min" THEN "<" ELSE ">"
CopyNumber(v) == IF v.type = "DECIMAL" THEN MakeDecimal(v.raw[1])
                 ELSE MakeInteger(v.type, v.raw[1])
Extreme(nullOf(_), op, l, r) ==
    IF l.null \/ r.null THEN {nullOf(r)}
    ELSE LET cmp == CompareNumbers(ExtremeCmp(op), l, r)
         IN  {CASE cmp = "Throw" -> Thrown
                [] cmp = "CmpTrue" -> CopyNumber(l)
                [] OTHER -> CopyNumber(r)}

\* storage: the member is written and read back by deserialize's constructor
Reload(t, width, v) == {IntegerValue(t, width, n) : n \in Read(v)}

(* -- TINYINT -------------------------------------------------------------- *)
TinyintNull(r) ==
    CASE r.type \in {"TINYINT", "INTEGER", "BIGINT"} -> NullOfType(r.type)
      [] r.type = "SMALLINT" -> IntegerValue("INTEGER", "SMALLINT", Lowest("SMALLINT"))
      [] r.type = "DECIMAL" -> NullDecimal
      [] OTHER -> Thrown
TinyintArith(op, l, r) == Modify(TinyintNull, op, l, r)
TinyintSqrt(v) == IF v.null THEN {NullDecimal}
                  ELSE IF v.raw[1] < 0 THEN {Thrown} ELSE DoubleSqrt(ToDouble(v))
TinyintExtreme(op, l, r) == Extreme(TinyintNull, op, l, r)
\* Mutant: the right operand is narrowed to a TINYINT first
TinyintCompareNarrow(cmp, l, r) ==
    IF l.null \/ r.null \/ r.type \notin IntegerTypes THEN CompareNumbers(cmp, l, r)
    ELSE CmpBool(Holds(cmp, l.raw[1], Wrap("TINYINT", r.raw[1])))
TinyintCompare(cmp, l, r) == CompareNumbers(cmp, l, r)
TinyintCast(v, to) == CASE to \in Numeric -> CastInteger(v, to)
                        [] to = "VARCHAR" -> CastToText(v)
                        [] OTHER -> {Thrown}
\* deserialize reads the byte into an int16_t and builds the value from that
TinyintStore(v) == Reload("TINYINT", "SMALLINT", v)
TinyintCopy(v) == {MakeInteger("TINYINT", n) : n \in Read(v)}

(* -- SMALLINT ------------------------------------------------------------- *)
SmallintNull(r) ==
    CASE r.type \in {"TINYINT", "SMALLINT"} -> NullOfType("SMALLINT")
      [] r.type \in {"INTEGER", "BIGINT", "DECIMAL"} -> NullOfType(r.type)
      [] OTHER -> Thrown
SmallintArith(op, l, r) == Modify(SmallintNull, op, l, r)
SmallintSqrt(v) == IF v.null THEN {NullDecimal}
                   ELSE IF v.raw[1] < 0 THEN {Thrown} ELSE DoubleSqrt(ToDouble(v))
SmallintExtreme(op, l, r) == Extreme(SmallintNull, op, l, r)
SmallintCompare(cmp, l, r) == CompareNumbers(cmp, l, r)
SmallintCast(v, to) == CASE to \in Numeric -> CastInteger(v, to)
                         [] to = "VARCHAR" -> CastToText(v)
                         [] OTHER -> {Thrown}
SmallintStore(v) == Reload("SMALLINT", "SMALLINT", v)
SmallintCopy(v) == {MakeInteger("SMALLINT", n) : n \in Read(v)}

(* -- INTEGER -------------------------------------------------------------- *)
IntegerNull(r) ==
    CASE r.type \in {"TINYINT", "SMALLINT", "INTEGER"} -> NullOfType("INTEGER")
      [] r.type \in {"BIGINT", "DECIMAL"} -> NullOfType(r.type)
      [] OTHER -> Thrown
IntegerTypeArith(op, l, r) == Modify(IntegerNull, op, l, r)
IntegerSqrt(v) == IF v.null THEN {IntegerNull(v)}
                  ELSE IF v.raw[1] < 0 THEN {Thrown} ELSE DoubleSqrt(ToDouble(v))
IntegerExtreme(op, l, r) == Extreme(IntegerNull, op, l, r)
IntegerCompare(cmp, l, r) == CompareNumbers(cmp, l, r)
\* the cast of a number to VARCHAR is commented out and falls into the throw
IntegerCast(v, to) == CASE to \in Numeric -> CastInteger(v, to)
                        [] to = "VARCHAR" /\ v.null -> {NullVarchar}
                        [] OTHER -> {Thrown}
IntegerStore(v) == Reload("INTEGER", "INTEGER", v)
IntegerCopy(v) == {MakeInteger(v.type, n) : n \in Read(v)}

(* -- BIGINT --------------------------------------------------------------- *)
BigintNull(r) ==
    CASE r.type \in IntegerTypes -> NullOfType("BIGINT")
      [] r.type = "DECIMAL" -> NullDecimal
      [] OTHER -> Thrown
BigintArith(op, l, r) == Modify(BigintNull, op, l, r)
BigintSqrt(v) == IF v.null THEN {NullDecimal}
                 ELSE IF v.raw[1] < 0 THEN {Thrown} ELSE DoubleSqrt(ToDouble(v))
BigintExtreme(op, l, r) == Extreme(BigintNull, op, l, r)
BigintCompare(cmp, l, r) == CompareNumbers(cmp, l, r)
BigintCast(v, to) == CASE to \in Numeric -> CastInteger(v, to)
                       [] to = "VARCHAR" -> CastToText(v)
                       [] OTHER -> {Thrown}
BigintStore(v) == Reload("BIGINT", "BIGINT", v)
BigintCopy(v) == {MakeInteger("BIGINT", n) : n \in Read(v)}

=============================================================================
