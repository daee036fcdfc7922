------------------------------ MODULE DataTypes ------------------------------
(***************************************************************************)
(* DecimalType, BooleanType, VarcharType, TimestampType, the dispatch of   *)
(* Value's methods on the left operand's type, and ValueFactory's casts.   *)
(***************************************************************************)
EXTENDS IntegerFamily

(* -- DECIMAL -------------------------------------------------------------- *)
DecimalNull(r) == NullDecimal
DecimalArith(op, l, r) ==
    IF l.null \/ r.null THEN {DecimalNull(r)}
    ELSE IF r.type \notin Numeric THEN {Thrown}
    ELSE IF op \in {"divide", "modulo"} /\ IsZero(r) THEN {Thrown}
    ELSE DoubleArith(op, ToDouble(l), ToDouble(r))
\* here the comparison is not strict: equal operands copy the left one
DecimalExtreme(op, l, r) ==
    IF l.null \/ r.null THEN {DecimalNull(r)}
    ELSE LET cmp == CompareNumbers(IF op = "min" THEN "<=" ELSE ">=", l, r)
         IN  {CASE cmp = "Throw" -> Thrown
                [] cmp = "CmpTrue" -> CopyNumber(l)
                [] OTHER -> CopyNumber(r)}
DecimalSqrt(v) == IF v.null THEN {NullDecimal}
                  ELSE IF v.raw[1] < 0 THEN {Thrown} ELSE DoubleSqrt(v.raw[1])
DecimalCompare(cmp, l, r) == CompareNumbers(cmp, l, r)
\* The range check is on the double, before it is truncated.  For BIGINT the
\* bounds are rounded to doubles: MAX up to 2^63, MIN down to the sentinel.
\* DECIMAL to DECIMAL copies without looking for NULL.
DecimalCast(v, to) ==
    CASE to = "DECIMAL" -> {MakeDecimal(n) : n \in Read(v)}
      [] to \in IntegerTypes /\ v.null -> {NullOfType(to)}
      [] to = "BIGINT" /\ ~v.null ->
           {IF v.raw[1] >= 2 * (MAX(to) + 1) \/ v.raw[1] < 2 * Lowest(to)
            THEN Thrown ELSE MakeInteger(to, Quotient(v.raw[1], 2))}
      [] to \in IntegerTypes \ {"BIGINT"} /\ ~v.null ->
           {IF v.raw[1] > 2 * MAX(to) \/ v.raw[1] < 2 * MIN(to)
            THEN Thrown ELSE MakeInteger(to, Quotient(v.raw[1], 2))}
      [] to = "VARCHAR" -> CastToText(v)
      [] OTHER -> {Thrown}
DecimalStore(v) == {MakeDecimal(n) : n \in Read(v)}
DecimalCopy(v) == {MakeDecimal(n) : n \in Read(v)}

(* -- BOOLEAN -------------------------------------------------------------- *)
BooleanCompare(cmp, l, r) ==
    IF l.null \/ r.null THEN "CmpNull"
    ELSE IF r.type = "BOOLEAN" THEN CmpBool(Holds(cmp, l.raw[1], r.raw[1]))
    ELSE "Throw"
BooleanCast(v, to) ==
    CASE to = "BOOLEAN" -> {MakeInteger(to, n) : n \in Read(v)}
      [] to = "VARCHAR" -> CastToText(v)
      [] OTHER -> {Thrown}
BooleanStore(v) == Reload("BOOLEAN", "BOOLEAN", v)
BooleanCopy(v) == {MakeInteger("BOOLEAN", n) : n \in Read(v)}

(* -- VARCHAR -------------------------------------------------------------- *)
\* std::string's order
TextBefore(s, t) ==
    \/ \E i \in 1 .. Len(s) : /\ i <= Len(t) /\ s[i] < t[i]
                              /\ \A j \in 1 .. i - 1 : s[j] = t[j]
    \/ Len(s) < Len(t) /\ s = SubSeq(t, 1, Len(s))
TextOrder(s, t) == IF TextBefore(s, t) THEN -1 ELSE IF s = t THEN 0 ELSE 1

\* the right operand is read as a text whatever it is: other types throw from
\* get_data, as does their storage
VarcharCompare(cmp, l, r) ==
    IF l.null \/ r.null THEN "CmpNull"
    ELSE IF r.type # "VARCHAR" THEN "Throw"
    ELSE CmpBool(Holds(cmp, TextOrder(l.raw, r.raw), 0))
VarcharCast(v, to) == {IF v.null THEN Uninitialised(to) ELSE Thrown}
\* length 0 reads back as NULL: the empty text and NULL are stored alike
VarcharStore(v) == {IF v.null \/ v.raw = <<>> THEN NullVarchar ELSE v}
\* copy takes storage_size bytes, which counts the 4-byte length prefix: it
\* reads past the text and keeps what it found.  The 4 bytes are one letter.
VarcharCopy(v) ==
    IF v.null THEN {NullVarchar}
    ELSE {MakeVarchar(v.raw \o <<b>>) : b \in Letters}
VarcharArith(op, l, r) == {Thrown}
VarcharExtreme(op, l, r) ==
    LET cmp == VarcharCompare(ExtremeCmp(op), l, r)
    IN  IF cmp = "Throw" THEN {Thrown}
        ELSE VarcharCopy(IF cmp = "CmpTrue" THEN l ELSE r)

(* -- TIMESTAMP ------------------------------------------------------------ *)
\* the code read as int64_t
AsSigned(n) == IF n >= Half["TIMESTAMP"] THEN n - 2 * Half["TIMESTAMP"] ELSE n
\* != forgets to ask whether the left operand is NULL; > reads int64_t where
\* the other operators read uint64_t.  The bytes of an operand of another type
\* are read as they are.
TimestampCompare(cmp, l, r) ==
    IF r.null \/ (l.null /\ cmp # "!=") THEN {"CmpNull"}
    ELSE IF r.type # "TIMESTAMP" THEN {"CmpTrue", "CmpFalse"}
    ELSE {CmpBool(IF cmp = ">" THEN AsSigned(n) > AsSigned(r.raw[1])
                  ELSE Holds(cmp, n, r.raw[1])) : n \in Read(l)}
\* operate_null is the base class's, which throws; both operands are TIMESTAMPs
TimestampExtreme(op, l, r) ==
    IF l.null \/ r.null THEN {Thrown}
    ELSE {IF Holds(IF op = "min" THEN "<" ELSE ">=", l.raw[1], r.raw[1]) THEN l ELSE r}
TimestampCast(v, to) == CASE to = "TIMESTAMP" -> {v}
                          [] to = "VARCHAR" -> CastToText(v)
                          [] OTHER -> {Thrown}
TimestampStore(v) == {MakeTimestamp(n) : n \in Read(v)}
TimestampCopy(v) == {v}

(* -- Value: each method asks the left operand's type ---------------------- *)
ValueArith(op, l, r) ==
    CASE l.type = "TINYINT"  -> TinyintArith(op, l, r)
      [] l.type = "SMALLINT" -> SmallintArith(op, l, r)
      [] l.type = "INTEGER"  -> IntegerTypeArith(op, l, r)
      [] l.type = "BIGINT"   -> BigintArith(op, l, r)
      [] l.type = "DECIMAL"  -> DecimalArith(op, l, r)
      [] l.type = "VARCHAR"  -> VarcharArith(op, l, r)
      [] OTHER               -> NotImplemented

ValueExtreme(op, l, r) ==
    CASE l.type = "TINYINT"   -> TinyintExtreme(op, l, r)
      [] l.type = "SMALLINT"  -> SmallintExtreme(op, l, r)
      [] l.type = "INTEGER"   -> IntegerExtreme(op, l, r)
      [] l.type = "BIGINT"    -> BigintExtreme(op, l, r)
      [] l.type = "DECIMAL"   -> DecimalExtreme(op, l, r)
      [] l.type = "VARCHAR"   -> VarcharExtreme(op, l, r)
      [] l.type = "TIMESTAMP" -> TimestampExtreme(op, l, r)
      [] OTHER                -> NotImplemented

ValueSqrt(v) ==
    CASE v.type = "TINYINT"  -> TinyintSqrt(v)
      [] v.type = "SMALLINT" -> SmallintSqrt(v)
      [] v.type = "INTEGER"  -> IntegerSqrt(v)
      [] v.type = "BIGINT"   -> BigintSqrt(v)
      [] v.type = "DECIMAL"  -> DecimalSqrt(v)
      [] OTHER               -> NotImplemented

ValueCompare(cmp, l, r) ==
    CASE l.type = "TINYINT"  -> {TinyintCompare(cmp, l, r)}
      [] l.type = "SMALLINT" -> {SmallintCompare(cmp, l, r)}
      [] l.type = "INTEGER"  -> {IntegerCompare(cmp, l, r)}
      [] l.type = "BIGINT"   -> {BigintCompare(cmp, l, r)}
      [] l.type = "DECIMAL"  -> {DecimalCompare(cmp, l, r)}
      [] l.type = "BOOLEAN"  -> {BooleanCompare(cmp, l, r)}
      [] l.type = "VARCHAR"  -> {VarcharCompare(cmp, l, r)}
      [] OTHER               -> TimestampCompare(cmp, l, r)

ValueCast(v, to) ==
    CASE v.type = "TINYINT"  -> TinyintCast(v, to)
      [] v.type = "SMALLINT" -> SmallintCast(v, to)
      [] v.type = "INTEGER"  -> IntegerCast(v, to)
      [] v.type = "BIGINT"   -> BigintCast(v, to)
      [] v.type = "DECIMAL"  -> DecimalCast(v, to)
      [] v.type = "BOOLEAN"  -> BooleanCast(v, to)
      [] v.type = "VARCHAR"  -> VarcharCast(v, to)
      [] OTHER               -> TimestampCast(v, to)

ValueCopy(v) ==
    CASE v.type = "TINYINT"  -> TinyintCopy(v)
      [] v.type = "SMALLINT" -> SmallintCopy(v)
      [] v.type = "INTEGER"  -> IntegerCopy(v)
      [] v.type = "BIGINT"   -> BigintCopy(v)
      [] v.type = "DECIMAL"  -> DecimalCopy(v)
      [] v.type = "BOOLEAN"  -> BooleanCopy(v)
      [] v.type = "VARCHAR"  -> VarcharCopy(v)
      [] OTHER               -> TimestampCopy(v)

\* serialize_to, then deserialize_from
ValueStore(v) ==
    CASE v.type = "TINYINT"  -> TinyintStore(v)
      [] v.type = "SMALLINT" -> SmallintStore(v)
      [] v.type = "INTEGER"  -> IntegerStore(v)
      [] v.type = "BIGINT"   -> BigintStore(v)
      [] v.type = "DECIMAL"  -> DecimalStore(v)
      [] v.type = "BOOLEAN"  -> BooleanStore(v)
      [] v.type = "VARCHAR"  -> VarcharStore(v)
      [] OTHER               -> TimestampStore(v)
=============================================================================
