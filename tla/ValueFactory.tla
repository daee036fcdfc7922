---------------------------- MODULE ValueFactory ----------------------------
(***************************************************************************)
(* ValueFactory's casts.  Each asks the TARGET type is_coercable_from, and *)
(* only TimestampType overrides it: every other cast throws, its switch on *)
(* the source type never runs.                                             *)
(***************************************************************************)
EXTENDS DataTypes

\* the cast guarded by is_coercable_from; convert is the switch behind it
Guarded(convert(_), v, to) ==
    IF IsCoercableFrom(to, v.type) THEN convert(v) ELSE {Thrown}

\* the numeric switches: NULL, a range check against MIN and MAX, and a parse
\* of VARCHAR, which the model has no numbers for
ConvertNumber(v, to) ==
    IF v.null THEN {NullOfType(to)}
    ELSE IF v.type \in IntegerTypes THEN
        IF to = "DECIMAL" THEN Doubles(Halves(v))
        ELSE {IF v.raw[1] \in MIN(to) .. (MAX(to)) THEN MakeInteger(to, v.raw[1]) ELSE Thrown}
    ELSE IF v.type = "DECIMAL" THEN
        IF to = "DECIMAL" THEN {v}
        ELSE {IF v.raw[1] \in 2 * MIN(to) .. 2 * MAX(to)
              THEN MakeInteger(to, Quotient(v.raw[1], 2)) ELSE Thrown}
    ELSE {Thrown}

cast_as_big_int(v) ==
    LET convert(u) == ConvertNumber(u, "BIGINT") IN Guarded(convert, v, "BIGINT")
cast_as_integer(v) ==
    LET convert(u) == ConvertNumber(u, "INTEGER") IN Guarded(convert, v, "INTEGER")
cast_as_small_int(v) ==
    LET convert(u) == ConvertNumber(u, "SMALLINT") IN Guarded(convert, v, "SMALLINT")
cast_as_tiny_int(v) ==
    LET convert(u) == ConvertNumber(u, "TINYINT") IN Guarded(convert, v, "TINYINT")
cast_as_decimal(v) ==
    LET convert(u) == ConvertNumber(u, "DECIMAL") IN Guarded(convert, v, "DECIMAL")
cast_as_varchar(v) ==
    LET convert(u) == IF u.type = "TIMESTAMP" THEN {Thrown} ELSE CastToText(u)
    IN  Guarded(convert, v, "VARCHAR")
cast_as_boolean(v) ==
    LET convert(u) == IF u.null THEN {NullOfType("BOOLEAN")}
                      ELSE IF u.type = "BOOLEAN" THEN {u} ELSE {Thrown}
    IN  Guarded(convert, v, "BOOLEAN")

\* A date is [month, year]; the code puts the month in the high digits, and
\* the code of a date is below ULLONG_MAX.  Day to microsecond and the time
\* zone sit between and below and are left out.
Years == 4
TimestampCode(d) == d.month * Years + d.year
ASSUME DateAssumption ==
    \A text \in DOMAIN DateTexts : TimestampCode(DateTexts[text]) \in 0 .. TimestampNull

\* The sentinel is passed as int64_t -1, which is not that constructor's NULL:
\* the NULL text becomes a timestamp that is not NULL
cast_as_timestamp(v) ==
    LET convert(u) ==
            IF u.null THEN {TimestampFromSigned(TimestampNull)}
            ELSE IF u.type = "TIMESTAMP" THEN {TimestampFromSigned(u.raw[1])}
            ELSE IF u.raw \in DOMAIN DateTexts
                 THEN {TimestampFromSigned(TimestampCode(DateTexts[u.raw]))}
            ELSE {Thrown}
    IN  Guarded(convert, v, "TIMESTAMP")

FactoryCast(v, to) ==
    CASE to = "BOOLEAN"   -> cast_as_boolean(v)
      [] to = "TINYINT"   -> cast_as_tiny_int(v)
      [] to = "SMALLINT"  -> cast_as_small_int(v)
      [] to = "INTEGER"   -> cast_as_integer(v)
      [] to = "BIGINT"    -> cast_as_big_int(v)
      [] to = "DECIMAL"   -> cast_as_decimal(v)
      [] to = "VARCHAR"   -> cast_as_varchar(v)
      [] to = "TIMESTAMP" -> cast_as_timestamp(v)
      [] OTHER            -> {Thrown}
=============================================================================
