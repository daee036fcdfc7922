------------------------------- MODULE Values -------------------------------
(***************************************************************************)
(* datatype::Value and the facts all types share: constructors, the NULL   *)
(* sentinels, get_common_type and the base class Type.                     *)
(*                                                                         *)
(* A value is [type, null, raw].  raw is a sequence of integers:           *)
(*   an integer type, BOOLEAN, TIMESTAMP   <<n>>                           *)
(*   DECIMAL    <<n>>, the double n/2 (no finer fraction is represented)   *)
(*   VARCHAR    its letters                                                *)
(*   <<>>       the union member was never written                         *)
(* Every operation returns the SET of its outcomes: values or Thrown.  The *)
(* set has several members where the code has undefined behaviour, and it  *)
(* is empty when the exact result is a double the model cannot represent.  *)
(* The asserts are left out, as under NDEBUG: in a build that keeps them a *)
(* failed one ends the process, and a run is a prefix of one modelled here.*)
(***************************************************************************)
EXTENDS Integers, Sequences, FiniteSets

CONSTANTS
    DoubleNumbers, \* the numbers a double holds, in halves
    Nearest,       \* rounding: a number to a double nearest to it
    Mantissa,      \* up to which, in halves, a double holds every number: 2^53
    DecimalTop,    \* the largest double modelled
    Half,          \* how many numbers of a type are not negative, for the
                   \* integer types, BOOLEAN and TIMESTAMP: 2^(w-1) of w bits
    Letters,       \* what a byte of a VARCHAR may hold
    DateTexts      \* the texts cast_as_timestamp accepts, with their dates

IntegerTypes == {"TINYINT", "SMALLINT", "INTEGER", "BIGINT"}
Numeric == IntegerTypes \union {"DECIMAL"}
DataTypes == Numeric \union {"BOOLEAN", "VARCHAR", "TIMESTAMP"}

\* The widths keep the order of int8_t < int16_t < int32_t < int64_t, and a
\* product of the two narrow types fits the type C++ computes it in (int).
ASSUME WidthAssumption ==
    /\ Half \in [IntegerTypes \union {"BOOLEAN", "TIMESTAMP"} -> Nat \ {0}]
    /\ 2 * Half["TINYINT"] <= Half["SMALLINT"]
    /\ 2 * Half["SMALLINT"] * Half["SMALLINT"] <= Half["INTEGER"]
    /\ 2 * Half["INTEGER"] <= Half["BIGINT"]
Distance(a, b) == IF a < b THEN b - a ELSE a - b

\* Every INTEGER is a double, with its halves; not every BIGINT is, but the
\* power of two beside its MAX and MIN is.  Beyond the mantissa the halves go
\* first.  Of two doubles equally near, Nearest takes either.
ASSUME DoubleAssumption ==
    /\ Mantissa \in Nat /\ DecimalTop \in Nat
    /\ 2 * Half["INTEGER"] <= Mantissa /\ Mantissa < Half["BIGINT"]
    /\ -Mantissa .. Mantissa \subseteq DoubleNumbers
    /\ {-DecimalTop, DecimalTop} \subseteq DoubleNumbers
    /\ {-2 * Half["BIGINT"], 2 * Half["BIGINT"]} \subseteq DoubleNumbers
    /\ DoubleNumbers \subseteq -DecimalTop .. DecimalTop
    /\ \A d \in DoubleNumbers : d % 2 = 1 => d \in -Mantissa .. Mantissa
    /\ Nearest \in [-DecimalTop .. DecimalTop -> DoubleNumbers]
    /\ \A n \in -DecimalTop .. DecimalTop :
           \A k \in 0 .. Distance(n, Nearest[n]) - 1 : {n - k, n + k} \cap DoubleNumbers = {}
ASSUME LettersAssumption == Letters \subseteq Int

(* -- limits.hpp: the lowest integer of a type stands for NULL ------------ *)
Lowest(t) == -Half[t]
MIN(t) == Lowest(t) + 1
MAX(t) == Half[t] - 1
TimestampNull == 2 * Half["TIMESTAMP"] - 1

\* static_cast to the width of t
Wrap(t, n) == Lowest(t) + ((n - Lowest(t)) % (2 * Half[t]))

\* C++ division and remainder, which round toward zero
Quotient(a, b) == LET q == (IF a < 0 THEN -a ELSE a) \div (IF b < 0 THEN -b ELSE b)
                  IN  IF (a < 0) # (b < 0) THEN -q ELSE q
Remainder(a, b) == a - Quotient(a, b) * b

(* -- constructors, value.cpp ---------------------------------------------- *)
Thrown == [type |-> "THROWN", null |-> FALSE, raw |-> <<>>]

\* Value(type): a NULL whose union is left as it was
Uninitialised(t) == [type |-> t, null |-> TRUE, raw |-> <<>>]

\* Value(type, intN_t): n is NULL when it is the sentinel of its own width,
\* whatever the type it is stored under; the bytes it does not cover keep
\* what the union held
IntegerValue(t, width, n) ==
    [type |-> t, null |-> n = Lowest(width),
     raw |-> IF Half[width] < Half[t] THEN <<>> ELSE <<n>>]
MakeInteger(t, n) == IntegerValue(t, t, n)

\* Value(type, double), with DecimalLowest for DBL_LOWEST
DecimalLowest == -2 * DecimalTop
MakeDecimal(n) ==
    [type |-> "DECIMAL", null |-> n = DecimalLowest, raw |-> <<n>>]
NullDecimal == MakeDecimal(DecimalLowest)

\* The DECIMAL that n/2 is rounded to, or no value beyond DecimalTop
Doubles(n) == {MakeDecimal(Nearest[m]) : m \in {n} \cap (-DecimalTop .. DecimalTop)}

\* Value(type, uint64_t)
MakeTimestamp(n) ==
    [type |-> "TIMESTAMP", null |-> n = TimestampNull, raw |-> <<n>>]

\* Value(type, const char *, len, manage) of a text and Value(type, string)
MakeVarchar(text) == [type |-> "VARCHAR", null |-> FALSE, raw |-> text]
NullVarchar == Uninitialised("VARCHAR")

\* ValueFactory::get_null_value_by_type: TIMESTAMP and INVALID have no NULL
NullOfType(t) ==
    CASE t \in IntegerTypes \union {"BOOLEAN"} -> MakeInteger(t, Lowest(t))
      [] t = "DECIMAL" -> NullDecimal
      [] t = "VARCHAR" -> NullVarchar
      [] OTHER -> Thrown

\* ValueFactory::get_zero_value_by_type; the text "0" is one letter
ZeroText == <<0>>
ZeroOfType(t) ==
    CASE t \in IntegerTypes \union {"BOOLEAN"} -> MakeInteger(t, 0)
      [] t = "DECIMAL" -> MakeDecimal(0)
      [] t = "VARCHAR" -> MakeVarchar(ZeroText)
      [] OTHER -> Thrown

\* ValueFactory::get_timestamp_value goes through the int64_t constructor
TimestampFromSigned(n) ==
    [type |-> "TIMESTAMP", null |-> n = Half["TIMESTAMP"], raw |-> <<n>>]

\* Every value the constructors make: a NULL whose union was not written, and
\* what each constructor stores
IsValue(v) ==
    \/ \E t \in DataTypes : v = Uninitialised(t)
    \/ \E t \in IntegerTypes : \E n \in Lowest(t) .. (MAX(t)) : v = MakeInteger(t, n)
    \/ \E n \in {0, 1, Lowest("BOOLEAN")} : v = MakeInteger("BOOLEAN", n)
    \/ \E n \in DoubleNumbers : v = MakeDecimal(n)
    \/ v = NullDecimal
    \/ v.raw \in Seq(Int) /\ v = MakeVarchar(v.raw)
    \/ \E n \in 0 .. TimestampNull : v \in {MakeTimestamp(n), TimestampFromSigned(n)}

(* -- reading a value ------------------------------------------------------ *)
\* get_as of the union: any bits when nothing was written
BitsOf(t) == CASE t = "TIMESTAMP" -> 0 .. TimestampNull
               [] t = "DECIMAL" -> {0, DecimalLowest}
               [] t = "BOOLEAN" -> {0, 1, Lowest(t)}
               [] OTHER -> Lowest(t) .. (MAX(t))
Read(v) == IF v.raw = <<>> THEN BitsOf(v.type) ELSE {v.raw[1]}

\* A number in halves, so that DECIMALs and integers have one scale
Halves(v) == IF v.type = "DECIMAL" THEN v.raw[1] ELSE 2 * v.raw[1]

\* static_cast<double>, and the conversion C++ makes beside a double
ToDouble(v) == IF v.type = "DECIMAL" THEN v.raw[1] ELSE Nearest[2 * v.raw[1]]

\* std::to_string is one-to-one: a number's text is a letter of its own
TextOf(v) == <<1000 + (IF v.type \in Numeric THEN Halves(v) ELSE v.raw[1])>>

(* -- the relation a comparison operator names ----------------------------- *)
Comparisons == {"==", "!=", "<", "<=", ">", ">="}
Holds(cmp, a, b) ==
    CASE cmp = "==" -> a = b
      [] cmp = "!=" -> a # b
      [] cmp = "<"  -> a < b
      [] cmp = "<=" -> a <= b
      [] cmp = ">"  -> a > b
      [] cmp = ">=" -> a >= b
CmpBool(b) == IF b THEN "CmpTrue" ELSE "CmpFalse"

(* -- Type, the base class: what a type does not override throws ----------- *)
\* Type::get_common_type
Rank == [TINYINT |-> 1, SMALLINT |-> 2, INTEGER |-> 3, BIGINT |-> 4, DECIMAL |-> 5]
CommonType(t, u) ==
    IF t = u THEN t
    ELSE IF {t, u} \subseteq Numeric THEN (IF Rank[t] >= Rank[u] THEN t ELSE u)
    ELSE "NONE"

\* Type::is_coercable_from and TimestampType's override of it
IsCoercableFrom(to, from) == to = "TIMESTAMP" /\ from \in {"VARCHAR", "TIMESTAMP"}

\* The arithmetic of a type that inherits Type's
NotImplemented == {Thrown}
=============================================================================
