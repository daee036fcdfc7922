--------------------------- MODULE EvaluatorProofs ---------------------------
(***************************************************************************)
(* Values for every width of the integer types and of the mantissa, every  *)
(* rounding to the nearest double, every set of literals and every chain   *)
(* of operations: what a chain yields is what it means, of the type it was *)
(* declared with, and the comparisons of two values agree.                 *)
(***************************************************************************)
EXTENDS Evaluator, FiniteSetTheorems, WellFoundedInduction, TLAPS

-----------------------------------------------------------------------------
(***************************************************************************)
(* Every set of numbers has a least one.                                   *)
(***************************************************************************)
LEMMA NatMinimum ==
  ASSUME NEW T \in SUBSET Nat, T # {}
  PROVE  \E m \in T : \A k \in T : m <= k
<1>1. PICK m \in T : \A k \in T : <<k, m>> \notin OpToRel(<, Nat)
  <2>1. IsWellFoundedOn(OpToRel(<, Nat), Nat)
    BY NatLessThanWellFounded
  <2> QED
    BY <2>1, WFMin
<1>2. ASSUME NEW k \in T, k < m PROVE FALSE
  <2>1. PICK p \in Nat \X Nat : p = <<k, m>>
    OBVIOUS
  <2>2. p[1] = k /\ p[2] = m
    BY <2>1
  <2>3. p \in OpToRel(<, Nat)
    BY <1>2, <2>2 DEF OpToRel
  <2> QED
    BY <1>1, <2>1, <2>3
<1> QED
  BY <1>2

-----------------------------------------------------------------------------
(***************************************************************************)
(* What the widths say of the limits of the types.                         *)
(***************************************************************************)
Sized == IntegerTypes \union {"BOOLEAN", "TIMESTAMP"}

LEMMA LimitsAre ==
  ASSUME NEW t \in Sized
  PROVE  /\ Half[t] \in Nat \ {0}
         /\ Lowest(t) = -Half[t] /\ MIN(t) = 1 - Half[t] /\ MAX(t) = Half[t] - 1
<1>1. Half[t] \in Nat \ {0}
  BY WidthAssumption DEF Sized
<1> QED
  BY <1>1 DEF Lowest, MIN, MAX

LEMMA WidthsGrow ==
  /\ 2 * Half["TINYINT"] <= Half["SMALLINT"]
  /\ 2 * Half["SMALLINT"] <= Half["INTEGER"]
  /\ 2 * Half["INTEGER"] <= Half["BIGINT"]
  /\ \A t \in Sized : Half[t] \in Nat \ {0}
<1>1. \A t \in Sized : Half[t] \in Nat \ {0}
  BY LimitsAre
<1>2. PICK h \in Nat \ {0}, g \in Nat \ {0} : h = Half["SMALLINT"] /\ g = Half["INTEGER"]
  BY <1>1 DEF Sized, IntegerTypes
<1>3. 2 * h * h <= g
  BY <1>2, WidthAssumption
<1>4. 2 * h <= 2 * h * h
  BY <1>2
<1>5. 2 * h <= g
  BY <1>2, <1>3, <1>4
<1> QED
  BY <1>1, <1>2, <1>5, WidthAssumption

LEMMA TopFacts ==
  /\ DecimalLowest \in Int /\ DecimalTop \in Nat /\ DecimalLowest < -DecimalTop
  /\ 2 * Half["BIGINT"] <= DecimalTop
  /\ 2 * Half["INTEGER"] <= Half["BIGINT"]
  /\ 2 * Half["SMALLINT"] <= Half["INTEGER"]
  /\ 2 * Half["TINYINT"] <= Half["SMALLINT"]
<1>1. PICK h \in Nat \ {0}, top \in Nat : h = Half["BIGINT"] /\ top = DecimalTop
  BY WidthsGrow, DoubleAssumption DEF Sized, IntegerTypes
<1>2. 2 * h \in -top .. top
  BY <1>1, DoubleAssumption
<1>3. DecimalLowest = -2 * top
  BY <1>1 DEF DecimalLowest
<1> QED
  BY <1>1, <1>2, <1>3, WidthsGrow

(***************************************************************************)
(* Doubles, and the one nearest to a number.                               *)
(***************************************************************************)
LEMMA DoubleFacts ==
  ASSUME NEW n \in DoubleNumbers
  PROVE  /\ n \in Int /\ n \in -DecimalTop .. DecimalTop /\ n # DecimalLowest
         /\ n % 2 = 1 => n \in -Mantissa .. Mantissa
<1>1. n \in -DecimalTop .. DecimalTop /\ (n % 2 = 1 => n \in -Mantissa .. Mantissa)
  BY DoubleAssumption
<1> QED
  BY <1>1, TopFacts

LEMMA SmallDoubles ==
  /\ 0 \in DoubleNumbers /\ 1 \in DoubleNumbers /\ -1 \in DoubleNumbers
  /\ Mantissa \in Nat /\ 2 * Half["INTEGER"] <= Mantissa /\ Mantissa < Half["BIGINT"]
<1>1. Half["INTEGER"] \in Nat \ {0}
  BY WidthsGrow DEF Sized, IntegerTypes
<1> QED
  BY <1>1, DoubleAssumption

LEMMA NearestIsDouble ==
  ASSUME NEW n \in -DecimalTop .. DecimalTop
  PROVE  Nearest[n] \in DoubleNumbers
BY DoubleAssumption

(* No double is nearer to a number than its rounding. *)
LEMMA NoneIsNearer ==
  ASSUME NEW n \in -DecimalTop .. DecimalTop, NEW d \in DoubleNumbers
  PROVE  Distance(n, Nearest[n]) <= Distance(n, d)
<1>1. PICK e \in Int : e = Nearest[n]
  BY NearestIsDouble, DoubleFacts
<1>2. n \in Int /\ d \in Int
  BY TopFacts, DoubleFacts
<1>3. PICK k \in Nat : k = Distance(n, d) /\ (d = n - k \/ d = n + k)
  BY <1>2 DEF Distance
<1>4. PICK j \in Nat : j = Distance(n, e)
  BY <1>1, <1>2 DEF Distance
<1>5. ASSUME k < j PROVE FALSE
  <2>1. k \in 0 .. Distance(n, Nearest[n]) - 1
    BY <1>1, <1>4, <1>5
  <2>2. {n - k, n + k} \cap DoubleNumbers = {}
    BY <2>1, DoubleAssumption
  <2> QED
    BY <1>3, <2>2
<1> QED
  BY <1>1, <1>3, <1>4, <1>5

LEMMA DoubleIsNearest ==
  ASSUME NEW n \in DoubleNumbers
  PROVE  Nearest[n] = n
<1>1. PICK e \in Int : e = Nearest[n]
  BY DoubleFacts, NearestIsDouble
<1>2. n \in Int /\ Distance(n, e) <= Distance(n, n)
  BY <1>1, DoubleFacts, NoneIsNearer
<1> QED
  BY <1>1, <1>2 DEF Distance

(* Rounding keeps the order of two numbers, if it keeps them apart. *)
LEMMA RoundingKeepsOrder ==
  ASSUME NEW m \in -DecimalTop .. DecimalTop, NEW n \in -DecimalTop .. DecimalTop, m <= n
  PROVE  Nearest[m] <= Nearest[n]
<1>1. PICK d \in DoubleNumbers, e \in DoubleNumbers : d = Nearest[m] /\ e = Nearest[n]
  BY NearestIsDouble
<1>2. m \in Int /\ n \in Int /\ d \in Int /\ e \in Int
  BY TopFacts, DoubleFacts
<1>3. Distance(m, d) <= Distance(m, e) /\ Distance(n, e) <= Distance(n, d)
  BY <1>1, NoneIsNearer
<1>4. m = n => d = e
  BY <1>1
<1> QED
  BY <1>1, <1>2, <1>3, <1>4 DEF Distance

(* A number that is not zero does not round to zero: 1 and -1 are doubles. *)
LEMMA RoundingKeepsZero ==
  ASSUME NEW n \in -DecimalTop .. DecimalTop
  PROVE  Nearest[n] \in Int /\ (Nearest[n] = 0 <=> n = 0)
<1>1. PICK e \in Int : e = Nearest[n]
  BY NearestIsDouble, DoubleFacts
<1>2. n \in Int
  BY TopFacts
<1>3. CASE n = 0
  BY <1>1, <1>3, SmallDoubles, DoubleIsNearest
<1>4. CASE n > 0
  <2>1. Distance(n, e) <= Distance(n, 1)
    BY <1>1, NoneIsNearer, SmallDoubles
  <2> QED
    BY <1>1, <1>2, <1>4, <2>1 DEF Distance
<1>5. CASE n < 0
  <2>1. Distance(n, e) <= Distance(n, -1)
    BY <1>1, NoneIsNearer, SmallDoubles
  <2> QED
    BY <1>1, <1>2, <1>5, <2>1 DEF Distance
<1> QED
  BY <1>2, <1>3, <1>4, <1>5

(***************************************************************************)
(* Division that rounds toward zero.                                       *)
(***************************************************************************)
LEMMA QuotientType ==
  ASSUME NEW a \in Int, NEW b \in Int, b # 0
  PROVE  Quotient(a, b) \in Int
BY DEF Quotient

LEMMA QuotientOfProduct ==
  ASSUME NEW a \in Int, NEW b \in Int, b # 0
  PROVE  Quotient(a * b, b) = a
BY DEF Quotient

LEMMA QuotientOfHalves ==
  ASSUME NEW a \in Int, NEW b \in Int, b # 0
  PROVE  Quotient(2 * a, 2 * b) = Quotient(a, b)
BY DEF Quotient

LEMMA QuotientBounds ==
  ASSUME NEW a \in Int, NEW b \in Int, b # 0, NEW m \in Nat, a \in -m .. m
  PROVE  Quotient(a, b) \in -m .. m
BY DEF Quotient

LEMMA RemainderBounds ==
  ASSUME NEW a \in Int, NEW b \in Int, b # 0, NEW m \in Nat, b \in -m .. m
  PROVE  Remainder(a, b) \in 1 - m .. m - 1
BY DEF Quotient, Remainder

LEMMA RemainderOfHalves ==
  ASSUME NEW a \in Int, NEW b \in Int, b # 0
  PROVE  Remainder(2 * a, 2 * b) = 2 * Remainder(a, b)
BY QuotientType, QuotientOfHalves DEF Remainder

LEMMA ProductOfHalves ==
  ASSUME NEW a \in Int, NEW b \in Int
  PROVE  Quotient((2 * a) * (2 * b), 2) = 2 * (a * b)
<1>1. (2 * a) * (2 * b) = (2 * (a * b)) * 2
  OBVIOUS
<1> QED
  BY <1>1, QuotientOfProduct

LEMMA WrapIs ==
  ASSUME NEW t \in Sized, NEW n \in Int
  PROVE  /\ Wrap(t, n) \in Lowest(t) .. (MAX(t))
         /\ n \in Lowest(t) .. (MAX(t)) <=> n = Wrap(t, n)
<1>1. PICK h \in Nat \ {0} : h = Half[t] /\ Lowest(t) = -h /\ MAX(t) = h - 1
  BY LimitsAre
<1>2. Wrap(t, n) = (-h) + ((n + h) % (2 * h))
  BY <1>1 DEF Wrap
<1>3. (n + h) % (2 * h) \in 0 .. (2 * h - 1)
  BY <1>1
<1>4. ASSUME n \in (-h) .. (h - 1) PROVE (n + h) % (2 * h) = n + h
  BY <1>1, <1>4
<1> QED
  BY <1>1, <1>2, <1>3, <1>4

(***************************************************************************)
(* The shapes of the values.                                               *)
(***************************************************************************)
LEMMA MadeInteger ==
  ASSUME NEW t \in Sized, NEW n
  PROVE  MakeInteger(t, n) = [type |-> t, null |-> n = Lowest(t), raw |-> <<n>>]
BY WidthsGrow DEF MakeInteger, IntegerValue

LEMMA NullDecimalIs ==
  NullDecimal = [type |-> "DECIMAL", null |-> TRUE, raw |-> <<DecimalLowest>>]
<1>1. (DecimalLowest = DecimalLowest) = TRUE
  OBVIOUS
<1> QED
  BY <1>1, Zenon DEF NullDecimal, MakeDecimal

LEMMA ShapeOfInteger ==
  ASSUME NEW v, IsValue(v), v.type \in IntegerTypes
  PROVE  \/ v = Uninitialised(v.type)
         \/ \E n \in Lowest(v.type) .. (MAX(v.type)) : v = MakeInteger(v.type, n)
<1>1. CASE \E t \in DataTypes : v = Uninitialised(t)
  BY <1>1 DEF Uninitialised
<1>2. CASE \E t \in IntegerTypes : \E n \in Lowest(t) .. (MAX(t)) : v = MakeInteger(t, n)
  <2>1. PICK t \in IntegerTypes : \E n \in Lowest(t) .. (MAX(t)) : v = MakeInteger(t, n)
    BY <1>2
  <2>2. PICK n \in Lowest(t) .. (MAX(t)) : v = MakeInteger(t, n)
    BY <2>1
  <2>3. v.type = t
    BY <2>2 DEF MakeInteger, IntegerValue
  <2> QED
    BY <2>2, <2>3 DEF IntegerTypes
<1>3. CASE \E n \in {0, 1, Lowest("BOOLEAN")} : v = MakeInteger("BOOLEAN", n)
  BY <1>3 DEF MakeInteger, IntegerValue, IntegerTypes
<1>4. CASE \E n \in DoubleNumbers : v = MakeDecimal(n)
  BY <1>4 DEF MakeDecimal, IntegerTypes
<1>5. CASE v = NullDecimal
  BY <1>5 DEF NullDecimal, MakeDecimal, IntegerTypes
<1>6. CASE v.raw \in Seq(Int) /\ v = MakeVarchar(v.raw)
  BY <1>6 DEF MakeVarchar, IntegerTypes
<1>7. CASE \E n \in 0 .. TimestampNull : v \in {MakeTimestamp(n), TimestampFromSigned(n)}
  BY <1>7 DEF MakeTimestamp, TimestampFromSigned, IntegerTypes
<1> QED
  BY <1>1, <1>2, <1>3, <1>4, <1>5, <1>6, <1>7 DEF IsValue

LEMMA ShapeOfDecimal ==
  ASSUME NEW v, IsValue(v), v.type = "DECIMAL"
  PROVE  \/ v = Uninitialised("DECIMAL")
         \/ v = NullDecimal
         \/ \E n \in Int : n \in DoubleNumbers /\ v = MakeDecimal(n)
<1>1. CASE \E t \in DataTypes : v = Uninitialised(t)
  BY <1>1 DEF Uninitialised
<1>2. CASE \E t \in IntegerTypes : \E n \in Lowest(t) .. (MAX(t)) : v = MakeInteger(t, n)
  <2>1. PICK t \in IntegerTypes : \E n \in Lowest(t) .. (MAX(t)) : v = MakeInteger(t, n)
    BY <1>2
  <2>2. PICK n \in Lowest(t) .. (MAX(t)) : v = MakeInteger(t, n)
    BY <2>1
  <2>3. v.type = t
    BY <2>2 DEF MakeInteger, IntegerValue
  <2> QED
    BY <2>2, <2>3 DEF IntegerTypes
<1>3. CASE \E n \in {0, 1, Lowest("BOOLEAN")} : v = MakeInteger("BOOLEAN", n)
  BY <1>3 DEF MakeInteger, IntegerValue, IntegerTypes
<1>4. CASE \E n \in DoubleNumbers : v = MakeDecimal(n)
  BY <1>4, DoubleFacts
<1>5. CASE v = NullDecimal
  BY <1>5 DEF NullDecimal, MakeDecimal, IntegerTypes
<1>6. CASE v.raw \in Seq(Int) /\ v = MakeVarchar(v.raw)
  BY <1>6 DEF MakeVarchar, IntegerTypes
<1>7. CASE \E n \in 0 .. TimestampNull : v \in {MakeTimestamp(n), TimestampFromSigned(n)}
  BY <1>7 DEF MakeTimestamp, TimestampFromSigned, IntegerTypes
<1> QED
  BY <1>1, <1>2, <1>3, <1>4, <1>5, <1>6, <1>7 DEF IsValue

LEMMA ShapeOfBoolean ==
  ASSUME NEW v, IsValue(v), v.type = "BOOLEAN"
  PROVE  \/ v = Uninitialised("BOOLEAN")
         \/ \E n \in {0, 1, Lowest("BOOLEAN")} : v = MakeInteger("BOOLEAN", n)
<1>1. CASE \E t \in DataTypes : v = Uninitialised(t)
  BY <1>1 DEF Uninitialised
<1>2. CASE \E t \in IntegerTypes : \E n \in Lowest(t) .. (MAX(t)) : v = MakeInteger(t, n)
  <2>1. PICK t \in IntegerTypes : \E n \in Lowest(t) .. (MAX(t)) : v = MakeInteger(t, n)
    BY <1>2
  <2>2. PICK n \in Lowest(t) .. (MAX(t)) : v = MakeInteger(t, n)
    BY <2>1
  <2>3. v.type = t
    BY <2>2 DEF MakeInteger, IntegerValue
  <2> QED
    BY <2>2, <2>3 DEF IntegerTypes
<1>3. CASE \E n \in {0, 1, Lowest("BOOLEAN")} : v = MakeInteger("BOOLEAN", n)
  BY <1>3
<1>4. CASE \E n \in DoubleNumbers : v = MakeDecimal(n)
  BY <1>4 DEF MakeDecimal, IntegerTypes
<1>5. CASE v = NullDecimal
  BY <1>5 DEF NullDecimal, MakeDecimal, IntegerTypes
<1>6. CASE v.raw \in Seq(Int) /\ v = MakeVarchar(v.raw)
  BY <1>6 DEF MakeVarchar, IntegerTypes
<1>7. CASE \E n \in 0 .. TimestampNull : v \in {MakeTimestamp(n), TimestampFromSigned(n)}
  BY <1>7 DEF MakeTimestamp, TimestampFromSigned, IntegerTypes
<1> QED
  BY <1>1, <1>2, <1>3, <1>4, <1>5, <1>6, <1>7 DEF IsValue

LEMMA ShapeOfVarchar ==
  ASSUME NEW v, IsValue(v), v.type = "VARCHAR"
  PROVE  \/ v = Uninitialised("VARCHAR")
         \/ v.raw \in Seq(Int) /\ v = MakeVarchar(v.raw)
<1>1. CASE \E t \in DataTypes : v = Uninitialised(t)
  BY <1>1 DEF Uninitialised
<1>2. CASE \E t \in IntegerTypes : \E n \in Lowest(t) .. (MAX(t)) : v = MakeInteger(t, n)
  <2>1. PICK t \in IntegerTypes : \E n \in Lowest(t) .. (MAX(t)) : v = MakeInteger(t, n)
    BY <1>2
  <2>2. PICK n \in Lowest(t) .. (MAX(t)) : v = MakeInteger(t, n)
    BY <2>1
  <2>3. v.type = t
    BY <2>2 DEF MakeInteger, IntegerValue
  <2> QED
    BY <2>2, <2>3 DEF IntegerTypes
<1>3. CASE \E n \in {0, 1, Lowest("BOOLEAN")} : v = MakeInteger("BOOLEAN", n)
  BY <1>3 DEF MakeInteger, IntegerValue, IntegerTypes
<1>4. CASE \E n \in DoubleNumbers : v = MakeDecimal(n)
  BY <1>4 DEF MakeDecimal, IntegerTypes
<1>5. CASE v = NullDecimal
  BY <1>5 DEF NullDecimal, MakeDecimal, IntegerTypes
<1>6. CASE v.raw \in Seq(Int) /\ v = MakeVarchar(v.raw)
  BY <1>6
<1>7. CASE \E n \in 0 .. TimestampNull : v \in {MakeTimestamp(n), TimestampFromSigned(n)}
  BY <1>7 DEF MakeTimestamp, TimestampFromSigned, IntegerTypes
<1> QED
  BY <1>1, <1>2, <1>3, <1>4, <1>5, <1>6, <1>7 DEF IsValue

LEMMA ShapeOfTimestamp ==
  ASSUME NEW v, IsValue(v), v.type = "TIMESTAMP"
  PROVE  \/ v = Uninitialised("TIMESTAMP")
         \/ \E n \in 0 .. TimestampNull : v \in {MakeTimestamp(n), TimestampFromSigned(n)}
<1>1. CASE \E t \in DataTypes : v = Uninitialised(t)
  BY <1>1 DEF Uninitialised
<1>2. CASE \E t \in IntegerTypes : \E n \in Lowest(t) .. (MAX(t)) : v = MakeInteger(t, n)
  <2>1. PICK t \in IntegerTypes : \E n \in Lowest(t) .. (MAX(t)) : v = MakeInteger(t, n)
    BY <1>2
  <2>2. PICK n \in Lowest(t) .. (MAX(t)) : v = MakeInteger(t, n)
    BY <2>1
  <2>3. v.type = t
    BY <2>2 DEF MakeInteger, IntegerValue
  <2> QED
    BY <2>2, <2>3 DEF IntegerTypes
<1>3. CASE \E n \in {0, 1, Lowest("BOOLEAN")} : v = MakeInteger("BOOLEAN", n)
  BY <1>3 DEF MakeInteger, IntegerValue, IntegerTypes
<1>4. CASE \E n \in DoubleNumbers : v = MakeDecimal(n)
  BY <1>4 DEF MakeDecimal, IntegerTypes
<1>5. CASE v = NullDecimal
  BY <1>5 DEF NullDecimal, MakeDecimal, IntegerTypes
<1>6. CASE v.raw \in Seq(Int) /\ v = MakeVarchar(v.raw)
  BY <1>6 DEF MakeVarchar, IntegerTypes
<1>7. CASE \E n \in 0 .. TimestampNull : v \in {MakeTimestamp(n), TimestampFromSigned(n)}
  BY <1>7
<1> QED
  BY <1>1, <1>2, <1>3, <1>4, <1>5, <1>6, <1>7 DEF IsValue

(* What every value has, whatever its type. *)
LEMMA ValueFacts ==
  ASSUME NEW v, IsValue(v)
  PROVE  /\ v.type \in DataTypes /\ v.null \in BOOLEAN /\ v.raw \in Seq(Int) /\ v # Thrown
         /\ v = [type |-> v.type, null |-> v.null, raw |-> v.raw]
<1>1. CASE \E t \in DataTypes : v = Uninitialised(t)
  BY <1>1 DEF Uninitialised, Thrown, DataTypes, Numeric, IntegerTypes
<1>2. CASE \E t \in IntegerTypes : \E n \in Lowest(t) .. (MAX(t)) : v = MakeInteger(t, n)
  <2>1. PICK t \in IntegerTypes : \E n \in Lowest(t) .. (MAX(t)) : v = MakeInteger(t, n)
    BY <1>2
  <2>2. PICK n \in Lowest(t) .. (MAX(t)) : v = MakeInteger(t, n)
    BY <2>1
  <2>3. v = [type |-> t, null |-> n = Lowest(t), raw |-> <<n>>]
    BY <2>2, MadeInteger DEF Sized
  <2>4. n \in Int
    BY LimitsAre DEF Sized
  <2> QED
    BY <2>3, <2>4 DEF DataTypes, Numeric, IntegerTypes, Thrown
<1>3. CASE \E n \in {0, 1, Lowest("BOOLEAN")} : v = MakeInteger("BOOLEAN", n)
  <2>1. PICK n \in {0, 1, Lowest("BOOLEAN")} : v = MakeInteger("BOOLEAN", n)
    BY <1>3
  <2>2. v = [type |-> "BOOLEAN", null |-> n = Lowest("BOOLEAN"), raw |-> <<n>>]
    BY <2>1, MadeInteger DEF Sized
  <2>3. n \in Int
    BY LimitsAre DEF Sized
  <2> QED
    BY <2>2, <2>3 DEF DataTypes, Thrown
<1>4. CASE \E n \in DoubleNumbers : v = MakeDecimal(n)
  <2>1. PICK n \in DoubleNumbers : v = MakeDecimal(n)
    BY <1>4
  <2>2. v = [type |-> "DECIMAL", null |-> n = DecimalLowest, raw |-> <<n>>]
    BY <2>1 DEF MakeDecimal
  <2>3. n \in Int
    BY DoubleFacts
  <2> QED
    BY <2>2, <2>3 DEF DataTypes, Numeric, Thrown
<1>5. CASE v = NullDecimal
  BY <1>5, TopFacts, NullDecimalIs DEF DataTypes, Numeric, Thrown
<1>6. CASE v.raw \in Seq(Int) /\ v = MakeVarchar(v.raw)
  <2>1. PICK text : text = v.raw
    OBVIOUS
  <2>2. v = [type |-> "VARCHAR", null |-> FALSE, raw |-> text]
    BY <1>6, <2>1 DEF MakeVarchar
  <2>3. text \in Seq(Int)
    BY <1>6, <2>1
  <2> QED
    BY <2>2, <2>3 DEF DataTypes, Thrown
<1>7. CASE \E n \in 0 .. TimestampNull : v \in {MakeTimestamp(n), TimestampFromSigned(n)}
  <2>1. PICK n \in 0 .. TimestampNull : v \in {MakeTimestamp(n), TimestampFromSigned(n)}
    BY <1>7
  <2>2. PICK m : v = [type |-> "TIMESTAMP", null |-> n = m, raw |-> <<n>>]
    BY <2>1 DEF MakeTimestamp, TimestampFromSigned
  <2>3. n \in Int
    BY LimitsAre DEF Sized, TimestampNull
  <2> QED
    BY <2>2, <2>3 DEF DataTypes, Thrown
<1> QED
  BY <1>1, <1>2, <1>3, <1>4, <1>5, <1>6, <1>7 DEF IsValue

(* The same for what is not NULL, as the number under it. *)
LEMMA IntegerFacts ==
  ASSUME NEW v, IsValue(v), v.type \in IntegerTypes, ~v.null
  PROVE  /\ v.raw[1] \in MIN(v.type) .. (MAX(v.type))
         /\ v = [type |-> v.type, null |-> FALSE, raw |-> <<v.raw[1]>>]
         /\ Halves(v) = 2 * v.raw[1]
<1>1. PICK t \in IntegerTypes : t = v.type
  OBVIOUS
<1>2. PICK n \in Lowest(t) .. (MAX(t)) : v = MakeInteger(t, n)
  BY <1>1, ShapeOfInteger DEF Uninitialised
<1>3. v = [type |-> t, null |-> n = Lowest(t), raw |-> <<n>>]
  BY <1>2, MadeInteger DEF Sized
<1>4. n # Lowest(t)
  BY <1>3
<1>5. n \in MIN(t) .. (MAX(t))
  BY <1>2, <1>4, LimitsAre DEF Sized, MIN
<1>6. v.raw[1] = n /\ v.type = t /\ t # "DECIMAL"
  BY <1>3 DEF IntegerTypes
<1> QED
  BY <1>3, <1>4, <1>5, <1>6 DEF Halves

LEMMA DecimalFacts ==
  ASSUME NEW v, IsValue(v), v.type = "DECIMAL", ~v.null
  PROVE  /\ v.raw[1] \in DoubleNumbers /\ v.raw[1] \in Int /\ v.raw[1] # DecimalLowest
         /\ v = [type |-> "DECIMAL", null |-> FALSE, raw |-> <<v.raw[1]>>]
         /\ Halves(v) = v.raw[1]
<1>1. PICK n \in Int : n \in DoubleNumbers /\ v = MakeDecimal(n)
  <2>1. v # Uninitialised("DECIMAL")
    BY DEF Uninitialised
  <2>2. v # NullDecimal
    BY NullDecimalIs
  <2> QED
    BY <2>1, <2>2, ShapeOfDecimal
<1>2. v = [type |-> "DECIMAL", null |-> n = DecimalLowest, raw |-> <<n>>]
  BY <1>1 DEF MakeDecimal
<1>3. v.raw[1] = n /\ n # DecimalLowest
  BY <1>2
<1> QED
  BY <1>1, <1>2, <1>3 DEF Halves

LEMMA NumberFacts ==
  ASSUME NEW v, IsValue(v), v.type \in Numeric, ~v.null
  PROVE  Halves(v) \in Int /\ v.raw[1] \in Int /\ (v.raw[1] = 0 <=> Halves(v) = 0)
<1>1. CASE v.type \in IntegerTypes
  <2>1. MIN(v.type) \in Int /\ MAX(v.type) \in Int
    BY <1>1, LimitsAre DEF Sized
  <2> QED
    BY <1>1, <2>1, IntegerFacts
<1>2. CASE v.type = "DECIMAL"
  BY <1>2, DecimalFacts
<1> QED
  BY <1>1, <1>2 DEF Numeric

LEMMA IntegersAreValues ==
  ASSUME NEW t \in IntegerTypes, NEW n \in Lowest(t) .. (MAX(t))
  PROVE  IsValue(MakeInteger(t, n))
BY DEF IsValue

LEMMA DoublesAreValues ==
  ASSUME NEW n \in DoubleNumbers
  PROVE  /\ IsValue(MakeDecimal(n)) /\ n \in Int
         /\ MakeDecimal(n) = [type |-> "DECIMAL", null |-> FALSE, raw |-> <<n>>]
<1>1. n \in Int /\ n # DecimalLowest
  BY DoubleFacts
<1>2. (n = DecimalLowest) = FALSE
  BY <1>1
<1> QED
  BY <1>1, <1>2, Zenon DEF IsValue, MakeDecimal

(* A number beside a DECIMAL: what the code converts it to is what the     *)
(* meaning rounds it to, and zero stays zero.                              *)
LEMMA ToDoubleIs ==
  ASSUME NEW v, IsValue(v), v.type \in Numeric, ~v.null
  PROVE  /\ Halves(v) \in Int /\ Halves(v) \in -DecimalTop .. DecimalTop
         /\ ToDouble(v) = Nearest[Halves(v)] /\ ToDouble(v) = AsDouble(v.type, Halves(v))
         /\ ToDouble(v) \in Int /\ (v.raw[1] = 0 <=> ToDouble(v) = 0)
<1>1. Halves(v) \in Int /\ (v.raw[1] = 0 <=> Halves(v) = 0)
  BY NumberFacts
<1>2. CASE v.type = "DECIMAL"
  <2>1. Halves(v) \in DoubleNumbers /\ ToDouble(v) = Halves(v) /\ AsDouble(v.type, Halves(v)) = Halves(v)
    BY <1>2, DecimalFacts DEF ToDouble, AsDouble
  <2>2. Nearest[Halves(v)] = Halves(v) /\ Halves(v) \in -DecimalTop .. DecimalTop
    BY <2>1, DoubleIsNearest, DoubleFacts
  <2> QED
    BY <1>1, <2>1, <2>2
<1>3. CASE v.type \in IntegerTypes
  <2>1. PICK t \in IntegerTypes : t = v.type
    BY <1>3
  <2>2. PICK h \in Nat \ {0} : h = Half[t] /\ MIN(t) = 1 - h /\ MAX(t) = h - 1
    BY LimitsAre DEF Sized
  <2>3. PICK n \in 1 - h .. h - 1 : n = v.raw[1] /\ Halves(v) = 2 * n
    BY <1>3, <2>1, <2>2, IntegerFacts
  <2>4. h <= Half["BIGINT"] /\ Half["BIGINT"] \in Nat
    BY <2>1, <2>2, WidthsGrow DEF IntegerTypes, Sized
  <2>5. 2 * n \in -DecimalTop .. DecimalTop
    BY <2>2, <2>3, <2>4, TopFacts
  <2>6. ToDouble(v) = Nearest[2 * n] /\ AsDouble(v.type, Halves(v)) = Nearest[2 * n]
    BY <1>3, <2>3 DEF ToDouble, AsDouble, IntegerTypes
  <2>7. Nearest[2 * n] \in Int /\ (Nearest[2 * n] = 0 <=> 2 * n = 0)
    BY <2>5, RoundingKeepsZero
  <2> QED
    BY <1>1, <2>3, <2>5, <2>6, <2>7
<1> QED
  BY <1>2, <1>3 DEF Numeric

(* A NULL has no number under it that any operation looks at. *)
IsNull(v, t) == IsValue(v) /\ v.null = TRUE /\ v.type = t

LEMMA UnwrittenIsNull ==
  ASSUME NEW t \in DataTypes
  PROVE  IsNull(Uninitialised(t), t)
BY DEF IsNull, IsValue, Uninitialised

LEMMA NullsOfTypes ==
  ASSUME NEW t \in Numeric \union {"BOOLEAN", "VARCHAR"}
  PROVE  IsNull(NullOfType(t), t)
<1>1. CASE t \in IntegerTypes \union {"BOOLEAN"}
  <2>1. NullOfType(t) = MakeInteger(t, Lowest(t))
    BY <1>1 DEF NullOfType, IntegerTypes
  <2>2. MakeInteger(t, Lowest(t)) = [type |-> t, null |-> TRUE, raw |-> <<Lowest(t)>>]
    <3>1. PICK n : n = Lowest(t)
      OBVIOUS
    <3>2. MakeInteger(t, n) = [type |-> t, null |-> n = Lowest(t), raw |-> <<n>>]
      BY <1>1, MadeInteger DEF Sized
    <3>3. (n = Lowest(t)) = TRUE
      BY <3>1
    <3> QED
      BY <3>1, <3>2, <3>3, Zenon
  <2>3. IsValue(MakeInteger(t, Lowest(t)))
    <3>1. Lowest(t) \in Lowest(t) .. (MAX(t))
      BY <1>1, LimitsAre DEF Sized
    <3> QED
      BY <1>1, <3>1 DEF IsValue
  <2> QED
    BY <2>1, <2>2, <2>3 DEF IsNull
<1>2. CASE t = "DECIMAL"
  BY <1>2, NullDecimalIs DEF NullOfType, IsNull, IsValue, IntegerTypes
<1>3. CASE t = "VARCHAR"
  BY <1>3, UnwrittenIsNull DEF NullOfType, NullVarchar, DataTypes, IntegerTypes
<1> QED
  BY <1>1, <1>2, <1>3 DEF Numeric

-----------------------------------------------------------------------------
(* The invariant: acc is a value some constructor makes, of the kind its   *)
(* type was declared with, its meaning is of that kind too, and the value  *)
(* is what it means.                                                       *)
IsMeaning(m) ==
  \/ m \in {Free, NullMeaning}
  \/ m.n \in Int /\ m = Number(m.n)
  \/ m.n \in 0 .. 2 /\ m = Truth(m.n)

OfKind(v, d) ==
  /\ v.type \in Numeric <=> d \in Numeric
  /\ d \notin Numeric => v.type = d
  /\ v.null \/ v.type = d

MeantFor(m, d) ==
  /\ d \in Numeric => m.kind \in {"number", "null"}
  /\ d = "BOOLEAN" => m.kind = "truth"
  /\ d \in {"VARCHAR", "TIMESTAMP"} => m.kind \in {"null", "free"}

Right(v, d, m) ==
  CASE m.kind = "number" ->
         IF v = Thrown THEN ~Representable(d, m.n)
         ELSE IF v.null THEN v.type \in IntegerTypes /\ m.n = 2 * Lowest(v.type)
         ELSE Halves(v) = m.n
    [] m.kind = "null" -> v = Thrown \/ v.null
    [] m.kind = "truth" -> v # Thrown /\ TruthOf(v) = m.n
    [] OTHER -> TRUE

Sound(v, d, m) ==
  /\ d \in DataTypes /\ IsMeaning(m)
  /\ v # Thrown => IsValue(v) /\ OfKind(v, d) /\ MeantFor(m, d)
  /\ Right(v, d, m)

IInv == Sound(acc, declared, meaning)


(***************************************************************************)
(* Outcomes that are sound.                                                *)
(***************************************************************************)
LEMMA Denoted ==
  ASSUME NEW v, IsValue(v)
  PROVE  /\ v.type \in Numeric /\ v.null => Denotes(v) = NullMeaning
         /\ v.type \in Numeric /\ ~v.null => Denotes(v) = Number(Halves(v)) /\ Halves(v) \in Int
         /\ v.type = "BOOLEAN" => Denotes(v) = Truth(TruthOf(v)) /\ TruthOf(v) \in 0 .. 2
         /\ v.type \in {"VARCHAR", "TIMESTAMP"} => Denotes(v) = IF v.null THEN NullMeaning ELSE Free
         /\ v.type \in DataTypes
<1>1. PICK t \in DataTypes, b \in BOOLEAN : t = v.type /\ b = v.null
  BY ValueFacts
<1>2. CASE t \in Numeric
  BY <1>1, <1>2, NumberFacts DEF Denotes, Numeric, IntegerTypes
<1>3. CASE t = "BOOLEAN"
  BY <1>1, <1>3 DEF Denotes, TruthOf, Numeric, IntegerTypes
<1>4. CASE t \in {"VARCHAR", "TIMESTAMP"}
  BY <1>1, <1>4 DEF Denotes, Numeric, IntegerTypes
<1> QED
  BY <1>1, <1>2, <1>3, <1>4 DEF DataTypes

LEMMA Restarted ==
  ASSUME NEW v, NEW d \in DataTypes, v = Thrown \/ (IsValue(v) /\ OfKind(v, d))
  PROVE  Sound(v, d, Restart(v))
<1>1. CASE v = Thrown
  BY <1>1 DEF Sound, Restart, IsMeaning, Right, Free
<1>2. CASE v # Thrown
  <2>1. PICK m : m = Denotes(v)
    OBVIOUS
  <2>2. Restart(v) = m
    BY <1>2, <2>1 DEF Restart
  <2>3. CASE v.type \in Numeric /\ v.null
    <3>1. m = NullMeaning /\ d \in Numeric
      BY <1>2, <2>1, <2>3, Denoted DEF OfKind
    <3> QED
      BY <1>2, <2>2, <2>3, <3>1 DEF Sound, IsMeaning, MeantFor, Right, NullMeaning,
          Numeric, IntegerTypes
  <2>4. CASE v.type \in Numeric /\ ~v.null
    <3>1. m = Number(Halves(v)) /\ Halves(v) \in Int /\ d \in Numeric
      BY <1>2, <2>1, <2>4, Denoted DEF OfKind
    <3> QED
      BY <1>2, <2>2, <2>4, <3>1 DEF Sound, IsMeaning, MeantFor, Right, Number, Numeric, IntegerTypes
  <2>5. CASE v.type = "BOOLEAN"
    <3>1. m = Truth(TruthOf(v)) /\ TruthOf(v) \in 0 .. 2 /\ d = "BOOLEAN"
      BY <1>2, <2>1, <2>5, Denoted DEF OfKind, Numeric, IntegerTypes
    <3> QED
      BY <1>2, <2>2, <2>5, <3>1 DEF Sound, IsMeaning, MeantFor, Right, Truth, Numeric, IntegerTypes
  <2>6. CASE v.type \in {"VARCHAR", "TIMESTAMP"}
    <3>1. m = (IF v.null THEN NullMeaning ELSE Free) /\ d \in {"VARCHAR", "TIMESTAMP"}
      BY <1>2, <2>1, <2>6, Denoted DEF OfKind, Numeric, IntegerTypes
    <3> QED
      BY <1>2, <2>2, <2>6, <3>1
      DEF Sound, IsMeaning, MeantFor, Right, NullMeaning, Free, Numeric, IntegerTypes
  <2>7. v.type \in DataTypes /\ v.null \in BOOLEAN
    BY <1>2, ValueFacts
  <2> QED
    BY <2>3, <2>4, <2>5, <2>6, <2>7 DEF DataTypes
<1> QED
  BY <1>1, <1>2

LEMMA ThrownIsSound ==
  ASSUME NEW d \in DataTypes
  PROVE  Sound(Thrown, d, Free)
BY DEF Sound, IsMeaning, Right, Free

LEMMA NullIsSound ==
  ASSUME NEW v, NEW t \in Numeric, IsNull(v, t), NEW d \in Numeric
  PROVE  Sound(v, d, NullMeaning)
BY DEF IsNull, Sound, IsMeaning, OfKind, MeantFor, Right, NullMeaning, DataTypes, Numeric, IntegerTypes

LEMMA NumberIsSound ==
  ASSUME NEW v, IsValue(v), ~v.null, v.type \in Numeric
  PROVE  Sound(v, v.type, Number(Halves(v)))
<1>1. Halves(v) \in Int /\ v.type \in DataTypes /\ v # Thrown
  BY NumberFacts, ValueFacts
<1> QED
  BY <1>1 DEF Sound, IsMeaning, OfKind, MeantFor, Right, Number, Numeric, IntegerTypes

(* The number under an integer, NULL for the sentinel. *)
LEMMA IntegerIsSound ==
  ASSUME NEW t \in IntegerTypes, NEW n \in Lowest(t) .. (MAX(t))
  PROVE  Sound(MakeInteger(t, n), t, Number(2 * n))
<1>1. PICK v : v = MakeInteger(t, n)
  OBVIOUS
<1>2. v = [type |-> t, null |-> n = Lowest(t), raw |-> <<n>>]
  BY <1>1, MadeInteger DEF Sized
<1>3. IsValue(v)
  BY <1>1, IntegersAreValues
<1>4. n \in Int
  BY LimitsAre DEF Sized
<1>5. v.type = t /\ (v.null <=> n = Lowest(t)) /\ Halves(v) = 2 * n
  BY <1>2 DEF Halves, IntegerTypes
<1>6. v # Thrown
  BY <1>3, ValueFacts
<1> QED
  BY <1>1, <1>3, <1>4, <1>5, <1>6
  DEF Sound, IsMeaning, OfKind, MeantFor, Right, Number, DataTypes, Numeric, IntegerTypes

LEMMA DoubleIsSound ==
  ASSUME NEW n \in DoubleNumbers
  PROVE  Sound(MakeDecimal(n), "DECIMAL", Number(n))
<1>1. PICK v : v = MakeDecimal(n)
  OBVIOUS
<1>2. IsValue(v) /\ v = [type |-> "DECIMAL", null |-> FALSE, raw |-> <<n>>]
  BY <1>1, DoublesAreValues
<1>3. Halves(v) = n /\ v.type = "DECIMAL" /\ ~v.null
  BY <1>2 DEF Halves
<1>4. Sound(v, v.type, Number(Halves(v)))
  BY <1>2, <1>3, NumberIsSound DEF Numeric
<1> QED
  BY <1>1, <1>3, <1>4

LEMMA TooWideIsSound ==
  ASSUME NEW t \in IntegerTypes, NEW n \in Int, n \notin 2 * MIN(t) .. 2 * MAX(t)
  PROVE  Sound(Thrown, t, Number(n))
BY DEF Sound, IsMeaning, Right, Number, Representable, IntegerTypes, DataTypes, Numeric

(* The outcomes of a comparison or a connective. *)
LEMMA BooleansAre ==
  /\ MakeInteger("BOOLEAN", 1) = [type |-> "BOOLEAN", null |-> FALSE, raw |-> <<1>>]
  /\ MakeInteger("BOOLEAN", 0) = [type |-> "BOOLEAN", null |-> FALSE, raw |-> <<0>>]
  /\ IsNull(NullOfType("BOOLEAN"), "BOOLEAN")
<1>1. Lowest("BOOLEAN") \in Int /\ Lowest("BOOLEAN") < 0
  BY LimitsAre DEF Sized
<1>2. (1 = Lowest("BOOLEAN")) = FALSE /\ (0 = Lowest("BOOLEAN")) = FALSE
  BY <1>1
<1>3. \A n : MakeInteger("BOOLEAN", n) = [type |-> "BOOLEAN", null |-> n = Lowest("BOOLEAN"), raw |-> <<n>>]
  BY MadeInteger DEF Sized
<1>4. /\ MakeInteger("BOOLEAN", 1) = [type |-> "BOOLEAN", null |-> FALSE, raw |-> <<1>>]
      /\ MakeInteger("BOOLEAN", 0) = [type |-> "BOOLEAN", null |-> FALSE, raw |-> <<0>>]
  BY <1>2, <1>3, Zenon
<1> QED
  BY <1>4, NullsOfTypes

TruthOfCmp(c) == CASE c = "CmpTrue" -> 2 [] c = "CmpFalse" -> 0 [] c = "CmpNull" -> 1

LEMMA TruthIsSound ==
  ASSUME NEW c \in {"CmpTrue", "CmpFalse", "CmpNull"}
  PROVE  /\ Sound(BooleanValue(c), "BOOLEAN", Truth(TruthOfCmp(c)))
         /\ IsValue(BooleanValue(c)) /\ BooleanValue(c).type = "BOOLEAN"
         /\ Restart(BooleanValue(c)) = Truth(TruthOfCmp(c))
<1>1. PICK v : v = BooleanValue(c)
  OBVIOUS
<1>2. IsValue(v) /\ v.type = "BOOLEAN" /\ TruthOf(v) = TruthOfCmp(c)
  <2>1. CASE c = "CmpTrue"
    <3>1. v = MakeInteger("BOOLEAN", 1)
      BY <1>1, <2>1 DEF BooleanValue
    <3>2. IsValue(v)
      BY <3>1 DEF IsValue
    <3> QED
      BY <2>1, <3>1, <3>2, BooleansAre DEF TruthOf, TruthOfCmp
  <2>2. CASE c = "CmpFalse"
    <3>1. v = MakeInteger("BOOLEAN", 0)
      BY <1>1, <2>2 DEF BooleanValue
    <3>2. IsValue(v)
      BY <3>1 DEF IsValue
    <3> QED
      BY <2>2, <3>1, <3>2, BooleansAre DEF TruthOf, TruthOfCmp
  <2>3. CASE c = "CmpNull"
    <3>1. v = NullOfType("BOOLEAN")
      BY <1>1, <2>3 DEF BooleanValue
    <3> QED
      BY <2>3, <3>1, BooleansAre DEF TruthOf, TruthOfCmp, IsNull
  <2> QED
    BY <2>1, <2>2, <2>3
<1>3. v # Thrown
  BY <1>2, ValueFacts
<1>4. Restart(v) = Truth(TruthOf(v))
  BY <1>2, <1>3, Denoted DEF Restart
<1>5. Sound(v, "BOOLEAN", Restart(v))
  BY <1>2, Restarted DEF OfKind, DataTypes
<1> QED
  BY <1>1, <1>2, <1>4, <1>5


(***************************************************************************)
(* What the state holds, by the type that was declared.                    *)
(***************************************************************************)
NowOf(v, m) == IF v.null /\ m.kind = "number" THEN NullMeaning ELSE m

LEMMA NumericHeld ==
  ASSUME NEW v, NEW d \in Numeric, NEW m, Sound(v, d, m), v # Thrown
  PROVE  /\ IsValue(v) /\ v.type \in Numeric /\ v.null \in BOOLEAN
         /\ v.null => NowOf(v, m) = NullMeaning
         /\ ~v.null => v.type = d /\ m = Number(Halves(v)) /\ Halves(v) \in Int /\ NowOf(v, m) = m
<1>1. IsValue(v) /\ OfKind(v, d) /\ m.kind \in {"number", "null"} /\ IsMeaning(m) /\ Right(v, d, m)
  BY DEF Sound, MeantFor
<1>2. v.type \in Numeric /\ v.null \in BOOLEAN /\ (v.null \/ v.type = d)
  BY <1>1, ValueFacts DEF OfKind
<1>3. \/ m = NullMeaning
      \/ m.n \in Int /\ m = Number(m.n)
  BY <1>1 DEF IsMeaning, Free, NullMeaning, Truth, Number
<1>4. CASE v.null
  BY <1>1, <1>2, <1>3, <1>4 DEF NowOf, Number
<1>5. CASE ~v.null
  <2>1. m # NullMeaning
    BY <1>1, <1>5 DEF Right, NullMeaning
  <2>2. m.kind = "number" /\ m.n = Halves(v)
    BY <1>1, <1>3, <1>5, <2>1 DEF Right, Number
  <2> QED
    BY <1>1, <1>2, <1>3, <1>5, <2>1, <2>2 DEF NowOf
<1> QED
  BY <1>2, <1>4, <1>5

LEMMA BooleanHeld ==
  ASSUME NEW v, NEW m, Sound(v, "BOOLEAN", m), v # Thrown
  PROVE  /\ IsValue(v) /\ v.type = "BOOLEAN" /\ NowOf(v, m) = m
         /\ m = Truth(TruthOf(v)) /\ TruthOf(v) \in 0 .. 2
<1>1. /\ IsValue(v) /\ OfKind(v, "BOOLEAN") /\ m.kind = "truth" /\ IsMeaning(m)
      /\ Right(v, "BOOLEAN", m)
  BY DEF Sound, MeantFor
<1>2. v.type = "BOOLEAN"
  BY <1>1 DEF OfKind, Numeric, IntegerTypes
<1>3. m = Truth(m.n)
  BY <1>1 DEF IsMeaning, Free, NullMeaning, Number
<1>4. m.n = TruthOf(v)
  BY <1>1 DEF Right
<1> QED
  BY <1>1, <1>2, <1>3, <1>4, Denoted DEF NowOf

LEMMA OtherHeld ==
  ASSUME NEW v, NEW d \in {"VARCHAR", "TIMESTAMP"}, NEW m, Sound(v, d, m), v # Thrown
  PROVE  /\ IsValue(v) /\ v.type = d /\ NowOf(v, m) = m
         /\ m = Free \/ (m = NullMeaning /\ v.null)
<1>1. /\ IsValue(v) /\ OfKind(v, d) /\ m.kind \in {"null", "free"} /\ IsMeaning(m)
      /\ Right(v, d, m)
  BY DEF Sound, MeantFor
<1>2. v.type = d
  BY <1>1 DEF OfKind, Numeric, IntegerTypes
<1>3. m \in {Free, NullMeaning}
  BY <1>1 DEF IsMeaning, Truth, Number
<1>4. m = NullMeaning => v.null
  BY <1>1 DEF Right, NullMeaning
<1> QED
  BY <1>1, <1>2, <1>3, <1>4 DEF NowOf

(***************************************************************************)
(* Arithmetic on integers.                                                 *)
(***************************************************************************)
LEMMA WiderIsCommon ==
  ASSUME NEW t \in IntegerTypes, NEW u \in IntegerTypes
  PROVE  Wider(t, u) = CommonType(t, u) /\ Wider(t, u) \in {t, u}
BY WidthsGrow DEF Wider, CommonType, IntegerTypes, Numeric, Rank, Sized

LEMMA WiderLimits ==
  ASSUME NEW t \in IntegerTypes, NEW u \in IntegerTypes
  PROVE  Half[t] <= Half[Wider(t, u)] /\ Half[u] <= Half[Wider(t, u)]
BY LimitsAre DEF Wider, Sized

(* An operation on two integers that are not NULL: it is exact, unless the *)
(* number it is computed as overflows, and throws unless it fits.          *)
LEMMA IntegerArithIs ==
  ASSUME NEW op \in ArithmeticOps, NEW l, NEW r,
         IsValue(l), l.type \in IntegerTypes, ~l.null,
         IsValue(r), r.type \in IntegerTypes, ~r.null,
         op \in {"divide", "modulo"} => r.raw[1] # 0,
         NEW w \in IntegerArith(op, l, r)
  PROVE  LET n == ExactInteger(op, l.raw[1], r.raw[1])
             t == Wider(l.type, r.type)
         IN  /\ t \in IntegerTypes /\ n \in Int
             /\ w = Thrown \/ \E k \in Lowest(t) .. (MAX(t)) : w = MakeInteger(t, k)
             /\ Computable(n, Computed(l.type, r.type)) =>
                  IF n \in Lowest(t) .. (MAX(t)) THEN w = MakeInteger(t, n) ELSE w = Thrown
<1>1. PICK x \in Int, y \in Int : x = l.raw[1] /\ y = r.raw[1]
  BY NumberFacts DEF Numeric
<1>2. PICK t \in IntegerTypes : t = Wider(l.type, r.type)
  BY WiderIsCommon
<1>3. PICK h \in Nat \ {0} : h = Half[t] /\ Lowest(t) = -h /\ MAX(t) = h - 1
  BY LimitsAre DEF Sized
<1>4. x \in 1 - h .. h - 1 /\ y \in 1 - h .. h - 1
  <2>1. l.raw[1] \in MIN(l.type) .. (MAX(l.type)) /\ r.raw[1] \in MIN(r.type) .. (MAX(r.type))
    BY IntegerFacts
  <2>2. Half[l.type] <= h /\ Half[r.type] <= h
    BY <1>2, <1>3, WiderLimits
  <2> QED
    BY <1>1, <1>3, <2>1, <2>2, LimitsAre DEF Sized
<1>5. PICK c : c = Computed(l.type, r.type)
  OBVIOUS
<1>6. \A n \in Int : /\ Wrap(t, n) \in Lowest(t) .. (MAX(t))
                     /\ n \in Lowest(t) .. (MAX(t)) <=> n = Wrap(t, n)
  BY WrapIs DEF Sized
<1>7. CASE op = "add"
  <2>1. w \in AddValue(l, r) /\ ExactInteger(op, x, y) = x + y
    BY <1>7 DEF IntegerArith, ExactInteger
  <2> QED
    BY <1>1, <1>2, <1>5, <1>6, <2>1 DEF AddValue
<1>8. CASE op = "subtract"
  <2>1. w \in SubtractValue(l, r) /\ ExactInteger(op, x, y) = x - y
    BY <1>8 DEF IntegerArith, ExactInteger
  <2> QED
    BY <1>1, <1>2, <1>5, <1>6, <2>1 DEF SubtractValue
<1>9. CASE op = "multiply"
  <2>1. w \in MultiplyValue(l, r) /\ ExactInteger(op, x, y) = x * y
    BY <1>9 DEF IntegerArith, ExactInteger
  <2>2. PICK n \in Int : n = x * y
    OBVIOUS
  <2>3. n = Wrap(t, n) => ~(y # 0 /\ Quotient(Wrap(t, n), y) # x)
    BY <2>2, QuotientOfProduct
  <2>4. w \in IF Computable(n, c) THEN {IF n # Wrap(t, n) THEN Thrown ELSE MakeInteger(t, n)}
              ELSE {Thrown, MakeInteger(t, Wrap(t, n))}
    BY <1>1, <1>2, <1>5, <2>1, <2>2, <2>3 DEF MultiplyValue
  <2> QED
    BY <1>1, <1>2, <1>5, <1>6, <2>1, <2>2, <2>4
<1>10. CASE op = "divide"
  <2>1. w \in DivideValue(l, r) /\ ExactInteger(op, x, y) = Quotient(x, y)
    BY <1>10 DEF IntegerArith, ExactInteger
  <2>2. PICK n \in Int : n = Quotient(x, y) /\ n \in -(h - 1) .. h - 1
    <3>1. PICK k \in Nat : k = h - 1
      BY <1>3
    <3>2. x \in Int /\ y \in Int /\ y # 0 /\ x \in -k .. k
      BY <1>1, <1>3, <1>4, <1>10, <3>1
    <3>3. Quotient(x, y) \in -k .. k
      BY <3>2, QuotientBounds
    <3> QED
      BY <3>1, <3>3
  <2>3. w = MakeInteger(t, n)
    BY <1>1, <1>2, <1>3, <1>6, <1>10, <2>1, <2>2 DEF DivideValue
  <2> QED
    BY <1>1, <1>2, <1>3, <2>1, <2>2, <2>3
<1>11. CASE op = "modulo"
  <2>1. w \in ModuloValue(l, r) /\ ExactInteger(op, x, y) = Remainder(x, y)
    BY <1>11 DEF IntegerArith, ExactInteger
  <2>2. PICK n \in Int : n = Remainder(x, y) /\ n \in 1 - h .. h - 1
    <3>1. y \in -h .. h /\ y # 0
      BY <1>1, <1>3, <1>4, <1>11
    <3> QED
      BY <1>3, <3>1, RemainderBounds
  <2>3. w = MakeInteger(t, n)
    BY <1>1, <1>2, <1>3, <1>6, <1>11, <2>1, <2>2 DEF ModuloValue
  <2> QED
    BY <1>1, <1>2, <1>3, <2>1, <2>2, <2>3
<1> QED
  BY <1>7, <1>8, <1>9, <1>10, <1>11 DEF ArithmeticOps


LEMMA CommonTypes ==
  ASSUME NEW t \in Numeric, NEW u \in Numeric
  PROVE  /\ CommonType(t, u) \in Numeric
         /\ {t, u} \subseteq IntegerTypes => CommonType(t, u) = Wider(t, u)
         /\ ~({t, u} \subseteq IntegerTypes) => CommonType(t, u) = "DECIMAL"
<1>1. CommonType(t, u) \in {t, u}
  BY DEF CommonType
<1>2. CASE t \in IntegerTypes /\ u \in IntegerTypes
  BY <1>1, <1>2, WiderIsCommon
<1>3. CASE t = "DECIMAL" \/ u = "DECIMAL"
  BY <1>3 DEF CommonType, Numeric, IntegerTypes, Rank
<1> QED
  BY <1>1, <1>2, <1>3 DEF Numeric, IntegerTypes

(* The tables of NULL results: a NULL of a numeric type. *)
LEMMA NullTables ==
  ASSUME NEW r, r.type \in Numeric
  PROVE  /\ \E t \in Numeric : IsNull(TinyintNull(r), t)
         /\ \E t \in Numeric : IsNull(SmallintNull(r), t)
         /\ \E t \in Numeric : IsNull(IntegerNull(r), t)
         /\ \E t \in Numeric : IsNull(BigintNull(r), t)
<1>1. PICK u \in Numeric : u = r.type
  OBVIOUS
<1>2. \A t \in Numeric : IsNull(NullOfType(t), t)
  BY NullsOfTypes
<1>3. IsNull(NullDecimal, "DECIMAL")
  BY NullDecimalIs DEF IsNull, IsValue
<1>4. IntegerValue("INTEGER", "SMALLINT", Lowest("SMALLINT")) = Uninitialised("INTEGER")
  <2>1. PICK n : n = Lowest("SMALLINT")
    OBVIOUS
  <2>2. (n = Lowest("SMALLINT")) = TRUE /\ (Half["SMALLINT"] < Half["INTEGER"]) = TRUE
    BY <2>1, WidthsGrow DEF Sized, IntegerTypes
  <2> QED
    BY <2>1, <2>2, Zenon DEF IntegerValue, Uninitialised
<1>5. IsNull(Uninitialised("INTEGER"), "INTEGER")
  BY UnwrittenIsNull DEF DataTypes, Numeric, IntegerTypes
<1>6. \E t \in Numeric : IsNull(TinyintNull(r), t)
  BY <1>1, <1>2, <1>3, <1>4, <1>5 DEF TinyintNull, Numeric, IntegerTypes
<1>7. \E t \in Numeric : IsNull(SmallintNull(r), t)
  BY <1>1, <1>2 DEF SmallintNull, Numeric, IntegerTypes
<1>8. \E t \in Numeric : IsNull(IntegerNull(r), t)
  BY <1>1, <1>2 DEF IntegerNull, Numeric, IntegerTypes
<1>9. \E t \in Numeric : IsNull(BigintNull(r), t)
  BY <1>1, <1>2, <1>3 DEF BigintNull, Numeric, IntegerTypes
<1> QED
  BY <1>6, <1>7, <1>8, <1>9

LEMMA NullDecimalIsNull ==
  IsNull(NullDecimal, "DECIMAL")
BY NullDecimalIs DEF IsNull, IsValue

LEMMA ArithmeticOfNull ==
  ASSUME NEW op, NEW l, NEW r, l.type \in Numeric, r.type \in Numeric, l.null \/ r.null,
         NEW w \in ValueArith(op, l, r)
  PROVE  \E t \in Numeric : IsNull(w, t)
<1>1. CASE l.type = "TINYINT"
  BY <1>1, NullTables DEF ValueArith, TinyintArith, Modify
<1>2. CASE l.type = "SMALLINT"
  BY <1>2, NullTables DEF ValueArith, SmallintArith, Modify
<1>3. CASE l.type = "INTEGER"
  BY <1>3, NullTables DEF ValueArith, IntegerTypeArith, Modify
<1>4. CASE l.type = "BIGINT"
  BY <1>4, NullTables DEF ValueArith, BigintArith, Modify
<1>5. CASE l.type = "DECIMAL"
  BY <1>5, NullDecimalIsNull DEF ValueArith, DecimalArith, DecimalNull, Numeric
<1> QED
  BY <1>1, <1>2, <1>3, <1>4, <1>5 DEF Numeric, IntegerTypes

LEMMA ArithmeticOfNumbers ==
  ASSUME NEW op, NEW l, NEW r, l.type \in Numeric, r.type \in Numeric, ~l.null, ~r.null
  PROVE  ValueArith(op, l, r) =
           IF op \in {"divide", "modulo"} /\ IsZero(r) THEN {Thrown}
           ELSE IF l.type \in IntegerTypes /\ r.type \in IntegerTypes THEN IntegerArith(op, l, r)
           ELSE DoubleArith(op, ToDouble(l), ToDouble(r))
<1>1. CASE l.type = "TINYINT"
  BY <1>1 DEF ValueArith, TinyintArith, Modify, Numeric, IntegerTypes
<1>2. CASE l.type = "SMALLINT"
  BY <1>2 DEF ValueArith, SmallintArith, Modify, Numeric, IntegerTypes
<1>3. CASE l.type = "INTEGER"
  BY <1>3 DEF ValueArith, IntegerTypeArith, Modify, Numeric, IntegerTypes
<1>4. CASE l.type = "BIGINT"
  BY <1>4 DEF ValueArith, BigintArith, Modify, Numeric, IntegerTypes
<1>5. CASE l.type = "DECIMAL"
  BY <1>5 DEF ValueArith, DecimalArith, Numeric, IntegerTypes
<1> QED
  BY <1>1, <1>2, <1>3, <1>4, <1>5 DEF Numeric, IntegerTypes


LEMMA DoublesAre ==
  ASSUME NEW n \in Int, NEW w \in Doubles(n)
  PROVE  w = MakeDecimal(Nearest[n]) /\ n \in -DecimalTop .. DecimalTop
BY DEF Doubles

(* Arithmetic on doubles is exact and then rounded, or has no outcome in   *)
(* the model.                                                              *)
LEMMA DoubleArithIs ==
  ASSUME NEW op \in ArithmeticOps, NEW a \in Int, NEW b \in Int,
         op \in {"divide", "modulo"} => b # 0, NEW w \in DoubleArith(op, a, b)
  PROVE  LET n == ExactArithmetic(op, a, b, FALSE)
         IN  w = MakeDecimal(Nearest[n]) /\ n \in -DecimalTop .. DecimalTop
<1>1. CASE op = "add"
  BY <1>1, DoublesAre DEF DoubleArith, ExactArithmetic
<1>2. CASE op = "subtract"
  BY <1>2, DoublesAre DEF DoubleArith, ExactArithmetic
<1>3. CASE op = "multiply"
  <2>1. Quotient(a * b, 2) \in Int
    BY QuotientType
  <2>2. w \in Doubles(Quotient(a * b, 2)) /\ ExactArithmetic(op, a, b, FALSE) = Quotient(a * b, 2)
    BY <1>3 DEF DoubleArith, ExactArithmetic
  <2> QED
    BY <2>1, <2>2, DoublesAre
<1>4. CASE op = "divide"
  <2>1. Quotient(2 * a, b) \in Int
    BY <1>4, QuotientType
  <2>2. w \in Doubles(Quotient(2 * a, b)) /\ ExactArithmetic(op, a, b, FALSE) = Quotient(2 * a, b)
    BY <1>4 DEF DoubleArith, ExactArithmetic
  <2> QED
    BY <2>1, <2>2, DoublesAre
<1>5. CASE op = "modulo"
  <2>1. a - Quotient(a, b) * b \in Int
    BY <1>5, QuotientType
  <2>2. w \in Doubles(a - Quotient(a, b) * b)
        /\ ExactArithmetic(op, a, b, FALSE) = a - Quotient(a, b) * b
    BY <1>5 DEF DoubleArith, ExactArithmetic, ValMod, Remainder
  <2> QED
    BY <2>1, <2>2, DoublesAre
<1> QED
  BY <1>1, <1>2, <1>3, <1>4, <1>5 DEF ArithmeticOps

(* The meaning of integer arithmetic is twice the integer. *)
LEMMA HalvesOfArithmetic ==
  ASSUME NEW op \in ArithmeticOps, NEW x \in Int, NEW y \in Int,
         op \in {"divide", "modulo"} => y # 0
  PROVE  ExactArithmetic(op, 2 * x, 2 * y, TRUE) = 2 * ExactInteger(op, x, y)
<1>1. CASE op \in {"add", "subtract"}
  BY <1>1 DEF ExactArithmetic, ExactInteger
<1>2. CASE op = "multiply"
  BY <1>2, ProductOfHalves DEF ExactArithmetic, ExactInteger
<1>3. CASE op = "divide"
  BY <1>3, QuotientOfHalves DEF ExactArithmetic, ExactInteger
<1>4. CASE op = "modulo"
  BY <1>4, RemainderOfHalves DEF ExactArithmetic, ExactInteger
<1> QED
  BY <1>1, <1>2, <1>3, <1>4 DEF ArithmeticOps

LEMMA ThrownHasNoType ==
  Thrown.type \notin DataTypes
BY DEF Thrown, DataTypes, Numeric, IntegerTypes

LEMMA ArithmeticKeeps ==
  ASSUME NEW op \in ArithmeticOps, NEW r \in Literals, IInv, ArithmeticNode(op, r)
  PROVE  IInv'
<1>1. PICK v, d, m, w, c, e : v = acc /\ d = declared /\ m = meaning
                              /\ w = acc' /\ c = declared' /\ e = meaning'
  OBVIOUS
<1>2. Sound(v, d, m) /\ v # Thrown /\ d \in Numeric /\ r.type \in Numeric
  BY <1>1 DEF IInv, ArithmeticNode, ArithmeticType, is_numeric
<1>3. IsValue(r) /\ r.null \in BOOLEAN
  BY LiteralAssumption, ValueFacts
<1>4. /\ IsValue(v) /\ v.type \in Numeric /\ v.null \in BOOLEAN
      /\ v.null => NowOf(v, m) = NullMeaning
      /\ ~v.null => v.type = d /\ m = Number(Halves(v)) /\ Halves(v) \in Int /\ NowOf(v, m) = m
  BY <1>2, NumericHeld
<1>5. c = CommonType(d, r.type) /\ c \in Numeric
  <2>1. c = CommonType(d, r.type)
    BY <1>1, <1>2 DEF ArithmeticNode, ArithmeticType, is_numeric
  <2> QED
    BY <1>2, <2>1, CommonTypes
<1>6. w \in ValueArith(op, v, r)
  BY <1>1 DEF ArithmeticNode, EvaluateArithmetic
<1>7. Now = NowOf(v, m)
  BY <1>1 DEF Now, NowOf
<1>8. SUFFICES Sound(w, c, e)
  BY <1>1 DEF IInv
<1>9. CASE v.null \/ r.null
  <2>1. PICK t \in Numeric : IsNull(w, t)
    BY <1>2, <1>4, <1>6, <1>9, ArithmeticOfNull
  <2>2. e = NullMeaning
    <3>1. CASE v.null
      <4>1. Now = NullMeaning
        BY <1>4, <1>7, <3>1
      <4>2. ~Overflows(op, Now, r) /\ ArithmeticMeaning(op, Now, r) = NullMeaning
        BY <4>1 DEF Overflows, ArithmeticMeaning, NullMeaning
      <4> QED
        BY <1>1, <4>2 DEF ArithmeticNode, Settled, NullMeaning, Free
    <3>2. CASE r.null
      <4>1. Denotes(r) = NullMeaning
        BY <1>2, <1>3, <3>2, Denoted
      <4>2. ~Overflows(op, Now, r) /\ ArithmeticMeaning(op, Now, r) = NullMeaning
        BY <3>2, <4>1 DEF Overflows, ArithmeticMeaning
      <4> QED
        BY <1>1, <4>2 DEF ArithmeticNode, Settled, NullMeaning, Free
    <3> QED
      BY <1>9, <3>1, <3>2
  <2> QED
    BY <1>5, <2>1, <2>2, NullIsSound
<1>10. CASE ~v.null /\ ~r.null
  <2>1. PICK a \in Int, b \in Int : a = Halves(v) /\ b = Halves(r)
    BY <1>2, <1>3, <1>4, <1>10, NumberFacts
  <2>2. Now = Number(a) /\ Denotes(r) = Number(b) /\ v.type = d
    BY <1>2, <1>3, <1>4, <1>7, <1>10, <2>1, Denoted
  <2>3. b = 0 <=> IsZero(r)
    BY <1>2, <1>3, <1>10, <2>1, NumberFacts DEF IsZero
  <2>4. Now # NullMeaning /\ Denotes(r) # NullMeaning /\ Now.kind = "number" /\ Now.n = a
    BY <2>2 DEF Number, NullMeaning
  <2>5. CASE op \in {"divide", "modulo"} /\ IsZero(r)
    <3>1. w = Thrown
      BY <1>2, <1>4, <1>6, <1>10, <2>5, ArithmeticOfNumbers
    <3>2. ~Overflows(op, Now, r) /\ ArithmeticMeaning(op, Now, r) = Free
      BY <2>4, <2>5 DEF Overflows, ArithmeticMeaning, IsZero
    <3>3. e = Free
      BY <1>1, <3>1, <3>2 DEF ArithmeticNode, Settled, Restart
    <3> QED
      BY <1>5, <3>1, <3>3, ThrownIsSound DEF DataTypes
  <2>6. CASE /\ ~(op \in {"divide", "modulo"} /\ IsZero(r))
             /\ v.type \in IntegerTypes /\ r.type \in IntegerTypes
    <3>1. w \in IntegerArith(op, v, r)
      BY <1>2, <1>4, <1>6, <1>10, <2>6, ArithmeticOfNumbers
    <3>2. PICK x \in Int, y \in Int : /\ x = v.raw[1] /\ y = r.raw[1] /\ a = 2 * x /\ b = 2 * y
                                      /\ op \in {"divide", "modulo"} => y # 0
      BY <1>2, <1>3, <1>4, <1>10, <2>1, <2>6, NumberFacts, IntegerFacts DEF IsZero
    <3>3. PICK t, n : t = Wider(v.type, r.type) /\ n = ExactInteger(op, x, y)
      OBVIOUS
    <3>4. /\ t \in IntegerTypes /\ n \in Int
          /\ w = Thrown \/ \E k \in Lowest(t) .. (MAX(t)) : w = MakeInteger(t, k)
          /\ Computable(n, Computed(v.type, r.type)) =>
               IF n \in Lowest(t) .. (MAX(t)) THEN w = MakeInteger(t, n) ELSE w = Thrown
      BY <1>3, <1>4, <1>10, <2>6, <3>1, <3>2, <3>3, IntegerArithIs
    <3>5. c = t
      BY <1>2, <1>5, <2>2, <2>6, <3>3, CommonTypes
    <3>6. ExactArithmetic(op, a, b, TRUE) = 2 * n
      BY <3>2, <3>3, HalvesOfArithmetic
    <3>7. {declared, r.type} \subseteq IntegerTypes
      BY <1>1, <2>2, <2>6
    <3>8. ArithmeticMeaning(op, Now, r) = Number(2 * n)
      BY <1>2, <2>1, <2>3, <2>4, <2>6, <3>6, <3>7 DEF ArithmeticMeaning
    <3>9. CASE Overflows(op, Now, r)
      <4>1. e = Restart(w)
        BY <1>1, <3>9 DEF ArithmeticNode
      <4>2. w = Thrown \/ (IsValue(w) /\ w.type = t)
        BY <3>4, IntegersAreValues, MadeInteger DEF Sized
      <4> QED
        BY <3>4, <3>5, <4>1, <4>2, Restarted DEF OfKind, DataTypes, Numeric
    <3>10. CASE ~Overflows(op, Now, r)
      <4>1. e = Number(2 * n)
        BY <1>1, <3>8, <3>10 DEF ArithmeticNode, Settled, Number, Free
      <4>2. Computable(n, Computed(v.type, r.type))
        <5>1. PICK u : u = Computed(v.type, r.type)
          OBVIOUS
        <5>2. 2 * n \in 2 * Lowest(u) .. 2 * MAX(u)
          BY <1>1, <1>10, <2>1, <2>2, <2>4, <2>6, <3>2, <3>6, <3>10, <5>1 DEF Overflows
        <5>3. Lowest(u) \in Int /\ MAX(u) \in Int
          BY <5>1, LimitsAre DEF Computed, Sized, IntegerTypes
        <5> QED
          BY <3>4, <5>1, <5>2, <5>3 DEF Computable
      <4>3. CASE n \in Lowest(t) .. (MAX(t))
        BY <3>4, <3>5, <4>1, <4>2, <4>3, IntegerIsSound
      <4>4. CASE n \notin Lowest(t) .. (MAX(t))
        <5>1. 2 * n \in Int /\ 2 * n \notin 2 * MIN(t) .. 2 * MAX(t)
          BY <3>4, <4>4, LimitsAre DEF Sized
        <5> QED
          BY <3>4, <3>5, <4>1, <4>2, <4>4, <5>1, TooWideIsSound
      <4> QED
        BY <4>3, <4>4
    <3> QED
      BY <3>9, <3>10
  <2>7. CASE /\ ~(op \in {"divide", "modulo"} /\ IsZero(r))
             /\ ~(v.type \in IntegerTypes /\ r.type \in IntegerTypes)
    <3>1. PICK p \in Int, q \in Int : /\ p = ToDouble(v) /\ q = ToDouble(r) /\ (q = 0 <=> IsZero(r))
                                      /\ p = AsDouble(d, a) /\ q = AsDouble(r.type, b)
      BY <1>2, <1>3, <1>4, <1>10, <2>1, <2>2, ToDoubleIs DEF IsZero
    <3>2. w \in DoubleArith(op, p, q)
      BY <1>2, <1>4, <1>6, <1>10, <2>7, <3>1, ArithmeticOfNumbers
    <3>3. PICK n : n = ExactArithmetic(op, p, q, FALSE)
      OBVIOUS
    <3>4. w = MakeDecimal(Nearest[n]) /\ Nearest[n] \in DoubleNumbers
      BY <2>7, <3>1, <3>2, <3>3, DoubleArithIs, NearestIsDouble
    <3>5. c = "DECIMAL"
      BY <1>2, <1>5, <2>2, <2>7, CommonTypes
    <3>6. ({declared, r.type} \subseteq IntegerTypes) = FALSE /\ ~Overflows(op, Now, r)
      BY <1>1, <2>2, <2>7 DEF Overflows
    <3>7. ArithmeticMeaning(op, Now, r) = Number(Nearest[n])
      BY <1>1, <1>2, <2>1, <2>4, <2>7, <3>1, <3>3, <3>6 DEF ArithmeticMeaning
    <3>8. e = Number(Nearest[n])
      BY <1>1, <3>6, <3>7 DEF ArithmeticNode, Settled, Number, Free
    <3> QED
      BY <3>4, <3>5, <3>8, DoubleIsSound
  <2> QED
    BY <2>5, <2>6, <2>7
<1> QED
  BY <1>3, <1>4, <1>9, <1>10


(***************************************************************************)
(* Comparisons and connectives.                                            *)
(***************************************************************************)
LEMMA UnknownIsNull ==
  ASSUME NEW v, IsValue(v)
  PROVE  IsUnknown(Denotes(v)) <=> v.null
<1>1. v.type \in DataTypes /\ v.null \in BOOLEAN
  BY ValueFacts
<1>2. CASE v.type \in Numeric
  BY <1>1, <1>2, Denoted DEF IsUnknown, Number, NullMeaning, Truth
<1>3. CASE v.type = "BOOLEAN"
  <2>1. TruthOf(v) = 1 <=> v.null
    BY <1>1 DEF TruthOf
  <2> QED
    BY <1>3, <2>1, Denoted DEF IsUnknown, NullMeaning, Truth
<1>4. CASE v.type \in {"VARCHAR", "TIMESTAMP"}
  BY <1>1, <1>4, Denoted DEF IsUnknown, Free, NullMeaning, Truth
<1> QED
  BY <1>1, <1>2, <1>3, <1>4 DEF DataTypes

LEMMA ComparisonOutcomes ==
  ASSUME NEW cmp, NEW l, NEW r, NEW k \in ValueCompare(cmp, l, r), l.type \in DataTypes
  PROVE  /\ k \in {"CmpTrue", "CmpFalse", "CmpNull", "Throw"}
         /\ l.type # "TIMESTAMP" /\ (l.null \/ r.null) => k = "CmpNull"
         /\ l.type = "TIMESTAMP" /\ r.null => k = "CmpNull"
<1>1. CASE l.type \in Numeric
  <2>1. k = CompareNumbers(cmp, l, r)
    BY <1>1 DEF ValueCompare, TinyintCompare, SmallintCompare, IntegerCompare, BigintCompare,
                DecimalCompare, Numeric, IntegerTypes
  <2> QED
    BY <1>1, <2>1 DEF CompareNumbers, CmpBool, Numeric, IntegerTypes
<1>2. CASE l.type = "BOOLEAN"
  BY <1>2 DEF ValueCompare, BooleanCompare, CmpBool
<1>3. CASE l.type = "VARCHAR"
  BY <1>3 DEF ValueCompare, VarcharCompare, CmpBool
<1>4. CASE l.type = "TIMESTAMP"
  BY <1>4 DEF ValueCompare, TimestampCompare, CmpBool
<1> QED
  BY <1>1, <1>2, <1>3, <1>4 DEF DataTypes

LEMMA DoublingHolds ==
  ASSUME NEW cmp \in Comparisons, NEW x \in Int, NEW y \in Int
  PROVE  Holds(cmp, 2 * x, 2 * y) <=> Holds(cmp, x, y)
BY DEF Holds, Comparisons

(* A number as a comparison with w sees it. *)
Seen(v, w) == IF "DECIMAL" \in {v.type, w.type} THEN ToDouble(v) ELSE Halves(v)

LEMMA NumbersCompare ==
  ASSUME NEW cmp \in Comparisons, NEW l, NEW r, IsValue(l), IsValue(r),
         l.type \in Numeric, r.type \in Numeric, ~l.null, ~r.null
  PROVE  /\ Seen(l, r) \in Int /\ Seen(r, l) \in Int
         /\ CompareNumbers(cmp, l, r) = CmpBool(Holds(cmp, Seen(l, r), Seen(r, l)))
         /\ ValueCompare(cmp, l, r) = {CmpBool(Holds(cmp, Seen(l, r), Seen(r, l)))}
         /\ NumbersRelate(cmp, l.type, Halves(l), r.type, Halves(r)) <=> Holds(cmp, Seen(l, r), Seen(r, l))
<1>1. ValueCompare(cmp, l, r) = {CompareNumbers(cmp, l, r)}
  BY DEF ValueCompare, TinyintCompare, SmallintCompare, IntegerCompare, BigintCompare,
         DecimalCompare, Numeric, IntegerTypes
<1>2. /\ Halves(l) \in Int /\ ToDouble(l) = AsDouble(l.type, Halves(l)) /\ ToDouble(l) \in Int
      /\ Halves(r) \in Int /\ ToDouble(r) = AsDouble(r.type, Halves(r)) /\ ToDouble(r) \in Int
  BY ToDoubleIs
<1>3. CASE "DECIMAL" \in {l.type, r.type}
  <2>1. Seen(l, r) = ToDouble(l) /\ Seen(r, l) = ToDouble(r)
    BY <1>3 DEF Seen
  <2>2. CompareNumbers(cmp, l, r) = CmpBool(Holds(cmp, ToDouble(l), ToDouble(r)))
    BY <1>3 DEF CompareNumbers
  <2> QED
    BY <1>1, <1>2, <1>3, <2>1, <2>2 DEF NumbersRelate
<1>4. CASE ~("DECIMAL" \in {l.type, r.type})
  <2>1. Seen(l, r) = Halves(l) /\ Seen(r, l) = Halves(r)
    BY <1>4 DEF Seen
  <2>2. CompareNumbers(cmp, l, r) = CmpBool(Holds(cmp, l.raw[1], r.raw[1]))
    BY <1>4 DEF CompareNumbers
  <2>3. PICK x \in Int, y \in Int : /\ x = l.raw[1] /\ Halves(l) = 2 * x
                                    /\ y = r.raw[1] /\ Halves(r) = 2 * y
    BY <1>4, NumberFacts, IntegerFacts DEF Numeric
  <2>4. Holds(cmp, 2 * x, 2 * y) <=> Holds(cmp, x, y)
    BY DoublingHolds
  <2>5. CmpBool(Holds(cmp, 2 * x, 2 * y)) = CmpBool(Holds(cmp, x, y))
    BY <2>4 DEF CmpBool
  <2> QED
    BY <1>1, <1>2, <1>4, <2>1, <2>2, <2>3, <2>5 DEF NumbersRelate
<1> QED
  BY <1>3, <1>4

LEMMA BooleansCompare ==
  ASSUME NEW cmp, NEW l, NEW r, l.type = "BOOLEAN", r.type = "BOOLEAN", ~l.null, ~r.null
  PROVE  ValueCompare(cmp, l, r) = {CmpBool(Holds(cmp, l.raw[1], r.raw[1]))}
BY DEF ValueCompare, BooleanCompare

LEMMA BooleanFacts ==
  ASSUME NEW v, IsValue(v), v.type = "BOOLEAN", ~v.null
  PROVE  v.raw[1] \in {0, 1} /\ TruthOf(v) = 2 * v.raw[1]
<1>1. PICK n \in {0, 1, Lowest("BOOLEAN")} : v = MakeInteger("BOOLEAN", n)
  BY ShapeOfBoolean, UnwrittenIsNull DEF IsNull, DataTypes
<1>2. v = [type |-> "BOOLEAN", null |-> n = Lowest("BOOLEAN"), raw |-> <<n>>]
  BY <1>1, MadeInteger DEF Sized
<1>3. n # Lowest("BOOLEAN") /\ v.raw[1] = n
  BY <1>2
<1> QED
  BY <1>1, <1>3 DEF TruthOf

LEMMA ComparisonKeeps ==
  ASSUME NEW cmp \in Comparisons, NEW r \in Literals, IInv, ComparisonNode(cmp, r)
  PROVE  IInv'
<1>1. PICK v, d, m, w, e : v = acc /\ d = declared /\ m = meaning /\ w = acc' /\ e = meaning'
  OBVIOUS
<1>2. Sound(v, d, m) /\ v # Thrown /\ d \in DataTypes
  BY <1>1 DEF IInv, ComparisonNode, Sound
<1>3. IsValue(r) /\ r.null \in BOOLEAN /\ r.type \in DataTypes
  BY LiteralAssumption, ValueFacts
<1>4. IsValue(v) /\ v.null \in BOOLEAN /\ v.type \in DataTypes
  BY <1>2, ValueFacts DEF Sound
<1>5. PICK k \in ValueCompare(cmp, v, r) : w = BooleanValue(k)
  BY <1>1 DEF ComparisonNode, EvaluateComparison
<1>6. /\ k \in {"CmpTrue", "CmpFalse", "CmpNull", "Throw"}
      /\ v.type # "TIMESTAMP" /\ (v.null \/ r.null) => k = "CmpNull"
      /\ v.type = "TIMESTAMP" /\ r.null => k = "CmpNull"
  BY <1>4, <1>5, ComparisonOutcomes
<1>7. PICK now : now = NowOf(v, m)
  OBVIOUS
<1>8. Now = now /\ (IsUnknown(Denotes(r)) <=> r.null)
  BY <1>1, <1>3, <1>7, UnknownIsNull DEF Now, NowOf
<1>9. SUFFICES Sound(w, "BOOLEAN", e)
  BY <1>1 DEF IInv, ComparisonNode
<1>10. ASSUME e = Restart(w) PROVE Sound(w, "BOOLEAN", e)
  <2>1. w = Thrown \/ (IsValue(w) /\ w.type = "BOOLEAN")
    BY <1>5, <1>6, TruthIsSound DEF BooleanValue
  <2> QED
    BY <1>10, <2>1, Restarted DEF OfKind, DataTypes
<1>11. ASSUME NEW x, ComparisonMeaning(cmp, now, r) = Truth(x), k # "Throw", TruthOfCmp(k) = x,
              ~(v.type = "TIMESTAMP" /\ v.null)
       PROVE  Sound(w, "BOOLEAN", e)
  <2>1. e = Truth(x)
    BY <1>1, <1>8, <1>11 DEF ComparisonNode, Settled, Truth, Free
  <2> QED
    BY <1>5, <1>6, <1>11, <2>1, TruthIsSound
<1>12. ASSUME ComparisonMeaning(cmp, now, r) = Free PROVE e = Restart(w)
  BY <1>1, <1>8, <1>12 DEF ComparisonNode, Settled
<1>13. CASE v.type = "TIMESTAMP" /\ v.null
  BY <1>1, <1>10, <1>13 DEF ComparisonNode
<1>14. CASE d \in Numeric
  <2>1. /\ v.type \in Numeric /\ v.type # "TIMESTAMP"
        /\ v.null => now = NullMeaning
        /\ ~v.null => now = Number(Halves(v)) /\ Halves(v) \in Int
    BY <1>2, <1>7, <1>14, NumericHeld DEF Numeric, IntegerTypes
  <2>2. CASE v.null \/ r.null
    <3>1. ComparisonMeaning(cmp, now, r) = Truth(1)
      BY <1>8, <2>1, <2>2 DEF ComparisonMeaning, IsUnknown
    <3> QED
      BY <1>6, <1>11, <2>1, <2>2, <3>1 DEF TruthOfCmp
  <2>3. CASE ~v.null /\ ~r.null /\ r.type \in Numeric
    <3>1. PICK a \in Int, b \in Int : a = Halves(v) /\ b = Halves(r)
      BY <1>3, <2>1, <2>3, NumberFacts
    <3>2. now = Number(a) /\ Denotes(r) = Number(b) /\ v.type = d
      BY <1>2, <1>3, <1>14, <2>1, <2>3, <3>1, Denoted, NumericHeld
    <3>3. ComparisonMeaning(cmp, now, r) = Truth(IF NumbersRelate(cmp, d, a, r.type, b) THEN 2 ELSE 0)
      BY <1>1, <3>2 DEF ComparisonMeaning, IsUnknown, Number, NullMeaning, Truth
    <3>4. k = CmpBool(NumbersRelate(cmp, d, a, r.type, b))
      <4>1. PICK x, y : x = Seen(v, r) /\ y = Seen(r, v)
        OBVIOUS
      <4>2. k = CmpBool(Holds(cmp, x, y)) /\ (NumbersRelate(cmp, d, a, r.type, b) <=> Holds(cmp, x, y))
        BY <1>3, <1>4, <1>5, <2>1, <2>3, <3>1, <3>2, <4>1, NumbersCompare
      <4> QED
        BY <4>2 DEF CmpBool
    <3> QED
      BY <1>11, <2>1, <3>3, <3>4 DEF CmpBool, TruthOfCmp
  <2>4. CASE ~v.null /\ ~r.null /\ r.type \notin Numeric
    <3>1. now.kind = "number" /\ ~IsUnknown(now)
      BY <2>1, <2>4 DEF Number, NullMeaning, Truth, IsUnknown
    <3>2. Denotes(r).kind # "number"
      BY <1>3, <2>4, Denoted DEF Truth, NullMeaning, Free, DataTypes
    <3>3. ComparisonMeaning(cmp, now, r) = Free
      BY <1>8, <2>4, <3>1, <3>2 DEF ComparisonMeaning
    <3> QED
      BY <1>10, <1>12, <3>3
  <2> QED
    BY <1>3, <1>4, <2>2, <2>3, <2>4
<1>15. CASE d = "BOOLEAN"
  <2>1. v.type = "BOOLEAN" /\ now = Truth(TruthOf(v)) /\ TruthOf(v) \in 0 .. 2
    BY <1>2, <1>7, <1>15, BooleanHeld
  <2>2. TruthOf(v) = 1 <=> v.null
    BY <1>4 DEF TruthOf
  <2>3. CASE v.null \/ r.null
    <3>1. ComparisonMeaning(cmp, now, r) = Truth(1)
      BY <1>8, <2>1, <2>2, <2>3 DEF ComparisonMeaning, IsUnknown
    <3> QED
      BY <1>6, <1>11, <2>1, <2>3, <3>1 DEF TruthOfCmp
  <2>4. CASE ~v.null /\ ~r.null /\ r.type = "BOOLEAN"
    <3>1. PICK x \in Int, y \in Int : x = v.raw[1] /\ y = r.raw[1]
      BY <1>3, <1>4, <2>1, <2>4, BooleanFacts
    <3>2. now = Truth(2 * x) /\ Denotes(r) = Truth(2 * y) /\ 2 * x # 1 /\ 2 * y # 1
      <4>1. TruthOf(v) = 2 * x
        BY <1>4, <2>1, <2>4, <3>1, BooleanFacts
      <4>2. Denotes(r) = Truth(TruthOf(r)) /\ TruthOf(r) = 2 * y
        BY <1>3, <2>4, <3>1, BooleanFacts, Denoted
      <4>3. now = Truth(2 * x) /\ Denotes(r) = Truth(2 * y)
        BY <2>1, <4>1, <4>2
      <4>4. 2 * x # 1 /\ 2 * y # 1
        BY <3>1
      <4> QED
        BY <4>3, <4>4
    <3>3. ComparisonMeaning(cmp, now, r) = Truth(IF Holds(cmp, x, y) THEN 2 ELSE 0)
      <4>1. ComparisonMeaning(cmp, now, r) = Truth(IF Holds(cmp, 2 * x, 2 * y) THEN 2 ELSE 0)
        <5>1. PICK p, q : p = 2 * x /\ q = 2 * y
          OBVIOUS
        <5>2. now = Truth(p) /\ Denotes(r) = Truth(q) /\ p # 1 /\ q # 1
          BY <3>2, <5>1
        <5>3. ComparisonMeaning(cmp, now, r) = Truth(IF Holds(cmp, p, q) THEN 2 ELSE 0)
          BY <5>2 DEF ComparisonMeaning, IsUnknown, NullMeaning, Truth
        <5> QED
          BY <5>1, <5>3
      <4>2. Holds(cmp, 2 * x, 2 * y) <=> Holds(cmp, x, y)
        BY DoublingHolds
      <4>3. (IF Holds(cmp, 2 * x, 2 * y) THEN 2 ELSE 0) = (IF Holds(cmp, x, y) THEN 2 ELSE 0)
        BY <4>2
      <4> QED
        BY <4>1, <4>3
    <3>4. k = CmpBool(Holds(cmp, x, y))
      BY <1>5, <2>1, <2>4, <3>1, BooleansCompare
    <3> QED
      BY <1>11, <2>1, <3>3, <3>4 DEF CmpBool, TruthOfCmp
  <2>5. CASE ~v.null /\ ~r.null /\ r.type # "BOOLEAN"
    <3>1. now.kind = "truth" /\ ~IsUnknown(now)
      BY <2>1, <2>2, <2>5 DEF NullMeaning, Truth, IsUnknown
    <3>2. Denotes(r).kind # "truth"
      BY <1>3, <2>5, Denoted DEF Number, NullMeaning, Free, DataTypes
    <3>3. ComparisonMeaning(cmp, now, r) = Free
      BY <1>8, <2>5, <3>1, <3>2 DEF ComparisonMeaning
    <3> QED
      BY <1>10, <1>12, <3>3
  <2> QED
    BY <1>3, <1>4, <2>3, <2>4, <2>5
<1>16. CASE d \in {"VARCHAR", "TIMESTAMP"} /\ ~(v.type = "TIMESTAMP" /\ v.null)
  <2>1. v.type = d /\ (now = Free \/ (now = NullMeaning /\ v.null))
    BY <1>2, <1>7, <1>16, OtherHeld
  <2>2. CASE r.null \/ now = NullMeaning
    <3>1. ComparisonMeaning(cmp, now, r) = Truth(1)
      BY <1>8, <2>2 DEF ComparisonMeaning, IsUnknown
    <3>2. k = "CmpNull"
      BY <1>6, <1>16, <2>1, <2>2 DEF Free, NullMeaning
    <3>3. TruthOfCmp(k) = 1
      BY <3>2 DEF TruthOfCmp
    <3> QED
      BY <1>11, <1>16, <3>1, <3>2, <3>3
  <2>3. CASE ~r.null /\ now = Free
    <3>1. ComparisonMeaning(cmp, now, r) = Free
      BY <1>8, <2>3 DEF ComparisonMeaning, IsUnknown, Free, NullMeaning, Truth
    <3> QED
      BY <1>10, <1>12, <3>1
  <2> QED
    BY <1>3, <2>1, <2>2, <2>3
<1> QED
  BY <1>2, <1>13, <1>14, <1>15, <1>16 DEF DataTypes


LEMMA LogicKeeps ==
  ASSUME NEW logic \in {"and", "or"}, NEW r \in Literals, IInv, LogicNode(logic, r)
  PROVE  IInv'
<1>1. PICK v, m, w, e : v = acc /\ m = meaning /\ w = acc' /\ e = meaning'
  OBVIOUS
<1>2. Sound(v, "BOOLEAN", m) /\ v # Thrown /\ r.type = "BOOLEAN"
  BY <1>1 DEF IInv, LogicNode, LogicType
<1>3. IsValue(r) /\ r.null \in BOOLEAN
  BY LiteralAssumption, ValueFacts
<1>4. /\ IsValue(v) /\ v.type = "BOOLEAN" /\ NowOf(v, m) = m
      /\ m = Truth(TruthOf(v)) /\ TruthOf(v) \in 0 .. 2
  BY <1>2, BooleanHeld
<1>5. v.null \in BOOLEAN
  BY <1>4, ValueFacts
<1>6. e = LogicMeaning(logic, m, r)
  BY <1>1, <1>4 DEF LogicNode, Now, NowOf
<1>7. PICK i, j : i = get_bool_as_cmp_bool(v) /\ j = get_bool_as_cmp_bool(r)
  OBVIOUS
<1>8. /\ i \in {"CmpTrue", "CmpFalse", "CmpNull"} /\ TruthOfCmp(i) = TruthOf(v)
      /\ j \in {"CmpTrue", "CmpFalse", "CmpNull"} /\ TruthOfCmp(j) = TruthOf(r)
  BY <1>7 DEF get_bool_as_cmp_bool, TruthOfCmp, TruthOf
<1>9. PICK k \in {"CmpTrue", "CmpFalse", "CmpNull"} :
        /\ w = BooleanValue(k)
        /\ k = IF logic = "and"
               THEN IF "CmpFalse" \in {i, j} THEN "CmpFalse"
                    ELSE IF i = "CmpTrue" /\ j = "CmpTrue" THEN "CmpTrue" ELSE "CmpNull"
               ELSE IF "CmpTrue" \in {i, j} THEN "CmpTrue"
                    ELSE IF i = "CmpFalse" /\ j = "CmpFalse" THEN "CmpFalse" ELSE "CmpNull"
  <2>1. w \in EvaluateLogic(logic, v, r)
    BY <1>1 DEF LogicNode
  <2>2. CASE logic = "and"
    BY <1>7, <1>8, <2>1, <2>2 DEF EvaluateLogic
  <2>3. CASE logic = "or"
    BY <1>7, <1>8, <2>1, <2>3 DEF EvaluateLogic
  <2> QED
    BY <2>2, <2>3
<1>10. e = Truth(TruthOfCmp(k))
  <2>1. PICK a, b : a = TruthOf(v) /\ b = TruthOf(r)
    OBVIOUS
  <2>2. m.n = a
    BY <1>4, <2>1 DEF Truth
  <2>3. e = Truth(IF (logic = "and") <=> (a < b) THEN a ELSE b)
    BY <1>6, <2>1, <2>2 DEF LogicMeaning
  <2>4. a = TruthOfCmp(i) /\ b = TruthOfCmp(j)
    BY <1>8, <2>1
  <2> QED
    BY <1>8, <1>9, <2>3, <2>4 DEF TruthOfCmp
<1>11. Sound(w, "BOOLEAN", e)
  BY <1>9, <1>10, TruthIsSound
<1> QED
  BY <1>1, <1>11 DEF IInv, LogicNode


(***************************************************************************)
(* Extremes, square roots and casts.                                       *)
(***************************************************************************)
LEMMA CopyNumberIs ==
  ASSUME NEW v, IsValue(v), v.type \in Numeric, ~v.null
  PROVE  CopyNumber(v) = v
<1>1. CASE v.type \in IntegerTypes
  <2>1. PICK t \in IntegerTypes, n \in MIN(v.type) .. (MAX(v.type)) :
          t = v.type /\ n = v.raw[1] /\ v = [type |-> t, null |-> FALSE, raw |-> <<n>>]
    BY <1>1, IntegerFacts
  <2>2. (n = Lowest(t)) = FALSE
    BY <2>1, LimitsAre DEF Sized
  <2>3. MakeInteger(t, n) = [type |-> t, null |-> n = Lowest(t), raw |-> <<n>>]
    BY MadeInteger DEF Sized
  <2>4. MakeInteger(t, n) = v
    BY <2>1, <2>2, <2>3, Zenon
  <2>5. CopyNumber(v) = MakeInteger(t, n)
    BY <2>1 DEF CopyNumber, IntegerTypes
  <2> QED
    BY <2>4, <2>5
<1>2. CASE v.type = "DECIMAL"
  <2>1. PICK n : n = v.raw[1] /\ n \in DoubleNumbers /\ v = [type |-> "DECIMAL", null |-> FALSE, raw |-> <<n>>]
    BY <1>2, DecimalFacts
  <2>2. CopyNumber(v) = MakeDecimal(n)
    BY <1>2, <2>1 DEF CopyNumber
  <2> QED
    BY <2>1, <2>2, DoublesAreValues
<1> QED
  BY <1>1, <1>2 DEF Numeric

LEMMA ExtremeOfNull ==
  ASSUME NEW op, NEW l, NEW r, l.type \in Numeric, r.type \in Numeric, l.null \/ r.null,
         NEW w \in ValueExtreme(op, l, r)
  PROVE  \E t \in Numeric : IsNull(w, t)
<1>1. CASE l.type = "TINYINT"
  BY <1>1, NullTables DEF ValueExtreme, TinyintExtreme, Extreme
<1>2. CASE l.type = "SMALLINT"
  BY <1>2, NullTables DEF ValueExtreme, SmallintExtreme, Extreme
<1>3. CASE l.type = "INTEGER"
  BY <1>3, NullTables DEF ValueExtreme, IntegerExtreme, Extreme
<1>4. CASE l.type = "BIGINT"
  BY <1>4, NullTables DEF ValueExtreme, BigintExtreme, Extreme
<1>5. CASE l.type = "DECIMAL"
  BY <1>5, NullDecimalIsNull DEF ValueExtreme, DecimalExtreme, DecimalNull, Numeric
<1> QED
  BY <1>1, <1>2, <1>3, <1>4, <1>5 DEF Numeric, IntegerTypes

(* The integers ask for a strict comparison, DECIMAL does not: on equal    *)
(* numbers they pick different operands.                                   *)
LEMMA ExtremeOfNumbers ==
  ASSUME NEW op \in {"min", "max"}, NEW l, NEW r, IsValue(l), IsValue(r),
         l.type \in Numeric, r.type \in Numeric,
         ~l.null, ~r.null, NEW w \in ValueExtreme(op, l, r)
  PROVE  LET a == Seen(l, r)  b == Seen(r, l)
         IN  \/ w = CopyNumber(l) /\ (IF op = "min" THEN a <= b ELSE a >= b)
             \/ w = CopyNumber(r) /\ (IF op = "min" THEN a >= b ELSE a <= b)
<1>1. PICK a \in Int, b \in Int : a = Seen(l, r) /\ b = Seen(r, l)
  BY NumbersCompare DEF Comparisons
<1>2. CASE l.type \in IntegerTypes
  <2>1. ExtremeCmp(op) \in Comparisons
    BY DEF ExtremeCmp, Comparisons
  <2>2. CompareNumbers(ExtremeCmp(op), l, r) = CmpBool(Holds(ExtremeCmp(op), a, b))
    BY <1>1, <2>1, NumbersCompare
  <2>3. w = IF CompareNumbers(ExtremeCmp(op), l, r) = "CmpTrue" THEN CopyNumber(l) ELSE CopyNumber(r)
    <3>1. CompareNumbers(ExtremeCmp(op), l, r) # "Throw"
      BY <2>2 DEF CmpBool
    <3> QED
      BY <1>2, <3>1 DEF ValueExtreme, TinyintExtreme, SmallintExtreme, IntegerExtreme, BigintExtreme,
                        Extreme, IntegerTypes
  <2>4. CompareNumbers(ExtremeCmp(op), l, r) = "CmpTrue" <=> Holds(ExtremeCmp(op), a, b)
    BY <2>2 DEF CmpBool
  <2>5. Holds(ExtremeCmp(op), a, b) <=> IF op = "min" THEN a < b ELSE a > b
    BY DEF Holds, ExtremeCmp
  <2> QED
    BY <1>1, <2>3, <2>4, <2>5
<1>3. CASE l.type = "DECIMAL"
  <2> DEFINE strict == IF op = "min" THEN "<=" ELSE ">="
  <2>1. strict \in Comparisons
    BY DEF Comparisons
  <2>2. CompareNumbers(strict, l, r) = CmpBool(Holds(strict, a, b))
    BY <1>1, <2>1, NumbersCompare
  <2>3. w = IF CompareNumbers(strict, l, r) = "CmpTrue" THEN CopyNumber(l) ELSE CopyNumber(r)
    <3>1. CompareNumbers(strict, l, r) # "Throw"
      BY <2>2 DEF CmpBool
    <3> QED
      BY <1>3, <3>1 DEF ValueExtreme, DecimalExtreme
  <2>4. CompareNumbers(strict, l, r) = "CmpTrue" <=> Holds(strict, a, b)
    BY <2>2 DEF CmpBool
  <2>5. Holds(strict, a, b) <=> IF op = "min" THEN a <= b ELSE a >= b
    BY DEF Holds
  <2> QED
    BY <1>1, <2>3, <2>4, <2>5
<1> QED
  BY <1>2, <1>3 DEF Numeric

LEMMA VarcharsAreValues ==
  ASSUME NEW text \in Seq(Int)
  PROVE  /\ IsValue(MakeVarchar(text)) /\ MakeVarchar(text).type = "VARCHAR"
         /\ ~MakeVarchar(text).null
BY DEF IsValue, MakeVarchar

LEMMA NullVarcharIsNull ==
  IsNull(NullVarchar, "VARCHAR")
BY UnwrittenIsNull DEF NullVarchar, DataTypes

LEMMA VarcharCopies ==
  ASSUME NEW v, IsValue(v), NEW w \in VarcharCopy(v)
  PROVE  IsValue(w) /\ w.type = "VARCHAR" /\ (w.null <=> v.null)
<1>1. CASE v.null
  BY <1>1, NullVarcharIsNull DEF VarcharCopy, IsNull
<1>2. CASE ~v.null
  <2>1. PICK b \in Letters : w = MakeVarchar(v.raw \o <<b>>)
    BY <1>2 DEF VarcharCopy
  <2>2. v.raw \in Seq(Int) /\ b \in Int
    BY ValueFacts, LettersAssumption
  <2>3. v.raw \o <<b>> \in Seq(Int)
    BY <2>2
  <2> QED
    BY <1>2, <2>1, <2>3, VarcharsAreValues
<1> QED
  BY <1>1, <1>2

LEMMA ExtremeOutcomes ==
  ASSUME NEW op, NEW l, NEW r, IsValue(l), IsValue(r),
         l.type \notin Numeric \/ r.type \notin Numeric, NEW w \in ValueExtreme(op, l, r)
  PROVE  w = Thrown \/ IsValue(w)
<1>1. CASE l.type \in Numeric
  <2>1. r.type \notin Numeric
    BY <1>1
  <2>2. CompareNumbers(ExtremeCmp(op), l, r) = "Throw" \/ l.null \/ r.null
    BY <2>1 DEF CompareNumbers
  <2>3. /\ TinyintNull(r) = Thrown /\ SmallintNull(r) = Thrown
        /\ IntegerNull(r) = Thrown /\ BigintNull(r) = Thrown
    BY <2>1 DEF TinyintNull, SmallintNull, IntegerNull, BigintNull, Numeric, IntegerTypes
  <2>4. CASE l.type \in IntegerTypes
    BY <2>2, <2>3, <2>4 DEF ValueExtreme, TinyintExtreme, SmallintExtreme, IntegerExtreme,
                            BigintExtreme, Extreme, IntegerTypes
  <2>5. CASE l.type = "DECIMAL"
    BY <2>1, <2>5, NullDecimalIsNull
    DEF ValueExtreme, DecimalExtreme, DecimalNull, CompareNumbers, IsNull
  <2> QED
    BY <1>1, <2>4, <2>5 DEF Numeric
<1>2. CASE l.type = "BOOLEAN"
  BY <1>2 DEF ValueExtreme, NotImplemented
<1>3. CASE l.type = "VARCHAR"
  <2>1. w \in VarcharExtreme(op, l, r)
    BY <1>3 DEF ValueExtreme
  <2> QED
    BY <2>1, VarcharCopies DEF VarcharExtreme
<1>4. CASE l.type = "TIMESTAMP"
  BY <1>4 DEF ValueExtreme, TimestampExtreme
<1>5. l.type \in DataTypes
  BY ValueFacts
<1> QED
  BY <1>1, <1>2, <1>3, <1>4, <1>5 DEF DataTypes

LEMMA ExtremeKeeps ==
  ASSUME NEW op \in {"min", "max"}, NEW r \in Literals, IInv, ExtremeOf(op, r)
  PROVE  IInv'
<1>1. PICK v, d, m, w, c, e : v = acc /\ d = declared /\ m = meaning
                              /\ w = acc' /\ c = declared' /\ e = meaning'
  OBVIOUS
<1>2. Sound(v, d, m) /\ v # Thrown /\ IsValue(v) /\ d \in DataTypes /\ OfKind(v, d)
  BY <1>1 DEF IInv, ExtremeOf, Sound
<1>3. IsValue(r) /\ r.null \in BOOLEAN
  BY LiteralAssumption, ValueFacts
<1>4. w \in ValueExtreme(op, v, r) /\ c = IF w = Thrown THEN d ELSE w.type
  BY <1>1 DEF ExtremeOf
<1>5. Now = NowOf(v, m)
  BY <1>1 DEF Now, NowOf
<1>6. SUFFICES Sound(w, c, e)
  BY <1>1 DEF IInv
<1>7. CASE v.type \notin Numeric \/ r.type \notin Numeric
  <2>1. e = Restart(w)
    BY <1>1, <1>7 DEF ExtremeOf
  <2>2. w = Thrown \/ IsValue(w)
    BY <1>2, <1>3, <1>4, <1>7, ExtremeOutcomes
  <2>3. w = Thrown \/ (IsValue(w) /\ OfKind(w, c))
    BY <1>4, <2>2 DEF OfKind
  <2>4. c \in DataTypes
    BY <1>2, <1>4, <2>2, ValueFacts
  <2> QED
    BY <2>1, <2>3, <2>4, Restarted
<1>8. CASE v.type \in Numeric /\ r.type \in Numeric
  <2>1. /\ v.null \in BOOLEAN
        /\ v.null => Now = NullMeaning
        /\ ~v.null => v.type = d /\ m = Number(Halves(v)) /\ Halves(v) \in Int /\ Now = m
    BY <1>2, <1>5, <1>8, NumericHeld DEF OfKind
  <2>2. e = IF NullMeaning \in {Now, Denotes(r)} THEN NullMeaning
            ELSE IF NumbersRelate("==", v.type, m.n, r.type, Denotes(r).n)
            THEN IF w.type = v.type THEN m ELSE Denotes(r)
            ELSE IF (op = "min") = NumbersRelate("<", v.type, m.n, r.type, Denotes(r).n)
            THEN m ELSE Denotes(r)
    BY <1>1, <1>8 DEF ExtremeOf
  <2>3. CASE v.null \/ r.null
    <3>1. e = NullMeaning
      BY <1>3, <1>8, <2>1, <2>2, <2>3, Denoted
    <3>2. PICK t \in Numeric : IsNull(w, t)
      BY <1>4, <1>8, <2>3, ExtremeOfNull
    <3>3. c = t /\ c \in Numeric
      BY <1>4, <3>2, ValueFacts DEF IsNull
    <3> QED
      BY <3>1, <3>2, <3>3, NullIsSound
  <2>4. CASE ~v.null /\ ~r.null
    <3>1. PICK a \in Int, b \in Int : a = Halves(v) /\ b = Halves(r)
      BY <1>3, <1>8, <2>1, <2>4, NumberFacts
    <3>2. m = Number(a) /\ Denotes(r) = Number(b) /\ Now = m
      BY <1>3, <1>8, <2>1, <2>4, <3>1, Denoted
    <3>3. PICK x \in Int, y \in Int : x = Seen(v, r) /\ y = Seen(r, v)
      BY <1>2, <1>3, <1>8, <2>4, NumbersCompare DEF Comparisons
    <3>4. e = IF x = y THEN IF w.type = v.type THEN Number(a) ELSE Number(b)
              ELSE IF (op = "min") <=> (x < y) THEN Number(a) ELSE Number(b)
      <4>1. /\ NumbersRelate("==", v.type, a, r.type, b) <=> Holds("==", x, y)
            /\ NumbersRelate("<", v.type, a, r.type, b) <=> Holds("<", x, y)
        BY <1>2, <1>3, <1>8, <2>4, <3>1, <3>3, NumbersCompare DEF Comparisons
      <4>2. /\ NumbersRelate("==", v.type, a, r.type, b) <=> x = y
            /\ NumbersRelate("<", v.type, a, r.type, b) <=> x < y
        BY <4>1 DEF Holds
      <4>3. m.n = a /\ Denotes(r).n = b /\ NullMeaning \notin {Now, Denotes(r)}
        BY <3>2 DEF Number, NullMeaning
      <4>4. e = IF NumbersRelate("==", v.type, a, r.type, b)
                THEN IF w.type = v.type THEN Number(a) ELSE Number(b)
                ELSE IF (op = "min") = NumbersRelate("<", v.type, a, r.type, b)
                THEN Number(a) ELSE Number(b)
        BY <2>2, <3>2, <4>3
      <4> QED
        BY <4>2, <4>4 DEF NumbersRelate, Holds
    <3>5. \/ w = v /\ (IF op = "min" THEN x <= y ELSE x >= y)
          \/ w = r /\ (IF op = "min" THEN x >= y ELSE x <= y)
      <4>1. CopyNumber(v) = v /\ CopyNumber(r) = r
        BY <1>2, <1>3, <1>8, <2>4, CopyNumberIs
      <4> QED
        BY <1>2, <1>3, <1>4, <1>8, <2>4, <3>3, <4>1, ExtremeOfNumbers
    <3>6. Number(Halves(w)) = e
      <4>1. CASE x # y
        BY <3>1, <3>3, <3>4, <3>5, <4>1
      <4>2. CASE x = y /\ v.type # r.type
        BY <3>1, <3>4, <3>5, <4>2
      <4>3. CASE x = y /\ v.type = r.type
        <5>1. x = a /\ y = b
          BY <3>1, <3>3, <4>3 DEF Seen, ToDouble, Halves
        <5> QED
          BY <3>1, <3>4, <3>5, <4>3, <5>1
      <4> QED
        BY <4>1, <4>2, <4>3
    <3>7. IsValue(w) /\ ~w.null /\ w.type \in Numeric
      BY <1>2, <1>3, <1>8, <2>4, <3>5
    <3>8. c = w.type
      BY <1>4, <3>7, ValueFacts
    <3> QED
      BY <3>6, <3>7, <3>8, NumberIsSound
  <2> QED
    BY <1>3, <2>1, <2>3, <2>4
<1> QED
  BY <1>7, <1>8


(* The root of a number, when it has one, is one number. *)
LEMMA RootIsOne ==
  ASSUME NEW j \in Nat, NEW k \in Nat, j * j = k * k
  PROVE  j = k
<1>1. CASE j < k
  <2>1. j * j <= j * k /\ j * k <= k * k /\ (j + 1) * k <= k * k
    BY <1>1
  <2> QED
    BY <1>1, <2>1
<1>2. CASE k < j
  <2>1. k * k <= k * j /\ k * j <= j * j /\ (k + 1) * j <= j * j
    BY <1>2
  <2> QED
    BY <1>2, <2>1
<1> QED
  BY <1>1, <1>2

LEMMA SqrtOutcomes ==
  ASSUME NEW v, IsValue(v), NEW w \in ValueSqrt(v)
  PROVE  /\ v.type \notin Numeric => w = Thrown
         /\ v.type \in Numeric /\ v.null => \E t \in Numeric : IsNull(w, t)
         /\ v.type \in Numeric /\ ~v.null =>
              IF Halves(v) < 0 THEN w = Thrown ELSE w \in DoubleSqrt(ToDouble(v))
<1>1. CASE v.type \notin Numeric
  BY <1>1 DEF ValueSqrt, NotImplemented, Numeric, IntegerTypes
<1>2. CASE v.type \in Numeric /\ v.null
  <2>1. IsNull(NullDecimal, "DECIMAL") /\ \E t \in Numeric : IsNull(IntegerNull(v), t)
    BY <1>2, NullDecimalIsNull, NullTables
  <2> QED
    BY <1>2, <2>1
    DEF ValueSqrt, TinyintSqrt, SmallintSqrt, IntegerSqrt, BigintSqrt, DecimalSqrt, Numeric, IntegerTypes
<1>3. CASE v.type \in IntegerTypes /\ ~v.null
  <2>1. PICK n \in Int : n = v.raw[1] /\ Halves(v) = 2 * n
    BY <1>3, IntegerFacts, LimitsAre DEF Sized
  <2>2. w \in IF n < 0 THEN {Thrown} ELSE DoubleSqrt(ToDouble(v))
    BY <1>3, <2>1 DEF ValueSqrt, TinyintSqrt, SmallintSqrt, IntegerSqrt, BigintSqrt, IntegerTypes
  <2> QED
    BY <1>3, <2>1, <2>2 DEF Numeric
<1>4. CASE v.type = "DECIMAL" /\ ~v.null
  <2>1. PICK n \in Int : n = v.raw[1] /\ Halves(v) = n /\ ToDouble(v) = n
    BY <1>4, DecimalFacts DEF ToDouble
  <2>2. w \in IF n < 0 THEN {Thrown} ELSE DoubleSqrt(n)
    BY <1>4, <2>1 DEF ValueSqrt, DecimalSqrt
  <2> QED
    BY <1>4, <2>1, <2>2 DEF Numeric
<1> QED
  BY <1>1, <1>2, <1>3, <1>4 DEF Numeric

LEMMA SqrtKeeps ==
  ASSUME IInv, SqrtOf
  PROVE  IInv'
<1>1. PICK v, d, m, w, e : v = acc /\ d = declared /\ m = meaning /\ w = acc' /\ e = meaning'
  OBVIOUS
<1>2. Sound(v, d, m) /\ v # Thrown /\ IsValue(v) /\ d \in DataTypes /\ OfKind(v, d)
  BY <1>1 DEF IInv, SqrtOf, Sound
<1>3. w \in ValueSqrt(v)
  BY <1>1 DEF SqrtOf
<1>4. Now = NowOf(v, m)
  BY <1>1 DEF Now, NowOf
<1>5. SUFFICES Sound(w, "DECIMAL", e)
  BY <1>1 DEF IInv, SqrtOf
<1>6. "DECIMAL" \in Numeric /\ "DECIMAL" \in DataTypes
  BY DEF Numeric, DataTypes
<1>7. e = IF Now.kind # "number" \/ Now.n < 0 THEN Restart(w)
          ELSE Number(CHOOSE k \in 0 .. AsDouble(d, m.n) + 2 : k * k = 2 * AsDouble(d, m.n))
  BY <1>1 DEF SqrtOf
<1>8. CASE v.type \notin Numeric
  <2>1. w = Thrown
    BY <1>2, <1>3, <1>8, SqrtOutcomes
  <2>2. NowOf(v, m) = m /\ m.kind # "number"
    <3>1. d \notin Numeric /\ m.kind \in {"truth", "null", "free"}
      BY <1>2, <1>8 DEF OfKind, Sound, MeantFor, DataTypes
    <3> QED
      BY <3>1 DEF NowOf
  <2> QED
    BY <1>4, <1>6, <1>7, <2>1, <2>2, Restarted
<1>9. CASE v.type \in Numeric
  <2>1. /\ v.null \in BOOLEAN
        /\ v.null => Now = NullMeaning
        /\ ~v.null => v.type = d /\ m = Number(Halves(v)) /\ Halves(v) \in Int /\ Now = m
    BY <1>2, <1>4, <1>9, NumericHeld DEF OfKind
  <2>2. CASE v.null
    <3>1. PICK t \in Numeric : IsNull(w, t)
      BY <1>2, <1>3, <1>9, <2>2, SqrtOutcomes
    <3>2. e = Restart(w)
      BY <1>7, <2>1, <2>2 DEF NullMeaning
    <3>3. IsValue(w) /\ OfKind(w, "DECIMAL")
      BY <1>6, <3>1 DEF IsNull, OfKind
    <3> QED
      BY <1>6, <3>2, <3>3, Restarted
  <2>3. CASE ~v.null
    <3>1. PICK a \in Int : a = Halves(v) /\ Now.kind = "number" /\ Now.n = a /\ m.n = a
      BY <2>1, <2>3 DEF Number
    <3>2. PICK b \in Int : /\ b = AsDouble(d, m.n)
                           /\ IF a < 0 THEN w = Thrown ELSE w \in DoubleSqrt(b)
      BY <1>2, <1>3, <1>9, <2>1, <2>3, <3>1, SqrtOutcomes, ToDoubleIs
    <3>3. CASE a < 0
      BY <1>6, <1>7, <3>1, <3>2, <3>3, Restarted
    <3>4. CASE a >= 0
      <4>1. PICK k \in 0 .. b + 2 : k * k = 2 * b /\ w = MakeDecimal(k) /\ k \in DoubleNumbers
        BY <3>2, <3>4 DEF DoubleSqrt
      <4>2. PICK j : j = CHOOSE i \in 0 .. AsDouble(d, m.n) + 2 : i * i = 2 * AsDouble(d, m.n)
        OBVIOUS
      <4>3. j \in 0 .. b + 2 /\ j * j = 2 * b
        BY <3>2, <4>1, <4>2
      <4>4. j = k
        BY <4>1, <4>3, RootIsOne
      <4>5. e = Number(k)
        <5>1. ~(Now.kind # "number" \/ Now.n < 0)
          BY <3>1, <3>4
        <5> QED
          BY <1>7, <4>2, <4>4, <5>1, Zenon
      <4> QED
        BY <4>1, <4>5, DoubleIsSound
    <3> QED
      BY <3>1, <3>3, <3>4
  <2> QED
    BY <2>1, <2>2, <2>3
<1> QED
  BY <1>8, <1>9


(* What reading the union of a value may find. *)
LEMMA ReadIs ==
  ASSUME NEW v, IsValue(v), NEW n \in Read(v)
  PROVE  /\ v.type \in IntegerTypes => n \in Lowest(v.type) .. (MAX(v.type))
         /\ v.type = "DECIMAL" => n \in DoubleNumbers \/ n = DecimalLowest
         /\ v.type = "BOOLEAN" => n \in {0, 1, Lowest("BOOLEAN")}
         /\ v.type = "TIMESTAMP" => n \in 0 .. TimestampNull
         /\ v.raw # <<>> => n = v.raw[1]
<1>1. CASE v.type \in IntegerTypes
  <2>1. PICK t \in IntegerTypes : t = v.type
    BY <1>1
  <2>2. CASE v.raw = <<>>
    BY <2>1, <2>2 DEF Read, BitsOf, IntegerTypes
  <2>3. CASE v.raw # <<>>
    <3>1. PICK i \in Lowest(t) .. (MAX(t)) : v = MakeInteger(t, i)
      BY <2>1, <2>3, ShapeOfInteger DEF Uninitialised
    <3>2. v.raw = <<i>>
      BY <3>1, MadeInteger DEF Sized
    <3> QED
      BY <2>1, <2>3, <3>2 DEF Read, IntegerTypes
  <2> QED
    BY <2>2, <2>3
<1>2. CASE v.type = "DECIMAL"
  <2>1. 0 \in DoubleNumbers
    BY SmallDoubles
  <2>2. CASE v.raw = <<>>
    BY <1>2, <2>1, <2>2 DEF Read, BitsOf, IntegerTypes
  <2>3. CASE v.raw # <<>>
    <3>1. PICK i : v = MakeDecimal(i) /\ (i \in DoubleNumbers \/ i = DecimalLowest)
      BY <1>2, <2>3, ShapeOfDecimal DEF Uninitialised, NullDecimal
    <3>2. v.raw = <<i>>
      BY <3>1 DEF MakeDecimal
    <3> QED
      BY <1>2, <2>3, <3>1, <3>2 DEF Read, IntegerTypes
  <2> QED
    BY <2>2, <2>3
<1>3. CASE v.type = "BOOLEAN"
  <2>1. CASE v.raw = <<>>
    BY <1>3, <2>1 DEF Read, BitsOf, IntegerTypes
  <2>2. CASE v.raw # <<>>
    <3>1. PICK i \in {0, 1, Lowest("BOOLEAN")} : v = MakeInteger("BOOLEAN", i)
      BY <1>3, <2>2, ShapeOfBoolean DEF Uninitialised
    <3>2. v.raw = <<i>>
      BY <3>1, MadeInteger DEF Sized
    <3> QED
      BY <1>3, <2>2, <3>2 DEF Read, IntegerTypes
  <2> QED
    BY <2>1, <2>2
<1>4. CASE v.type = "TIMESTAMP"
  <2>1. CASE v.raw = <<>>
    BY <1>4, <2>1 DEF Read, BitsOf, IntegerTypes
  <2>2. CASE v.raw # <<>>
    <3>1. PICK i \in 0 .. TimestampNull : v \in {MakeTimestamp(i), TimestampFromSigned(i)}
      BY <1>4, <2>2, ShapeOfTimestamp DEF Uninitialised
    <3>2. v.raw = <<i>>
      BY <3>1 DEF MakeTimestamp, TimestampFromSigned
    <3> QED
      BY <1>4, <2>2, <3>2 DEF Read, IntegerTypes
  <2> QED
    BY <2>1, <2>2
<1>5. v.raw # <<>> => n = v.raw[1]
  BY DEF Read
<1> QED
  BY <1>1, <1>2, <1>3, <1>4, <1>5 DEF IntegerTypes

LEMMA MadeDecimals ==
  ASSUME NEW n, n \in DoubleNumbers \/ n = DecimalLowest
  PROVE  IsValue(MakeDecimal(n)) /\ MakeDecimal(n).type = "DECIMAL"
<1>1. CASE n \in DoubleNumbers
  BY <1>1, DoublesAreValues
<1>2. CASE n = DecimalLowest
  BY <1>2, NullDecimalIsNull DEF NullDecimal, IsNull
<1> QED
  BY <1>1, <1>2

LEMMA MadeBooleans ==
  ASSUME NEW n \in {0, 1, Lowest("BOOLEAN")}
  PROVE  IsValue(MakeInteger("BOOLEAN", n)) /\ MakeInteger("BOOLEAN", n).type = "BOOLEAN"
BY MadeInteger DEF IsValue, Sized

LEMMA MadeIntegers ==
  ASSUME NEW t \in IntegerTypes, NEW n \in Lowest(t) .. (MAX(t))
  PROVE  IsValue(MakeInteger(t, n)) /\ MakeInteger(t, n).type = t
BY IntegersAreValues, MadeInteger DEF Sized

(* A number that is cast: exact, without its fraction in an integer,       *)
(* rounded in a DECIMAL, or out of the range of the type.                  *)
LEMMA CastOfInteger ==
  ASSUME NEW v, IsValue(v), v.type \in IntegerTypes, ~v.null, NEW to \in Numeric,
         NEW w \in CastInteger(v, to)
  PROVE  Sound(w, to, CastMeaning(Number(Halves(v)), v.type, to))
<1>1. PICK t \in IntegerTypes, n \in Int : t = v.type /\ n = v.raw[1]
  BY IntegerFacts, LimitsAre DEF Sized
<1>2. n \in MIN(t) .. (MAX(t)) /\ Halves(v) = 2 * n
  BY <1>1, IntegerFacts
<1>3. CASE to = "DECIMAL"
  <2>1. w \in Doubles(2 * n)
    BY <1>1, <1>2, <1>3 DEF CastInteger
  <2>2. w = MakeDecimal(Nearest[2 * n]) /\ Nearest[2 * n] \in DoubleNumbers
    BY <1>1, <2>1, DoublesAre, NearestIsDouble
  <2>3. CastMeaning(Number(2 * n), t, to) = Number(Nearest[2 * n])
    BY <1>1, <1>3 DEF CastMeaning, AsDouble, Number, IntegerTypes
  <2> QED
    BY <1>1, <1>2, <1>3, <2>2, <2>3, DoubleIsSound
<1>4. CASE to \in IntegerTypes
  <2>1. PICK h \in Nat \ {0}, g \in Nat \ {0} : /\ h = Half[t] /\ MIN(t) = 1 - h /\ MAX(t) = h - 1
                                                /\ g = Half[to] /\ MIN(to) = 1 - g /\ MAX(to) = g - 1
                                                /\ Lowest(to) = -g
    BY <1>4, LimitsAre DEF Sized
  <2>2. Quotient(2 * n, 2) = n
    BY <1>1 DEF Quotient
  <2>3. CASE n \in MIN(to) .. (MAX(to))
    <3>1. w = MakeInteger(to, n)
      <4>1. ~(n > MAX(to) \/ n < MIN(to)) /\ to # "DECIMAL"
        BY <1>1, <1>4, <2>1, <2>3 DEF IntegerTypes
      <4> QED
        BY <1>1, <4>1 DEF CastInteger
    <3>2. n \in Lowest(to) .. (MAX(to)) /\ 2 * n \in 2 * MIN(to) .. 2 * MAX(to)
      BY <1>1, <2>1, <2>3
    <3>3. CastMeaning(Number(2 * n), t, to) = Number(2 * n)
      BY <1>4, <2>2, <3>2 DEF CastMeaning, Number, IntegerTypes
    <3> QED
      BY <1>1, <1>2, <1>4, <3>1, <3>2, <3>3, IntegerIsSound
  <2>4. CASE n \notin MIN(to) .. (MAX(to))
    <3>1. ~(Half[to] >= Half[t])
      BY <1>1, <1>2, <2>1, <2>4
    <3>2. w = Thrown
      BY <1>1, <1>4, <2>1, <2>4, <3>1 DEF CastInteger, IntegerTypes
    <3>3. 2 * n \in Int /\ 2 * n \notin 2 * MIN(to) .. 2 * MAX(to)
      BY <1>1, <2>1, <2>4
    <3>4. CastMeaning(Number(2 * n), t, to) = Number(2 * n)
      BY <1>4, <3>3 DEF CastMeaning, Number, IntegerTypes
    <3> QED
      BY <1>1, <1>2, <1>4, <3>2, <3>3, <3>4, TooWideIsSound
  <2> QED
    BY <2>3, <2>4
<1> QED
  BY <1>3, <1>4 DEF Numeric

LEMMA CastOfDecimal ==
  ASSUME NEW v, IsValue(v), v.type = "DECIMAL", ~v.null, NEW to \in Numeric,
         NEW w \in DecimalCast(v, to)
  PROVE  Sound(w, to, CastMeaning(Number(Halves(v)), v.type, to))
<1>1. PICK n \in Int : n = v.raw[1] /\ n \in DoubleNumbers /\ Halves(v) = n /\ v.raw = <<n>>
  BY DecimalFacts
<1>2. CASE to = "DECIMAL"
  <2>1. w = MakeDecimal(n)
    BY <1>1, <1>2 DEF DecimalCast, Read, IntegerTypes
  <2>2. CastMeaning(Number(n), "DECIMAL", to) = Number(n)
    BY <1>2 DEF CastMeaning, AsDouble, Number
  <2> QED
    BY <1>1, <1>2, <2>1, <2>2, DoubleIsSound
<1>3. CASE to \in IntegerTypes
  <2>1. PICK g \in Nat \ {0} : g = Half[to] /\ MIN(to) = 1 - g /\ MAX(to) = g - 1 /\ Lowest(to) = -g
    BY <1>3, LimitsAre DEF Sized
  <2>2. PICK q \in Int : q = Quotient(n, 2)
    BY QuotientType
  <2>3. ASSUME n \in 2 * MIN(to) .. 2 * MAX(to), w = MakeInteger(to, q)
        PROVE  Sound(w, to, CastMeaning(Number(n), "DECIMAL", to))
    <3>1. CastMeaning(Number(n), "DECIMAL", to) = Number(2 * q)
      BY <1>3, <2>2, <2>3 DEF CastMeaning, Number, IntegerTypes
    <3>2. q \in Lowest(to) .. (MAX(to))
      BY <2>1, <2>2, <2>3 DEF Quotient
    <3> QED
      BY <1>3, <2>3, <3>1, <3>2, IntegerIsSound
  <2>4. ASSUME n \notin 2 * MIN(to) .. 2 * MAX(to), w = Thrown
        PROVE  Sound(w, to, CastMeaning(Number(n), "DECIMAL", to))
    <3>1. CastMeaning(Number(n), "DECIMAL", to) = Number(n)
      BY <1>3, <2>4 DEF CastMeaning, Number, IntegerTypes
    <3> QED
      BY <1>3, <2>4, <3>1, TooWideIsSound
  <2>5. CASE to # "BIGINT"
    <3>1. w = IF n > 2 * MAX(to) \/ n < 2 * MIN(to) THEN Thrown ELSE MakeInteger(to, q)
      BY <1>1, <1>3, <2>2, <2>5 DEF DecimalCast, IntegerTypes
    <3> QED
      BY <1>1, <2>1, <2>3, <2>4, <3>1
  <2>6. CASE to = "BIGINT"
    <3>1. w = IF n >= 2 * (MAX(to) + 1) \/ n < 2 * Lowest(to) THEN Thrown ELSE MakeInteger(to, q)
      BY <1>1, <1>3, <2>2, <2>6 DEF DecimalCast, IntegerTypes
    <3>2. CASE n \in 2 * MIN(to) .. 2 * MAX(to)
      BY <1>1, <2>1, <2>3, <3>1, <3>2
    <3>3. CASE n >= 2 * (MAX(to) + 1) \/ n < 2 * Lowest(to)
      BY <1>1, <2>1, <2>4, <3>1, <3>3
    <3>4. CASE /\ n \notin 2 * MIN(to) .. 2 * MAX(to)
               /\ ~(n >= 2 * (MAX(to) + 1) \/ n < 2 * Lowest(to))
      (* A whole number there is the sentinel: halves this large are gone. *)
      <4>1. n \in {-2 * g, 1 - 2 * g, 2 * g - 1}
        BY <1>1, <2>1, <3>4
      <4>2. n % 2 = 0
        <5>1. n % 2 = 1 => n \in -Mantissa .. Mantissa
          BY <1>1, DoubleFacts
        <5>2. Mantissa \in Nat /\ Mantissa < g
          BY <2>1, <2>6, SmallDoubles
        <5>3. n % 2 \in {0, 1}
          BY <1>1
        <5> QED
          BY <2>1, <4>1, <5>1, <5>2, <5>3
      <4>3. n = -2 * g
        BY <4>1, <4>2
      <4>4. q = Lowest(to) /\ n = 2 * q
        BY <2>1, <2>2, <4>3 DEF Quotient
      <4>5. w = MakeInteger(to, q)
        BY <3>1, <3>4
      <4>6. CastMeaning(Number(n), "DECIMAL", to) = Number(2 * q)
        BY <1>3, <3>4, <4>4 DEF CastMeaning, Number, IntegerTypes
      <4>7. q \in Lowest(to) .. (MAX(to))
        BY <2>1, <4>4
      <4> QED
        BY <1>1, <1>3, <4>5, <4>6, <4>7, IntegerIsSound
    <3> QED
      BY <3>2, <3>3, <3>4
  <2> QED
    BY <1>1, <2>5, <2>6
<1> QED
  BY <1>2, <1>3 DEF Numeric


LEMMA CastOfNull ==
  ASSUME NEW v, IsValue(v), v.type \in Numeric, v.null, NEW to \in Numeric,
         ~(to = v.type /\ Unwritten(v)), NEW w \in ValueCast(v, to)
  PROVE  IsNull(w, to)
<1>1. IsNull(NullOfType(to), to)
  BY NullsOfTypes
<1>2. CASE v.type \in IntegerTypes
  <2>1. w \in CastInteger(v, to)
    BY <1>2 DEF ValueCast, TinyintCast, SmallintCast, IntegerCast, BigintCast, Numeric, IntegerTypes
  <2> QED
    BY <1>1, <2>1 DEF CastInteger
<1>3. CASE v.type = "DECIMAL" /\ to \in IntegerTypes
  BY <1>1, <1>3 DEF ValueCast, DecimalCast, IntegerTypes
<1>4. CASE v.type = "DECIMAL" /\ to = "DECIMAL"
  <2>1. v.raw # <<>>
    BY <1>4 DEF Unwritten
  <2>2. v = NullDecimal
    <3>1. ASSUME NEW n, n \in DoubleNumbers, v = MakeDecimal(n) PROVE FALSE
      BY <3>1, DoublesAreValues
    <3> QED
      BY <1>4, <2>1, <3>1, ShapeOfDecimal DEF Uninitialised
  <2>3. PICK n \in Read(v) : w = MakeDecimal(n)
    BY <1>4 DEF ValueCast, DecimalCast, IntegerTypes
  <2>4. n = DecimalLowest
    BY <2>1, <2>2, NullDecimalIs DEF Read
  <2>5. w = NullDecimal
    BY <2>3, <2>4 DEF NullDecimal
  <2> QED
    BY <1>4, <2>5, NullDecimalIsNull
<1> QED
  BY <1>2, <1>3, <1>4 DEF Numeric

LEMMA CastOfNumber ==
  ASSUME NEW v, IsValue(v), v.type \in Numeric, ~v.null, NEW to \in Numeric,
         NEW w \in ValueCast(v, to)
  PROVE  Sound(w, to, CastMeaning(Number(Halves(v)), v.type, to))
<1>1. CASE v.type \in IntegerTypes
  <2>1. w \in CastInteger(v, to)
    BY <1>1 DEF ValueCast, TinyintCast, SmallintCast, IntegerCast, BigintCast, Numeric, IntegerTypes
  <2> QED
    BY <1>1, <2>1, CastOfInteger
<1>2. CASE v.type = "DECIMAL"
  <2>1. w \in DecimalCast(v, to)
    BY <1>2 DEF ValueCast
  <2> QED
    BY <1>2, <2>1, CastOfDecimal
<1> QED
  BY <1>1, <1>2 DEF Numeric

LEMMA CastsToText ==
  ASSUME NEW v, IsValue(v), v.null \/ v.raw[1] \in Int, NEW w \in CastToText(v)
  PROVE  IsValue(w) /\ w.type = "VARCHAR"
<1>1. CASE v.null
  BY <1>1, NullVarcharIsNull DEF CastToText, IsNull
<1>2. CASE ~v.null
  <2>1. TextOf(v) \in Seq(Int)
    <3>1. PICK n \in Int : TextOf(v) = <<1000 + n>>
      <4>1. CASE v.type \in Numeric
        BY <1>2, <4>1, NumberFacts DEF TextOf
      <4>2. CASE v.type \notin Numeric
        BY <1>2, <4>2 DEF TextOf
      <4> QED
        BY <4>1, <4>2
    <3> QED
      BY <3>1
  <2>2. w = MakeVarchar(TextOf(v))
    BY <1>2 DEF CastToText
  <2> QED
    BY <2>1, <2>2, VarcharsAreValues
<1> QED
  BY <1>1, <1>2

(* A cast has the type it was asked for, or throws. *)
LEMMA CastOutcomes ==
  ASSUME NEW v, IsValue(v), NEW to \in DataTypes, NEW w \in ValueCast(v, to)
  PROVE  w = Thrown \/ (IsValue(w) /\ w.type = to)
<1>1. CASE v.type \in Numeric /\ to \in Numeric
  <2>1. CASE ~v.null
    <3>1. Sound(w, to, CastMeaning(Number(Halves(v)), v.type, to))
      BY <1>1, <2>1, CastOfNumber
    <3>2. w = Thrown \/ IsValue(w)
      BY <3>1 DEF Sound
    <3>3. CASE v.type \in IntegerTypes
      BY <1>1, <2>1, <3>2, <3>3, MadeInteger
      DEF ValueCast, TinyintCast, SmallintCast, IntegerCast, BigintCast, CastInteger, Doubles,
          MakeDecimal, Numeric, IntegerTypes, Sized
    <3>4. CASE v.type = "DECIMAL"
      BY <1>1, <2>1, <3>2, <3>4, MadeInteger
      DEF ValueCast, DecimalCast, MakeDecimal, Numeric, IntegerTypes, Sized
    <3> QED
      BY <1>1, <3>3, <3>4 DEF Numeric
  <2>2. CASE v.null /\ ~(to = v.type /\ Unwritten(v))
    BY <1>1, <2>2, CastOfNull DEF IsNull
  <2>3. CASE v.null /\ to = v.type /\ Unwritten(v)
    <3>1. CASE to \in IntegerTypes
      <4>1. w = NullOfType(to)
        BY <2>3, <3>1
        DEF ValueCast, TinyintCast, SmallintCast, IntegerCast, BigintCast, CastInteger, Numeric, IntegerTypes
      <4> QED
        BY <1>1, <4>1, NullsOfTypes DEF IsNull
    <3>2. CASE to = "DECIMAL"
      <4>1. PICK n \in Read(v) : w = MakeDecimal(n)
        BY <2>3, <3>2 DEF ValueCast, DecimalCast, IntegerTypes
      <4> QED
        BY <2>3, <3>2, <4>1, ReadIs, MadeDecimals
    <3> QED
      BY <1>1, <3>1, <3>2 DEF Numeric
  <2> QED
    BY <2>1, <2>2, <2>3
<1>2. CASE v.type \in Numeric /\ to \notin Numeric
  <2>1. w = Thrown \/ (to = "VARCHAR" /\ (w \in CastToText(v) \/ w = NullVarchar))
    BY <1>2 DEF ValueCast, TinyintCast, SmallintCast, IntegerCast, BigintCast, DecimalCast,
                Numeric, IntegerTypes
  <2>2. v.null \/ v.raw[1] \in Int
    BY <1>2, NumberFacts
  <2> QED
    BY <2>1, <2>2, CastsToText, NullVarcharIsNull DEF IsNull
<1>3. CASE v.type = "BOOLEAN"
  <2>1. CASE to = "BOOLEAN"
    <3>1. PICK n \in Read(v) : w = MakeInteger("BOOLEAN", n)
      BY <1>3, <2>1 DEF ValueCast, BooleanCast
    <3> QED
      BY <1>3, <2>1, <3>1, ReadIs, MadeBooleans
  <2>2. CASE to = "VARCHAR"
    <3>1. w \in CastToText(v)
      BY <1>3, <2>2 DEF ValueCast, BooleanCast
    <3>2. v.null \/ v.raw[1] \in Int
      BY <1>3, BooleanFacts
    <3> QED
      BY <2>2, <3>1, <3>2, CastsToText
  <2>3. CASE to \notin {"BOOLEAN", "VARCHAR"}
    BY <1>3, <2>3 DEF ValueCast, BooleanCast
  <2> QED
    BY <2>1, <2>2, <2>3
<1>4. CASE v.type = "VARCHAR"
  BY <1>4, UnwrittenIsNull DEF ValueCast, VarcharCast, IsNull
<1>5. CASE v.type = "TIMESTAMP"
  <2>1. CASE to = "TIMESTAMP"
    BY <1>5, <2>1 DEF ValueCast, TimestampCast
  <2>2. CASE to = "VARCHAR"
    <3>1. w \in CastToText(v)
      BY <1>5, <2>2 DEF ValueCast, TimestampCast
    <3>2. v.null \/ v.raw[1] \in Int
      <4>1. CASE v = Uninitialised("TIMESTAMP")
        BY <4>1 DEF Uninitialised
      <4>2. CASE \E n \in 0 .. TimestampNull : v \in {MakeTimestamp(n), TimestampFromSigned(n)}
        <5>1. PICK n \in 0 .. TimestampNull : v \in {MakeTimestamp(n), TimestampFromSigned(n)}
          BY <4>2
        <5>2. v.raw = <<n>>
          BY <5>1 DEF MakeTimestamp, TimestampFromSigned
        <5>3. n \in Int
          BY LimitsAre DEF Sized, TimestampNull
        <5> QED
          BY <5>2, <5>3
      <4> QED
        BY <1>5, <4>1, <4>2, ShapeOfTimestamp
    <3> QED
      BY <2>2, <3>1, <3>2, CastsToText
  <2>3. CASE to \notin {"TIMESTAMP", "VARCHAR"}
    BY <1>5, <2>3 DEF ValueCast, TimestampCast
  <2> QED
    BY <2>1, <2>2, <2>3
<1>6. v.type \in DataTypes
  BY ValueFacts
<1> QED
  BY <1>1, <1>2, <1>3, <1>4, <1>5, <1>6 DEF DataTypes

LEMMA CastKeeps ==
  ASSUME NEW to \in DataTypes, IInv, CastTo(to)
  PROVE  IInv'
<1>1. PICK v, d, m, w, e : v = acc /\ d = declared /\ m = meaning /\ w = acc' /\ e = meaning'
  OBVIOUS
<1>2. Sound(v, d, m) /\ v # Thrown /\ IsValue(v) /\ d \in DataTypes /\ OfKind(v, d)
  BY <1>1 DEF IInv, CastTo, Sound
<1>3. w \in ValueCast(v, to)
  BY <1>1 DEF CastTo
<1>4. Now = NowOf(v, m)
  BY <1>1 DEF Now, NowOf
<1>5. SUFFICES Sound(w, to, e)
  BY <1>1 DEF IInv, CastTo
<1>6. CASE (to = v.type /\ Unwritten(v)) \/ to \notin Numeric \/ v.type \notin Numeric
  <2>1. e = Restart(w)
    BY <1>1, <1>6 DEF CastTo
  <2>2. w = Thrown \/ (IsValue(w) /\ OfKind(w, to))
    BY <1>2, <1>3, CastOutcomes DEF OfKind
  <2> QED
    BY <2>1, <2>2, Restarted
<1>7. CASE ~(to = v.type /\ Unwritten(v)) /\ to \in Numeric /\ v.type \in Numeric
  <2>1. e = CastMeaning(Now, v.type, to)
    BY <1>1, <1>7 DEF CastTo
  <2>2. /\ v.null \in BOOLEAN
        /\ v.null => Now = NullMeaning
        /\ ~v.null => m = Number(Halves(v)) /\ Now = m
    BY <1>2, <1>4, <1>7, NumericHeld DEF OfKind
  <2>3. CASE v.null
    <3>1. e = NullMeaning
      BY <2>1, <2>2, <2>3 DEF CastMeaning, NullMeaning
    <3>2. IsNull(w, to)
      BY <1>2, <1>3, <1>7, <2>3, CastOfNull
    <3> QED
      BY <1>7, <3>1, <3>2, NullIsSound
  <2>4. CASE ~v.null
    BY <1>2, <1>3, <1>7, <2>1, <2>2, <2>4, CastOfNumber
  <2> QED
    BY <2>2, <2>3, <2>4
<1> QED
  BY <1>6, <1>7


(* ValueFactory converts nothing but a text or a timestamp to a timestamp. *)
LEMMA FactoryCastOutcomes ==
  ASSUME NEW v, IsValue(v), NEW to \in DataTypes, NEW w \in FactoryCast(v, to)
  PROVE  w = Thrown \/ (IsValue(w) /\ w.type = to)
<1>1. CASE to # "TIMESTAMP"
  BY <1>1
  DEF FactoryCast, cast_as_boolean, cast_as_tiny_int, cast_as_small_int, cast_as_integer,
      cast_as_big_int, cast_as_decimal, cast_as_varchar, Guarded, IsCoercableFrom,
      DataTypes, Numeric, IntegerTypes
<1>2. CASE to = "TIMESTAMP"
  <2>1. w \in cast_as_timestamp(v)
    BY <1>2 DEF FactoryCast
  <2>2. ASSUME NEW n \in 0 .. TimestampNull, w = TimestampFromSigned(n)
        PROVE  IsValue(w) /\ w.type = "TIMESTAMP"
    BY <2>2 DEF IsValue, TimestampFromSigned
  <2>3. TimestampNull \in 0 .. TimestampNull
    BY LimitsAre DEF Sized, TimestampNull
  <2>4. CASE v.type \notin {"VARCHAR", "TIMESTAMP"}
    BY <2>1, <2>4 DEF cast_as_timestamp, Guarded, IsCoercableFrom
  <2>5. CASE v.type \in {"VARCHAR", "TIMESTAMP"} /\ v.null
    BY <1>2, <2>1, <2>2, <2>3, <2>5 DEF cast_as_timestamp, Guarded, IsCoercableFrom
  <2>6. CASE v.type = "TIMESTAMP" /\ ~v.null
    <3>1. PICK n \in 0 .. TimestampNull : v \in {MakeTimestamp(n), TimestampFromSigned(n)}
      BY <2>6, ShapeOfTimestamp DEF Uninitialised
    <3>2. v.raw[1] = n
      BY <3>1 DEF MakeTimestamp, TimestampFromSigned
    <3>3. w = TimestampFromSigned(n)
      BY <2>1, <2>6, <3>2 DEF cast_as_timestamp, Guarded, IsCoercableFrom
    <3> QED
      BY <1>2, <2>2, <3>3
  <2>7. CASE v.type = "VARCHAR" /\ ~v.null
    <3>1. CASE v.raw \in DOMAIN DateTexts
      <4>1. PICK n : n = TimestampCode(DateTexts[v.raw])
        OBVIOUS
      <4>2. n \in 0 .. TimestampNull
        BY <3>1, <4>1, DateAssumption
      <4>3. w = TimestampFromSigned(n)
        BY <2>1, <2>7, <3>1, <4>1 DEF cast_as_timestamp, Guarded, IsCoercableFrom
      <4> QED
        BY <1>2, <2>2, <4>2, <4>3
    <3>2. CASE v.raw \notin DOMAIN DateTexts
      BY <2>1, <2>7, <3>2 DEF cast_as_timestamp, Guarded, IsCoercableFrom
    <3> QED
      BY <3>1, <3>2
  <2> QED
    BY <2>4, <2>5, <2>6, <2>7
<1> QED
  BY <1>1, <1>2

LEMMA FactoryCastKeeps ==
  ASSUME NEW to \in DataTypes, IInv, FactoryCastTo(to)
  PROVE  IInv'
<1>1. PICK v, w : v = acc /\ w = acc'
  OBVIOUS
<1>2. IsValue(v) /\ w \in FactoryCast(v, to)
  BY <1>1 DEF IInv, Sound, FactoryCastTo
<1>3. w = Thrown \/ (IsValue(w) /\ OfKind(w, to))
  BY <1>2, FactoryCastOutcomes DEF OfKind
<1>4. Sound(w, to, Restart(w))
  BY <1>3, Restarted
<1> QED
  BY <1>1, <1>4 DEF IInv, FactoryCastTo

(***************************************************************************)
(* Copies and storage.                                                     *)
(***************************************************************************)
(* A copy is the value, but for a union never written and for the letters  *)
(* that follow a text.                                                     *)
LEMMA CopyOutcomes ==
  ASSUME NEW v, IsValue(v), NEW w \in ValueCopy(v)
  PROVE  /\ IsValue(w) /\ w.type = v.type
         /\ v.type = "VARCHAR" => (w.null <=> v.null)
         /\ v.type # "VARCHAR" /\ v.raw # <<>> => w = v
<1>1. CASE v.type \in IntegerTypes
  <2>1. PICK t \in IntegerTypes : t = v.type
    BY <1>1
  <2>2. PICK n \in Read(v) : w = MakeInteger(t, n)
    BY <1>1, <2>1 DEF ValueCopy, TinyintCopy, SmallintCopy, IntegerCopy, BigintCopy, IntegerTypes
  <2>3. n \in Lowest(t) .. (MAX(t))
    BY <2>1, ReadIs
  <2>4. v.raw # <<>> => w = v
    <3>1. SUFFICES ASSUME v.raw # <<>> PROVE w = v
      OBVIOUS
    <3>2. PICK i : v = MakeInteger(t, i)
      BY <2>1, <3>1, ShapeOfInteger DEF Uninitialised
    <3>3. v.raw[1] = i
      BY <3>2, MadeInteger DEF Sized
    <3> QED
      BY <2>2, <3>1, <3>2, <3>3, ReadIs
  <2> QED
    BY <2>1, <2>2, <2>3, <2>4, MadeIntegers DEF IntegerTypes
<1>2. CASE v.type = "DECIMAL"
  <2>1. PICK n \in Read(v) : w = MakeDecimal(n)
    BY <1>2 DEF ValueCopy, DecimalCopy
  <2>2. n \in DoubleNumbers \/ n = DecimalLowest
    BY <1>2, ReadIs
  <2>3. v.raw # <<>> => w = v
    <3>1. SUFFICES ASSUME v.raw # <<>> PROVE w = v
      OBVIOUS
    <3>2. PICK i : v = MakeDecimal(i)
      BY <1>2, <3>1, ShapeOfDecimal DEF Uninitialised, NullDecimal
    <3>3. v.raw[1] = i
      BY <3>2 DEF MakeDecimal
    <3> QED
      BY <2>1, <3>1, <3>2, <3>3, ReadIs
  <2> QED
    BY <1>2, <2>1, <2>2, <2>3, MadeDecimals
<1>3. CASE v.type = "BOOLEAN"
  <2>1. PICK n \in Read(v) : w = MakeInteger("BOOLEAN", n)
    BY <1>3 DEF ValueCopy, BooleanCopy
  <2>2. n \in {0, 1, Lowest("BOOLEAN")}
    BY <1>3, ReadIs
  <2>3. v.raw # <<>> => w = v
    <3>1. SUFFICES ASSUME v.raw # <<>> PROVE w = v
      OBVIOUS
    <3>2. PICK i : v = MakeInteger("BOOLEAN", i)
      BY <1>3, <3>1, ShapeOfBoolean DEF Uninitialised
    <3>3. v.raw[1] = i
      BY <3>2, MadeInteger DEF Sized
    <3> QED
      BY <2>1, <3>1, <3>2, <3>3, ReadIs
  <2> QED
    BY <1>3, <2>1, <2>2, <2>3, MadeBooleans
<1>4. CASE v.type = "VARCHAR"
  BY <1>4, VarcharCopies DEF ValueCopy
<1>5. CASE v.type = "TIMESTAMP"
  BY <1>5 DEF ValueCopy, TimestampCopy
<1>6. v.type \in DataTypes
  BY ValueFacts
<1> QED
  BY <1>1, <1>2, <1>3, <1>4, <1>5, <1>6 DEF DataTypes, Numeric

LEMMA CopyKeeps ==
  ASSUME IInv, CopyValue
  PROVE  IInv'
<1>1. PICK v, d, m, w, c, e : v = acc /\ d = declared /\ m = meaning
                              /\ w = acc' /\ c = declared' /\ e = meaning'
  OBVIOUS
<1>2. Sound(v, d, m) /\ v # Thrown /\ IsValue(v) /\ d \in DataTypes /\ OfKind(v, d)
  BY <1>1 DEF IInv, CopyValue, Sound
<1>3. w \in ValueCopy(v)
  BY <1>1 DEF CopyValue
<1>4. /\ IsValue(w) /\ w.type = v.type
      /\ v.type = "VARCHAR" => (w.null <=> v.null)
      /\ v.type # "VARCHAR" /\ v.raw # <<>> => w = v
  BY <1>2, <1>3, CopyOutcomes
<1>5. SUFFICES Sound(w, c, e)
  BY <1>1 DEF IInv
<1>6. CASE Unwritten(v)
  <2>1. c = v.type /\ e = Restart(w)
    BY <1>1, <1>6 DEF CopyValue
  <2>2. OfKind(w, c) /\ c \in DataTypes
    BY <1>2, <1>4, <2>1, ValueFacts DEF OfKind
  <2> QED
    BY <1>4, <2>1, <2>2, Restarted
<1>7. CASE ~Unwritten(v)
  <2>1. c = d /\ e = NowOf(v, m)
    BY <1>1, <1>7 DEF CopyValue, Now, NowOf
  <2>2. v.type = "VARCHAR" \/ w = v
    BY <1>4, <1>7 DEF Unwritten
  <2>3. CASE d \in Numeric
    <3>1. v.type \in Numeric /\ w = v
      BY <1>2, <2>2, <2>3 DEF OfKind, Numeric, IntegerTypes
    <3>2. /\ v.null \in BOOLEAN
          /\ v.null => e = NullMeaning
          /\ ~v.null => v.type = d /\ e = Number(Halves(v))
      BY <1>2, <2>1, <2>3, NumericHeld
    <3>3. CASE v.null
      <4>1. IsNull(w, v.type)
        BY <1>4, <3>1, <3>2, <3>3 DEF IsNull
      <4> QED
        BY <2>1, <2>3, <3>1, <3>2, <3>3, <4>1, NullIsSound
    <3>4. CASE ~v.null
      BY <1>2, <2>1, <3>1, <3>2, <3>4, NumberIsSound
    <3> QED
      BY <3>2, <3>3, <3>4
  <2>4. CASE d = "BOOLEAN"
    <3>1. v.type = "BOOLEAN" /\ e = m
      BY <1>2, <2>1, <2>4, BooleanHeld
    <3> QED
      BY <1>2, <2>1, <2>2, <3>1
  <2>5. CASE d \in {"VARCHAR", "TIMESTAMP"}
    <3>1. v.type = d /\ e = m /\ (m = Free \/ (m = NullMeaning /\ v.null))
      BY <1>2, <2>1, <2>5, OtherHeld
    <3>2. OfKind(w, d) /\ w # Thrown
      BY <1>4, <2>5, <3>1, ValueFacts DEF OfKind, Numeric, IntegerTypes
    <3>3. m = Free \/ (m = NullMeaning /\ w.null)
      BY <1>4, <2>2, <3>1
    <3>4. MeantFor(m, d) /\ IsMeaning(m)
      BY <1>2 DEF Sound
    <3> QED
      BY <1>2, <1>4, <2>1, <3>1, <3>2, <3>3, <3>4 DEF Sound, Right, Free, NullMeaning
  <2> QED
    BY <1>2, <2>3, <2>4, <2>5 DEF DataTypes
<1> QED
  BY <1>6, <1>7

(* What is not NULL comes back from a tuple as it was; the empty text and  *)
(* the greatest code come back NULL.                                       *)
LEMMA StoreOutcomes ==
  ASSUME NEW v, IsValue(v), ~v.null, NEW w \in ValueStore(v)
  PROVE  /\ IsValue(w) /\ w.type = v.type
         /\ v.type \notin {"VARCHAR", "TIMESTAMP"} => w = v
<1>1. CASE v.type \in IntegerTypes
  <2>1. PICK t, n : /\ t \in IntegerTypes /\ n \in MIN(t) .. (MAX(t)) /\ t = v.type /\ n = v.raw[1]
                    /\ v = [type |-> t, null |-> FALSE, raw |-> <<n>>]
    BY <1>1, IntegerFacts
  <2>2. Read(v) = {n}
    BY <2>1 DEF Read
  <2>3. PICK u \in IntegerTypes : /\ w = IntegerValue(t, u, n)
                                  /\ u = IF t = "TINYINT" THEN "SMALLINT" ELSE t
    BY <2>1, <2>2
    DEF ValueStore, TinyintStore, SmallintStore, IntegerStore, BigintStore, Reload, IntegerTypes
  <2>4. (n = Lowest(u)) = FALSE /\ (Half[u] < Half[t]) = FALSE
    <3>1. Half[t] <= Half[u] /\ ~(Half[u] < Half[t])
      BY <2>1, <2>3, WidthsGrow DEF IntegerTypes, Sized
    <3>2. n # Lowest(u)
      BY <2>1, <3>1, LimitsAre DEF Sized
    <3> QED
      BY <3>1, <3>2
  <2>5. w = v
    BY <2>1, <2>3, <2>4, Zenon DEF IntegerValue
  <2> QED
    BY <2>5
<1>2. CASE v.type = "DECIMAL"
  <2>1. PICK n : n = v.raw[1] /\ n \in DoubleNumbers /\ v = [type |-> "DECIMAL", null |-> FALSE, raw |-> <<n>>]
    BY <1>2, DecimalFacts
  <2>2. w = MakeDecimal(n)
    BY <2>1 DEF ValueStore, DecimalStore, Read
  <2> QED
    BY <2>1, <2>2, DoublesAreValues
<1>3. CASE v.type = "BOOLEAN"
  <2>1. PICK n \in {0, 1, Lowest("BOOLEAN")} : v = MakeInteger("BOOLEAN", n)
    BY <1>3, ShapeOfBoolean DEF Uninitialised
  <2>2. v.raw = <<n>>
    BY <2>1, MadeInteger DEF Sized
  <2>3. w = MakeInteger("BOOLEAN", n)
    BY <1>3, <2>2 DEF ValueStore, BooleanStore, Reload, Read, MakeInteger
  <2> QED
    BY <2>1, <2>3
<1>4. CASE v.type = "VARCHAR"
  BY <1>4, NullVarcharIsNull DEF ValueStore, VarcharStore, IsNull
<1>5. CASE v.type = "TIMESTAMP"
  <2>1. PICK n \in Read(v) : w = MakeTimestamp(n)
    BY <1>5 DEF ValueStore, TimestampStore
  <2>2. n \in 0 .. TimestampNull
    BY <1>5, ReadIs
  <2> QED
    BY <1>5, <2>1, <2>2 DEF IsValue, MakeTimestamp
<1>6. v.type \in DataTypes
  BY ValueFacts
<1> QED
  BY <1>1, <1>2, <1>3, <1>4, <1>5, <1>6 DEF DataTypes, Numeric

LEMMA StoreKeeps ==
  ASSUME IInv, StoreValue
  PROVE  IInv'
<1>1. PICK v, d, m, w : v = acc /\ d = declared /\ m = meaning /\ w = acc'
  OBVIOUS
<1>2. /\ Sound(v, d, m) /\ v # Thrown /\ ~v.null /\ IsValue(v) /\ d \in DataTypes /\ OfKind(v, d)
      /\ w \in ValueStore(v)
  BY <1>1 DEF IInv, StoreValue, Sound
<1>3. /\ IsValue(w) /\ w.type = v.type
      /\ v.type \notin {"VARCHAR", "TIMESTAMP"} => w = v
  BY <1>2, StoreOutcomes
<1>4. Sound(w, d, m)
  <2>1. CASE v.type \in {"VARCHAR", "TIMESTAMP"}
    <3>1. d = v.type
      BY <1>2 DEF OfKind
    <3>2. m = Free
      BY <1>2, <2>1, <3>1, OtherHeld
    <3>3. OfKind(w, d) /\ w # Thrown
      BY <1>3, <3>1, ValueFacts DEF OfKind
    <3>4. MeantFor(m, d) /\ IsMeaning(m)
      BY <1>2 DEF Sound
    <3> QED
      BY <1>2, <1>3, <3>2, <3>3, <3>4 DEF Sound, Right, Free
  <2>2. CASE v.type \notin {"VARCHAR", "TIMESTAMP"}
    BY <1>2, <1>3, <2>2
  <2> QED
    BY <2>1, <2>2
<1> QED
  BY <1>1, <1>4 DEF IInv, StoreValue


LEMMA StartIsSound ==
  ASSUME NEW v \in Literals
  PROVE  Sound(v, v.type, Denotes(v))
<1>1. IsValue(v) /\ v # Thrown /\ v.type \in DataTypes
  BY LiteralAssumption, ValueFacts
<1>2. Restart(v) = Denotes(v)
  BY <1>1 DEF Restart
<1> QED
  BY <1>1, <1>2, Restarted DEF OfKind

(* Every step keeps the invariant. *)
LEMMA StepKeeps ==
  IInv /\ [Next]_vars => IInv'
<1> SUFFICES ASSUME IInv, [Next]_vars PROVE IInv'
  OBVIOUS
<1>1. CASE NextStatement
  <2>1. PICK v \in Literals : v = acc' /\ declared' = v.type /\ meaning' = Denotes(v)
    BY <1>1 DEF NextStatement
  <2> QED
    BY <2>1, StartIsSound DEF IInv
<1>2. CASE \E op \in ArithmeticOps, r \in Literals : ArithmeticNode(op, r)
  BY <1>2, ArithmeticKeeps
<1>3. CASE \E cmp \in Comparisons, r \in Literals : ComparisonNode(cmp, r)
  BY <1>3, ComparisonKeeps
<1>4. CASE \E logic \in {"and", "or"}, r \in Literals : LogicNode(logic, r)
  BY <1>4, LogicKeeps
<1>5. CASE \E op \in {"min", "max"}, r \in Literals : ExtremeOf(op, r)
  BY <1>5, ExtremeKeeps
<1>6. CASE SqrtOf
  BY <1>6, SqrtKeeps
<1>7. CASE \E to \in DataTypes : CastTo(to)
  BY <1>7, CastKeeps
<1>8. CASE \E to \in DataTypes : FactoryCastTo(to)
  BY <1>8, FactoryCastKeeps
<1>9. CASE CopyValue
  BY <1>9, CopyKeeps
<1>10. CASE StoreValue
  BY <1>10, StoreKeeps
<1>11. CASE UNCHANGED vars
  BY <1>11 DEF vars, IInv
<1> QED
  BY <1>1, <1>2, <1>3, <1>4, <1>5, <1>6, <1>7, <1>8, <1>9, <1>10, <1>11 DEF Next

(* Whatever chain of operations is evaluated, acc is a value that some     *)
(* constructor makes, and it is what the chain means.                      *)
THEOREM EvaluatorInvariant == Spec => []IInv
<1>1. Init => IInv
  BY StartIsSound DEF Init, IInv
<1> QED
  BY <1>1, StepKeeps, PTL DEF Spec

(* A chain yields the number or truth it means, or NULL where the number   *)
(* is the sentinel, and throws only where the number does not fit the      *)
(* declared type: the arithmetic, comparison and logic nodes and the       *)
(* casts, copies and storage of the values under them.  On integers the    *)
(* number meant is exact; with a DECIMAL each operation rounds it, as the  *)
(* static_cast<double> of a BIGINT does.                                   *)
THEOREM ChainsYieldTheirMeaning == Spec => []ValueIsItsMeaning
<1>1. IInv => ValueIsItsMeaning
  BY DEF IInv, Sound, Right, ValueIsItsMeaning
<1> QED
  BY <1>1, EvaluatorInvariant, PTL

(* A result that is not NULL has the type that infer_return_type and       *)
(* get_common_type declared for the node that made it.                     *)
THEOREM ChainsAreTyped == Spec => []DeclaredTypeHolds
<1>1. IInv => DeclaredTypeHolds
  BY DEF IInv, Sound, OfKind, DeclaredTypeHolds
<1> QED
  BY <1>1, EvaluatorInvariant, PTL


(***************************************************************************)
(* The order of the comparisons.                                           *)
(***************************************************************************)
(* std::string's order is total and strict. *)
DiffersAt(s, t, i) == i \in 1 .. Len(s) /\ i <= Len(t) /\ s[i] # t[i]
FirstDifference(s, t, i) == DiffersAt(s, t, i) /\ \A j \in 1 .. i - 1 : s[j] = t[j]
Begins(s, t) == Len(s) <= Len(t) /\ \A j \in 1 .. Len(s) : s[j] = t[j]

LEMMA DifferOrBegin ==
  ASSUME NEW s \in Seq(Int), NEW t \in Seq(Int)
  PROVE  (\E i \in Nat : FirstDifference(s, t, i)) \/ Begins(s, t) \/ Begins(t, s)
<1> DEFINE D == {i \in Nat : DiffersAt(s, t, i)}
<1>1. CASE D # {}
  <2>1. PICK m \in D : \A k \in D : m <= k
    BY <1>1, NatMinimum
  <2>2. ASSUME NEW j \in 1 .. m - 1 PROVE s[j] = t[j]
    <3>1. m \in Nat /\ DiffersAt(s, t, m)
      BY <2>1
    <3>2. j \in 1 .. Len(s) /\ j <= Len(t) /\ j < m
      BY <2>2, <3>1 DEF DiffersAt
    <3>3. ~DiffersAt(s, t, j)
      BY <2>1, <3>1, <3>2
    <3> QED
      BY <3>2, <3>3 DEF DiffersAt
  <2> QED
    BY <2>1, <2>2 DEF FirstDifference
<1>2. CASE D = {}
  <2>1. ASSUME NEW j \in 1 .. Len(s), j <= Len(t) PROVE s[j] = t[j]
    BY <1>2, <2>1 DEF DiffersAt
  <2> QED
    BY <2>1 DEF Begins
<1> QED
  BY <1>1, <1>2

LEMMA BeforeByDifference ==
  ASSUME NEW s \in Seq(Int), NEW t \in Seq(Int), NEW i \in Nat, FirstDifference(s, t, i)
  PROVE  TextBefore(s, t) <=> s[i] < t[i]
<1>1. i \in 1 .. Len(s) /\ i <= Len(t) /\ s[i] # t[i] /\ s[i] \in Int /\ t[i] \in Int
      /\ \A j \in 1 .. i - 1 : s[j] = t[j]
  BY DEF FirstDifference, DiffersAt
<1>2. ASSUME s[i] < t[i] PROVE TextBefore(s, t)
  BY <1>1, <1>2 DEF TextBefore
<1>3. ASSUME NEW k \in 1 .. Len(s), k <= Len(t), s[k] < t[k], \A j \in 1 .. k - 1 : s[j] = t[j]
      PROVE  s[i] < t[i]
  <2>1. s[k] \in Int /\ t[k] \in Int
    BY <1>3
  <2>2. ~(k < i) /\ ~(i < k)
    BY <1>1, <1>3, <2>1
  <2> QED
    BY <1>1, <1>3, <2>2
<1>4. ASSUME Len(s) < Len(t), s = SubSeq(t, 1, Len(s)) PROVE FALSE
  <2>1. PICK n \in Nat : n = Len(s)
    OBVIOUS
  <2>2. SubSeq(t, 1, n)[i] = t[i]
    BY <1>1, <1>4, <2>1
  <2> QED
    BY <1>1, <1>4, <2>1, <2>2
<1> QED
  BY <1>2, <1>3, <1>4 DEF TextBefore

LEMMA BeforeByLength ==
  ASSUME NEW s \in Seq(Int), NEW t \in Seq(Int), Begins(s, t)
  PROVE  /\ TextBefore(s, t) <=> Len(s) < Len(t)
         /\ ~TextBefore(t, s)
         /\ s = t <=> Len(s) = Len(t)
<1>1. Len(s) <= Len(t) /\ Len(s) \in Nat /\ Len(t) \in Nat
      /\ \A j \in 1 .. Len(s) : s[j] = t[j] /\ s[j] \in Int
  BY DEF Begins
<1>2. ASSUME Len(s) < Len(t) PROVE s = SubSeq(t, 1, Len(s))
  <2>1. PICK u : u = SubSeq(t, 1, Len(s))
    OBVIOUS
  <2>2. /\ u \in Seq(Int) /\ Len(u) = Len(s)
        /\ \A j \in 1 .. Len(s) : u[j] = t[j]
    BY <1>1, <1>2, <2>1
  <2> QED
    BY <1>1, <2>1, <2>2
<1>3. TextBefore(s, t) => Len(s) < Len(t)
  BY <1>1 DEF TextBefore
<1>4. Len(s) < Len(t) => TextBefore(s, t)
  BY <1>2 DEF TextBefore
<1>5. ~TextBefore(t, s)
  BY <1>1 DEF TextBefore
<1>6. Len(s) = Len(t) => s = t
  BY <1>1
<1> QED
  BY <1>3, <1>4, <1>5, <1>6

LEMMA TextOrderIsTotal ==
  ASSUME NEW s \in Seq(Int), NEW t \in Seq(Int)
  PROVE  TextOrder(s, t) \in {-1, 0, 1} /\ TextOrder(t, s) = -TextOrder(s, t)
<1>1. CASE \E i \in Nat : FirstDifference(s, t, i)
  <2>1. PICK i \in Nat : FirstDifference(s, t, i)
    BY <1>1
  <2>2. FirstDifference(t, s, i)
    BY <2>1 DEF FirstDifference, DiffersAt
  <2>3. s[i] \in Int /\ t[i] \in Int /\ s[i] # t[i] /\ s # t
    BY <2>1 DEF FirstDifference, DiffersAt
  <2>4. (TextBefore(s, t) <=> s[i] < t[i]) /\ (TextBefore(t, s) <=> t[i] < s[i])
    BY <2>1, <2>2, BeforeByDifference
  <2> QED
    BY <2>3, <2>4 DEF TextOrder
<1>2. CASE Begins(s, t)
  BY <1>2, BeforeByLength DEF TextOrder, Begins
<1>3. CASE Begins(t, s)
  BY <1>3, BeforeByLength DEF TextOrder, Begins
<1> QED
  BY <1>1, <1>2, <1>3, DifferOrBegin

-----------------------------------------------------------------------------
(* Comparisons that hold as those of two numbers do agree. *)
ComparesAs(l, r, p, q) ==
  \A cmp \in Comparisons : ValueCompare(cmp, l, r) = {"CmpTrue"} <=> Holds(cmp, p, q)

Agree(l, r) ==
  /\ Cardinality({c \in {"<", "==", ">"} : IsTrue(c, l, r)}) = 1
  /\ IsTrue("!=", l, r) = ~IsTrue("==", l, r)
  /\ IsTrue("<=", l, r) = ~IsTrue(">", l, r)
  /\ IsTrue(">=", l, r) = ~IsTrue("<", l, r)
  /\ \A c \in Comparisons : IsTrue(c, l, r) = IsTrue(Mirror[c], r, l)

LEMMA ComparedAsNumbers ==
  ASSUME NEW l, NEW r, NEW p \in Int, NEW q \in Int, ComparesAs(l, r, p, q), ComparesAs(r, l, q, p)
  PROVE  Agree(l, r)
<1>1. \A c \in Comparisons : (IsTrue(c, l, r) <=> Holds(c, p, q)) /\ (IsTrue(c, r, l) <=> Holds(c, q, p))
  BY DEF ComparesAs, IsTrue
<1>2. /\ IsTrue("<", l, r) <=> p < q
      /\ IsTrue(">", l, r) <=> p > q
      /\ IsTrue("==", l, r) <=> p = q
      /\ IsTrue("!=", l, r) <=> p # q
      /\ IsTrue("<=", l, r) <=> p <= q
      /\ IsTrue(">=", l, r) <=> p >= q
  BY <1>1 DEF Comparisons, Holds
<1>3. Cardinality({c \in {"<", "==", ">"} : IsTrue(c, l, r)}) = 1
  <2>1. PICK x : {c \in {"<", "==", ">"} : IsTrue(c, l, r)} = {x}
    <3>1. CASE p < q
      BY <1>2, <3>1
    <3>2. CASE p = q
      BY <1>2, <3>2
    <3>3. CASE p > q
      BY <1>2, <3>3
    <3> QED
      BY <3>1, <3>2, <3>3
  <2> QED
    BY <2>1, FS_Singleton
<1>4. ASSUME NEW c \in Comparisons PROVE IsTrue(c, l, r) <=> IsTrue(Mirror[c], r, l)
  <2>1. Mirror[c] \in Comparisons /\ (Holds(c, p, q) <=> Holds(Mirror[c], q, p))
    BY DEF Mirror, Comparisons, Holds
  <2> QED
    BY <1>1, <2>1
<1>5. /\ IsTrue("!=", l, r) <=> ~IsTrue("==", l, r)
      /\ IsTrue("<=", l, r) <=> ~IsTrue(">", l, r)
      /\ IsTrue(">=", l, r) <=> ~IsTrue("<", l, r)
  BY <1>2
<1> QED
  BY <1>3, <1>4, <1>5 DEF Agree, IsTrue

LEMMA CmpBoolIs ==
  ASSUME NEW b
  PROVE  {CmpBool(b)} = {"CmpTrue"} <=> b
BY DEF CmpBool

LEMMA TimestampsCompare ==
  ASSUME NEW l, NEW r, IsValue(l), IsValue(r), l.type = "TIMESTAMP", r.type = "TIMESTAMP",
         ~l.null, ~r.null, ~TopBit(l), ~TopBit(r)
  PROVE  \E p \in Int : p = l.raw[1] /\ ComparesAs(l, r, p, r.raw[1])
<1>1. PICK h \in Nat : h = Half["TIMESTAMP"]
  BY LimitsAre DEF Sized
<1>2. \A v : IsValue(v) /\ v.type = "TIMESTAMP" /\ ~v.null /\ ~TopBit(v) =>
         v.raw[1] \in 0 .. h - 1 /\ v.raw # <<>>
  <2>1. SUFFICES ASSUME NEW v, IsValue(v), v.type = "TIMESTAMP", ~v.null, ~TopBit(v)
                 PROVE  v.raw[1] \in 0 .. h - 1 /\ v.raw # <<>>
    OBVIOUS
  <2>2. PICK n \in 0 .. TimestampNull : v \in {MakeTimestamp(n), TimestampFromSigned(n)}
    BY <2>1, ShapeOfTimestamp DEF Uninitialised
  <2>3. v.raw = <<n>>
    BY <2>2 DEF MakeTimestamp, TimestampFromSigned
  <2>4. n \in 0 .. 2 * h - 1 /\ ~(AsSigned(n) < 0)
    BY <1>1, <2>1, <2>3 DEF TimestampNull, TopBit
  <2>5. n < h
    BY <1>1, <2>4 DEF AsSigned
  <2> QED
    BY <2>3, <2>4, <2>5
<1>3. PICK p \in Int, q \in Int : p = l.raw[1] /\ q = r.raw[1] /\ p \in 0 .. h - 1 /\ q \in 0 .. h - 1
                                  /\ l.raw # <<>>
  BY <1>1, <1>2
<1>4. AsSigned(p) = p /\ AsSigned(q) = q
  BY <1>1, <1>3 DEF AsSigned
<1>5. ASSUME NEW cmp \in Comparisons
      PROVE  ValueCompare(cmp, l, r) = {"CmpTrue"} <=> Holds(cmp, p, q)
  <2>1. Read(l) = {p}
    BY <1>3 DEF Read
  <2>2. ValueCompare(cmp, l, r) =
          {CmpBool(IF cmp = ">" THEN AsSigned(p) > AsSigned(q) ELSE Holds(cmp, p, q))}
    BY <1>3, <2>1 DEF ValueCompare, TimestampCompare
  <2>3. (IF cmp = ">" THEN AsSigned(p) > AsSigned(q) ELSE Holds(cmp, p, q)) <=> Holds(cmp, p, q)
    BY <1>4 DEF Holds
  <2>4. CASE Holds(cmp, p, q)
    BY <2>2, <2>3, <2>4, Zenon DEF CmpBool
  <2>5. CASE ~Holds(cmp, p, q)
    <3>1. ValueCompare(cmp, l, r) = {"CmpFalse"}
      BY <2>2, <2>3, <2>5, Zenon DEF CmpBool
    <3> QED
      BY <2>5, <3>1
  <2> QED
    BY <2>4, <2>5
<1> QED
  BY <1>3, <1>5 DEF ComparesAs

LEMMA ComparableAgree ==
  ASSUME NEW l, NEW r, IsValue(l), IsValue(r), ~l.null, ~r.null,
         l.type = r.type \/ {l.type, r.type} \subseteq Numeric, ~TopBit(l), ~TopBit(r)
  PROVE  Agree(l, r)
<1>1. CASE {l.type, r.type} \subseteq Numeric
  <2>1. PICK p \in Int, q \in Int : p = Seen(l, r) /\ q = Seen(r, l)
    <3>1. "<" \in Comparisons
      BY DEF Comparisons
    <3> QED
      BY <1>1, <3>1, NumbersCompare
  <2>2. ASSUME NEW cmp \in Comparisons
        PROVE  /\ ValueCompare(cmp, l, r) = {CmpBool(Holds(cmp, p, q))}
               /\ ValueCompare(cmp, r, l) = {CmpBool(Holds(cmp, q, p))}
    BY <1>1, <2>1, NumbersCompare
  <2>3. ComparesAs(l, r, p, q) /\ ComparesAs(r, l, q, p)
    BY <2>2, CmpBoolIs DEF ComparesAs
  <2> QED
    BY <2>3, ComparedAsNumbers
<1>2. CASE l.type = "BOOLEAN" /\ r.type = "BOOLEAN"
  <2>1. PICK p \in Int, q \in Int : p = l.raw[1] /\ q = r.raw[1]
    BY <1>2, BooleanFacts
  <2>2. ASSUME NEW cmp
        PROVE  /\ ValueCompare(cmp, l, r) = {CmpBool(Holds(cmp, p, q))}
               /\ ValueCompare(cmp, r, l) = {CmpBool(Holds(cmp, q, p))}
    BY <1>2, <2>1, BooleansCompare
  <2>3. ComparesAs(l, r, p, q) /\ ComparesAs(r, l, q, p)
    BY <2>2, CmpBoolIs DEF ComparesAs
  <2> QED
    BY <2>3, ComparedAsNumbers
<1>3. CASE l.type = "VARCHAR" /\ r.type = "VARCHAR"
  <2>1. PICK s \in Seq(Int), t \in Seq(Int) : s = l.raw /\ t = r.raw
    BY ValueFacts
  <2>2. PICK p \in {-1, 0, 1} : p = TextOrder(s, t) /\ TextOrder(t, s) = -p
    BY TextOrderIsTotal
  <2>3. ASSUME NEW cmp \in Comparisons
        PROVE  /\ ValueCompare(cmp, l, r) = {CmpBool(Holds(cmp, p, 0))}
               /\ ValueCompare(cmp, r, l) = {CmpBool(Holds(cmp, -p, 0))}
               /\ Holds(cmp, -p, 0) <=> Holds(cmp, 0, p)
    <3>1. /\ ValueCompare(cmp, l, r) = {CmpBool(Holds(cmp, p, 0))}
          /\ ValueCompare(cmp, r, l) = {CmpBool(Holds(cmp, -p, 0))}
      BY <1>3, <2>1, <2>2 DEF ValueCompare, VarcharCompare
    <3>2. Holds(cmp, -p, 0) <=> Holds(cmp, 0, p)
      BY DEF Holds, Comparisons
    <3> QED
      BY <3>1, <3>2
  <2>4. ComparesAs(l, r, p, 0) /\ ComparesAs(r, l, 0, p)
    BY <2>3, CmpBoolIs DEF ComparesAs
  <2> QED
    BY <2>4, ComparedAsNumbers
<1>4. CASE l.type = "TIMESTAMP" /\ r.type = "TIMESTAMP"
  <2>1. PICK p \in Int : p = l.raw[1] /\ ComparesAs(l, r, p, r.raw[1])
    BY <1>4, TimestampsCompare
  <2>2. PICK q \in Int : q = r.raw[1] /\ ComparesAs(r, l, q, l.raw[1])
    BY <1>4, TimestampsCompare
  <2> QED
    BY <2>1, <2>2, ComparedAsNumbers
<1>5. l.type \in DataTypes
  BY ValueFacts
<1> QED
  BY <1>1, <1>2, <1>3, <1>4, <1>5 DEF DataTypes

(***************************************************************************)
(* < of numbers is transitive: rounding may close a gap but never turns    *)
(* two numbers round, and between the outer two there is at least one gap  *)
(* that is left open.                                                      *)
(***************************************************************************)
LEMMA BeforeIs ==
  ASSUME NEW v, NEW w, IsValue(v), IsValue(w), NumberOf(v), NumberOf(w)
  PROVE  /\ Seen(v, w) \in Int /\ Seen(w, v) \in Int
         /\ IsTrue("<", v, w) <=> Seen(v, w) < Seen(w, v)
<1>1. "<" \in Comparisons
  BY DEF Comparisons
<1>2. /\ Seen(v, w) \in Int /\ Seen(w, v) \in Int
      /\ ValueCompare("<", v, w) = {CmpBool(Holds("<", Seen(v, w), Seen(w, v)))}
  BY <1>1, NumbersCompare DEF NumberOf
<1>3. Holds("<", Seen(v, w), Seen(w, v)) <=> Seen(v, w) < Seen(w, v)
  BY DEF Holds
<1>4. CASE Holds("<", Seen(v, w), Seen(w, v))
  <2>1. IsTrue("<", v, w)
    BY <1>2, <1>4, Zenon DEF IsTrue, CmpBool
  <2> QED
    BY <1>2, <1>3, <1>4, <2>1
<1>5. CASE ~Holds("<", Seen(v, w), Seen(w, v))
  <2>1. ValueCompare("<", v, w) = {"CmpFalse"}
    BY <1>2, <1>5, Zenon DEF CmpBool
  <2> QED
    BY <1>2, <1>3, <1>5, <2>1 DEF IsTrue
<1> QED
  BY <1>4, <1>5

LEMMA SeenInOrder ==
  ASSUME NEW v, NEW w, IsValue(v), IsValue(w), NumberOf(v), NumberOf(w), Seen(v, w) < Seen(w, v)
  PROVE  Halves(v) < Halves(w) /\ ToDouble(v) <= ToDouble(w)
<1>1. PICK m \in -DecimalTop .. DecimalTop, n \in -DecimalTop .. DecimalTop :
         m = Halves(v) /\ n = Halves(w) /\ ToDouble(v) = Nearest[m] /\ ToDouble(w) = Nearest[n]
  BY ToDoubleIs DEF NumberOf
<1>2. m \in Int /\ n \in Int /\ Nearest[m] \in Int /\ Nearest[n] \in Int
  BY TopFacts, NearestIsDouble, DoubleFacts
<1>3. m <= n => Nearest[m] <= Nearest[n]
  BY RoundingKeepsOrder
<1>4. n <= m => Nearest[n] <= Nearest[m]
  BY RoundingKeepsOrder
<1> QED
  BY <1>1, <1>2, <1>3, <1>4 DEF Seen

LEMMA BeforeIsTransitive ==
  ASSUME NEW l, NEW r, NEW s, IsValue(l), IsValue(r), IsValue(s),
         NumberOf(l), NumberOf(r), NumberOf(s), IsTrue("<", l, r), IsTrue("<", r, s)
  PROVE  IsTrue("<", l, s)
<1>1. Seen(l, r) < Seen(r, l) /\ Seen(r, s) < Seen(s, r)
  BY BeforeIs
<1>2. /\ Halves(l) < Halves(r) /\ ToDouble(l) <= ToDouble(r)
      /\ Halves(r) < Halves(s) /\ ToDouble(r) <= ToDouble(s)
  BY <1>1, SeenInOrder
<1>3. \A v \in {l, r, s} : Halves(v) \in Int /\ ToDouble(v) \in Int
  BY ToDoubleIs DEF NumberOf
<1>4. Seen(l, s) < Seen(s, l)
  <2>1. CASE l.type = "DECIMAL"
    <3>1. ToDouble(l) < ToDouble(r)
      BY <1>1, <2>1 DEF Seen
    <3> QED
      BY <1>2, <1>3, <2>1, <3>1 DEF Seen
  <2>2. CASE s.type = "DECIMAL"
    <3>1. ToDouble(r) < ToDouble(s)
      BY <1>1, <2>2 DEF Seen
    <3> QED
      BY <1>2, <1>3, <2>2, <3>1 DEF Seen
  <2>3. CASE l.type # "DECIMAL" /\ s.type # "DECIMAL"
    BY <1>2, <1>3, <2>3 DEF Seen
  <2> QED
    BY <2>1, <2>2, <2>3
<1> QED
  BY <1>4, BeforeIs

(* The compare functions agree, so that filters, the sort and the extremes *)
(* do: of two values just one of <, = and > holds, the other three are     *)
(* their complements, and the operands can be swapped.  < of numbers is    *)
(* transitive across the numeric types, although compare_* rounds a BIGINT *)
(* beside a DECIMAL; = is not, which the theorem does not claim.           *)
THEOREM ComparisonsOrder == Spec => []ComparisonsAreAnOrder
<1>1. IInv => ComparisonsAreAnOrder
  <2> SUFFICES ASSUME IInv PROVE ComparisonsAreAnOrder
    OBVIOUS
  <2>1. PICK l : l = acc
    OBVIOUS
  <2>2. l # Thrown => IsValue(l)
    BY <2>1 DEF IInv, Sound
  <2>3. ASSUME NEW r \in Literals, l # Thrown, ~l.null, ~r.null,
               l.type = r.type \/ {l.type, r.type} \subseteq Numeric, ~TopBit(l), ~TopBit(r)
        PROVE  Agree(l, r)
    BY <2>2, <2>3, LiteralAssumption, ComparableAgree
  <2>4. ASSUME NEW r \in Literals, acc # Thrown, ~acc.null, ~r.null,
               acc.type = r.type \/ {acc.type, r.type} \subseteq Numeric, ~TopBit(acc), ~TopBit(r)
        PROVE  Agree(acc, r)
    BY <2>1, <2>3, <2>4
  <2>5. ASSUME NEW r \in Literals, NEW s \in Literals, NumberOf(l), NumberOf(r), NumberOf(s),
               IsTrue("<", l, r), IsTrue("<", r, s)
        PROVE  IsTrue("<", l, s)
    <3>1. IsValue(l) /\ IsValue(r) /\ IsValue(s)
      BY <2>2, <2>5, LiteralAssumption DEF NumberOf
    <3> QED
      BY <2>5, <3>1, BeforeIsTransitive
  <2>6. ASSUME NEW r \in Literals, NEW s \in Literals, NumberOf(acc), NumberOf(r), NumberOf(s),
               IsTrue("<", acc, r), IsTrue("<", r, s)
        PROVE  IsTrue("<", acc, s)
    BY <2>1, <2>5, <2>6
  <2> QED
    BY <2>4, <2>6, Zenon DEF ComparisonsAreAnOrder, Agree
<1> QED
  BY <1>1, EvaluatorInvariant, PTL
=============================================================================
