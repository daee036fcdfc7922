----------------------------- MODULE MCEvaluator -----------------------------
(***************************************************************************)
(* Three- and four-bit TINYINT and SMALLINT, an INTEGER wide enough for    *)
(* their products, a BIGINT two bits wider, and doubles of an eight-bit    *)
(* significand: wide enough for an INTEGER, a bit short of a BIGINT.       *)
(***************************************************************************)
EXTENDS Evaluator, TLC

MCHalf == [TINYINT |-> 4, SMALLINT |-> 8, INTEGER |-> 128, BIGINT |-> 512,
           BOOLEAN |-> 2, TIMESTAMP |-> 8]
\* The doubles: multiples of a power of two, no larger than 256 times it
MCMantissa == 256
MCDecimalTop == 8 * MCMantissa
MCScales == {1, 2, 4, 8}
MCDoubleNumbers == {g * k : g \in MCScales, k \in -MCMantissa .. MCMantissa}

\* How far apart the doubles around n lie, and round to nearest: of two doubles
\* equally near to the one with the even significand
Spacing(n) ==
    CHOOSE g \in MCScales :
        /\ n \in -(MCMantissa * g) .. MCMantissa * g
        /\ \A h \in MCScales : n \in -(MCMantissa * h) .. MCMantissa * h => g <= h
RoundedTo(g, n) ==
    LET q == n \div g
        r == n % g
    IN  IF 2 * r > g \/ (2 * r = g /\ q % 2 = 1) THEN (q + 1) * g ELSE q * g
MCNearest == [n \in -MCDecimalTop .. MCDecimalTop |-> RoundedTo(Spacing(n), n)]

MCLetters == {7, 8}

\* a date in the first month, one in the second, whose code has the top bit
\* set, and the one date whose code is the int64_t NULL
MCDateTexts == (<<101>> :> [month |-> 1, year |-> 3])
            @@ (<<102>> :> [month |-> 2, year |-> 1])
            @@ (<<103>> :> [month |-> 2, year |-> 0])

Edges(t) == {MakeInteger(t, n) : n \in {Lowest(t), MIN(t), -1, 0, 2, MAX(t)}}
MCLiterals ==
    UNION {Edges(t) : t \in IntegerTypes}
    \union {MakeInteger("BIGINT", n) : n \in {256, 257}}
    \union {MakeDecimal(n) : n \in {-1024, -3, 0, 4, 7, 512, 1020}} \union {NullDecimal}
    \union {MakeInteger("BOOLEAN", n) : n \in {0, 1}} \union {NullOfType("BOOLEAN")}
    \union {MakeVarchar(s) : s \in {<<>>, <<7>>, <<101>>, <<102>>, <<103>>}} \union {NullVarchar}
    \union {MakeTimestamp(n) : n \in {5, 9, TimestampNull}}
=============================================================================
