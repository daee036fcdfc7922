------------------------------ MODULE Evaluator ------------------------------
(***************************************************************************)
(* A tree of expressions evaluated from its leftmost leaf up: acc is the   *)
(* value so far, every step adds a node whose other child is a literal.    *)
(* declared is the type the tree was built with, from the nodes alone, and *)
(* meaning what the tree denotes in arithmetic and three-valued logic,     *)
(* computed from the literals and never from acc.  Integers denote exact   *)
(* results.  Beside a DECIMAL the arithmetic is a double's: each operand   *)
(* stands for the double nearest to it, which for a BIGINT may be another  *)
(* number, and the result is the double nearest to the exact one.          *)
(*                                                                         *)
(* Where the code reads what was never written, or overflows a signed      *)
(* integer, no meaning is left: it restarts from the value at hand.        *)
(***************************************************************************)
EXTENDS Expressions

CONSTANTS
    Literals,      \* the values ConstantValueExpressions hold
    MaxText        \* bound on the letters of a VARCHAR copied over and over

ASSUME LiteralAssumption == \A v \in Literals : IsValue(v)

VARIABLES acc, declared, meaning
vars == <<acc, declared, meaning>>

(* -- meanings ------------------------------------------------------------- *)
Free == [kind |-> "free", n |-> 0]
NullMeaning == [kind |-> "null", n |-> 0]
Number(n) == [kind |-> "number", n |-> n]
\* false, unknown and true are 0, 1 and 2
Truth(d) == [kind |-> "truth", n |-> d]

TruthOf(v) == IF v.null THEN 1 ELSE IF v.raw[1] = 0 THEN 0 ELSE 2
Denotes(v) ==
    CASE v.type = "BOOLEAN" -> Truth(TruthOf(v))
      [] v.type # "BOOLEAN" /\ v.null -> NullMeaning
      [] v.type \in Numeric /\ ~v.null -> Number(Halves(v))
      [] OTHER -> Free
IsUnknown(m) == m = NullMeaning \/ m = Truth(1)

\* what a number of a type is beside a DECIMAL
AsDouble(type, n) == IF type = "DECIMAL" THEN n ELSE Nearest[n]

\* arithmetic on halves; two integers divide to an integer
ExactArithmetic(op, a, b, integers) ==
    CASE op = "add"      -> a + b
      [] op = "subtract" -> a - b
      [] op = "multiply" -> Quotient(a * b, 2)
      [] op = "divide"   -> IF integers THEN 2 * Quotient(a, b) ELSE Quotient(2 * a, b)
      [] op = "modulo"   -> Remainder(a, b)

\* signed overflow of the type the operation is computed in
Overflows(op, m, r) ==
    /\ declared \in IntegerTypes /\ r.type \in IntegerTypes
    /\ m.kind = "number" /\ ~r.null
    /\ op \in {"divide", "modulo"} => r.raw[1] # 0
    /\ LET t == Computed(declared, r.type)
       IN  ExactArithmetic(op, m.n, Halves(r), TRUE) \notin 2 * Lowest(t) .. 2 * MAX(t)

ArithmeticMeaning(op, m, r) ==
    IF m = NullMeaning \/ Denotes(r) = NullMeaning THEN NullMeaning
    ELSE IF m.kind # "number" \/ r.type \notin Numeric \/ (op \in {"divide", "modulo"} /\ IsZero(r))
    THEN Free
    ELSE IF {declared, r.type} \subseteq IntegerTypes
    THEN Number(ExactArithmetic(op, m.n, Halves(r), TRUE))
    ELSE Number(Nearest[ExactArithmetic(op, AsDouble(declared, m.n),
                                        AsDouble(r.type, Halves(r)), FALSE)])

\* two numbers relate as doubles where one of them is a DECIMAL
NumbersRelate(cmp, t, a, u, b) ==
    IF "DECIMAL" \in {t, u} THEN Holds(cmp, AsDouble(t, a), AsDouble(u, b))
    ELSE Holds(cmp, a, b)

ComparisonMeaning(cmp, m, r) ==
    LET d == Denotes(r)
    IN  IF IsUnknown(m) \/ IsUnknown(d) THEN Truth(1)
        ELSE IF m.kind = "number" /\ d.kind = "number"
        THEN Truth(IF NumbersRelate(cmp, declared, m.n, r.type, d.n) THEN 2 ELSE 0)
        ELSE IF m.kind = "truth" /\ d.kind = "truth"
        THEN Truth(IF Holds(cmp, m.n, d.n) THEN 2 ELSE 0)
        ELSE Free

\* conjunction is the minimum and disjunction the maximum of the truths
LogicMeaning(logic, m, r) ==
    LET d == TruthOf(r)
    IN  Truth(IF (logic = "and") = (m.n < d) THEN m.n ELSE d)

Restart(v) == IF v = Thrown THEN Free ELSE Denotes(v)
\* a number that landed on the sentinel is NULL to every node above
Now == IF acc.null /\ meaning.kind = "number" THEN NullMeaning ELSE meaning
Settled(m, v) == IF m = Free THEN Restart(v) ELSE m
Unwritten(v) == v.raw = <<>> /\ v.type # "VARCHAR"

(* -- steps ---------------------------------------------------------------- *)
Init == /\ acc \in Literals
        /\ declared = acc.type
        /\ meaning = Denotes(acc)

\* a statement that threw is over; the next one starts at its first literal
NextStatement ==
    /\ acc = Thrown
    /\ acc' \in Literals
    /\ declared' = acc'.type
    /\ meaning' = Denotes(acc')

ArithmeticNode(op, r) ==
    /\ acc # Thrown
    /\ ArithmeticType(declared, r.type) # "NONE"
    /\ acc' \in EvaluateArithmetic(op, acc, r)
    /\ declared' = ArithmeticType(declared, r.type)
    /\ meaning' = IF Overflows(op, Now, r) THEN Restart(acc')
                  ELSE Settled(ArithmeticMeaning(op, Now, r), acc')

ComparisonNode(cmp, r) ==
    /\ acc # Thrown
    /\ acc' \in EvaluateComparison(cmp, acc, r)
    /\ declared' = "BOOLEAN"
    \* != of a NULL TIMESTAMP compares the code under it
    /\ meaning' = IF acc.type = "TIMESTAMP" /\ acc.null THEN Restart(acc')
                  ELSE Settled(ComparisonMeaning(cmp, Now, r), acc')

LogicNode(logic, r) ==
    /\ acc # Thrown
    /\ LogicType(declared, r.type) # "NONE"
    /\ acc' \in EvaluateLogic(logic, acc, r)
    /\ declared' = "BOOLEAN"
    /\ meaning' = LogicMeaning(logic, Now, r)

\* Value::min and max, as an aggregate calls them.  A BIGINT and a DECIMAL that
\* are one double are equal: either is the extreme, and its type says which.
ExtremeOf(op, r) ==
    /\ acc # Thrown
    /\ acc.type = "TIMESTAMP" => r.type = "TIMESTAMP"
    /\ acc.type = "VARCHAR" => Len(acc.raw) < MaxText
    /\ acc' \in ValueExtreme(op, acc, r)
    /\ declared' = IF acc' = Thrown THEN declared ELSE acc'.type
    /\ meaning' = LET d == Denotes(r)
                  IN  IF acc.type \notin Numeric \/ r.type \notin Numeric THEN Restart(acc')
                      ELSE IF NullMeaning \in {Now, d} THEN NullMeaning
                      ELSE IF NumbersRelate("==", acc.type, meaning.n, r.type, d.n)
                      THEN IF acc'.type = acc.type THEN meaning ELSE d
                      ELSE IF (op = "min") = NumbersRelate("<", acc.type, meaning.n, r.type, d.n)
                      THEN meaning ELSE d

SqrtOf ==
    /\ acc # Thrown
    /\ acc' \in ValueSqrt(acc)
    /\ declared' = "DECIMAL"
    /\ meaning' = IF Now.kind # "number" \/ Now.n < 0 THEN Restart(acc')
                  ELSE LET a == AsDouble(declared, meaning.n)
                       IN  Number(CHOOSE k \in 0 .. a + 2 : k * k = 2 * a)

\* a number keeps its value where it fits, without its fraction in an integer,
\* rounded in a DECIMAL
CastMeaning(m, from, to) ==
    IF m.kind # "number" THEN m
    ELSE IF to = "DECIMAL" THEN Number(AsDouble(from, m.n))
    ELSE IF m.n \in 2 * MIN(to) .. 2 * MAX(to) THEN Number(2 * Quotient(m.n, 2))
    ELSE m

CastTo(to) ==
    /\ acc # Thrown
    /\ acc' \in ValueCast(acc, to)
    /\ declared' = to
    /\ meaning' = IF (to = acc.type /\ Unwritten(acc)) \/ to \notin Numeric \/ acc.type \notin Numeric
                  THEN Restart(acc') ELSE CastMeaning(Now, acc.type, to)

FactoryCastTo(to) ==
    /\ acc # Thrown
    /\ acc' \in FactoryCast(acc, to)
    /\ declared' = to
    /\ meaning' = Restart(acc')

CopyValue ==
    /\ acc # Thrown
    /\ acc.type = "VARCHAR" => Len(acc.raw) < MaxText
    /\ acc' \in ValueCopy(acc)
    /\ declared' = IF Unwritten(acc) THEN acc.type ELSE declared
    /\ meaning' = IF Unwritten(acc) THEN Restart(acc') ELSE Now

\* what Tuple does to a column: only values that are not NULL are serialised
StoreValue ==
    /\ acc # Thrown /\ ~acc.null
    /\ acc' \in ValueStore(acc)
    /\ declared' = declared
    /\ meaning' = meaning

Next ==
    \/ NextStatement
    \/ \E op \in ArithmeticOps, r \in Literals : ArithmeticNode(op, r)
    \/ \E cmp \in Comparisons, r \in Literals : ComparisonNode(cmp, r)
    \/ \E logic \in {"and", "or"}, r \in Literals : LogicNode(logic, r)
    \/ \E op \in {"min", "max"}, r \in Literals : ExtremeOf(op, r)
    \/ SqrtOf
    \/ \E to \in DataTypes : CastTo(to)
    \/ \E to \in DataTypes : FactoryCastTo(to)
    \/ CopyValue
    \/ StoreValue

Spec == Init /\ [][Next]_vars

(* -- properties ----------------------------------------------------------- *)
Representable(t, n) == t = "DECIMAL" \/ n \in 2 * MIN(t) .. 2 * MAX(t)

\* A chain of operations yields the number or the truth it means, or NULL if
\* that number is the integer below MIN that stands for NULL, and it throws only
\* if the number does not fit the declared type.  On integers the number meant
\* is the exact one.  Beside a DECIMAL it is the rounded one: 2^53 + 1 as a
\* BIGINT equals the DECIMAL 2^53 and cast to DECIMAL is that number, as in the
\* code; nothing else is lost.  NULL stays NULL, unknown behaves as in
\* three-valued logic.
ValueIsItsMeaning ==
    CASE meaning.kind = "number" ->
           IF acc = Thrown THEN ~Representable(declared, meaning.n)
           ELSE IF acc.null THEN meaning.n = 2 * Lowest(acc.type)
           ELSE Halves(acc) = meaning.n
      [] meaning.kind = "null" -> acc = Thrown \/ acc.null
      [] meaning.kind = "truth" -> acc # Thrown /\ TruthOf(acc) = meaning.n
      [] OTHER -> TRUE

\* What is not NULL has the type the nodes declared when the tree was built
\* (infer_return_type, Type::get_common_type), which is the type its bytes are
\* laid out by in a tuple.
DeclaredTypeHolds == acc # Thrown /\ ~acc.null => acc.type = declared

\* The six comparisons of two values of comparable types agree: just one of <,
\* == and > is true, the others are their complements, and the operands can be
\* swapped.  On numbers < is transitive whatever their types, although a BIGINT
\* is rounded beside a DECIMAL.  == is not: the BIGINTs 2^53 and 2^53 + 1 differ
\* and both equal the DECIMAL 2^53.  TIMESTAMP codes with the top bit set are
\* left out: > reads them as negative.
Mirror == [c \in Comparisons |-> CASE c = "<" -> ">" [] c = ">" -> "<"
             [] c = "<=" -> ">=" [] c = ">=" -> "<=" [] OTHER -> c]
TopBit(v) == v.type = "TIMESTAMP" /\ AsSigned(v.raw[1]) < 0
IsTrue(c, a, b) == ValueCompare(c, a, b) = {"CmpTrue"}
NumberOf(v) == v # Thrown /\ ~v.null /\ v.type \in Numeric
ComparisonsAreAnOrder ==
    /\ \A r \in Literals :
           (/\ acc # Thrown /\ ~acc.null /\ ~r.null
            /\ acc.type = r.type \/ {acc.type, r.type} \subseteq Numeric
            /\ ~TopBit(acc) /\ ~TopBit(r))
           => /\ Cardinality({c \in {"<", "==", ">"} : IsTrue(c, acc, r)}) = 1
              /\ IsTrue("!=", acc, r) = ~IsTrue("==", acc, r)
              /\ IsTrue("<=", acc, r) = ~IsTrue(">", acc, r)
              /\ IsTrue(">=", acc, r) = ~IsTrue("<", acc, r)
              /\ \A c \in Comparisons : IsTrue(c, acc, r) = IsTrue(Mirror[c], r, acc)
    /\ \A r, s \in Literals :
           (/\ NumberOf(acc) /\ NumberOf(r) /\ NumberOf(s)
            /\ IsTrue("<", acc, r) /\ IsTrue("<", r, s)) => IsTrue("<", acc, s)
=============================================================================
