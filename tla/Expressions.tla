----------------------------- MODULE Expressions -----------------------------
(***************************************************************************)
(* The expression nodes over the values of their two children: the type a  *)
(* node declares when it is built, and the value evaluate returns.         *)
(***************************************************************************)
EXTENDS ValueFactory

\* ArithmeticExpression: infer_return_type, "NONE" when the constructor throws
is_numeric(t) == t \in Numeric
ArithmeticType(lt, rt) ==
    IF is_numeric(lt) /\ is_numeric(rt) THEN CommonType(lt, rt) ELSE "NONE"

\* perform_computation; ** and // are refused
EvaluateArithmetic(op, l, r) ==
    IF op \in ArithmeticOps THEN ValueArith(op, l, r) ELSE {Thrown}

\* ComparisonExpression: the result of the comparison as a BOOLEAN, whose NULL
\* is the sentinel get_boolean_value writes
BooleanValue(c) ==
    CASE c = "CmpTrue"  -> MakeInteger("BOOLEAN", 1)
      [] c = "CmpFalse" -> MakeInteger("BOOLEAN", 0)
      [] c = "CmpNull"  -> NullOfType("BOOLEAN")
      [] c = "Throw"    -> Thrown
EvaluateComparison(cmp, l, r) == {BooleanValue(c) : c \in ValueCompare(cmp, l, r)}

\* LogicExpression: both children must be declared BOOLEAN
LogicType(lt, rt) == IF lt = "BOOLEAN" /\ rt = "BOOLEAN" THEN "BOOLEAN" ELSE "NONE"
get_bool_as_cmp_bool(v) ==
    IF v.null THEN "CmpNull" ELSE IF v.raw[1] # 0 THEN "CmpTrue" ELSE "CmpFalse"
EvaluateLogic(logic, left, right) ==
    LET l == get_bool_as_cmp_bool(left)
        r == get_bool_as_cmp_bool(right)
        decisive == IF logic = "and" THEN "CmpFalse" ELSE "CmpTrue"
        neutral  == IF logic = "and" THEN "CmpTrue" ELSE "CmpFalse"
    IN  {BooleanValue(CASE decisive \in {l, r} -> decisive
                        [] l = neutral /\ r = neutral -> neutral
                        [] OTHER -> "CmpNull")}
=============================================================================
