SPECIFICATION Spec
CONSTANTS
    Half <- MCHalf
    Mantissa <- MCMantissa
    DecimalTop <- MCDecimalTop
    DoubleNumbers <- MCDoubleNumbers
    Nearest <- MCNearest
    Letters <- MCLetters
    DateTexts <- MCDateTexts
    Tables <- MCTables
    Plans <- MCPlans
    BatchSize = 2
INVARIANTS
    StreamIsTheRelation
    NullsWhereOrdered
    GroupsAreRight
    ColumnsReadBack
CHECK_DEADLOCK FALSE
