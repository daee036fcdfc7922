SPECIFICATION Spec
CONSTANTS
    Half <- MCHalf
    Mantissa <- MCMantissa
    DecimalTop <- MCDecimalTop
    DoubleNumbers <- MCDoubleNumbers
    Nearest <- MCNearest
    Letters <- MCLetters
    DateTexts <- MCDateTexts
    Literals <- MCLiterals
    MaxText = 3
INVARIANTS
    ValueIsItsMeaning
    DeclaredTypeHolds
    ComparisonsAreAnOrder
