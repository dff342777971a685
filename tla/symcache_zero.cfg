SPECIFICATION Spec
CONSTANTS
    Names <- MCNames
    Symbols <- MCSymbols
    Matching <- MCMatching
    Exact <- MCExact
    Length <- MCLength
    Sizes = {0, 2}
    MinLengths = {0, 3, 4}
INVARIANT
    NeverOutOfSync
