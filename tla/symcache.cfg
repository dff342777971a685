SPECIFICATION Spec
CONSTANTS
    Names <- MCNames
    Symbols <- MCSymbols
    Matching <- MCMatching
    Exact <- MCExact
    Length <- MCLength
    Sizes = {1, 2, 3}
    MinLengths = {0, 3, 4}
INVARIANTS
    TypeOK
    InStep
    WithinLimits
PROPERTIES
    EvictsLeastRecent
    Transparent
