SPECIFICATION FairSpec
CONSTANTS
    Names <- MCNames
    Text <- MCText
INVARIANTS
    TypeOK
    ReadableIsShort
    NeverThrows
    AnglesBalanced
PROPERTIES
    ReadableProgresses
    ReadableEnds
