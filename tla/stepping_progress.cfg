SPECIFICATION StepFairSpec
CONSTANTS
    Addr <- MCAddr
    Text <- MCText
    Code <- MCCode
    Entry = 0
    WordLen = 1
    MaxDepth = 3
    MaxSignals = 0
    Breakable <- MCAddr
    MainBp = 4
    Junk <- MCJunk
    NoSource = {}
    BreakAddrs = {5}
    RipValues = {}
    PeekAddrs = {}
    Words = {}
    Line <- MCLine
    Func <- MCFunc
    Stmts <- MCStmts
    Unlisted = {"g"}
    Framed <- MCFramed
    OnesOnStack = {11}
PROPERTY
    StepInAborts
