SPECIFICATION Spec
CONSTANTS
    Addr <- MCAddr
    Text <- MCText
    Code <- MCCode
    Entry = 0
    WordLen = 2
    MaxDepth = 2
    MaxSignals = 0
    Breakable <- MCBreakable
    MainBp = 4
    Junk <- MCJunk
    NoSource = {}
    BreakAddrs = {1, 5}
    RipValues = {1}
    PeekAddrs = {}
    Words = {}
PROPERTY
    FaultPausesChild
