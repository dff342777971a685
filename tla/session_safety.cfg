SPECIFICATION Spec
CONSTANTS
    Addr <- MCAddr
    Text <- MCText
    Code <- MCCode
    Entry = 0
    WordLen = 2
    MaxDepth = 2
    MaxSignals = 1
    Breakable <- MCBreakable
    MainBp = 4
    Junk <- MCJunk
    NoSource <- MCNoSource
    BreakAddrs <- MCBreakAddrs
    RipValues <- MCRipValues
    PeekAddrs <- MCPeekAddrs
    Words <- MCWords
INVARIANTS
    TypeOK
    TextIsOverlay
    Reachable
    MainRetLive
    ArmedAsAsked
    NoBreakpointMissed
    NoTrapLeftBehind
    NoPromptAfterEnd
PROPERTY
    ProgramUndisturbed
