SPECIFICATION FairSpec
CONSTANTS
    Exec <- MCExec
    Loaded <- MCLoaded
    Units <- MCUnits
    Past <- MCPast
    Align = 2
    Funcs <- MCFuncs
    Returns <- MCReturns
    CallGraph <- MCCallGraph
    Data <- MCData
    StackTop = 80
    StackLimit = 64
    Page = 8
    Junk <- MCJunk
    Words <- MCWords
    PokeAddrs <- MCPokeAddrs
    Extra <- MCExtra
    Names <- MCNames
    Lines <- MCLines
    MaxDepth = 4
    MaxFrames = 4
INVARIANTS
    TypeOK
    BacktraceIsCallChain
    
    ChunksAreCurrent
    BreakpointInFunction
    BreakpointOnLine
    ScansAreExact
PROPERTIES
    WalkClimbs
    BacktraceEnds
