SPECIFICATION StepFairSpec
CONSTANTS
    Addr <- MCAddr
    Text <- MCText
    Code <- MCCode
    Entry = 0
    WordLen = 1
    MaxDepth = 3
    MaxSignals = 1
    Breakable <- MCAddr
    MainBp = 4
    Junk <- MCJunk
    NoSource = {}
    BreakAddrs = {5}
    RipValues = {}
    PeekAddrs = {5}
    Words <- MCWords
    Line <- MCLine
    Func <- MCFunc
    Stmts <- MCStmts
    Unlisted = {"g"}
    Framed <- MCFramed
    OnesOnStack = {11}
INVARIANTS
    StepTypeOK
    TempsExist
    ArmedAsAskedBetweenPlans
    NextStopsAtEveryLine
    StepOverlay
    NoBreakpointMissed
PROPERTIES
    PlanRestoresTable
    StepsUndisturbed
    PlanEnds
