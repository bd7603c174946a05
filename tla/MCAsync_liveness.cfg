SPECIFICATION FairSpec
CONSTANTS
    c1 = c1
    c2 = c2
    c3 = c3
    p1 = p1
    p2 = p2
    NoContext = NoContext
    NoPlugin = NoPlugin
    Contexts <- TwoContexts
    Plugins <- OnePlugin
    MaxInstances = 1
    MaxInt = 3
    GlobalIntCalls <- NoCalls
    MaxOptions = 0
    AddMayFail = FALSE
INVARIANTS
    NotStranded
PROPERTIES
    RequestsComplete
    ClosedIsFreed
