SPECIFICATION FairSpec
CONSTANTS
    c1 = c1
    c2 = c2
    c3 = c3
    p1 = p1
    p2 = p2
    NoContext = NoContext
    NoPlugin = NoPlugin
    Contexts <- OneContext
    Plugins <- OnePlugin
    MaxInstances = 1
    MaxInt = 2
    GlobalIntCalls <- NoCalls
    MaxOptions = 0
    AddMayFail = FALSE
PROPERTIES
    HandlesOfUnloadedPluginsAreClosed
