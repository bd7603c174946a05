SPECIFICATION FairSpec
CONSTANTS
    c1 = c1
    c2 = c2
    c3 = c3
    p1 = p1
    p2 = p2
    NoContext = NoContext
    NoPlugin = NoPlugin
    Contexts <- OneContext
    Plugins <- OnePlugin
    MaxInstances = 1
    MaxInt = 2
    GlobalIntCalls <- TwoCalls
    MaxOptions = 2
    AddMayFail = FALSE
INVARIANTS
    SettingsWakeLoop
    LastSettingWins
    QueuesAreRaceFree
PROPERTIES
    SettingsReachCurl
    GameThreadReturns
