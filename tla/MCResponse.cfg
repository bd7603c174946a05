SPECIFICATION RSpec
CONSTANTS
    MaxLine = 3
    MaxData = 2
    MaxReceived = 2
    BufferSizes = {0, 1, 2, 3}
INVARIANTS
    RTypeOK
    HeaderIsLastGiven
    DataIsCopied
    StringIsTerminated
    OverrunIsByOne
CHECK_DEADLOCK FALSE
