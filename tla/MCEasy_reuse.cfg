SPECIFICATION EHSpec
CONSTANTS
    b1 = b1
    b2 = b2
    b3 = b3
    l1 = l1
    NULL = NULL
    Blocks <- ThreeBlocks
    HeaderLines <- OneLine
    IntSettings <- SomeSettings
    MaxSize = 1
    MaxStarts = 3
    MaxHeaders = 1
    MaxPieces = 1
SYMMETRY BlockSymmetry
INVARIANTS
    EHTypeOK
    PostBlocksAccounted
    RawPostsArriveWhole
    HeadersArrive
    FirstRequestIsAsAsked
