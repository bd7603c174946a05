SPECIFICATION EHSpec
CONSTANTS
    b1 = b1
    b2 = b2
    b3 = b3
    l1 = l1
    NULL = NULL
    Blocks <- ThreeBlocks
    HeaderLines <- NoLines
    IntSettings <- NoSettings
    MaxSize = 1
    MaxStarts = 2
    MaxHeaders = 0
    MaxPieces = 0

INVARIANTS
    SentBodyIsAlive
