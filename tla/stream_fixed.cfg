SPECIFICATION Spec
CONSTANTS
    SeqSpace = 32
    LenMod = 32
    MaxBuffer = 10
    MaxSegments = 3
    MergeAbove = 1
    Isns = {29}
    StreamLen = 10
    Segments <- FixedCut
    ConsumeLens = {3}
INVARIANTS NoDataLoss PrefixDelivered
