SPECIFICATION LoopSpec
CONSTANTS
    SeqSpace = 16
    LenMod = 4
    MaxBuffer = 6
    MaxSegments = 4
    MergeAbove = 2
    Isns = {13}
    StreamLen = 7
    Segments <- AnyCut
    ConsumeLens = {1, 3}
INVARIANTS BufferSound DataMatchesStream QueueOrdered NothingDeliverable
PROPERTIES LoopsTerminate
