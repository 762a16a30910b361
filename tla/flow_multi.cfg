SPECIFICATION FairSpec
CONSTANTS
    w1 = w1
    w2 = w2
    Lcores <- MCLcores
    Keys <- MCKeys
    Peer <- MCPeer
    Hash <- MCHash
    HashSize = 1
    MaxFlows = 2
    TimeoutNew = 1
    TimeoutEst = 2
    CleanupInterval = 1
    Rx <- MCRx
    Flows = {f1, f2}
    NoFlow = NoFlow
    NoLcore = NoLcore
    UseMod = 4
    AgeMod = 16
    ActiveMod = 8
    PacketHorizon = 2
    MaxClock = 5
INVARIANTS TableSound HeldFlowIsLive NoLeakedReference
PROPERTIES TableDrains
