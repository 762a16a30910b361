SPECIFICATION Spec
CONSTANTS
    Lcores = {w1}
    Keys <- MCKeys
    Peer <- MCPeer
    Hash <- MCHash
    HashSize = 2
    MaxFlows = 2
    TimeoutNew = 1
    TimeoutEst = 2
    CleanupInterval = 1
    Rx <- OneLcore
    Flows = {f1, f2, f3}
    NoFlow = NoFlow
    NoLcore = NoLcore
    UseMod = 4
    AgeMod = 16
    ActiveMod = 8
    PacketHorizon = 2
    MaxClock = 5
INVARIANTS LimitKept
