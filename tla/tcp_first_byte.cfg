SPECIFICATION Spec
CONSTANTS
    SeqSpace = 16
    LenMod = 32
    MaxBuffer = 4
    MaxSegments = 2
    MergeAbove = 1
    Hosts = {"client", "server"}
    NoHost = NoHost
    Packets <- OpenConnection
INVARIANTS FirstByteDelivered
