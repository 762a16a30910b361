SPECIFICATION FairSpec
CONSTANTS
    Timers = {t1, t2}
    NoTimer = NoTimer
    LevelSize = 3
    MaxTicks = 9
    UsecPerTick = 2
    Delays = {1, 6, 16, 18}
    HandlerDelays = {2, 4}
INVARIANTS WheelSound
PROPERTIES AbsSpec TickReturns
