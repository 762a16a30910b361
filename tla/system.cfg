SPECIFICATION Spec
CONSTANTS
    NoLcore = NoLcore
    NoPid = NoPid
    p1 = p1
    p2 = p2
    p3 = p3
    Cpus = {0, 1, 2, 3}
    Enabled = {0, 1, 2}
    main_lcore = 0
    nports = 1
    QueueIds = {0, 1}
    Instances = {p1, p2, p3}
    Configs <- MCConfigs
    Modules <- MCModules
    Terms <- MCTerms
    Mbufs = 2
    RingSize = 1
    Burst = 2
    MaxArrivals = 2
INVARIANTS PidFileNamesRunner LcoresSound MbufsConserved
PROPERTIES PacketsTaken StaleFileStopsNobody
CHECK_DEADLOCK FALSE
