SPECIFICATION Spec
CONSTANTS
    prober = prober
    client = client
    inside = inside
    outside = outside
    NoTracker = NoTracker
    Lcores = {1, 2}
    Flows <- MCFlows
    Scenarios <- MCScenarios
    External = {outside}
    PORT_SCAN_WINDOW = 1
    PORT_SCAN_THRESHOLD = 2
    MAX_TRACKED_PORTS = 2
    BRUTE_FORCE_WINDOW = 1
    BRUTE_FORCE_THRESHOLD = 2
    DATA_EXFIL_WINDOW = 1
    DATA_EXFIL_THRESHOLD = 10
    ANOMALY_WINDOW = 1
    DNS_HIGH_FREQ_THRESHOLD = 2
    SCAN_AGE = 2
    BRUTE_AGE = 1
    EXFIL_AGE = 2
    ANOMALY_AGE = 1
    AgePeriod = 2
    Garbage = {0, 2}
    MaxTime = 3
    MaxPackets = 4
    MaxFailed = 2
INVARIANTS SuspectsReported OneAlertPerWindow
CHECK_DEADLOCK FALSE
