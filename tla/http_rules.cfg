SPECIFICATION Spec
CONSTANTS
    web = web
    sec = sec
    l1 = l1
    NoText = NoText
    NoHello = NoHello
    NoParser = NoParser
    Flows <- MCFlows
    Lcores = {l1}
    LcoreOf <- OneLcore
    Ports <- MCPorts
    Traffic <- MCTraffic
    Wire <- MCWire
    Builtin <- MCRules
    Severities = {"MEDIUM", "HIGH"}
    MAX_ALERTS = 2
    BufferUnits = 3
    FLOW_ALPROTO_MAX_ATTEMPTS = 2
    MayFail = {}
    MayLose = {}
    MaxPackets = 5
    MaxFailures = 1
    MaxBehaved = 1
    Sizes = {0, 1, 3}
    HTTP_MAX_HEADERS = 3
    TLS13 = 13
    enable_port_detection = TRUE
    max_inspect_depth = 4096
INVARIANT AlertsMatchRules
CHECK_DEADLOCK FALSE
