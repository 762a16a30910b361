SPECIFICATION Spec
CONSTANTS
    NoText = NoText
    NoConn = NoConn
    NoTx = NoTx
    Frames <- MCFrames
    LenMod = 65536
    Builtin <- MCRules
    Severities = {"HIGH"}
    MAX_ALERTS = 4
    DNS_HEADER_SIZE = 1
    QuestionTail = 1
    RecordTail = 2
    DNS_MAX_NAME_LEN = 5
    DNS_MAX_LABEL_LEN = 2
    PTR = 4
    max_jumps = 2
    Limit <- MCLimit
    QuestionMark = QuestionMark
    MaxDots = 0
    Printable = {0, 1, 2, 3}
    SuspiciousCells = {3}
    Domain = 2
    MX = 3
    MxPreference = 2
    MaxPackets = 2
    MaxFailures = 1
INVARIANTS ParserInBounds NameFaithful DnsAccounted NamesReported
PROPERTIES Terminates
CHECK_DEADLOCK FALSE
