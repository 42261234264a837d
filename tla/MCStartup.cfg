SPECIFICATION Spec
CONSTANTS
    Required = {"dnsip", "logFile"}
    dnsip = "dnsip"
    logFile = "logFile"
    forwarder = "forwarder"
    unknown = "unknown"
    Chunk = 2
    MaxLines = 5
    MaxFailures = 1
INVARIANTS PairsFitTable ValuesAreRead CleanStart
PROPERTY ValidFileStarts
CHECK_DEADLOCK FALSE
