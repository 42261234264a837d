CONSTANTS
    HighWater = 1
    MaxRequests = 2
    MaxSignals = 1
    MaxFailures = 1
SPECIFICATION FairSpec
PROPERTIES
    RequestsLeave
    ShutdownCompletes
\* The process ends, and a thread that was never started is waited for in vain.
CHECK_DEADLOCK FALSE
