CONSTANTS
    HighWater = 1
    MaxRequests = 1
    MaxSignals = 1
    MaxFailures = 0
SPECIFICATION FairSpec
PROPERTY ExitEndsProgram
\* The process ends, and a thread that was never started is waited for in vain.
CHECK_DEADLOCK FALSE
