CONSTANTS
    HighWater = 1
    MaxRequests = 3
    MaxSignals = 2
    MaxFailures = 1
SPECIFICATION Spec
INVARIANTS
    ArrivalOrder
    
    
    NothingLeftBehind
PROPERTY RelaySpec
\* The process ends, in main's return or in a fault.
CHECK_DEADLOCK FALSE
