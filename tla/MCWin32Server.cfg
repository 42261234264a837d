SPECIFICATION Spec
CONSTANTS
    MaxRequests = 3
    MaxStarts = 2
INVARIANTS BuffersFreedOnce OnlyOverlapsLose
PROPERTIES StopIsComplete StopEnds RelaySpec
\* The program ends, in a fault perhaps.
CHECK_DEADLOCK FALSE
