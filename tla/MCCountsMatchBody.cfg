CONSTANTS
    MaxRecords = 2
    MaxQueries = 1
    MaxSockets = 1
SPECIFICATION Spec
INVARIANT CountsMatchBody
\* The bound on the queries is reached, or a fault ends the process.
CHECK_DEADLOCK FALSE
