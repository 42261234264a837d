CONSTANTS
    MaxRecords = 2
    MaxQueries = 3
    MaxSockets = 2
    Port = {p1, p2}
    NoPort = NoPort
SPECIFICATION FairResolver
INVARIANTS
    RecordsOwned
    AuthoritativeRepliesParse
    AnswersMatch
PROPERTY QueryEnds OnlyFailuresLeaveSockets
\* The bound on the queries is reached, or a fault ends the process.
CHECK_DEADLOCK FALSE
