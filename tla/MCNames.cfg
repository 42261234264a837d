SPECIFICATION Spec
CONSTANTS
    Letter = {97, 98}
    Name <- MCName
    ZoneTable <- MCZoneTable
INVARIANTS NameComesBack TypeBehindName ZoneEncloses
\* A lookup ends.
CHECK_DEADLOCK FALSE
