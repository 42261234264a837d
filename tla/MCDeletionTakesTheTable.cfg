SPECIFICATION Spec
CONSTANTS
    a1 = a1
    a2 = a2
    Admin = {a1}
    ab_dot_cd = ab_dot_cd
    ab_under_cd = ab_under_cd
    ef = ef
    Name = {ab_dot_cd, ab_under_cd, ef}
    NoZone = NoZone
    TableOf <- MCTableOf
    MaxIds = 4
    MaxRecords = 1
    MaxFailures = 0
INVARIANT DeletionTakesTheTable
CHECK_DEADLOCK FALSE
