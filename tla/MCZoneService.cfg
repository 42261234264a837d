SPECIFICATION ServiceSpec
CONSTANTS
    a1 = a1
    a2 = a2
    Admin = {a1, a2}
    ab_dot_cd = ab_dot_cd
    ab_under_cd = ab_under_cd
    ef = ef
    Name = {ab_dot_cd, ab_under_cd, ef}
    NoZone = NoZone
    TableOf <- MCTableOf
    MaxIds = 2
    MaxRecords = 1
    MaxFailures = 1
INVARIANTS ZonesHaveTables TablesHaveRows OldZonesAreServed LookupsAreOwn
SYMMETRY Alike
CHECK_DEADLOCK FALSE
