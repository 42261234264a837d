---- MODULE ZoneService ----
(***************************************************************************)
(* The server beside the administration: iniDNSlib reads the names of all  *)
(* zones once, with one statement, copies them one by one and serves them  *)
(* until the process ends, while the requests of ZoneAdmin go on in the    *)
(* same database.  Each lookup is a statement of its own, in the table SOA *)
(* or in the record table of a zone whose name was read at the start.      *)
(*                                                                         *)
(* A name is one that findZoneName has found; which records of a table fit *)
(* a question is left out.  The server can be stopped or killed, and       *)
(* started again, at any time.                                             *)
(***************************************************************************)
EXTENDS ZoneAdmin

VARIABLES
    server,     \* how far the server is
    result,     \* rows of the start's SELECT that are not copied yet
    zones,      \* the copied names
    lookup,     \* the last lookup until the next request: its zone and what came of it
    gone,       \* history: names whose row was deleted or changed since the SELECT
    came        \* history: names that a row was inserted with, or changed to, since it

serverVars  == <<server, result, zones, lookup>>
history     == <<gone, came>>
serviceVars == <<vars, serverVars, history>>

NoLookup == [zone |-> NoZone, how |-> "none"]

ServiceInit ==
    /\ Init
    /\ server = "down" /\ result = <<>> /\ zones = {} /\ lookup = NoLookup
    /\ gone = {} /\ came = {}

----------------------------------------------------------------------------
(* iniDNSlib and deIniDNSlib                                               *)

\* iniDB, connectToMysql
connectToMysql ==
    /\ server = "down" /\ server' = "connected"
    /\ UNCHANGED <<vars, result, zones, lookup, history>>

\* The SELECT of queryMysqlZoneNames and its stored result.
SelectNames ==
    /\ server = "connected" /\ server' = "copying"
    /\ result' = soa
    /\ UNCHANGED <<vars, zones, lookup, history>>

CopyName ==
    /\ server = "copying"
    /\ \E i \in DOMAIN result :
        /\ zones' = zones \cup {result[i]}
        /\ result' = [j \in DOMAIN result \ {i} |-> result[j]]
    /\ UNCHANGED <<vars, server, lookup, history>>

\* Mutant: the loop over the result ends one row early.
NamesReadEarly ==
    /\ server = "copying" /\ \A i, j \in DOMAIN result : i = j
    /\ zones # {} /\ server' = "serving" /\ result' = <<>>
    /\ UNCHANGED <<vars, zones, lookup, history>>

\* No zones are an error for iniDNSlib, as is a number below zero.
NamesRead ==
    /\ server = "copying" /\ DOMAIN result = {}
    /\ zones # {} /\ server' = "serving"
    /\ UNCHANGED <<vars, result, zones, lookup, history>>

\* The process ends and with it what it has read: a call of iniDNSlib has failed, there
\* are no zones, deIniDNSlib was called, or the process was killed.
EndServer ==
    /\ server # "down" /\ server' = "down"
    /\ result' = <<>> /\ zones' = {} /\ lookup' = NoLookup
    /\ gone' = {} /\ came' = {}
    /\ UNCHANGED vars

----------------------------------------------------------------------------
(* Lookups                                                                 *)

Owns(z) == \E i \in DOMAIN soa : soa[i] = z

\* Records of a zone: the statement fails without a table. Whose the records are is
\* not in the table.
queryEntry ==
    /\ server = "serving"
    /\ \E z \in zones : lookup' = [zone |-> z,
                                   how  |-> IF ~HasTable(z) THEN "noTable"
                                            ELSE IF Owns(z) THEN "own" ELSE "foreign"]
    /\ UNCHANGED <<vars, server, result, zones, history>>

\* The SOA row of a zone: none is an answer too.
querySOA ==
    /\ server = "serving"
    /\ \E z \in zones : lookup' = [zone |-> z, how |-> IF Owns(z) THEN "own" ELSE "empty"]
    /\ UNCHANGED <<vars, server, result, zones, history>>

\* The database does not answer.
QueryFails ==
    /\ server = "serving"
    /\ \E z \in zones : lookup' = [zone |-> z, how |-> "error"]
    /\ UNCHANGED <<vars, server, result, zones, history>>

----------------------------------------------------------------------------

ServerStep ==
    \/ connectToMysql \/ SelectNames \/ CopyName \/ NamesRead \/ EndServer
    \/ queryEntry \/ querySOA \/ QueryFails

\* The names of rows that table s has and table t has not, or otherwise.
Names(s, t) == {s[i] : i \in {j \in DOMAIN s : j \in DOMAIN t => t[j] # s[j]}}

AdminStep ==
    /\ Next
    /\ IF server \in {"copying", "serving"}
       THEN gone' = gone \cup Names(soa, soa') /\ came' = came \cup Names(soa', soa)
       ELSE UNCHANGED history
    /\ lookup' = NoLookup
    /\ UNCHANGED <<server, result, zones>>

ServiceNext == ServerStep \/ AdminStep

ServiceSpec == ServiceInit /\ [][ServiceNext]_serviceVars

----------------------------------------------------------------------------
(* Properties.                                                             *)

\* Whenever the SELECT falls between the statements of a request: what the server serves
\* is what SOA has, but for the names that came or went by insertions, renamings and
\* deletions since its start.
OldZonesAreServed ==
    server = "serving" =>
        /\ \A i \in Rows : soa[i] \in zones \cup came
        /\ \A z \in zones : Owns(z) \/ z \in gone

\* Until its row is deleted or renamed, a served zone's lookup finds the zone's row and
\* its own record table, unless a renaming or two deletions at once have got at the
\* table; what requests do between them, and fail to do, to other zones of the same
\* table name is never seen.
LookupsAreOwn ==
    lookup.zone # NoZone /\ lookup.zone \notin gone =>
        \/ lookup.how \in {"own", "error"}
        \/ TableOf[lookup.zone] \notin Kept

====
