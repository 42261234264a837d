---- MODULE ZoneAdmin ----
(***************************************************************************)
(* The administration of zones and records: mpDNSadmin, PHP scripts that   *)
(* run once per request of an administrator, several at a time, and send   *)
(* single SQL statements to the database that the server reads.  A zone is *)
(* a row of the table SOA, and a record table of its own whose name is     *)
(* made from the zone's.  There are no transactions, and a statement that  *)
(* fails ends its script (mysqlErrorDie).                                  *)
(*                                                                         *)
(* Columns, pages and the syntax checks are left out: the names here are   *)
(* those that pass checkSOA.  Of records it is counted how many there are. *)
(***************************************************************************)
EXTENDS Integers

CONSTANTS
    Admin,          \* requests that are processed at the same time
    Name,           \* zone names
    NoZone,         \* no zone name: the SOA row was not found
    TableOf,        \* the record table of a zone name: "_" replaces "."
    MaxIds,         \* bound: zones that are inserted
    MaxRecords,     \* bound: records in a table, PTR's included
    MaxFailures     \* bound: statements that fail

ASSUME ZoneAdminAssumption ==
    /\ NoZone \notin Name
    /\ MaxIds \in Nat /\ MaxRecords \in Nat /\ MaxFailures \in Nat

Table == {TableOf[n] : n \in Name}

VARIABLES
    soa,            \* the rows of SOA: the zone name by the row's Id
    nextId,         \* SOA's auto_increment
    tables,         \* the record tables that exist
    rr,             \* the number of records in each of them
    ptr,            \* the number of rows in PTR
    pc,             \* the next statement of each request
    zone, id,       \* $zone and $Id of each request
    failures,       \* statements that failed, against their bound
    renamed,        \* history: tables that a row got or left by a change of its name
    raced           \* history: tables of which two deletions were under way at once

db      == <<soa, nextId, tables, rr, ptr>>
strayed == <<renamed, raced>>
vars    == <<db, pc, zone, id, failures, strayed>>

Init ==
    /\ soa = <<>> /\ nextId = 1
    /\ tables = {} /\ rr = [t \in Table |-> 0] /\ ptr = 0
    /\ pc = [a \in Admin |-> "idle"]
    /\ zone = [a \in Admin |-> NoZone] /\ id = [a \in Admin |-> 0]
    /\ failures = 0
    /\ renamed = {} /\ raced = {}

\* Request a is done, by its end or by mysqlErrorDie, and its script's variables are gone.
End(a) ==
    /\ pc' = [pc EXCEPT ![a] = "idle"]
    /\ zone' = [zone EXCEPT ![a] = NoZone] /\ id' = [id EXCEPT ![a] = 0]

HasTable(n) == n # NoZone /\ TableOf[n] \in tables

\* Request a is on its way to drop table t.
Deletes(a, t) == pc[a] \in {"deleteRow", "drop"} /\ zone[a] # NoZone /\ TableOf[zone[a]] = t

----------------------------------------------------------------------------
(* Zones                                                                   *)

\* Mutant: CREATE TABLE IF NOT EXISTS.
CreateAnyTable(a) ==
    /\ pc[a] = "idle" /\ nextId <= MaxIds
    /\ \E n \in Name :
        /\ zone' = [zone EXCEPT ![a] = n]
        /\ tables' = tables \cup {TableOf[n]}
        /\ pc' = [pc EXCEPT ![a] = "insertRow"]
    /\ UNCHANGED <<soa, nextId, rr, ptr, id, failures, strayed>>

\* CREATE TABLE fails for a table that exists.
CreateTable(a) ==
    /\ pc[a] = "idle" /\ nextId <= MaxIds
    /\ \E n \in Name :
        /\ ~HasTable(n)
        /\ zone' = [zone EXCEPT ![a] = n]
        /\ tables' = tables \cup {TableOf[n]}
        /\ pc' = [pc EXCEPT ![a] = "insertRow"]
    /\ UNCHANGED <<soa, nextId, rr, ptr, id, failures, strayed>>

InsertRow(a) ==
    /\ pc[a] = "insertRow" /\ nextId <= MaxIds
    /\ soa' = [i \in DOMAIN soa \cup {nextId} |-> IF i = nextId THEN zone[a] ELSE soa[i]]
    /\ nextId' = nextId + 1
    /\ End(a)
    /\ UNCHANGED <<tables, rr, ptr, failures, strayed>>

insertSOA(a) == CreateTable(a) \/ InsertRow(a)

\* One statement, which leaves the record table under its old name when it changes
\* the zone's.
updateSOA(a) ==
    /\ pc[a] = "idle"
    /\ \E i \in DOMAIN soa, n \in Name :
        LET moved == {TableOf[n], TableOf[soa[i]]} IN
        /\ soa' = [soa EXCEPT ![i] = n]
        /\ renamed' = IF TableOf[n] = TableOf[soa[i]] THEN renamed ELSE renamed \cup moved
    /\ UNCHANGED <<nextId, tables, rr, ptr, pc, zone, id, failures, raced>>

\* The Id is one that a page has shown: its row may be gone, and no name is found.
ReadZone(a) ==
    /\ pc[a] = "idle"
    /\ \E i \in 1..(nextId - 1) :
        LET n == IF i \in DOMAIN soa THEN soa[i] ELSE NoZone IN
        /\ id' = [id EXCEPT ![a] = i] /\ zone' = [zone EXCEPT ![a] = n]
        /\ raced' = raced \cup {t \in Table : /\ n # NoZone /\ t = TableOf[n]
                                              /\ \E b \in Admin : Deletes(b, t)}
    /\ pc' = [pc EXCEPT ![a] = "deleteRow"]
    /\ UNCHANGED <<db, failures, renamed>>

\* Mutant: the record table is dropped before the row is deleted.
DropEarly(a) ==
    /\ pc[a] = "deleteRow"
    /\ tables' = tables \ {t \in Table : HasTable(zone[a]) /\ t = TableOf[zone[a]]}
    /\ pc' = [pc EXCEPT ![a] = "drop"]
    /\ UNCHANGED <<soa, nextId, rr, ptr, zone, id, failures, strayed>>

DeleteRow(a) ==
    /\ pc[a] = "deleteRow"
    /\ soa' = [i \in DOMAIN soa \ {id[a]} |-> soa[i]]
    /\ pc' = [pc EXCEPT ![a] = "drop"]
    /\ UNCHANGED <<nextId, tables, rr, ptr, zone, id, failures, strayed>>

\* Mutant: a table that holds records is kept.
DropEmptyTable(a) ==
    /\ pc[a] = "drop"
    /\ IF HasTable(zone[a]) /\ rr[TableOf[zone[a]]] = 0
       THEN /\ tables' = tables \ {TableOf[zone[a]]}
            /\ rr' = [rr EXCEPT ![TableOf[zone[a]]] = 0]
       ELSE UNCHANGED <<tables, rr>>
    /\ End(a)
    /\ UNCHANGED <<soa, nextId, ptr, failures, strayed>>

\* DROP TABLE fails for a table that does not exist, which ends the script as well.
DropTable(a) ==
    /\ pc[a] = "drop"
    /\ IF HasTable(zone[a])
       THEN /\ tables' = tables \ {TableOf[zone[a]]}
            /\ rr' = [rr EXCEPT ![TableOf[zone[a]]] = 0]
       ELSE UNCHANGED <<tables, rr>>
    /\ End(a)
    /\ UNCHANGED <<soa, nextId, ptr, failures, strayed>>

deleteSOA(a) == ReadZone(a) \/ DeleteRow(a) \/ DropTable(a)

----------------------------------------------------------------------------
(* Records: one statement each.  One for a table or an Id that is gone has *)
(* no effect, and updates change columns only.                             *)

\* The bound: no table is full.
Room == ptr < MaxRecords /\ \A t \in Table : rr[t] < MaxRecords

insertRR(a) ==
    /\ pc[a] = "idle"
    /\ \E n \in Name :
        /\ HasTable(n) /\ Room
        /\ rr' = [rr EXCEPT ![TableOf[n]] = @ + 1]
    /\ UNCHANGED <<soa, nextId, tables, ptr, pc, zone, id, failures, strayed>>

deleteRR(a) ==
    /\ pc[a] = "idle"
    /\ \E n \in Name :
        /\ HasTable(n) /\ rr[TableOf[n]] > 0
        /\ rr' = [rr EXCEPT ![TableOf[n]] = @ - 1]
    /\ UNCHANGED <<soa, nextId, tables, ptr, pc, zone, id, failures, strayed>>

insertPTR(a) ==
    /\ pc[a] = "idle" /\ Room
    /\ ptr' = ptr + 1
    /\ UNCHANGED <<soa, nextId, tables, rr, pc, zone, id, failures, strayed>>

deletePTR(a) ==
    /\ pc[a] = "idle" /\ ptr > 0
    /\ ptr' = ptr - 1
    /\ UNCHANGED <<soa, nextId, tables, rr, pc, zone, id, failures, strayed>>

----------------------------------------------------------------------------

\* The database is gone in the middle of a request.
mysqlErrorDie(a) ==
    /\ pc[a] # "idle"
    /\ failures < MaxFailures /\ failures' = failures + 1
    /\ End(a)
    /\ UNCHANGED <<db, strayed>>

Request(a) ==
    \/ insertSOA(a) \/ updateSOA(a) \/ deleteSOA(a)
    \/ insertRR(a) \/ deleteRR(a) \/ insertPTR(a) \/ deletePTR(a)
    \/ mysqlErrorDie(a)

Next == \E a \in Admin : Request(a)

Spec == Init /\ [][Next]_vars

----------------------------------------------------------------------------
(* Properties.                                                             *)

Rows == DOMAIN soa

\* Every variable has its type, and the Ids of SOA are those given so far.
TypeOK ==
    /\ Rows \subseteq 1..(nextId - 1) /\ soa \in [Rows -> Name]
    /\ nextId \in 1..(MaxIds + 1)
    /\ tables \subseteq Table /\ rr \in [Table -> 0..MaxRecords] /\ ptr \in 0..MaxRecords
    /\ pc \in [Admin -> {"idle", "insertRow", "deleteRow", "drop"}]
    /\ \A a \in Admin : pc[a] = "insertRow" => zone[a] \in Name
    /\ zone \in [Admin -> Name \cup {NoZone}] /\ id \in [Admin -> 0..MaxIds]
    /\ failures \in 0..MaxFailures
    /\ renamed \subseteq Table /\ raced \subseteq Table

\* Tables that neither a renaming nor two deletions at once have got at.
Kept == Table \ (renamed \cup raced)

RowsHaveTables == \A i \in Rows : TableOf[soa[i]] \in Kept => TableOf[soa[i]] \in tables

ZonesDoNotShareTables ==
    \A i, j \in Rows : i # j /\ TableOf[soa[i]] \in Kept => TableOf[soa[i]] # TableOf[soa[j]]

\* A zone has a record table, for the server reads the zones from SOA and then asks
\* their tables, and no two zones have the same one.  Only a renaming from or to a zone
\* of that table, or two deletions that read the same zone, end this; a failure of any
\* statement, and whatever the requests do meanwhile to other zones, do not.
ZonesHaveTables == RowsHaveTables /\ ZonesDoNotShareTables

\* Between requests, and if none of them failed, only zones have tables, but for those
\* that a renaming or two deletions at once have got at: others would keep a zone of the
\* name from being inserted ever again.
TablesHaveRows ==
    failures = 0 /\ (\A a \in Admin : pc[a] = "idle") =>
        \A t \in tables \cap Kept : \E i \in Rows : TableOf[soa[i]] = t

\* "Loeschen eines SOA Eintrags. Die dazugehoerige _RR Tabelle wird auch geloescht!"
\* (mpDNSmysql.php:260): when the last zone is deleted, the last table is.
DeletionTakesTheTable ==
    failures = 0 /\ (\A a \in Admin : pc[a] = "idle") /\ Rows = {} => tables = {}

====
