---- MODULE ZoneAdminProofs ----
(***************************************************************************)
(* Proofs about ZoneAdmin and ZoneService, for any number of requests,     *)
(* zones and failures: a zone and its table stay together until a renaming *)
(* or two deletions at once get at the table, and the server that read the *)
(* zones' names meets them together.                                       *)
(***************************************************************************)
EXTENDS ZoneService, TLAPS

----------------------------------------------------------------------------
(* The inductive invariant.                                                *)

\* No row has table t.
Free(t) == \A i \in Rows : TableOf[soa[i]] # t

\* Two deletions of one table have been noted.
DeletingApart ==
    \A a, b \in Admin, t \in Kept : Deletes(a, t) /\ Deletes(b, t) => a = b

\* The table that a request has just created belongs to no other.
Creating ==
    \A a \in Admin : pc[a] = "insertRow" /\ TableOf[zone[a]] \in Kept =>
        /\ TableOf[zone[a]] \in tables /\ Free(TableOf[zone[a]])
        /\ \A b \in Admin : b # a /\ pc[b] = "insertRow" =>
             TableOf[zone[a]] # TableOf[zone[b]]

\* The row that a request will delete is still the one that it read, unless another
\* deletion or a renaming has got at the table; in the second case also at the new one.
Doomed ==
    \A a \in Admin : pc[a] = "deleteRow" =>
        /\ id[a] < nextId
        /\ zone[a] = NoZone => id[a] \notin Rows
        /\ zone[a] # NoZone /\ TableOf[zone[a]] \in Kept => id[a] \in Rows
        /\ zone[a] # NoZone /\ id[a] \in Rows =>
             \/ TableOf[zone[a]] = TableOf[soa[id[a]]]
             \/ TableOf[zone[a]] \notin Kept /\ TableOf[soa[id[a]]] \notin Kept

\* The table that it will drop has no row any more, and gets none.
Dropping ==
    \A a \in Admin, t \in Kept : pc[a] = "drop" /\ Deletes(a, t) =>
        /\ t \in tables /\ Free(t)
        /\ \A b \in Admin : pc[b] = "insertRow" => TableOf[zone[b]] # t

\* Without a failure, a table without a row is being created or dropped.
Attended ==
    failures = 0 => \A t \in tables \cap Kept :
        \/ ~Free(t)
        \/ \E a \in Admin : pc[a] \in {"insertRow", "drop"} /\ zone[a] # NoZone
                            /\ TableOf[zone[a]] = t

Tended ==
    /\ RowsHaveTables /\ ZonesDoNotShareTables
    /\ DeletingApart /\ Creating /\ Doomed /\ Dropping /\ Attended

Inv == TypeOK /\ Tended
----------------------------------------------------------------------------
(* Proofs.                                                                 *)

LEMMA TableNames == \A n \in Name : TableOf[n] \in Table
  BY DEF Table

LEMMA TypeStep ==
    ASSUME TypeOK, [Next]_vars
    PROVE  TypeOK'
<1> SUFFICES ASSUME NEW a \in Admin, Request(a)
             PROVE  TypeOK'
  <2>1. CASE UNCHANGED vars
    BY <2>1 DEF vars, db, strayed, TypeOK, Rows
  <2> QED
    BY <2>1 DEF Next
<1>n. MaxIds \in Nat /\ MaxRecords \in Nat /\ MaxFailures \in Nat
  BY ZoneAdminAssumption
<1> USE DEF strayed
<1>1. CASE CreateTable(a)
  <2> PICK n \in Name : /\ zone' = [zone EXCEPT ![a] = n]
                        /\ tables' = tables \cup {TableOf[n]}
    BY <1>1 DEF CreateTable
  <2>1. tables' \subseteq Table
    BY TableNames DEF TypeOK
  <2> QED
    BY <1>1, <2>1 DEF CreateTable, TypeOK, Rows
<1>2. CASE InsertRow(a)
  <2>1. zone[a] \in Name
    BY <1>2 DEF InsertRow, TypeOK
  <2> QED
    BY <1>2, <2>1, <1>n DEF InsertRow, End, TypeOK, Rows
<1>3. CASE updateSOA(a)
  <2> PICK i \in Rows, n \in Name :
        /\ soa' = [soa EXCEPT ![i] = n]
        /\ renamed' = IF TableOf[n] = TableOf[soa[i]] THEN renamed
                      ELSE renamed \cup {TableOf[n], TableOf[soa[i]]}
    BY <1>3 DEF updateSOA, Rows
  <2>1. soa[i] \in Name
    BY DEF TypeOK
  <2>2. renamed' \subseteq Table
    BY <2>1, TableNames DEF TypeOK
  <2> QED
    BY <1>3, <2>2 DEF updateSOA, TypeOK, Rows
<1>4. CASE ReadZone(a)
  <2>1. raced' \subseteq Table
    BY <1>4 DEF ReadZone, TypeOK
  <2> QED
    BY <1>4, <1>n, <2>1 DEF ReadZone, db, TypeOK, Rows
<1>5. CASE DeleteRow(a)
  BY <1>5 DEF DeleteRow, TypeOK, Rows
<1>6. CASE DropTable(a)
  BY <1>6, <1>n DEF DropTable, HasTable, End, TypeOK, Rows
<1>7. CASE insertRR(a)
  BY <1>7, <1>n, TableNames DEF insertRR, Room, HasTable, TypeOK, Rows
<1>8. CASE deleteRR(a)
  BY <1>8, <1>n DEF deleteRR, HasTable, TypeOK, Rows
<1>9. CASE insertPTR(a) \/ deletePTR(a)
  BY <1>9, <1>n DEF insertPTR, deletePTR, Room, TypeOK, Rows
<1>10. CASE mysqlErrorDie(a)
  BY <1>10, <1>n DEF mysqlErrorDie, End, db, TypeOK, Rows
<1> QED
  BY <1>1, <1>2, <1>3, <1>4, <1>5, <1>6, <1>7, <1>8, <1>9, <1>10
  DEF Request, insertSOA, deleteSOA

\* A table that has been got at stays so.
LEMMA KeptShrinks ==
    ASSUME [Next]_vars
    PROVE  Kept' \subseteq Kept
<1> USE DEF Kept, strayed
<1>1. CASE UNCHANGED vars
  BY <1>1 DEF vars
<1>2. ASSUME NEW a \in Admin, Request(a)
      PROVE  renamed \subseteq renamed' /\ raced \subseteq raced'
  BY <1>2 DEF Request, insertSOA, deleteSOA, CreateTable, InsertRow, updateSOA, ReadZone, DeleteRow,
              DropTable, insertRR, deleteRR, insertPTR, deletePTR, mysqlErrorDie
<1> QED
  BY <1>1, <1>2 DEF Next

\* Statements on records do not touch what the invariant is about.
LEMMA RecordsApart ==
    ASSUME NEW a \in Admin, insertRR(a) \/ deleteRR(a) \/ insertPTR(a) \/ deletePTR(a)
    PROVE  UNCHANGED <<soa, nextId, tables, pc, zone, id, failures, renamed, raced>>
  BY DEF insertRR, deleteRR, insertPTR, deletePTR, strayed

\* CREATE TABLE: the table did not exist.
LEMMA CreateStep ==
    ASSUME Inv, NEW a \in Admin, CreateTable(a)
    PROVE  Tended'
<1> USE DEF Free, Rows
<1> PICK n \in Name : /\ ~HasTable(n) /\ zone' = [zone EXCEPT ![a] = n]
                      /\ tables' = tables \cup {TableOf[n]}
  BY DEF CreateTable
<1>1. /\ pc[a] = "idle" /\ pc' = [pc EXCEPT ![a] = "insertRow"]
      /\ UNCHANGED <<soa, nextId, id, failures>>
  BY DEF CreateTable
<1>k. Kept' = Kept
  BY DEF CreateTable, strayed, Kept
<1>2. TableOf[n] \notin tables /\ n # NoZone
  BY ZoneAdminAssumption DEF HasTable
<1>3. RowsHaveTables' /\ ZonesDoNotShareTables'
  BY <1>1, <1>k DEF Inv, Tended, RowsHaveTables, ZonesDoNotShareTables
<1>4. DeletingApart' /\ Doomed'
  BY <1>1, <1>k DEF Inv, Tended, TypeOK, DeletingApart, Deletes, Doomed
<1>5. Creating'
  BY <1>1, <1>2, <1>k DEF Inv, Tended, TypeOK, RowsHaveTables, Creating
<1>6. Dropping'
  BY <1>1, <1>2, <1>k DEF Inv, Tended, TypeOK, Dropping, Deletes
<1>7. Attended'
  BY <1>1, <1>2, <1>k DEF Inv, Tended, TypeOK, Attended
<1> QED
  BY <1>3, <1>4, <1>5, <1>6, <1>7 DEF Tended

\* INSERT: the Id is new.
LEMMA InsertStep ==
    ASSUME Inv, NEW a \in Admin, InsertRow(a)
    PROVE  Tended'
<1> USE DEF Free, Rows
<1>1. /\ pc[a] = "insertRow" /\ pc' = [pc EXCEPT ![a] = "idle"]
      /\ zone' = [zone EXCEPT ![a] = NoZone] /\ id' = [id EXCEPT ![a] = 0]
      /\ nextId' = nextId + 1
      /\ soa' = [i \in Rows \cup {nextId} |-> IF i = nextId THEN zone[a] ELSE soa[i]]
      /\ UNCHANGED <<tables, failures>>
  BY DEF InsertRow, End
<1>k. Kept' = Kept
  BY DEF InsertRow, strayed, Kept
<1>2. nextId \notin Rows /\ nextId \in Nat
  BY DEF Inv, TypeOK
<1>3. \A i \in Rows : soa'[i] = soa[i]
  BY <1>1, <1>2
<1>4. Rows' = Rows \cup {nextId} /\ soa'[nextId] = zone[a]
  BY <1>1
<1>o. \A b \in Admin : pc'[b] # "idle" => b # a /\ pc'[b] = pc[b] /\ zone'[b] = zone[b] /\ id'[b] = id[b]
  BY <1>1 DEF Inv, TypeOK
<1>5. RowsHaveTables' /\ ZonesDoNotShareTables'
  BY <1>1, <1>3, <1>4, <1>k DEF Inv, Tended, RowsHaveTables, ZonesDoNotShareTables, Creating
<1>6. DeletingApart'
  BY <1>o, <1>k DEF Inv, Tended, DeletingApart, Deletes
<1>7. Creating'
  BY <1>1, <1>3, <1>4, <1>o, <1>k DEF Inv, Tended, Creating
<1>8. Doomed'
  BY <1>1, <1>2, <1>3, <1>4, <1>o, <1>k DEF Inv, Tended, TypeOK, Doomed
<1>9. Dropping'
  BY <1>1, <1>3, <1>4, <1>o, <1>k DEF Inv, Tended, Dropping, Deletes
<1>10. Attended'
  <2> SUFFICES ASSUME failures = 0, NEW t \in tables \cap Kept, Free(t)'
               PROVE  \E b \in Admin : /\ pc'[b] \in {"insertRow", "drop"} /\ zone'[b] # NoZone
                                       /\ TableOf[zone'[b]] = t
    BY <1>1, <1>k DEF Attended
  <2>1. Free(t) /\ t # TableOf[zone[a]]
    BY <1>3, <1>4
  <2>2. PICK b \in Admin : /\ pc[b] \in {"insertRow", "drop"} /\ zone[b] # NoZone
                           /\ TableOf[zone[b]] = t
    BY <2>1 DEF Inv, Tended, Attended
  <2> QED
    BY <1>1, <2>1, <2>2 DEF Inv, TypeOK
<1> QED
  BY <1>5, <1>6, <1>7, <1>8, <1>9, <1>10 DEF Tended

\* UPDATE: both tables have been got at if they are two.
LEMMA UpdateStep ==
    ASSUME Inv, NEW a \in Admin, updateSOA(a)
    PROVE  Tended'
<1> USE DEF Free, Rows
<1> PICK i \in Rows, n \in Name :
      /\ soa' = [soa EXCEPT ![i] = n]
      /\ renamed' = IF TableOf[n] = TableOf[soa[i]] THEN renamed
                    ELSE renamed \cup {TableOf[n], TableOf[soa[i]]}
  BY DEF updateSOA
<1>1. UNCHANGED <<nextId, tables, pc, zone, id, failures, raced>>
  BY DEF updateSOA
<1>2. /\ Rows' = Rows
      /\ \A j \in Rows : soa'[j] = IF j = i THEN n ELSE soa[j]
  BY DEF Inv, TypeOK
<1>k. Kept' \subseteq Kept
  BY KeptShrinks DEF Next, Request
<1>3. \A j \in Rows : \/ TableOf[soa'[j]] = TableOf[soa[j]]
                      \/ TableOf[soa'[j]] \notin Kept' /\ TableOf[soa[j]] \notin Kept'
  BY <1>2 DEF Kept
<1>f. \A t \in Kept' : Free(t)' <=> Free(t)
  BY <1>2, <1>3
<1>4. RowsHaveTables' /\ ZonesDoNotShareTables'
  BY <1>1, <1>2, <1>3, <1>k DEF Inv, Tended, RowsHaveTables, ZonesDoNotShareTables
<1>5. DeletingApart'
  BY <1>1, <1>k DEF Inv, Tended, DeletingApart, Deletes
<1>6. Creating'
  <2> HIDE DEF Free
  <2> QED
    BY <1>1, <1>f, <1>k DEF Inv, Tended, Creating
<1>7. Doomed'
  BY <1>1, <1>2, <1>3, <1>k DEF Inv, Tended, Doomed
<1>8. Dropping'
  <2> HIDE DEF Free
  <2> QED
    BY <1>1, <1>f, <1>k DEF Inv, Tended, Dropping, Deletes
<1>9. Attended'
  <2> HIDE DEF Free
  <2> QED
    BY <1>1, <1>f, <1>k DEF Inv, Tended, Attended
<1> QED
  BY <1>4, <1>5, <1>6, <1>7, <1>8, <1>9 DEF Tended

\* SELECT before a deletion: another deletion of the table that is under way is noted.
LEMMA ReadStep ==
    ASSUME Inv, NEW a \in Admin, ReadZone(a)
    PROVE  Tended'
<1> USE DEF Free, Rows
<1> PICK i \in 1..(nextId - 1) :
      LET n == IF i \in Rows THEN soa[i] ELSE NoZone IN
      /\ id' = [id EXCEPT ![a] = i] /\ zone' = [zone EXCEPT ![a] = n]
      /\ raced' = raced \cup {t \in Table : /\ n # NoZone /\ t = TableOf[n]
                                            /\ \E b \in Admin : Deletes(b, t)}
  BY DEF ReadZone
<1> DEFINE n == IF i \in Rows THEN soa[i] ELSE NoZone
<1>1. /\ pc[a] = "idle" /\ pc' = [pc EXCEPT ![a] = "deleteRow"]
      /\ UNCHANGED <<soa, nextId, tables, failures, renamed>>
  BY DEF ReadZone, db
<1>k. Kept' \subseteq Kept
  BY KeptShrinks DEF Next, Request, deleteSOA
<1>2. /\ i < nextId /\ (n = NoZone => i \notin Rows) /\ (n # NoZone => i \in Rows /\ n = soa[i])
  BY ZoneAdminAssumption DEF Inv, TypeOK
<1>3. \A t \in Kept', b \in Admin : ~(n # NoZone /\ t = TableOf[n] /\ Deletes(b, t))
  BY DEF Kept
<1>o. /\ \A b \in Admin : b # a => pc'[b] = pc[b] /\ zone'[b] = zone[b] /\ id'[b] = id[b]
      /\ pc'[a] = "deleteRow" /\ zone'[a] = n /\ id'[a] = i
  BY <1>1 DEF Inv, TypeOK
<1> HIDE DEF n
<1>4. RowsHaveTables' /\ ZonesDoNotShareTables'
  BY <1>1, <1>k DEF Inv, Tended, RowsHaveTables, ZonesDoNotShareTables
<1>5. DeletingApart'
  BY <1>3, <1>o, <1>k DEF Inv, Tended, DeletingApart, Deletes
<1>6. Creating'
  BY <1>1, <1>o, <1>k DEF Inv, Tended, Creating
<1>7. Doomed'
  BY <1>1, <1>2, <1>o, <1>k DEF Inv, Tended, Doomed
<1>8. Dropping'
  BY <1>1, <1>o, <1>k DEF Inv, Tended, Dropping, Deletes
<1>9. Attended'
  BY <1>1, <1>o, <1>k DEF Inv, Tended, Attended
<1> QED
  BY <1>4, <1>5, <1>6, <1>7, <1>8, <1>9 DEF Tended

\* DELETE: a table that was not got at loses its only row, to the request that drops it.
LEMMA DeleteStep ==
    ASSUME Inv, NEW a \in Admin, DeleteRow(a)
    PROVE  Tended'
<1> USE DEF Free, Rows
<1>1. /\ pc[a] = "deleteRow" /\ pc' = [pc EXCEPT ![a] = "drop"]
      /\ soa' = [i \in Rows \ {id[a]} |-> soa[i]]
      /\ UNCHANGED <<nextId, tables, zone, id, failures>>
  BY DEF DeleteRow
<1>k. Kept' = Kept
  BY DEF DeleteRow, strayed, Kept
<1>2. Rows' = Rows \ {id[a]} /\ \A i \in Rows' : soa'[i] = soa[i]
  BY <1>1
<1>o. /\ \A b \in Admin : b # a => pc'[b] = pc[b]
      /\ pc'[a] = "drop"
  BY <1>1 DEF Inv, TypeOK
<1>3. id[a] \in Rows => /\ zone[a] # NoZone
                        /\ TableOf[soa[id[a]]] \in Kept => TableOf[zone[a]] = TableOf[soa[id[a]]]
  BY <1>1 DEF Inv, Tended, Doomed
<1>4. RowsHaveTables' /\ ZonesDoNotShareTables'
  BY <1>1, <1>2, <1>k DEF Inv, Tended, RowsHaveTables, ZonesDoNotShareTables
<1>5. DeletingApart'
  BY <1>1, <1>o, <1>k DEF Inv, Tended, DeletingApart, Deletes
<1>6. Creating'
  BY <1>1, <1>2, <1>o, <1>k DEF Inv, Tended, Creating
<1>7. Doomed'
  <2> SUFFICES ASSUME NEW b \in Admin, b # a, pc[b] = "deleteRow", zone[b] # NoZone,
                      TableOf[zone[b]] \in Kept
               PROVE  id[b] # id[a]
    BY <1>1, <1>2, <1>o, <1>k DEF Inv, Tended, Doomed
  <2> SUFFICES ASSUME id[b] = id[a] PROVE FALSE
    OBVIOUS
  <2>1. id[a] \in Rows /\ TableOf[zone[b]] = TableOf[soa[id[a]]]
    BY DEF Inv, Tended, Doomed
  <2>2. Deletes(a, TableOf[zone[b]]) /\ Deletes(b, TableOf[zone[b]])
    BY <1>1, <1>3, <2>1 DEF Deletes
  <2> QED
    BY <2>2 DEF Inv, Tended, DeletingApart
<1>8. Dropping'
  <2> SUFFICES ASSUME NEW b \in Admin, NEW t \in Kept, pc'[b] = "drop", Deletes(b, t)'
               PROVE  /\ t \in tables /\ Free(t)'
                      /\ \A c \in Admin : pc'[c] = "insertRow" => TableOf[zone[c]] # t
    BY <1>1, <1>k DEF Dropping
  <2>1. CASE b # a
    BY <1>1, <1>2, <1>o, <2>1 DEF Inv, Tended, Dropping, Deletes
  <2>2. CASE b = a
    <3>1. id[a] \in Rows /\ TableOf[soa[id[a]]] = t
      BY <1>1, <2>2 DEF Inv, Tended, Doomed, Deletes
    <3>2. t \in tables /\ Free(t)'
      BY <1>2, <3>1 DEF Inv, Tended, RowsHaveTables, ZonesDoNotShareTables
    <3>3. \A c \in Admin : pc[c] = "insertRow" => TableOf[zone[c]] # t
      BY <3>1 DEF Inv, Tended, Creating
    <3> QED
      BY <1>o, <3>2, <3>3
  <2> QED
    BY <2>1, <2>2
<1>9. Attended'
  <2> SUFFICES ASSUME failures = 0, NEW t \in tables \cap Kept, Free(t)'
               PROVE  \E b \in Admin : /\ pc'[b] \in {"insertRow", "drop"} /\ zone[b] # NoZone
                                       /\ TableOf[zone[b]] = t
    BY <1>1, <1>k DEF Attended
  <2>1. CASE Free(t)
    BY <1>1, <1>o, <2>1 DEF Inv, Tended, Attended
  <2>2. CASE ~Free(t)
    <3>1. id[a] \in Rows /\ TableOf[soa[id[a]]] = t
      BY <1>2, <2>2
    <3> QED
      BY <1>o, <1>3, <3>1
  <2> QED
    BY <2>1, <2>2
<1> QED
  BY <1>4, <1>5, <1>6, <1>7, <1>8, <1>9 DEF Tended

\* DROP TABLE: one that was not got at is nobody's.
LEMMA DropStep ==
    ASSUME Inv, NEW a \in Admin, DropTable(a)
    PROVE  Tended'
<1> USE DEF Free, Rows
<1>1. /\ pc[a] = "drop" /\ pc' = [pc EXCEPT ![a] = "idle"]
      /\ zone' = [zone EXCEPT ![a] = NoZone] /\ id' = [id EXCEPT ![a] = 0]
      /\ tables' = tables \ {t \in tables : HasTable(zone[a]) /\ t = TableOf[zone[a]]}
      /\ UNCHANGED <<soa, nextId, failures>>
  BY DEF DropTable, End, HasTable
<1>k. Kept' = Kept
  BY DEF DropTable, strayed, Kept
<1>o. \A b \in Admin : pc'[b] # "idle" => b # a /\ pc'[b] = pc[b] /\ zone'[b] = zone[b] /\ id'[b] = id[b]
  BY <1>1 DEF Inv, TypeOK
<1>2. \A t \in tables : t \notin tables' => Deletes(a, t)
  BY <1>1 DEF HasTable, Deletes
<1>3. \A t \in tables \cap Kept : t \notin tables' =>
        Free(t) /\ \A b \in Admin : pc[b] = "insertRow" => TableOf[zone[b]] # t
  BY <1>1, <1>2 DEF Inv, Tended, Dropping
<1>4. RowsHaveTables' /\ ZonesDoNotShareTables'
  BY <1>1, <1>3, <1>k DEF Inv, Tended, RowsHaveTables, ZonesDoNotShareTables
<1>5. DeletingApart'
  BY <1>o, <1>k DEF Inv, Tended, DeletingApart, Deletes
<1>6. Creating'
  BY <1>1, <1>3, <1>o, <1>k DEF Inv, Tended, Creating
<1>7. Doomed'
  BY <1>1, <1>o, <1>k DEF Inv, Tended, Doomed
<1>8. Dropping'
  <2> SUFFICES ASSUME NEW b \in Admin, NEW t \in Kept, pc'[b] = "drop", Deletes(b, t)'
               PROVE  /\ t \in tables' /\ Free(t)
                      /\ \A c \in Admin : pc'[c] = "insertRow" => TableOf[zone'[c]] # t
    BY <1>1, <1>k DEF Dropping
  <2>1. b # a /\ pc[b] = "drop" /\ Deletes(b, t)
    BY <1>o DEF Deletes
  <2>2. /\ t \in tables /\ Free(t)
        /\ \A c \in Admin : pc[c] = "insertRow" => TableOf[zone[c]] # t
    BY <2>1 DEF Inv, Tended, Dropping
  <2>3. t \in tables'
    BY <1>2, <2>1, <2>2 DEF Inv, Tended, DeletingApart
  <2> QED
    BY <1>o, <2>2, <2>3
<1>9. Attended'
  <2> SUFFICES ASSUME failures = 0, NEW t \in tables' \cap Kept, Free(t)
               PROVE  \E b \in Admin : /\ pc'[b] \in {"insertRow", "drop"} /\ zone'[b] # NoZone
                                       /\ TableOf[zone'[b]] = t
    BY <1>1, <1>k DEF Attended
  <2>1. PICK b \in Admin : /\ pc[b] \in {"insertRow", "drop"} /\ zone[b] # NoZone
                           /\ TableOf[zone[b]] = t
    BY <1>1 DEF Inv, Tended, Attended
  <2>2. b # a
    BY <1>1, <2>1 DEF HasTable
  <2> QED
    BY <1>1, <2>1, <2>2 DEF Inv, TypeOK
<1> QED
  BY <1>4, <1>5, <1>6, <1>7, <1>8, <1>9 DEF Tended

\* A request that ends early leaves what it has done.
LEMMA DieStep ==
    ASSUME Inv, NEW a \in Admin, mysqlErrorDie(a)
    PROVE  Tended'
<1> USE DEF Free, Rows
<1>1. /\ pc' = [pc EXCEPT ![a] = "idle"] /\ failures' = failures + 1
      /\ zone' = [zone EXCEPT ![a] = NoZone] /\ id' = [id EXCEPT ![a] = 0]
      /\ UNCHANGED <<soa, nextId, tables>>
  BY DEF mysqlErrorDie, End, db
<1>k. Kept' = Kept
  BY DEF mysqlErrorDie, strayed, Kept
<1>o. \A b \in Admin : pc'[b] # "idle" => b # a /\ pc'[b] = pc[b] /\ zone'[b] = zone[b] /\ id'[b] = id[b]
  BY <1>1 DEF Inv, TypeOK
<1>2. failures' # 0
  BY <1>1 DEF Inv, TypeOK
<1>3. RowsHaveTables' /\ ZonesDoNotShareTables' /\ Attended'
  BY <1>1, <1>2, <1>k DEF Inv, Tended, RowsHaveTables, ZonesDoNotShareTables, Attended
<1>4. DeletingApart' /\ Creating'
  BY <1>1, <1>o, <1>k DEF Inv, Tended, DeletingApart, Deletes, Creating
<1>5. Doomed' /\ Dropping'
  BY <1>1, <1>o, <1>k DEF Inv, Tended, Doomed, Dropping, Deletes
<1> QED
  BY <1>3, <1>4, <1>5 DEF Tended

LEMMA InvStep ==
    ASSUME Inv, [Next]_vars
    PROVE  Inv'
<1>1. TypeOK'
  BY TypeStep DEF Inv
<1>2. ASSUME UNCHANGED <<soa, nextId, tables, pc, zone, id, failures, renamed, raced>>
      PROVE  Tended'
  BY <1>2 DEF Inv, Tended, RowsHaveTables, ZonesDoNotShareTables, DeletingApart, Deletes, Creating,
              Doomed, Dropping, Attended, Free, Kept, Rows
<1>3. ASSUME UNCHANGED vars PROVE Tended'
  BY <1>2, <1>3 DEF vars, db, strayed
<1>4. ASSUME NEW a \in Admin, Request(a) PROVE Tended'
  BY <1>2, <1>4, RecordsApart, CreateStep, InsertStep, UpdateStep, ReadStep, DeleteStep, DropStep,
     DieStep DEF Request, insertSOA, deleteSOA
<1> QED
  BY <1>1, <1>3, <1>4 DEF Next, Inv

----------------------------------------------------------------------------
(* The theorems.                                                           *)

LEMMA InitialType == Init => TypeOK
  BY ZoneAdminAssumption DEF Init, TypeOK, Rows

\* The type invariant: no Id of SOA is given twice, and no statement takes off a
\* record that is not there.
THEOREM ZoneTypeCorrect == Spec => []TypeOK
  BY InitialType, TypeStep, PTL DEF Spec

LEMMA InitialInv == Init => Inv
<1> SUFFICES ASSUME Init PROVE Inv
  OBVIOUS
<1>1. TypeOK /\ Rows = {} /\ tables = {} /\ \A a \in Admin : pc[a] = "idle"
  BY InitialType DEF Init, Rows
<1> QED
  BY <1>1 DEF Inv, Tended, RowsHaveTables, ZonesDoNotShareTables, DeletingApart, Deletes, Creating,
              Doomed, Dropping, Attended

\* For any number of requests at a time and any number of failures.
LEMMA ZoneInvariant == Spec => []Inv
<1>1. Init => Inv
  BY InitialInv
<1>2. Inv /\ [Next]_vars => Inv'
  BY InvStep
<1> QED
  BY <1>1, <1>2, PTL DEF Spec

\* A zone has its table at every moment: it is created before the row and dropped after
\* it, and nobody can create it again in between.  CREATE TABLE, which fails for a table
\* that exists, keeps two zones apart: those of the same name, and those whose names
\* make the same table name.  What can end this is a renaming that gets at the table,
\* or a second deletion that reads the zone's row before the first has deleted it.
THEOREM ZonesKeepTheirTables == Spec => []ZonesHaveTables
<1>1. Inv => ZonesHaveTables
  BY DEF Inv, Tended, ZonesHaveTables
<1> QED
  BY <1>1, ZoneInvariant, PTL

\* Tables without a zone come from failures, renamings and two deletions at once alone.
THEOREM TablesKeepTheirRows == Spec => []TablesHaveRows
<1>1. Inv => TablesHaveRows
  BY DEF Inv, Tended, TablesHaveRows, Attended, Free
<1> QED
  BY <1>1, ZoneInvariant, PTL

----------------------------------------------------------------------------
(* The server.                                                             *)

\* A name that the server has read is a zone's, unless the zone is gone.
Known(z) == Owns(z) \/ z \in gone

ServiceType ==
    /\ server \in {"down", "connected", "copying", "serving"}
    /\ zones \subseteq Name /\ result \in [DOMAIN result -> Name]
    /\ lookup \in [zone : Name \cup {NoZone}, how : {"none", "noTable", "own", "foreign", "empty", "error"}]

\* Nothing of an earlier process is left.
Fresh ==
    /\ server \in {"down", "connected"} => zones = {} /\ DOMAIN result = {}
    /\ server # "serving" => lookup.zone = NoZone
    /\ server = "serving" => DOMAIN result = {}

\* What is copied, and what is still to be copied.
ReadNames == (\A z \in zones : Known(z)) /\ (\A i \in DOMAIN result : Known(result[i]))

\* No old zone is left out.
OldNames ==
    server \in {"copying", "serving"} =>
        \A i \in Rows : soa[i] \in zones \cup came \/ \E j \in DOMAIN result : soa[i] = result[j]

ServiceInv == Inv /\ ServiceType /\ Fresh /\ ReadNames /\ OldNames /\ LookupsAreOwn

\* The administration does not notice the server.
THEOREM ServiceKeepsAdmin == ServiceSpec => Spec
<1>1. ServiceInit => Init
  BY DEF ServiceInit
<1>2. [ServiceNext]_serviceVars => [Next]_vars
  BY DEF ServiceNext, ServerStep, AdminStep, connectToMysql, SelectNames, CopyName, NamesRead,
         EndServer, queryEntry, querySOA, QueryFails, serviceVars
<1> QED
  BY <1>1, <1>2, PTL DEF ServiceSpec, Spec

\* A name that goes, or that comes, is noted.
LEMMA NamesMove ==
    ASSUME AdminStep
    PROVE  /\ gone \subseteq gone' /\ came \subseteq came'
           /\ UNCHANGED <<server, result, zones>> /\ lookup' = NoLookup
           /\ server \in {"copying", "serving"} =>
                /\ \A z : Known(z) => Known(z)'
                /\ \A i \in Rows' : soa'[i] \in came' \/ (i \in Rows /\ soa'[i] = soa[i])
<1>1. /\ gone \subseteq gone' /\ came \subseteq came'
      /\ UNCHANGED <<server, result, zones>> /\ lookup' = NoLookup
  BY DEF AdminStep, history
<1>2. ASSUME server \in {"copying", "serving"}, NEW z, Known(z) PROVE Known(z)'
  <2>1. CASE z \in gone
    BY <2>1, <1>1 DEF Known
  <2>2. CASE Owns(z)
    <3>1. PICK i \in DOMAIN soa : soa[i] = z
      BY <2>2 DEF Owns
    <3>2. CASE i \in DOMAIN soa' /\ soa'[i] = z
      BY <3>2 DEF Known, Owns
    <3>3. CASE ~(i \in DOMAIN soa' /\ soa'[i] = z)
      BY <1>2, <3>1, <3>3 DEF AdminStep, Names, Known
    <3> QED
      BY <3>2, <3>3
  <2> QED
    BY <1>2, <2>1, <2>2 DEF Known
<1>3. ASSUME server \in {"copying", "serving"}, NEW i \in Rows'
      PROVE  soa'[i] \in came' \/ (i \in Rows /\ soa'[i] = soa[i])
  BY <1>3 DEF AdminStep, Names, Rows
<1> QED
  BY <1>1, <1>2, <1>3

LEMMA ServiceStep ==
    ASSUME ServiceInv, [ServiceNext]_serviceVars
    PROVE  ServiceInv'
<1>1. CASE AdminStep
  <2>1. Inv'
    BY <1>1, InvStep DEF ServiceInv, AdminStep
  <2>2. /\ gone \subseteq gone' /\ came \subseteq came'
        /\ UNCHANGED <<server, result, zones>> /\ lookup' = NoLookup
        /\ server \in {"copying", "serving"} =>
             /\ \A z : Known(z) => Known(z)'
             /\ \A i \in Rows' : soa'[i] \in came' \/ (i \in Rows /\ soa'[i] = soa[i])
    BY <1>1, NamesMove
  <2>3. ServiceType' /\ Fresh' /\ LookupsAreOwn'
    BY <2>2 DEF ServiceInv, ServiceType, Fresh, NoLookup, LookupsAreOwn
  <2>4. ReadNames'
    <3>1. CASE server \in {"copying", "serving"}
      BY <2>2, <3>1 DEF ServiceInv, ReadNames
    <3>2. CASE server \in {"down", "connected"}
      BY <2>2, <3>2 DEF ServiceInv, Fresh, ReadNames
    <3> QED
      BY <3>1, <3>2 DEF ServiceInv, ServiceType
  <2>5. OldNames'
    BY <2>2 DEF ServiceInv, OldNames
  <2> QED
    BY <2>1, <2>3, <2>4, <2>5 DEF ServiceInv
<1>2. ASSUME UNCHANGED vars
      PROVE  /\ Inv' /\ soa' = soa /\ Kept' = Kept
             /\ \A z : (Owns(z) <=> Owns(z)')
  <2>1. Inv'
    BY <1>2, InvStep DEF ServiceInv
  <2> QED
    BY <1>2, <2>1 DEF vars, db, strayed, Owns, Kept
<1>3. CASE UNCHANGED serviceVars
  <2>1. UNCHANGED <<server, result, zones, lookup, gone, came>> /\ UNCHANGED vars
    BY <1>3 DEF serviceVars, serverVars, history
  <2> QED
    BY <1>2, <2>1 DEF ServiceInv, ServiceType, Fresh, ReadNames, OldNames, LookupsAreOwn, Known, Rows
<1>4. CASE connectToMysql \/ EndServer
  <2>1. UNCHANGED vars
    BY <1>4 DEF connectToMysql, EndServer
  <2>2. /\ server' \in {"down", "connected"} /\ zones' = {} /\ DOMAIN result' = {}
        /\ result' \in [{} -> Name]
        /\ lookup'.zone = NoZone /\ lookup' \in [zone : {NoZone}, how : {"none", "noTable", "own", "foreign", "empty", "error"}]
    <3>1. CASE connectToMysql
      <4>1. server = "down" /\ server' = "connected" /\ UNCHANGED <<result, zones, lookup>>
        BY <3>1 DEF connectToMysql
      <4> QED
        BY <4>1 DEF ServiceInv, Fresh, ServiceType
    <3>2. CASE EndServer
      BY <3>2 DEF EndServer, NoLookup
    <3> QED
      BY <1>4, <3>1, <3>2
  <2> QED
    BY <1>2, <2>1, <2>2
    DEF ServiceInv, ServiceType, Fresh, ReadNames, OldNames, LookupsAreOwn
<1>5. CASE SelectNames
  <2>1. /\ server = "connected" /\ server' = "copying" /\ UNCHANGED <<zones, lookup>>
        /\ result' = soa /\ UNCHANGED vars
    BY <1>5 DEF SelectNames
  <2>2. zones = {} /\ lookup.zone = NoZone
    BY <2>1 DEF ServiceInv, Fresh
  <2>3. soa \in [DOMAIN soa -> Name]
    BY DEF ServiceInv, Inv, TypeOK, Rows
  <2>4. ServiceType'
    BY <1>2, <2>1, <2>3 DEF ServiceInv, ServiceType
  <2>5. Fresh' /\ LookupsAreOwn'
    BY <2>1, <2>2 DEF Fresh, LookupsAreOwn
  <2>6. ReadNames' /\ OldNames'
    BY <1>2, <2>1, <2>2 DEF ReadNames, OldNames, Known, Owns, Rows
  <2> QED
    BY <1>2, <2>1, <2>4, <2>5, <2>6 DEF ServiceInv
<1>6. CASE CopyName
  <2>1. /\ server = "copying" /\ UNCHANGED vars /\ UNCHANGED <<server, lookup, gone, came>>
    BY <1>6 DEF CopyName, history
  <2>2. PICK i \in DOMAIN result :
            /\ zones' = zones \cup {result[i]}
            /\ result' = [j \in DOMAIN result \ {i} |-> result[j]]
    BY <1>6 DEF CopyName
  <2>3. /\ DOMAIN result' = DOMAIN result \ {i}
        /\ \A j \in DOMAIN result' : result'[j] = result[j]
    BY <2>2
  <2>4. ServiceType'
    BY <1>2, <2>1, <2>2, <2>3 DEF ServiceInv, ServiceType
  <2>5. Fresh' /\ LookupsAreOwn'
    BY <2>1 DEF ServiceInv, Fresh, LookupsAreOwn
  <2>6. ReadNames'
    BY <1>2, <2>1, <2>2, <2>3 DEF ServiceInv, ReadNames, Known
  <2>7. OldNames'
    BY <1>2, <2>1, <2>2, <2>3 DEF ServiceInv, OldNames, Rows
  <2> QED
    BY <1>2, <2>1, <2>4, <2>5, <2>6, <2>7 DEF ServiceInv
<1>7. CASE NamesRead
  <2>1. /\ server = "copying" /\ server' = "serving" /\ DOMAIN result = {}
        /\ UNCHANGED vars /\ UNCHANGED <<result, zones, lookup, gone, came>>
    BY <1>7 DEF NamesRead, history
  <2> QED
    BY <1>2, <2>1
    DEF ServiceInv, ServiceType, Fresh, ReadNames, OldNames, LookupsAreOwn, Known, Rows
<1>8. CASE queryEntry \/ querySOA \/ QueryFails
  <2>1. /\ server = "serving"
        /\ UNCHANGED vars /\ UNCHANGED <<server, result, zones, gone, came>>
    BY <1>8 DEF queryEntry, querySOA, QueryFails, history
  <2>2. PICK z \in zones :
            \/ lookup' = [zone |-> z, how |-> IF ~HasTable(z) THEN "noTable"
                                              ELSE IF Owns(z) THEN "own" ELSE "foreign"]
            \/ lookup' = [zone |-> z, how |-> IF Owns(z) THEN "own" ELSE "empty"]
            \/ lookup' = [zone |-> z, how |-> "error"]
    BY <1>8 DEF queryEntry, querySOA, QueryFails
  <2>3. z \in Name
    BY DEF ServiceInv, ServiceType
  <2>4. z \notin gone => Owns(z) /\ (HasTable(z) \/ TableOf[z] \notin Kept)
    BY <2>3, ZoneAdminAssumption
    DEF ServiceInv, ReadNames, Known, Owns, HasTable, Inv, Tended, RowsHaveTables, Rows
  <2>5. LookupsAreOwn'
    <3> SUFFICES ASSUME lookup'.zone \notin gone
                 PROVE  lookup'.how \in {"own", "error"} \/ TableOf[lookup'.zone] \notin Kept
      BY <1>2, <2>1 DEF LookupsAreOwn
    <3>1. lookup'.zone = z
      BY <2>2
    <3> QED
      BY <2>2, <2>4, <3>1
  <2>6. lookup' \in [zone : Name \cup {NoZone}, how : {"none", "noTable", "own", "foreign", "empty", "error"}]
    BY <2>2, <2>3
  <2>7. ServiceType' /\ Fresh'
    BY <1>2, <2>1, <2>6 DEF ServiceInv, ServiceType, Fresh
  <2>8. ReadNames' /\ OldNames'
    BY <1>2, <2>1 DEF ServiceInv, ReadNames, OldNames, Known, Rows
  <2> QED
    BY <1>2, <2>1, <2>5, <2>7, <2>8 DEF ServiceInv
<1> QED
  BY <1>1, <1>3, <1>4, <1>5, <1>6, <1>7, <1>8 DEF ServiceNext, ServerStep

LEMMA ServiceInvariant == ServiceSpec => []ServiceInv
<1>1. ServiceInit => ServiceInv
  <2> SUFFICES ASSUME ServiceInit PROVE ServiceInv
    OBVIOUS
  <2>1. Inv /\ Rows = {}
    BY InitialInv DEF ServiceInit, Init, Rows
  <2>2. /\ server = "down" /\ result = <<>> /\ zones = {} /\ gone = {} /\ came = {}
        /\ lookup = [zone |-> NoZone, how |-> "none"]
    BY DEF ServiceInit, NoLookup
  <2>3. ServiceType
    BY <2>2 DEF ServiceType
  <2> QED
    BY <2>1, <2>2, <2>3 DEF ServiceInv, Fresh, ReadNames, OldNames, LookupsAreOwn
<1>2. ServiceInv /\ [ServiceNext]_serviceVars => ServiceInv'
  BY ServiceStep
<1> QED
  BY <1>1, <1>2, PTL DEF ServiceSpec

\* Wherever the SELECT falls, a server has the names of all zones but those that came
\* since, by an insertion or a renaming, and no name but a zone's or one that went since.
THEOREM OldZonesStayServed == ServiceSpec => []OldZonesAreServed
<1>1. ServiceInv => OldZonesAreServed
  BY DEF ServiceInv, Fresh, ReadNames, OldNames, OldZonesAreServed, Known
<1> QED
  BY <1>1, ServiceInvariant, PTL

\* A lookup meets the row and the table of its zone together, until somebody has deleted
\* or renamed the zone, or a renaming or two deletions at once have got at its table,
\* though it reads neither under a lock.
THEOREM LookupsStayOwn == ServiceSpec => []LookupsAreOwn
<1>1. ServiceInv => LookupsAreOwn
  BY DEF ServiceInv
<1> QED
  BY <1>1, ServiceInvariant, PTL
====
