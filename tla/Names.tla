---- MODULE Names ----
(***************************************************************************)
(* The way of a domain name through the library, byte by byte: a name of   *)
(* the database is coded into labels, a name of a message is decoded, the  *)
(* zone it belongs to is found, and the record table of that zone.         *)
(* Sources: convertDomainName, extractQuestion, testZoneName, findZoneName *)
(* and strConvert in mpDNSlib/src/dns/dns.c.                               *)
(*                                                                         *)
(* Characters and label lengths are bytes.  One loop iteration of the code *)
(* is one step.  Indices count from 1 here and from 0 in the code.         *)
(***************************************************************************)
EXTENDS DomainNames

CONSTANTS
    Name,           \* the names that occur, as sequences of characters
    ZoneTable       \* the possible contents of the table of zone names

Underscore == 95

ASSUME NamesAssumption ==
    /\ \A n \in Name : n = Root \/ WellFormed(n)
    /\ ZoneTable \subseteq Seq(Name \ {Root})

\* What a client sends: the root is the zero alone.
ClientWire(n) == IF n = Root THEN <<0>> ELSE Wire(n)

VARIABLES
    use,        \* what the name is: a question's, a SOA question's, a host's
    name,       \* the name
    zones,      \* the zone names that were read at the start
    pc,
    wire,       \* the name in labels
    src,        \* srcpos in wire
    len,        \* the length of the label at src
    text,       \* the decoded name
    typeAt,     \* where extractQuestion reads the type, behind the question's start
    from,       \* findZoneName has looked at the places of text from here on
    found,      \* the zone's place in zones, 0 for none
    stale,      \* it was found with characters left over from an earlier call
    table       \* the name of the zone's record table

input  == <<use, name, zones>>
result == <<typeAt, from, found, stale, table>>
vars   == <<input, pc, wire, src, len, text, result>>

Init ==
    /\ use \in {"question", "soa", "host"} /\ zones \in ZoneTable
    /\ name \in {n \in Name : use = "host" => n # Root}
    /\ IF use = "host"
       THEN pc = "encode" /\ wire = <<0>> /\ src = 1 /\ len = 1
       ELSE pc = "decode" /\ wire = ClientWire(name) /\ src = 1 /\ len = wire[1]
    /\ text = <<>> /\ typeAt = 0 /\ from = 0
    /\ found = 0 /\ stale = FALSE /\ table = <<>>

----------------------------------------------------------------------------
(* convertDomainName                                                       *)

\* char is signed.
Signed(byte) == IF byte < 128 THEN byte ELSE byte - 256

\* Name to labels: src is the place in name, len that of the label's length.
EncodeLetter ==
    /\ pc = "encode" /\ src <= Len(name) /\ ~IsDot(name, src)
    /\ wire' = Append(wire, name[src]) /\ src' = src + 1
    /\ UNCHANGED <<input, pc, len, text, result>>

EncodeDot ==
    /\ pc = "encode" /\ src <= Len(name) /\ IsDot(name, src)
    /\ wire' = [Append(wire, Dot) EXCEPT ![len] = Len(wire) - len]
    /\ len' = Len(wire) + 1 /\ src' = src + 1
    /\ UNCHANGED <<input, pc, text, result>>

\* The end of the name is the root label.  The labels are then read back.
EncodeEnd ==
    /\ pc = "encode" /\ src = Len(name) + 1
    /\ wire' = [Append(wire, 0) EXCEPT ![len] = Len(wire) - len]
    /\ pc' = "decode" /\ src' = 1 /\ len' = Signed(wire'[1])
    /\ UNCHANGED <<input, text, result>>

\* Mutant: a dot behind every label.
DecodeLabelDot ==
    /\ pc = "decode" /\ len > 0
    /\ text' = text \o SubSeq(wire, src + 1, src + len) \o <<Dot>>
    /\ src' = src + len + 1
    /\ len' = Signed(wire[src'])
    /\ UNCHANGED <<input, pc, wire, result>>

\* Labels to name: src is the place of the length len.
DecodeLabel ==
    /\ pc = "decode" /\ len > 0
    /\ src' = src + len + 1
    /\ len' = Signed(wire[src'])
    /\ text' = text \o SubSeq(wire, src + 1, src + len)
                    \o IF len' > 0 THEN <<Dot>> ELSE <<>>
    /\ UNCHANGED <<input, pc, wire, result>>

DecodeEnd ==
    /\ pc = "decode" /\ len <= 0
    /\ pc' = IF use = "host" THEN "search" ELSE "type"
    /\ UNCHANGED <<input, wire, src, len, text, result>>

convertDomainName == EncodeLetter \/ EncodeDot \/ EncodeEnd \/ DecodeLabel \/ DecodeEnd

\* Mutant: the length of the name in characters and its end, but no root label.
extractTypeEarly ==
    /\ pc = "type"
    /\ typeAt' = Len(text) + 1 /\ pc' = "search"
    /\ UNCHANGED <<input, wire, src, len, text, from, found, stale, table>>

\* The type is behind the characters of the name, "root label" and "behind root label".
extractQuestion ==
    /\ pc = "type"
    /\ typeAt' = Len(text) + 2 /\ pc' = "search"
    /\ UNCHANGED <<input, wire, src, len, text, from, found, stale, table>>

----------------------------------------------------------------------------
(* testZoneName, findZoneName, strConvert                                  *)

\* The place of a zone name in the table; 0 stands for -1.
testZoneName(z) ==
    IF \E i \in 1..Len(zones) : zones[i] = z
    THEN CHOOSE i \in 1..Len(zones) :
            zones[i] = z /\ \A j \in 1..(i - 1) : zones[j] # z
    ELSE 0

Finds(i) == found' = i /\ pc' = "table" /\ UNCHANGED from

\* A SOA question must name a zone; others look for one that encloses the name.
FindExact ==
    /\ pc = "search"
    /\ LET i == testZoneName(text)
       IN  \/ i > 0 /\ Finds(i)
           \/ i = 0 /\ use = "soa" /\ pc' = "done" /\ UNCHANGED <<found, from>>
           \/ i = 0 /\ use # "soa" /\ pc' = "scan" /\ from' = Len(text) + 2
              /\ UNCHANGED found
    /\ UNCHANGED <<input, wire, src, len, text, typeAt, stale, table>>

\* The scan begins one character behind the end of the name, with what an earlier
\* name has left there.  If that is a dot nothing is copied into buf, which is
\* compared as it is: it may hold any zone of an earlier scan.
ScanBehind ==
    /\ pc = "scan" /\ from = Len(text) + 2
    /\ \/ from' = from - 1 /\ UNCHANGED <<pc, found, stale>>
       \/ \E i \in 1..Len(zones) : Finds(testZoneName(zones[i])) /\ stale' = TRUE
    /\ UNCHANGED <<input, wire, src, len, text, typeAt, table>>

\* The last dot of the name before place i, or 0.
DotBefore(n, i) ==
    CHOOSE d \in 0..(i - 1) :
        (d = 0 \/ IsDot(n, d)) /\ \A k \in (d + 1)..(i - 1) : ~IsDot(n, k)

\* What is behind place d.
Suffix(n, d) == SubSeq(n, d + 1, Len(n))

\* Mutant: the dot is compared with the rest.
ScanDotCompared ==
    /\ pc = "scan" /\ from <= Len(text) + 1
    /\ LET d == DotBefore(text, from)
           i == testZoneName(SubSeq(text, IF d = 0 THEN 1 ELSE d, Len(text)))
       IN  \/ i > 0 /\ Finds(i)
           \/ i = 0 /\ d > 0 /\ from' = d /\ UNCHANGED <<pc, found>>
           \/ i = 0 /\ d = 0 /\ pc' = "done" /\ UNCHANGED <<from, found>>
    /\ UNCHANGED <<input, wire, src, len, text, typeAt, stale, table>>

\* Back to the next dot: the rest behind it is the next longer suffix, at the end the
\* whole name.
Scan ==
    /\ pc = "scan" /\ from <= Len(text) + 1
    /\ LET d == DotBefore(text, from)
           i == testZoneName(Suffix(text, d))
       IN  \/ i > 0 /\ Finds(i)
           \/ i = 0 /\ d > 0 /\ from' = d /\ UNCHANGED <<pc, found>>
           \/ i = 0 /\ d = 0 /\ pc' = "done" /\ UNCHANGED <<from, found>>
    /\ UNCHANGED <<input, wire, src, len, text, typeAt, stale, table>>

findZoneName == FindExact \/ ScanBehind \/ Scan

\* The zone's record table: "_" replaces ".".  A SOA question needs none.
strConvert ==
    /\ pc = "table"
    /\ table' = IF use = "soa" THEN table
                ELSE [i \in 1..Len(zones[found]) |->
                        IF IsDot(zones[found], i) THEN Underscore ELSE zones[found][i]]
    /\ pc' = "done"
    /\ UNCHANGED <<input, wire, src, len, text, typeAt, from, found, stale>>

----------------------------------------------------------------------------

Next == convertDomainName \/ extractQuestion \/ findZoneName \/ strConvert

Spec == Init /\ [][Next]_vars

----------------------------------------------------------------------------
(* Properties.                                                             *)

\* Every variable has its type.
TypeOK ==
    /\ use \in {"question", "soa", "host"} /\ name \in Name /\ zones \in ZoneTable
    /\ pc \in {"encode", "decode", "type", "search", "scan", "table", "done"}
    /\ wire \in Seq(0..255) /\ src \in Nat /\ len \in Int
    /\ text \in Seq(Letter \cup {Dot}) /\ typeAt \in Nat /\ from \in Nat
    /\ found \in 0..Len(zones) /\ stale \in BOOLEAN
    /\ pc = "table" => found > 0

\* A name of the database gets the form of rfc1035.txt 3.1, and a name comes out of a
\* message as the client, or the database, has put it in: the two directions of
\* convertDomainName are inverse, and the lengths it writes are the ones it reads.
NameComesBack ==
    /\ pc # "encode" => wire = ClientWire(name)
    /\ pc \notin {"encode", "decode"} => text = name

\* The type of a question is read where its name ends, though that place is computed
\* from the decoded name; the root, whose name has no label, is the exception.
TypeBehindName == pc \notin {"decode", "type"} /\ use # "host" /\ name # Root =>
    typeAt = Len(wire)

\* z is the zone n or a zone above n.
Encloses(z, n) == z = n \/ \E d \in 1..Len(n) : IsDot(n, d) /\ z = Suffix(n, d)

Zones == {zones[i] : i \in 1..Len(zones)}

\* A search that reads nothing but the name finds a zone if there is one that encloses
\* the name, at whatever dot, and then one that does; a name's own zone comes first.
\* (Of several it is the shortest, where rfc1034.txt 4.3.2 wants "the nearest ancestor
\* to QNAME": no property says that this one is right.)
ZoneEncloses ==
    pc = "done" /\ use # "soa" /\ ~stale =>
        IF found = 0 THEN \A z \in Zones : ~Encloses(z, name)
        ELSE Encloses(zones[found], name) /\ (name \in Zones => zones[found] = name)

====
