---- MODULE Reply ----
(***************************************************************************)
(* From the rows of a database result to the bytes of a reply: the records *)
(* that mpdnsmysql.c builds, the lengths that it computes beside them, the *)
(* memory of both, and the message that processRRs, appendRR and           *)
(* codeHeader of dns.c make of them.  One lookup is one behaviour.         *)
(*                                                                         *)
(* Decimal numbers and addresses of a row are the numbers that atoi reads. *)
(* A byte that was allocated and never written is Garbage.  One iteration  *)
(* of a loop is one step, and every allocation and query may fail.         *)
(***************************************************************************)
EXTENDS DomainNames

CONSTANTS
    Row,            \* the rows of the tables, with the columns of all of them
    Result,         \* the results of a query, as sequences of rows
    Request,        \* questions of clients, as sequences of bytes
    NameBuffer,     \* size of the owner name in a record (256)
    SoaBuffer       \* size of the memory in which SOA data are put together (512)

Byte == 0..255

HeaderLen == 12     \* DNSHEADERLEN
Column    == 255    \* the longest name that a column holds: varchar(255)

\* What a DNS_USI, of 16 bits, keeps of a number.
USI(n) == n % 65536

InAddrArpa == <<46, 105, 110, 45, 97, 100, 100, 114, 46, 97, 114, 112, 97>>

ASSUME ReplyAssumption ==
    /\ \A r \in Row :
        /\ WellFormed(r.name) /\ WellFormed(r.name \o InAddrArpa)
        /\ WellFormed(r.host) /\ WellFormed(r.mail)
        /\ Len(r.name) <= Column /\ Len(r.host) <= Column /\ Len(r.mail) <= Column
        /\ r.address \in [1..4 -> Byte] /\ r.number \in [1..5 -> Nat]
        /\ r.ttl \in Nat /\ r.preference \in Nat
    /\ Result \subseteq Seq(Row)
    /\ Request \subseteq Seq(Byte) /\ \A q \in Request : Len(q) > HeaderLen
    /\ SoaBuffer \in Nat /\ NameBuffer \in Nat

Kind == {"A", "NS", "CNAME", "MX", "SOA", "PTR"}

\* rrtype, rrclass and rcode (dns.h).
TypeNumber(k) ==
    IF k = "A" THEN 1 ELSE IF k = "NS" THEN 2 ELSE IF k = "CNAME" THEN 5
    ELSE IF k = "SOA" THEN 6 ELSE IF k = "PTR" THEN 12 ELSE 15
RRC_IN == 1
RCODE_NO_ERROR == 0
RCODE_SERVER_FAILURE == 2

\* htons and htonl with memmove: the bytes of a number, the highest first.
Num2(n) == <<(n \div 256) % 256, n % 256>>
Num4(n) == Num2(n \div 65536) \o Num2(n % 65536)
Value2(b, i) == 256 * b[i] + b[i + 1]

VARIABLES
    pc,
    kind,       \* what is looked up
    rows,       \* the rows that the database has for it
    request,    \* the question of the client, buf in processDNSquery
    heap,       \* the blocks of memory that are allocated
    rr,         \* the records that were built
    sum,        \* the length that processRRs has added up
    ends,       \* where it has put the end of the question and of each record
    msg,        \* the message
    used,       \* *msgLen
    done,       \* records that were appended
    h,          \* the header in processDNSquery
    fault       \* the undefined behaviour that a behaviour ends with

input == <<kind, rows, request>>
text  == <<msg, used>>
vars  == <<pc, input, heap, rr, sum, ends, text, done, h, fault>>

----------------------------------------------------------------------------
(* extractHeader, codeHeader                                               *)

extractHeader(b) ==
    [id |-> Value2(b, 1),
     qr |-> b[3] \div 128, opcode |-> (b[3] \div 8) % 16, aa |-> (b[3] \div 4) % 2,
     tc |-> (b[3] \div 2) % 2, rd |-> b[3] % 2,
     ra |-> b[4] \div 128, z |-> (b[4] \div 16) % 8, rcode |-> b[4] % 16,
     qdcount |-> Value2(b, 5), ancount |-> Value2(b, 7), nscount |-> Value2(b, 9),
     arcount |-> Value2(b, 11)]

\* Mutant: the flag of authority is shifted by 3.
codeHeaderAa(x) ==
    Num2(x.id)
    \o <<128 * ((x.qr + x.opcode \div 2) % 2) + 64 * (x.opcode % 2)
            + 8 * x.aa + 2 * x.tc + x.rd,
         128 * ((x.ra + x.z \div 2) % 2) + 64 * (x.z % 2) + x.rcode>>
    \o Num2(x.qdcount) \o Num2(x.ancount) \o Num2(x.nscount) \o Num2(x.arcount)

\* opcode and z are shifted by 6: their lowest bits fall beside qr and ra, the second
\* lowest on them, and the others out of the byte.
codeHeader(x) ==
    Num2(x.id)
    \o <<128 * ((x.qr + x.opcode \div 2) % 2) + 64 * (x.opcode % 2)
            + 4 * x.aa + 2 * x.tc + x.rd,
         128 * ((x.ra + x.z \div 2) % 2) + 64 * (x.z % 2) + x.rcode>>
    \o Num2(x.qdcount) \o Num2(x.ancount) \o Num2(x.nscount) \o Num2(x.arcount)

WithHeader(b, x) == codeHeader(x) \o SubSeq(b, HeaderLen + 1, Len(b))

Init ==
    /\ pc = "query" /\ kind \in Kind /\ request \in Request
    /\ rows \in {r \in Result : kind = "SOA" \/ r # <<>>}
    /\ heap = {<<"message">>}
    /\ rr = <<>> /\ sum = 0 /\ ends = <<>> /\ done = 0
    /\ msg = request /\ used = Len(request)
    /\ h = [extractHeader(request) EXCEPT !.qr = 1]
    /\ fault = "none"

----------------------------------------------------------------------------
(* queryMysqlSOA, queryMysqlPTR, queryMysqlEntry                           *)

Fails == pc' = "failed"

\* querySOA, queryPTR, queryEntry: the query and its result.
Query ==
    /\ pc = "query"
    /\ \/ pc' = "array" /\ heap' = heap \cup {<<"result">>}
       \/ Fails /\ UNCHANGED heap
    /\ UNCHANGED <<input, rr, sum, ends, text, done, h, fault>>

\* The table of the records.  Whoever fails from here on leaves the result behind.
AllocArray ==
    /\ pc = "array"
    /\ \/ pc' = "rows" /\ heap' = heap \cup {<<"array">>}
       \/ Fails /\ UNCHANGED heap
    /\ UNCHANGED <<input, rr, sum, ends, text, done, h, fault>>

\* The name of the records of row r.
OwnerName(r) == IF kind = "PTR" THEN r.name \o InAddrArpa ELSE r.name

\* strlen of what convertDomainName writes for a name.
WireLength(w) == CHOOSE n \in 0..(Len(w) - 1) : w[n + 1] = 0 /\ \A i \in 1..n : w[i] # 0

\* rrlen as far as the name: the PTR query measures the name that it has coded.
NameLength(r) ==
    IF kind = "PTR" THEN WireLength(Wire(OwnerName(r))) + 1 ELSE Len(r.name) + 1 + 1

\* Mutant: the root label of a host is not counted.
DataLengthShort(r) ==
    IF kind = "A" THEN 4
    ELSE IF kind = "MX" THEN 2 + Len(r.host) + 1 + 1
    ELSE IF kind = "SOA" THEN (Len(r.name) + 1 + 1) + (Len(r.mail) + 1 + 1) + 5 * 4
    ELSE Len(r.host) + 1

\* rdlength, computed before the data are there.
DataLength(r) ==
    IF kind = "A" THEN 4
    ELSE IF kind = "MX" THEN 2 + Len(r.host) + 1 + 1
    ELSE IF kind = "SOA" THEN (Len(r.name) + 1 + 1) + (Len(r.mail) + 1 + 1) + 5 * 4
    ELSE Len(r.host) + 1 + 1

\* What is written to rdata.
Data(r) ==
    IF kind = "A" THEN r.address
    ELSE IF kind = "MX" THEN Num2(r.preference) \o Wire(r.host)
    ELSE IF kind = "SOA"
    THEN Wire(r.name) \o Wire(r.mail) \o Num4(r.number[1]) \o Num4(r.number[2])
         \o Num4(r.number[3]) \o Num4(r.number[4]) \o Num4(r.number[5])
    ELSE Wire(r.host)

\* The memory for them.
DataSize(r) ==
    IF kind = "SOA" THEN SoaBuffer
    ELSE IF kind = "PTR" THEN DataLength(r)
    ELSE USI(DataLength(r))

\* The coded name has its place in the record, and the data have their memory.
NameFits(r) == Len(Wire(OwnerName(r))) <= NameBuffer
DataFits(r) == Len(Data(r)) <= DataSize(r)

\* The record of row r; rdata is the block after its REALLOC to rdlength.
NewRecord(r) ==
    [name     |-> Wire(OwnerName(r)),
     type     |-> TypeNumber(kind),
     ttl      |-> IF kind = "SOA" THEN r.number[5] ELSE r.ttl,
     rdlength |-> USI(DataLength(r)),
     rdata    |-> Data(r),
     rrlen    |-> USI(NameLength(r) + (2 + 2 + 4) + DataLength(r) + 2)]

Record(k) == <<"record", k>>
DataOf(k) == <<"data", k>>

\* A row becomes a record, of two blocks, unless memory is short for one of them or
\* for the block in its final size.  No length is compared before the name is coded
\* into the record, and the data into their block.
BuildRecord ==
    /\ pc = "rows" /\ Len(rr) < Len(rows)
    /\ LET k == Len(rr) + 1
           r == rows[k]
       IN  \/ NameFits(r) /\ DataFits(r)
              /\ rr' = Append(rr, NewRecord(r))
              /\ heap' = heap \cup {Record(k), DataOf(k)}
              /\ UNCHANGED <<pc, fault>>
           \/ ~(NameFits(r) /\ DataFits(r))
              /\ fault' = "overrun" /\ UNCHANGED <<pc, heap, rr>>
           \/ Fails /\ UNCHANGED <<heap, rr, fault>>
           \/ NameFits(r) /\ Fails
              /\ heap' = heap \cup {Record(k)} /\ UNCHANGED <<rr, fault>>
           \/ kind = "SOA" /\ NameFits(r) /\ DataFits(r) /\ Fails
              /\ heap' = heap \cup {Record(k), DataOf(k)} /\ UNCHANGED <<rr, fault>>
    /\ UNCHANGED <<input, sum, ends, text, done, h>>

\* mysql_free_result; numRows goes to the caller, which calls processRRs.
RecordsBuilt ==
    /\ pc = "rows" /\ Len(rr) = Len(rows)
    /\ pc' = "size" /\ heap' = heap \ {<<"result">>}
    /\ sum' = used /\ ends' = <<used>>
    /\ UNCHANGED <<input, rr, text, done, h, fault>>

----------------------------------------------------------------------------
(* processRRs, appendRR                                                    *)

\* "Gesamtgroesse berechnen"
AddLength ==
    /\ pc = "size" /\ Len(ends) <= Len(rr)
    /\ sum' = sum + rr[Len(ends)].rrlen /\ ends' = Append(ends, sum')
    /\ UNCHANGED <<pc, input, heap, rr, text, done, h, fault>>

Blocks(k) == {Record(k), DataOf(k)}
AllBlocks == {<<"array">>} \cup UNION {Blocks(k) : k \in 1..Len(rr)}

Garbage == -1

\* Mutant: the records stay when there is no memory for the message.
AllocMessageKeeps ==
    /\ pc = "size" /\ Len(ends) = Len(rr) + 1
    /\ \/ /\ pc' = "append"
          /\ msg' = [i \in 1..sum |-> IF i <= used THEN msg[i] ELSE Garbage]
          /\ UNCHANGED heap
       \/ Fails /\ UNCHANGED <<heap, msg>>
    /\ UNCHANGED <<input, rr, sum, ends, used, done, h, fault>>

\* A longer block for the message; without it all records are freed.
AllocMessage ==
    /\ pc = "size" /\ Len(ends) = Len(rr) + 1
    /\ \/ /\ pc' = "append"
          /\ msg' = [i \in 1..sum |-> IF i <= used THEN msg[i] ELSE Garbage]
          /\ UNCHANGED heap
       \/ Fails /\ heap' = heap \ AllBlocks /\ UNCHANGED msg
    /\ UNCHANGED <<input, rr, sum, ends, used, done, h, fault>>

\* Mutant: the length that strlen gives is short of the root label.
writtenNoRoot(r) ==
    SubSeq(r.name, 1, WireLength(r.name))
    \o Num2(r.type) \o Num2(RRC_IN) \o Num4(r.ttl) \o Num2(r.rdlength)
    \o SubSeq(r.rdata, 1, r.rdlength)

\* The bytes that appendRR writes: the name up to its first zero, and so on.
written(r) ==
    SubSeq(r.name, 1, WireLength(r.name) + 1)
    \o Num2(r.type) \o Num2(RRC_IN) \o Num4(r.ttl) \o Num2(r.rdlength)
    \o SubSeq(r.rdata, 1, r.rdlength)

\* "free" of processRRs: the records of MX are still needed.
Freed(k) == IF kind = "MX" THEN {} ELSE Blocks(k)

appendRR ==
    /\ pc = "append" /\ done < Len(rr)
    /\ LET r == rr[done + 1]
           w == written(r)
       IN  \/ /\ used + Len(w) <= Len(msg)
              /\ msg' = [i \in 1..Len(msg) |->
                            IF i \in (used + 1)..(used + Len(w)) THEN w[i - used] ELSE msg[i]]
              /\ used' = used + r.rrlen /\ done' = done + 1
              /\ heap' = heap \ Freed(done + 1)
              /\ UNCHANGED fault
           \/ /\ used + Len(w) > Len(msg)
              /\ fault' = "overrun" /\ UNCHANGED <<text, done, heap>>
    /\ UNCHANGED <<pc, input, rr, sum, ends, h>>

AllAppended ==
    /\ pc = "append" /\ done = Len(rr)
    /\ IF kind = "MX"
       THEN pc' = "hosts" /\ done' = 0 /\ UNCHANGED heap
       ELSE pc' = "header" /\ heap' = heap \ {<<"array">>} /\ UNCHANGED done
    /\ h' = [h EXCEPT !.ancount = USI(@ + Len(rr))]
    /\ UNCHANGED <<input, rr, sum, ends, text, fault>>

----------------------------------------------------------------------------
(* The callers of processRRs                                               *)

\* processDNSqueryEntry frees a record of MX when it has looked for its host's address.
FreeHost ==
    /\ pc = "hosts" /\ done < Len(rr)
    /\ done' = done + 1 /\ heap' = heap \ Blocks(done + 1)
    /\ UNCHANGED <<pc, input, rr, sum, ends, text, h, fault>>

FreeHosts ==
    /\ pc = "hosts" /\ done = Len(rr)
    /\ pc' = "header" /\ heap' = heap \ {<<"array">>}
    /\ UNCHANGED <<input, rr, sum, ends, text, done, h, fault>>

\* processDNSquery codes the header of an answer.
Answer ==
    /\ pc = "header"
    /\ h' = [h EXCEPT !.aa = 1, !.rcode = RCODE_NO_ERROR]
    /\ msg' = WithHeader(msg, h') /\ pc' = "answered"
    /\ UNCHANGED <<input, heap, rr, sum, ends, used, done, fault>>

\* The question and its length come back, with the header of a failure.
Refuse ==
    /\ pc = "failed"
    /\ h' = [extractHeader(request) EXCEPT !.rcode = RCODE_SERVER_FAILURE]
    /\ msg' = WithHeader(request, h') /\ used' = Len(request) /\ pc' = "refused"
    /\ UNCHANGED <<input, heap, rr, sum, ends, done, fault>>

----------------------------------------------------------------------------

Next ==
    /\ fault = "none"
    /\ \/ Query \/ AllocArray \/ BuildRecord \/ RecordsBuilt
       \/ AddLength \/ AllocMessage \/ appendRR \/ AllAppended
       \/ FreeHost \/ FreeHosts \/ Answer \/ Refuse

Spec == Init /\ [][Next]_vars

----------------------------------------------------------------------------
(* Properties.                                                             *)

\* Every variable has its type.
TypeOK ==
    /\ pc \in {"query", "array", "rows", "size", "append", "hosts", "header", "answered",
               "failed", "refused"}
    /\ kind \in Kind /\ rows \in Seq(Row) /\ request \in Seq(Byte)
    /\ Len(rr) \in 0..Len(rows) /\ sum \in Nat /\ ends \in Seq(Nat)
    /\ msg \in Seq(Byte \cup {Garbage}) /\ used \in Nat /\ done \in 0..Len(rr)
    /\ fault \in {"none", "overrun"}

\* A row as a resource record (rfc1035.txt 3.2.1, 3.3 and 3.4.1).
ResourceRecord(r) ==
    Wire(OwnerName(r)) \o Num2(TypeNumber(kind)) \o Num2(RRC_IN)
    \o Num4(IF kind = "SOA" THEN r.number[5] ELSE r.ttl) \o Num2(Len(Data(r))) \o Data(r)

\* An answer is the question and, one behind the other, the resource records of the
\* rows; nothing of the message was left unwritten, cut off or overwritten, though
\* its size, the places in it and its bytes are computed in three files' functions.
AnswerHoldsRows ==
    pc = "answered" =>
        /\ Len(ends) = Len(rows) + 1 /\ ends[1] = Len(request)
        /\ used = Len(msg) /\ ends[Len(ends)] = Len(msg)
        /\ SubSeq(msg, HeaderLen + 1, ends[1]) = SubSeq(request, HeaderLen + 1, Len(request))
        /\ \A k \in 1..Len(rows) :
                SubSeq(msg, ends[k] + 1, ends[k + 1]) = ResourceRecord(rows[k])

\* A write misses its block for two reasons only: a name that leaves no place in its
\* record for the two bytes that coding adds, and a SOA row whose two names do not fit
\* together into the memory for its data.  The message always has the place that
\* appendRR takes, though processRRs adds it up from lengths of 16 bits.
WritesFit ==
    fault = "overrun" => \E k \in 1..Len(rows) :
        \/ Len(OwnerName(rows[k])) + 2 > NameBuffer
        \/ kind = "SOA" /\ Len(rows[k].name) + Len(rows[k].mail) + 24 > SoaBuffer

\* The records that are still to be read are allocated; an answer has freed all that
\* was allocated for it, and so has a lookup that had no memory for the message.
BlocksBalanced ==
    /\ pc \in {"append", "hosts"} =>
            \A k \in (done + 1)..Len(rr) : Blocks(k) \subseteq heap
    /\ pc = "answered" \/ (pc = "refused" /\ Len(ends) = Len(rows) + 1) =>
            heap = {<<"message">>}

\* The client reads an answer with authority to its own question: the flags that were
\* shifted together and the counts arrive as they were meant, as long as the reserved
\* bits of the question are zero.  (A refused question comes back as a
\* question, qr = 0, against "send always an answer" at dns.c:570: no property covers it.)
HeaderArrives ==
    LET asked == extractHeader(request)
        read  == extractHeader(msg)
    IN  pc = "answered" /\ asked.z = 0 /\ asked.opcode = 0 =>
            /\ read = h /\ read.qr = 1 /\ read.aa = 1 /\ read.rcode = RCODE_NO_ERROR
            /\ read.id = asked.id /\ read.rd = asked.rd
            /\ read.ancount = USI(asked.ancount + Len(rows))

====
