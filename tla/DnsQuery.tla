---- MODULE DnsQuery ----
(***************************************************************************)
(* The resolution of one query after the other by processDNSquery: the     *)
(* decoded header and the coded one, the records that the lookups append   *)
(* to the message, the ownership of the record sets that the database      *)
(* returns, and the forwarder.  Sources: mpDNSlib/src/dns/dns.c, with the  *)
(* results of db/mpdnsmysql.c.                                             *)
(*                                                                         *)
(* Names, addresses and record data are abstracted to what the control     *)
(* depends on: a question knows where its name lies, a message how many    *)
(* records of each section follow the question, and if they are in order.  *)
(***************************************************************************)
EXTENDS Integers, Sequences

CONSTANTS
    MaxRecords,     \* bound: records that one lookup finds
    MaxQueries,     \* bound: queries that are processed
    MaxSockets      \* descriptors that the process may leave open

ASSUME DnsQueryAssumption ==
    MaxRecords \in Nat /\ MaxQueries \in Nat /\ MaxSockets \in Nat

Entry     == {"A", "NS", "CNAME", "MX"}
QueryType == Entry \cup {"SOA", "PTR", "ALL", "other"}
Opcode    == 0..2       \* OPCODE_QUERY, OPCODE_IQUERY, OPCODE_STATUS
Unset     == 2          \* the value of ret before it is assigned

\* What processDNSquery tells apart of the datagrams that it gets: one above 512
\* bytes, one that is shorter than a header, one that is no more than a header, and a
\* question, whose name is a zone's, is inside a zone, or is outside all; "extra"
\* records follow it (EDNS).
Datagram ==
    [form : {"tooLong", "short", "malformed"}, opcode : {0}, type : {"other"},
     place : {"outside"}, extra : {0}]
    \cup
    [form : {"question"}, opcode : Opcode, type : QueryType,
     place : {"zone", "inside", "outside"}, extra : 0..1]

VARIABLES
    pc,         \* where processDNSquery is; "idle" between two queries
    q,          \* the datagram
    h,          \* the local variable h, a decoded header
    coded,      \* the header in the message
    body,       \* the records in the message after the question
    ret,        \* the local variable ret
    todo,       \* lookups still to do, the current one first
    rr,         \* the record set of the current lookup: "none", "live", "freed"
    found,      \* the number of records the last database query returned
    alias,      \* an A query was answered through a CNAME record
    targets,    \* A lookups to do for the records that were found
    lost,       \* record sets of this query that nobody will free
    sockets,    \* sockets that askForwarder left open
    reply,      \* how the query ended
    queries,    \* queries so far, against their bound
    fault       \* the undefined behaviour that ended the process

result == <<rr, found, alias, targets, lost>>
vars == <<pc, q, h, coded, body, ret, todo, result, sockets, reply, queries, fault>>

\* The header of a datagram: it is a question and claims no answers.
HeaderOf(d) == [qr |-> 0, opcode |-> d.opcode, aa |-> 0, rcode |-> "NO_ERROR",
                an |-> 0, ar |-> d.extra]
BodyOf(d)   == [an |-> 0, ar |-> d.extra, mixed |-> FALSE]

\* codeHeader shifts the opcode by 6 bits instead of 3: its second bit falls on
\* the bit of qr, and clears it.
codeHeader(header) ==
    [header EXCEPT !.qr = IF header.opcode = 2 THEN 1 - @ ELSE @,
                   !.opcode = IF header.opcode = 1 THEN 8 ELSE 0]

Init ==
    /\ pc = "idle" /\ reply = "none" /\ fault = "none"
    /\ q \in {d \in Datagram : d.form = "tooLong"}
    /\ h = HeaderOf(q) /\ coded = HeaderOf(q) /\ body = BodyOf(q)
    /\ ret = Unset /\ todo = <<>>
    /\ rr = "none" /\ found = 0 /\ alias = FALSE /\ targets = 0 /\ lost = 0
    /\ sockets = 0 /\ queries = 0

----------------------------------------------------------------------------
(* processDNSquery, up to its first switch                                 *)

\* The processing thread calls processDNSquery.
Call(d) ==
    /\ pc = "idle" /\ fault = "none"
    /\ queries < MaxQueries /\ queries' = queries + 1
    /\ q' = d /\ coded' = HeaderOf(d) /\ body' = BodyOf(d)
    /\ ret' = Unset /\ todo' = <<>> /\ reply' = "none"
    /\ rr' = "none" /\ found' = 0 /\ alias' = FALSE /\ targets' = 0 /\ lost' = 0
    /\ pc' = "decode"
    /\ UNCHANGED <<h, sockets, fault>>

Return(how) == pc' = "idle" /\ reply' = how

DropTooLong ==
    /\ pc = "decode" /\ q.form = "tooLong"
    /\ Return("dropped")
    /\ UNCHANGED <<q, h, coded, body, ret, todo, result, sockets, queries, fault>>

RefuseMalformed ==
    /\ pc = "decode" /\ q.form \in {"short", "malformed"}
    /\ h' = [HeaderOf(q) EXCEPT !.qr = 1, !.rcode = "FORMAT_ERROR"]
    /\ coded' = codeHeader(h')
    /\ Return("local")
    /\ UNCHANGED <<q, body, ret, todo, result, sockets, queries, fault>>

\* The header is coded into memory of the datagram's length: what lies behind it may
\* be in use.
RefuseShort ==
    /\ pc = "decode" /\ q.form = "short"
    /\ fault' = "overrun"
    /\ UNCHANGED <<pc, q, h, coded, body, ret, todo, result, sockets, reply, queries>>

RefuseOpcode ==
    /\ pc = "decode" /\ q.form = "question" /\ q.opcode # 0
    /\ h' = [HeaderOf(q) EXCEPT !.qr = 1, !.rcode = "NOT_IMPLEMENTET"]
    /\ coded' = codeHeader(h')
    /\ Return("local")
    /\ UNCHANGED <<q, body, ret, todo, result, sockets, queries, fault>>

\* The default of the switch assigns no value to ret: it has any.
RefuseType ==
    /\ pc = "decode" /\ q.form = "question" /\ q.opcode = 0 /\ q.type = "other"
    /\ h' = [HeaderOf(q) EXCEPT !.qr = 1, !.rcode = "NOT_IMPLEMENTET"]
    /\ coded' = codeHeader(h')
    /\ ret' \in {-1, 0, 1}
    /\ pc' = "finish"
    /\ UNCHANGED <<q, body, todo, result, sockets, reply, queries, fault>>

Resolve ==
    /\ pc = "decode" /\ q.form = "question" /\ q.opcode = 0 /\ q.type # "other"
    /\ h' = [HeaderOf(q) EXCEPT !.qr = 1]
    /\ todo' = IF q.type = "ALL" THEN <<"SOA", "A", "NS", "MX">> ELSE <<q.type>>
    /\ pc' = "zone"
    /\ UNCHANGED <<q, coded, body, ret, result, sockets, reply, queries, fault>>

----------------------------------------------------------------------------
(* processDNSqueryEntry, processDNSqueryPTR and processDNSquerySOA         *)

type == Head(todo)

\* A lookup returns r.  Only an error ends the lookups of ALL early.
EndLookup(r) ==
    /\ ret' = r
    /\ todo' = Tail(todo)
    /\ pc' = IF r = -1 \/ Tail(todo) = <<>> THEN "finish" ELSE "zone"

Authoritative(header) == [header EXCEPT !.aa = 1, !.rcode = "NO_ERROR"]

InOurZones == IF type = "SOA" THEN q.place = "zone" ELSE q.place # "outside"

\* testZoneName for SOA, findZoneName for an entry; for PTR the address is cut out
\* of the name, which is undefined when ".in-addr.arpa" is not in it.
FindZone ==
    /\ pc = "zone"
    /\ rr' = "none" /\ alias' = FALSE
    /\ \/ /\ type # "PTR" /\ InOurZones
          /\ pc' = "ask" /\ UNCHANGED <<ret, todo, fault>>
       \/ type # "PTR" /\ ~InOurZones /\ EndLookup(1) /\ UNCHANGED fault
       \/ type = "PTR" /\ pc' = "ask" /\ UNCHANGED <<ret, todo, fault>>
       \/ type = "PTR" /\ fault' = "noSuffix" /\ UNCHANGED <<pc, ret, todo>>
    /\ UNCHANGED <<q, h, coded, body, found, targets, lost, sockets, reply, queries>>

\* A database query fails, perhaps when it has already built some records.
QueryFails ==
    /\ pc \in {"ask", "askAlias"}
    /\ lost' \in {lost, lost + 1}
    /\ EndLookup(-1)
    /\ UNCHANGED <<q, h, coded, body, rr, found, alias, targets, sockets, reply,
                   queries, fault>>

\* queryEntry, queryPTR, querySOA.  The empty set that comes with no records is
\* freed for an A query alone, which looks for a CNAME then.
Ask ==
    /\ pc = "ask"
    /\ \E n \in 0..MaxRecords :
        /\ found' = n
        /\ \/ /\ n > 0 \/ type = "SOA"
              /\ rr' = "live" /\ pc' = "append" /\ UNCHANGED <<ret, todo, lost>>
           \/ /\ n = 0 /\ type = "A"
              /\ rr' = "none" /\ pc' = "askAlias" /\ UNCHANGED <<ret, todo, lost>>
           \/ /\ n = 0 /\ type \notin {"A", "SOA"}
              /\ rr' = "none" /\ lost' = lost + 1
              /\ EndLookup(IF type = "PTR" THEN 1 ELSE 0)
    /\ UNCHANGED <<q, h, coded, body, alias, targets, sockets, reply, queries, fault>>

\* "Ist A ein CNAME ?": only one is allowed.
AskAlias ==
    /\ pc = "askAlias"
    /\ \E n \in 0..MaxRecords :
        /\ found' = n
        /\ \/ /\ n = 1 /\ alias' = TRUE /\ rr' = "live" /\ pc' = "append"
              /\ UNCHANGED <<h, ret, todo, lost>>
           \/ /\ n # 1 /\ rr' = "none" /\ lost' = lost + 1
              /\ h' = [h EXCEPT !.aa = 0, !.rcode = "NAME_ERROR"]
              /\ EndLookup(0) /\ UNCHANGED alias
    /\ UNCHANGED <<q, coded, body, targets, sockets, reply, queries, fault>>

\* processRRs has no memory for the longer message, and frees the records.
AppendFails ==
    /\ pc = "append"
    /\ rr' = "freed"
    /\ EndLookup(-1)
    /\ UNCHANGED <<q, h, coded, body, found, alias, targets, lost, sockets, reply,
                   queries, fault>>

\* processRRs appends to the end of the message, in whatever section that is.
WithAnswers(b, n) ==
    [b EXCEPT !.an = @ + n, !.mixed = @ \/ (n > 0 /\ b.ar > 0)]

Targets ==
    CASE type \in {"SOA", "PTR"} -> 0
      [] type = "A"  -> IF alias THEN 1 ELSE 0
      [] type = "MX" -> found
      [] OTHER       -> 1

\* Mutant: the records of an MX answer are freed with the others.
AppendFreesAll ==
    /\ pc = "append"
    /\ body' = WithAnswers(body, found)
    /\ rr' = "freed"
    /\ targets' = Targets
    /\ \/ /\ Targets > 0 /\ pc' = "target"
          /\ h' = [h EXCEPT !.an = @ + found]
          /\ UNCHANGED <<ret, todo>>
       \/ /\ Targets = 0
          /\ h' = Authoritative([h EXCEPT !.an = @ + found])
          /\ EndLookup(0)
    /\ UNCHANGED <<q, coded, found, alias, lost, sockets, reply, queries, fault>>

\* The records of the question go into the message, and are counted as answers.
\* Those of an MX query are still needed.
AppendAnswers ==
    /\ pc = "append"
    /\ body' = WithAnswers(body, found)
    /\ rr' = IF type = "MX" THEN "live" ELSE "freed"
    /\ targets' = Targets
    /\ \/ /\ Targets > 0 /\ pc' = "target"
          /\ h' = [h EXCEPT !.an = @ + found]
          /\ UNCHANGED <<ret, todo>>
       \/ /\ Targets = 0
          /\ h' = Authoritative([h EXCEPT !.an = @ + found])
          /\ EndLookup(0)
    /\ UNCHANGED <<q, coded, found, alias, lost, sockets, reply, queries, fault>>

\* The record set that a lookup leaves behind when it ends among its targets.
Abandoned == IF type = "MX" THEN 1 ELSE 0

\* The addresses of the host that a CNAME, NS or MX record names.  For MX the
\* host's own zone is looked up, and the forwarder is asked when it is unknown.
AskTarget ==
    /\ pc = "target"
    /\ IF type = "MX" /\ rr # "live"
       THEN fault' = "useAfterFree" /\ UNCHANGED <<pc, ret, todo, found, lost>>
       ELSE /\ UNCHANGED fault
            /\ \/ \E m \in 0..MaxRecords :
                   found' = m /\ pc' = "appendTarget" /\ UNCHANGED <<ret, todo, lost>>
               \/ /\ type = "MX" /\ lost' = lost + 1
                  /\ EndLookup(1) /\ UNCHANGED found
               \/ /\ lost' \in {lost + Abandoned, lost + Abandoned + 1}
                  /\ EndLookup(-1) /\ UNCHANGED found
    /\ UNCHANGED <<q, h, coded, body, rr, alias, targets, sockets, reply, queries>>

AppendTargetFails ==
    /\ pc = "appendTarget"
    /\ lost' = lost + Abandoned
    /\ EndLookup(-1)
    /\ UNCHANGED <<q, h, coded, body, rr, found, alias, targets, sockets, reply,
                   queries, fault>>

\* Mutant: the addresses behind an alias are counted as additional records.
AppendTargetAdditional ==
    /\ pc = "appendTarget"
    /\ targets' = targets - 1
    /\ LET counted == [h EXCEPT !.ar = @ + found]
       IN  \/ /\ targets > 1 /\ pc' = "target" /\ h' = counted
              /\ UNCHANGED <<ret, todo, rr>>
           \/ /\ targets = 1 /\ rr' = "freed" /\ h' = Authoritative(counted)
              /\ EndLookup(0)
    /\ body' = IF alias THEN WithAnswers(body, found) ELSE [body EXCEPT !.ar = @ + found]
    /\ UNCHANGED <<q, coded, found, alias, lost, sockets, reply, queries, fault>>

\* They are answers behind an alias, and additional records otherwise.
AppendTarget ==
    /\ pc = "appendTarget"
    /\ targets' = targets - 1
    /\ LET counted == IF alias THEN [h EXCEPT !.an = @ + found]
                               ELSE [h EXCEPT !.ar = @ + found]
       IN  \/ /\ targets > 1 /\ pc' = "target" /\ h' = counted
              /\ UNCHANGED <<ret, todo, rr>>
           \/ /\ targets = 1 /\ rr' = "freed" /\ h' = Authoritative(counted)
              /\ EndLookup(0)
    /\ body' = IF alias THEN WithAnswers(body, found) ELSE [body EXCEPT !.ar = @ + found]
    /\ UNCHANGED <<q, coded, found, alias, lost, sockets, reply, queries, fault>>

Lookup ==
    \/ FindZone \/ QueryFails \/ Ask \/ AskAlias \/ AppendFails \/ AppendAnswers
    \/ AskTarget \/ AppendTargetFails \/ AppendTarget

----------------------------------------------------------------------------
(* processDNSquery, from its second switch, and askForwarder               *)

\* The last lookup returned 0.
Finish ==
    /\ pc = "finish" /\ ret = 0
    /\ coded' = codeHeader(h)
    /\ Return("local")
    /\ UNCHANGED <<q, h, body, ret, todo, result, sockets, queries, fault>>

\* An error: the saved question comes back, and with it its header, qr included.
Fail ==
    /\ pc = "finish" /\ ret = -1
    /\ body' = BodyOf(q)
    /\ h' = [HeaderOf(q) EXCEPT !.rcode = "SERVER_FAILURE"]
    /\ coded' = codeHeader(h')
    /\ Return("local")
    /\ UNCHANGED <<q, ret, todo, result, sockets, queries, fault>>

\* The last lookup returned 1; the lookups of ALL have coded their header before.
Forward ==
    /\ pc = "finish" /\ ret = 1
    /\ coded' = IF q.type = "ALL" THEN codeHeader(h) ELSE coded
    /\ pc' = "forward"
    /\ UNCHANGED <<q, h, body, ret, todo, result, sockets, reply, queries, fault>>

\* The forwarder's answer replaces the message.
ForwarderAnswers ==
    /\ pc = "forward" /\ sockets < MaxSockets
    /\ Return("forwarded")
    /\ UNCHANGED <<q, h, coded, body, ret, todo, result, sockets, queries, fault>>

\* Mutant: the wait for the forwarder has no end.
ForwarderWaits ==
    /\ pc = "forward" /\ sockets < MaxSockets
    /\ UNCHANGED vars

\* No descriptor is left, the write fails, or nothing comes for five seconds: the
\* socket is not closed.  The records that were appended stay in the message.
ForwarderFails ==
    /\ pc = "forward"
    /\ sockets' = IF sockets < MaxSockets THEN sockets + 1 ELSE sockets
    /\ h' = [h EXCEPT !.an = 0, !.aa = 0, !.rcode = "NAME_ERROR"]
    /\ coded' = codeHeader(h')
    /\ Return("local")
    /\ UNCHANGED <<q, body, ret, todo, result, queries, fault>>

\* The answer does not fit: the message is gone, and the header is coded into it.
ForwarderAnswerLost ==
    /\ pc = "forward" /\ sockets < MaxSockets
    /\ sockets' = sockets + 1
    /\ fault' = "nullDereference"
    /\ UNCHANGED <<pc, q, h, coded, body, ret, todo, result, reply, queries>>

----------------------------------------------------------------------------

\* What processDNSquery does on its own.
Advance ==
    /\ fault = "none"
    /\ \/ DropTooLong \/ RefuseMalformed \/ RefuseShort \/ RefuseOpcode \/ RefuseType
       \/ Resolve
       \/ Lookup
       \/ Finish \/ Fail \/ Forward \/ ForwarderFails

processDNSquery ==
    \/ Advance
    \/ fault = "none" /\ (ForwarderAnswers \/ ForwarderAnswerLost)

Next == processDNSquery \/ \E d \in Datagram : Call(d)

Spec == Init /\ [][Next]_vars

\* The processing thread runs, and select() ends the wait for the forwarder: no
\* answer of the forwarder, and no further query, has to come.
FairSpec == Spec /\ WF_vars(Advance)

----------------------------------------------------------------------------
(* Properties.                                                             *)

Header ==
    [qr : 0..1, opcode : {0, 1, 2, 8}, aa : 0..1,
     rcode : {"NO_ERROR", "FORMAT_ERROR", "SERVER_FAILURE", "NAME_ERROR", "NOT_IMPLEMENTET"},
     an : Nat, ar : Nat]

ControlType ==
    /\ pc \in {"idle", "decode", "zone", "ask", "askAlias", "append", "target",
               "appendTarget", "finish", "forward"}
    /\ ret \in {-1, 0, 1, Unset}
    /\ rr \in {"none", "live", "freed"} /\ alias \in BOOLEAN
    /\ reply \in {"none", "dropped", "local", "forwarded"}
    /\ fault \in {"none", "overrun", "noSuffix", "useAfterFree", "nullDereference"}

MessageType ==
    /\ q \in Datagram /\ h \in Header /\ coded \in Header
    /\ body \in [an : Nat, ar : Nat, mixed : BOOLEAN]

CountType ==
    found \in Nat /\ targets \in Nat /\ lost \in Nat /\ sockets \in Nat /\ queries \in Nat

\* Within a lookup there is one, and within its targets there is one of those.
LookupType ==
    /\ todo \in Seq(QueryType)
    /\ pc \in {"zone", "ask", "askAlias", "append", "target", "appendTarget"} => todo # <<>>
    /\ pc \in {"target", "appendTarget"} => targets > 0

\* Every variable has its type.
TypeOK == ControlType /\ MessageType /\ CountType /\ LookupType

\* A plain question that was answered with authority.
Answered == reply = "local" /\ coded.aa = 1 /\ q.type # "ALL" /\ q.extra = 0

\* An authoritative reply can be parsed: the counts that the lookup kept in the
\* header are the records that it appended, and answers come before additionals.
AuthoritativeRepliesParse ==
    Answered => coded.an = body.an /\ coded.ar = body.ar /\ ~body.mixed

RecordsUsedWhileLive == fault # "useAfterFree"
AuthoritativeLosesNothing == Answered => lost = 0 /\ rr # "live"

\* No record is read after processRRs freed it, though it frees the records of every
\* lookup but MX, and those too when it fails; and an authoritative reply has freed
\* every record set that was read for it.
RecordsOwned == RecordsUsedWhileLive /\ AuthoritativeLosesNothing

\* The processing thread comes back from every query, whatever fails in it.
QueryEnds == pc # "idle" ~> pc = "idle" \/ fault # "none"

\* ANCOUNT is "the number of resource records in the answer section", and ARCOUNT
\* of the additional one (rfc1035.txt 4.1.1), in every reply of the server.
CountsMatchBody == reply = "local" => coded.an = body.an /\ coded.ar = body.ar
====
