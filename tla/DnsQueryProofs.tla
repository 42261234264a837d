---- MODULE DnsQueryProofs ----
(***************************************************************************)
(* Proofs about DnsQuery, for all bounds: its type invariant, and what its *)
(* replies keep to; and that Resolver, which has the sockets and the       *)
(* network as well, implements it and matches answers with questions.      *)
(***************************************************************************)
EXTENDS Resolver, TLAPS

Looking == {"zone", "ask", "askAlias", "append", "target", "appendTarget"}

----------------------------------------------------------------------------
(* The inductive invariant.                                                *)

\* A query that is being resolved has no reply yet, and starts from the question.
Begun ==
    /\ pc # "idle" => reply = "none"
    /\ pc = "decode" => body = BodyOf(q) /\ lost = 0 /\ rr = "none"

\* Only questions about known types are looked up; a plain one by one lookup.
Lookups ==
    /\ pc \in Looking =>
         q.form = "question" /\ q.type # "other" /\ (q.type # "ALL" => todo = <<q.type>>)
    /\ pc = "append" => found > 0 \/ type = "SOA"

\* The records of an MX answer live as long as its hosts are looked up.
HostsLive == pc \in {"target", "appendTarget"} /\ type = "MX" => rr = "live"

\* A plain question is on its way to an authoritative reply with the counts of h
\* those of the message, and with no record set lost.
Counted ==
    q.type # "ALL" /\ q.extra = 0 =>
        /\ pc \in Looking \/ (pc = "finish" /\ ret = 0) =>
             h.an = body.an /\ h.ar = body.ar /\ ~body.mixed
        /\ pc \in Looking => lost = 0 /\ h.aa = 0
        /\ pc \in {"zone", "ask", "askAlias", "append"} => body.ar = 0
        /\ pc \in {"target", "appendTarget"} /\ alias => body.ar = 0
        /\ pc = "finish" /\ ret = 0 /\ h.aa = 1 => lost = 0 /\ rr # "live"

Promises ==
    RecordsUsedWhileLive /\ AuthoritativeRepliesParse /\ AuthoritativeLosesNothing

Inv == TypeOK /\ Begun /\ Lookups /\ HostsLive /\ Counted /\ Promises

----------------------------------------------------------------------------
(* Proofs.                                                                 *)

\* codeHeader changes neither the counts, nor aa, nor rcode.
LEMMA CodeHeader ==
    ASSUME NEW header \in Header
    PROVE  /\ codeHeader(header) \in Header
           /\ codeHeader(header).an = header.an /\ codeHeader(header).ar = header.ar
           /\ codeHeader(header).aa = header.aa
           /\ codeHeader(header).rcode = header.rcode
<1> DEFINE bit == IF header.opcode = 2 THEN 1 - header.qr ELSE header.qr
           code == IF header.opcode = 1 THEN 8 ELSE 0
<1>1. bit \in 0..1 /\ code \in {0, 8}
  BY DEF Header
<1>2. codeHeader(header) = [header EXCEPT !.qr = bit, !.opcode = code]
  BY DEF codeHeader
<1> HIDE DEF bit, code
<1> QED
  BY <1>1, <1>2 DEF Header

\* The changes of a header that the functions make.
LEMMA HeaderChanges ==
    ASSUME NEW header \in Header
    PROVE  /\ [header EXCEPT !.qr = 1] \in Header
           /\ \A n \in Nat : /\ [header EXCEPT !.an = @ + n] \in Header
                            /\ [header EXCEPT !.ar = @ + n] \in Header
           /\ Authoritative(header) \in Header
           /\ \A code \in {"FORMAT_ERROR", "SERVER_FAILURE", "NOT_IMPLEMENTET"} :
                 /\ [header EXCEPT !.rcode = code] \in Header
                 /\ [header EXCEPT !.qr = 1, !.rcode = code] \in Header
           /\ [header EXCEPT !.aa = 0, !.rcode = "NAME_ERROR"] \in Header
           /\ [header EXCEPT !.an = 0, !.aa = 0, !.rcode = "NAME_ERROR"] \in Header
<1>1. \A n \in Nat : header.an + n \in Nat /\ header.ar + n \in Nat
  BY DEF Header
<1>2. [header EXCEPT !.qr = 1] \in Header
  BY DEF Header
<1>3. ASSUME NEW n \in Nat
      PROVE  [header EXCEPT !.an = @ + n] \in Header /\ [header EXCEPT !.ar = @ + n] \in Header
  <2> DEFINE a == header.an + n
             b == header.ar + n
  <2>1. a \in Nat /\ b \in Nat
    BY <1>1
  <2> HIDE DEF a, b
  <2>2. [header EXCEPT !.an = a] \in Header /\ [header EXCEPT !.ar = b] \in Header
    BY <2>1 DEF Header
  <2> QED
    BY <2>2 DEF a, b
<1> DEFINE Code == {"NO_ERROR", "FORMAT_ERROR", "SERVER_FAILURE", "NAME_ERROR",
                    "NOT_IMPLEMENTET"}
<1>c. ASSUME NEW code \in Code, NEW a \in 0..1, NEW n \in Nat
      PROVE  /\ [header EXCEPT !.rcode = code] \in Header
             /\ [header EXCEPT !.qr = a, !.rcode = code] \in Header
             /\ [header EXCEPT !.aa = a, !.rcode = code] \in Header
             /\ [header EXCEPT !.an = n, !.aa = a, !.rcode = code] \in Header
  <2> HIDE DEF Code
  <2>1. header \in [qr : 0..1, opcode : {0, 1, 2, 8}, aa : 0..1, rcode : Code, an : Nat, ar : Nat]
    BY DEF Code, Header
  <2>2. /\ [header EXCEPT !.rcode = code]
             \in [qr : 0..1, opcode : {0, 1, 2, 8}, aa : 0..1, rcode : Code, an : Nat,
             ar : Nat]
        /\ [header EXCEPT !.qr = a, !.rcode = code]
             \in [qr : 0..1, opcode : {0, 1, 2, 8}, aa : 0..1, rcode : Code, an : Nat,
             ar : Nat]
        /\ [header EXCEPT !.aa = a, !.rcode = code]
             \in [qr : 0..1, opcode : {0, 1, 2, 8}, aa : 0..1, rcode : Code, an : Nat,
             ar : Nat]
        /\ [header EXCEPT !.an = n, !.aa = a, !.rcode = code]
             \in [qr : 0..1, opcode : {0, 1, 2, 8}, aa : 0..1, rcode : Code, an : Nat,
             ar : Nat]
    BY <2>1
  <2> QED
    BY <2>2 DEF Code, Header
<1>k. /\ {"FORMAT_ERROR", "SERVER_FAILURE", "NOT_IMPLEMENTET"} \subseteq Code
      /\ "NO_ERROR" \in Code /\ "NAME_ERROR" \in Code
  OBVIOUS
<1>z. 0 \in 0..1 /\ 1 \in 0..1 /\ 0 \in Nat
  OBVIOUS
<1> HIDE DEF Code
<1>4. Authoritative(header) \in Header
  BY <1>c, <1>k, <1>z DEF Authoritative
<1>5. ASSUME NEW code \in {"FORMAT_ERROR", "SERVER_FAILURE", "NOT_IMPLEMENTET"}
      PROVE  /\ [header EXCEPT !.rcode = code] \in Header
             /\ [header EXCEPT !.qr = 1, !.rcode = code] \in Header
  BY <1>c, <1>k, <1>z
<1>6. [header EXCEPT !.aa = 0, !.rcode = "NAME_ERROR"] \in Header
  BY <1>c, <1>k, <1>z
<1>7. [header EXCEPT !.an = 0, !.aa = 0, !.rcode = "NAME_ERROR"] \in Header
  BY <1>c, <1>k, <1>z
<1> QED
  BY <1>2, <1>3, <1>4, <1>5, <1>6, <1>7

\* What a datagram holds before anything is appended to it.
LEMMA Question ==
    ASSUME NEW d \in Datagram
    PROVE  /\ HeaderOf(d) \in Header /\ HeaderOf(d).opcode = d.opcode
           /\ HeaderOf(d).an = 0 /\ HeaderOf(d).ar = d.extra /\ HeaderOf(d).aa = 0
           /\ HeaderOf(d).rcode = "NO_ERROR"
           /\ BodyOf(d) \in [an : Nat, ar : Nat, mixed : BOOLEAN]
           /\ BodyOf(d).an = 0 /\ BodyOf(d).ar = d.extra /\ ~BodyOf(d).mixed
           /\ d.extra \in 0..1 /\ d.opcode \in Opcode
           /\ d.type \in QueryType
           /\ d.form # "question" => d.opcode = 0
  BY DEF Datagram, HeaderOf, BodyOf, Header, Opcode, QueryType, Entry

\* The end of a lookup: the next one begins, or the query is finished.
LEMMA EndOfLookup ==
    ASSUME TypeOK, todo # <<>>, NEW r \in {-1, 0, 1}, EndLookup(r)
    PROVE  /\ ret' = r /\ todo' \in Seq(QueryType)
           /\ pc' \in {"finish", "zone"}
           /\ pc' = "zone" => todo' # <<>> /\ r # -1
           /\ Tail(todo) = <<>> => pc' = "finish"
  BY DEF TypeOK, LookupType, EndLookup

----------------------------------------------------------------------------
(* Types.                                                                  *)

LEMMA ControlStep ==
    ASSUME TypeOK, [Next]_vars
    PROVE  ControlType'
<1>1. CASE \/ DropTooLong \/ RefuseMalformed \/ RefuseShort \/ RefuseOpcode \/ RefuseType
           \/ Resolve
  BY <1>1 DEF TypeOK, ControlType, result, Return, DropTooLong, RefuseMalformed, RefuseShort,
              RefuseOpcode, RefuseType, Resolve
<1>2. CASE FindZone \/ QueryFails \/ Ask \/ AskAlias \/ AppendFails
  BY <1>2 DEF TypeOK, ControlType, EndLookup, result, FindZone, QueryFails, Ask, AskAlias,
              AppendFails
<1>3. CASE AppendAnswers \/ AskTarget \/ AppendTargetFails \/ AppendTarget
  BY <1>3 DEF TypeOK, ControlType, EndLookup, result, AppendAnswers, AskTarget,
              AppendTargetFails, AppendTarget
<1>4. CASE Finish \/ Fail \/ Forward \/ ForwarderFails
  BY <1>4 DEF TypeOK, ControlType, result, Return, Finish, Fail, Forward, ForwarderFails
<1>5. CASE ForwarderAnswers \/ ForwarderAnswerLost \/ UNCHANGED vars
  BY <1>5 DEF TypeOK, ControlType, vars, result, Return, ForwarderAnswers,
              ForwarderAnswerLost
<1>6. CASE \E d \in Datagram : Call(d)
  BY <1>6 DEF TypeOK, ControlType, Call
<1> QED
  BY <1>1, <1>2, <1>3, <1>4, <1>5, <1>6 DEF Next, processDNSquery, Advance, Lookup

LEMMA CountStep ==
    ASSUME TypeOK, [Next]_vars
    PROVE  CountType'
  BY DEF TypeOK, CountType, Abandoned, Targets, Next, processDNSquery, Advance, Lookup,
         Call, vars, result, Return, DropTooLong, RefuseMalformed, RefuseShort,
         RefuseOpcode,
         RefuseType, Resolve, FindZone, QueryFails, Ask, AskAlias, AppendFails,
         AppendAnswers, AskTarget, AppendTargetFails, AppendTarget, Finish, Fail,
         Forward, ForwarderAnswers, ForwarderFails, ForwarderAnswerLost

LEMMA LookupStep ==
    ASSUME TypeOK, [Next]_vars
    PROVE  LookupType'
<1>1. ASSUME NEW r \in {-1, 0, 1}, todo # <<>>, EndLookup(r)
      PROVE  LookupType'
  BY <1>1, EndOfLookup DEF LookupType
<1>2. CASE Resolve
  <2>1. todo' \in Seq(QueryType) /\ todo' # <<>>
    <3>1. q \in Datagram
      BY DEF TypeOK, MessageType
    <3>2. q.type \in QueryType
      BY <3>1, Question
    <3>3. <<"SOA", "A", "NS", "MX">> \in Seq(QueryType)
      BY DEF QueryType, Entry
    <3>4. <<q.type>> \in Seq(QueryType)
      BY <3>2
    <3> QED
      BY <1>2, <3>3, <3>4 DEF Resolve
  <2> QED
    BY <1>2, <2>1 DEF Resolve, LookupType
<1>3. CASE FindZone
  BY <1>1, <1>3 DEF FindZone, TypeOK, LookupType
<1>4. CASE QueryFails \/ AppendFails \/ AppendTargetFails
  BY <1>1, <1>4 DEF QueryFails, AppendFails, AppendTargetFails, TypeOK, LookupType
<1>5. CASE Ask
  BY <1>1, <1>5 DEF Ask, TypeOK, LookupType
<1>6. CASE AskAlias
  BY <1>1, <1>6 DEF AskAlias, TypeOK, LookupType
<1>7. CASE AppendAnswers
  BY <1>1, <1>7 DEF AppendAnswers, TypeOK, LookupType
<1>8. CASE AskTarget
  BY <1>1, <1>8 DEF AskTarget, TypeOK, LookupType
<1>9. CASE AppendTarget
  BY <1>1, <1>9 DEF AppendTarget, TypeOK, LookupType, CountType
<1>10. CASE DropTooLong \/ RefuseMalformed \/ RefuseShort \/ RefuseOpcode \/ RefuseType
  BY <1>10 DEF DropTooLong, RefuseMalformed, RefuseShort, RefuseOpcode, RefuseType, Return,
               TypeOK,
               LookupType, result
<1>11. CASE Finish \/ Fail \/ Forward \/ ForwarderAnswers \/ ForwarderFails
  BY <1>11 DEF Finish, Fail, Forward, ForwarderAnswers, ForwarderFails, Return, TypeOK,
               LookupType, result
<1>12. CASE ForwarderAnswerLost
  BY <1>12 DEF ForwarderAnswerLost, TypeOK, LookupType, result
<1>13. CASE \E d \in Datagram : Call(d)
  BY <1>13 DEF Call, TypeOK, LookupType
<1>14. CASE UNCHANGED vars
  BY <1>14 DEF vars, result, TypeOK, LookupType
<1> QED
  BY <1>2, <1>3, <1>4, <1>5, <1>6, <1>7, <1>8, <1>9, <1>10, <1>11, <1>12, <1>13, <1>14
  DEF Next, processDNSquery, Advance, Lookup

\* The functions that change h, and with it what codeHeader puts into the message.
LEMMA HeaderStep ==
    ASSUME TypeOK, [Next]_vars
    PROVE  (h \in Header /\ coded \in Header)'
<1>t. h \in Header /\ coded \in Header /\ q \in Datagram /\ found \in Nat
  BY DEF TypeOK, MessageType, CountType
<1>q. HeaderOf(q) \in Header
  BY <1>t, Question
<1>1. CASE UNCHANGED <<h, coded>>
  BY <1>t, <1>1
<1>2. CASE h' \in Header /\ (UNCHANGED coded \/ coded' = codeHeader(h'))
  BY <1>t, <1>2, CodeHeader
<1>3. CASE RefuseMalformed
  <2>1. h' = [HeaderOf(q) EXCEPT !.qr = 1, !.rcode = "FORMAT_ERROR"]
        /\ coded' = codeHeader(h')
    BY <1>3 DEF RefuseMalformed
  <2> QED
    BY <1>2, <2>1, <1>q, HeaderChanges
<1>o. CASE RefuseOpcode
  BY <1>2, <1>o, <1>q, HeaderChanges DEF RefuseOpcode
<1>y. CASE RefuseType
  BY <1>2, <1>y, <1>q, HeaderChanges DEF RefuseType
<1>r. CASE Resolve
  BY <1>2, <1>r, <1>q, HeaderChanges DEF Resolve
<1>f. CASE Fail
  BY <1>2, <1>f, <1>q, HeaderChanges DEF Fail
<1>4. CASE AskAlias
  BY <1>1, <1>2, <1>4, <1>t, HeaderChanges DEF AskAlias
<1>5. CASE AppendAnswers
  <2> DEFINE counted == [h EXCEPT !.an = @ + found]
  <2>1. counted \in Header
    BY <1>t, HeaderChanges
  <2>2. h' \in {counted, Authoritative(counted)}
    BY <1>5 DEF AppendAnswers
  <2> HIDE DEF counted
  <2>3. h' \in Header
    BY <2>1, <2>2, HeaderChanges
  <2> QED
    BY <1>2, <1>5, <2>3 DEF AppendAnswers
<1>6. CASE AppendTarget
  <2> DEFINE counted == IF alias THEN [h EXCEPT !.an = @ + found] ELSE [h EXCEPT !.ar = @ + found]
  <2>1. counted \in Header
    BY <1>t, HeaderChanges
  <2>2. h' \in {counted, Authoritative(counted)}
    BY <1>6 DEF AppendTarget
  <2> HIDE DEF counted
  <2>3. h' \in Header
    BY <2>1, <2>2, HeaderChanges
  <2> QED
    BY <1>2, <1>6, <2>3 DEF AppendTarget
<1>7. CASE Finish \/ Forward
  BY <1>7, <1>t, CodeHeader DEF Finish, Forward
<1>8. CASE ForwarderFails
  BY <1>2, <1>8, <1>t, HeaderChanges DEF ForwarderFails
<1>9. CASE \E d \in Datagram : Call(d)
  BY <1>9, <1>t, Question DEF Call
<1>10. CASE \/ DropTooLong \/ RefuseShort \/ FindZone \/ QueryFails \/ Ask \/ AppendFails
            \/ AskTarget \/ AppendTargetFails \/ ForwarderAnswers \/ ForwarderAnswerLost
  BY <1>1, <1>10 DEF DropTooLong, RefuseShort, FindZone, QueryFails, Ask, AppendFails,
                     AskTarget,
                     AppendTargetFails, ForwarderAnswers, ForwarderAnswerLost
<1>11. CASE UNCHANGED vars
  BY <1>1, <1>11 DEF vars
<1> QED
  BY <1>3, <1>o, <1>y, <1>r, <1>f, <1>4, <1>5, <1>6, <1>7, <1>8, <1>9, <1>10, <1>11
  DEF Next, processDNSquery, Advance, Lookup

LEMMA BodyStep ==
    ASSUME TypeOK, [Next]_vars
    PROVE  (q \in Datagram /\ body \in [an : Nat, ar : Nat, mixed : BOOLEAN])'
<1>t. q \in Datagram /\ body \in [an : Nat, ar : Nat, mixed : BOOLEAN] /\ found \in Nat
  BY DEF TypeOK, MessageType, CountType
<1>1. CASE UNCHANGED <<q, body>>
  BY <1>t, <1>1
<1>2. WithAnswers(body, found) \in [an : Nat, ar : Nat, mixed : BOOLEAN]
  <2> DEFINE n == body.an + found
             m == body.mixed \/ (found > 0 /\ body.ar > 0)
  <2>1. n \in Nat
    BY <1>t
  <2>2. m \in BOOLEAN
    OBVIOUS
  <2>3. WithAnswers(body, found) = [body EXCEPT !.an = n, !.mixed = m]
    BY DEF WithAnswers
  <2> HIDE DEF n, m
  <2> QED
    BY <1>t, <2>1, <2>2, <2>3
<1>3. [body EXCEPT !.ar = @ + found] \in [an : Nat, ar : Nat, mixed : BOOLEAN]
  BY <1>t
<1>4. CASE AppendAnswers
  BY <1>4, <1>t, <1>2 DEF AppendAnswers
<1>5. CASE AppendTarget
  BY <1>5, <1>t, <1>2, <1>3 DEF AppendTarget
<1>6. CASE Fail
  BY <1>6, <1>t, Question DEF Fail
<1>7. CASE \E d \in Datagram : Call(d)
  BY <1>7, Question DEF Call
<1>8. CASE \/ DropTooLong \/ RefuseMalformed \/ RefuseShort \/ RefuseOpcode
           \/ RefuseType \/ Resolve
           \/ FindZone \/ QueryFails \/ Ask \/ AskAlias \/ AppendFails \/ AskTarget
           \/ AppendTargetFails
  BY <1>1, <1>8 DEF DropTooLong, RefuseMalformed, RefuseShort, RefuseOpcode, RefuseType,
                    Resolve,
                    FindZone, QueryFails, Ask, AskAlias, AppendFails, AskTarget,
                    AppendTargetFails
<1>9. CASE Finish \/ Forward \/ ForwarderAnswers \/ ForwarderFails \/ ForwarderAnswerLost
  BY <1>1, <1>9 DEF Finish, Forward, ForwarderAnswers, ForwarderFails, ForwarderAnswerLost
<1>10. CASE UNCHANGED vars
  BY <1>1, <1>10 DEF vars
<1> QED
  BY <1>4, <1>5, <1>6, <1>7, <1>8, <1>9, <1>10 DEF Next, processDNSquery, Advance, Lookup

LEMMA InitialType == Init => TypeOK
<1> SUFFICES ASSUME Init PROVE TypeOK
  OBVIOUS
<1>1. q \in Datagram
  BY DEF Init
<1>2. MessageType
  BY <1>1, Question DEF Init, MessageType
<1>3. ControlType
  BY DEF Init, ControlType, Unset
<1>4. CountType /\ LookupType
  BY DEF Init, CountType, LookupType
<1> QED
  BY <1>2, <1>3, <1>4 DEF TypeOK

LEMMA TypeStep ==
    ASSUME TypeOK, [Next]_vars
    PROVE  TypeOK'
<1>1. MessageType'
  BY HeaderStep, BodyStep DEF MessageType
<1> QED
  BY <1>1, ControlStep, CountStep, LookupStep DEF TypeOK

\* The type invariant, for every bound on records, queries and descriptors: a
\* lookup is never continued without one, and the loop over the hosts of a record
\* set ends at zero.
THEOREM QueryTypeCorrect == Spec => []TypeOK
<1>1. TypeOK /\ [Next]_vars => TypeOK'
  BY TypeStep
<1> QED
  BY <1>1, InitialType, PTL DEF Spec

----------------------------------------------------------------------------
(* The steps of the inductive invariant.                                   *)

LEMMA BegunStep ==
    ASSUME TypeOK, Begun, [Next]_vars
    PROVE  Begun'
  BY DEF Begun, EndLookup, Next, processDNSquery, Advance, Lookup, Call, vars, result,
         Return, DropTooLong, RefuseMalformed, RefuseShort, RefuseOpcode, RefuseType,
         Resolve,
         FindZone, QueryFails, Ask, AskAlias, AppendFails, AppendAnswers, AskTarget,
         AppendTargetFails, AppendTarget, Finish, Fail, Forward, ForwarderAnswers,
         ForwarderFails, ForwarderAnswerLost

\* A plain question has one lookup, which is its last.
LEMMA OneLookup ==
    ASSUME Lookups, pc \in Looking, q.type # "ALL", NEW r, EndLookup(r)
    PROVE  pc' = "finish" /\ ret' = r
<1>1. Tail(todo) = <<>>
  <2>1. todo = <<q.type>>
    BY DEF Lookups
  <2> QED
    BY <2>1
<1> QED
  BY <1>1 DEF EndLookup

LEMMA LookupsStep ==
    ASSUME TypeOK, Lookups, [Next]_vars
    PROVE  Lookups'
<1>1. ASSUME NEW r, pc \in Looking, EndLookup(r), UNCHANGED q
      PROVE  Lookups'
  <2>1. pc' \in {"finish", "zone"}
    BY <1>1 DEF EndLookup
  <2>2. CASE q.type = "ALL"
    BY <1>1, <2>1, <2>2 DEF Lookups, Looking
  <2>3. CASE q.type # "ALL"
    <3>1. pc' = "finish"
      BY <1>1, <2>3, OneLookup
    <3> QED
      BY <3>1 DEF Lookups, Looking
  <2> QED
    BY <2>2, <2>3
<1>2. CASE Resolve
  BY <1>2 DEF Resolve, Lookups, Looking
<1>3. CASE FindZone
  BY <1>1, <1>3 DEF FindZone, Lookups, Looking
<1>4. CASE QueryFails \/ AppendFails \/ AppendTargetFails
  BY <1>1, <1>4 DEF QueryFails, AppendFails, AppendTargetFails, Looking
<1>5. CASE Ask
  <2> PICK n \in 0..MaxRecords :
        /\ found' = n
        /\ \/ /\ n > 0 \/ type = "SOA"
              /\ pc' = "append" /\ UNCHANGED todo
           \/ pc' = "askAlias" /\ UNCHANGED todo
           \/ EndLookup(IF type = "PTR" THEN 1 ELSE 0)
    BY <1>5 DEF Ask
  <2>1. pc = "ask" /\ UNCHANGED q
    BY <1>5 DEF Ask
  <2> QED
    BY <1>1, <2>1 DEF Lookups, Looking, type
<1>6. CASE AskAlias
  BY <1>1, <1>6 DEF AskAlias, Lookups, Looking
<1>7. CASE AppendAnswers
  BY <1>1, <1>7 DEF AppendAnswers, Lookups, Looking
<1>8. CASE AskTarget
  BY <1>1, <1>8 DEF AskTarget, Lookups, Looking
<1>9. CASE AppendTarget
  BY <1>1, <1>9 DEF AppendTarget, Lookups, Looking
<1>10. CASE \/ DropTooLong \/ RefuseMalformed \/ RefuseShort \/ RefuseOpcode \/ RefuseType
            \/ Finish \/ Fail \/ Forward \/ ForwarderAnswers \/ ForwarderFails
  BY <1>10 DEF DropTooLong, RefuseMalformed, RefuseShort, RefuseOpcode, RefuseType, Finish,
               Fail, Forward,
               ForwarderAnswers, ForwarderFails, Return, Lookups, Looking
<1>11. CASE ForwarderAnswerLost
  BY <1>11 DEF ForwarderAnswerLost, Lookups, Looking
<1>12. CASE \E d \in Datagram : Call(d)
  BY <1>12 DEF Call, Lookups, Looking
<1>13. CASE UNCHANGED vars
  BY <1>13 DEF vars, result, Lookups, Looking, type
<1> QED
  BY <1>2, <1>3, <1>4, <1>5, <1>6, <1>7, <1>8, <1>9, <1>10, <1>11, <1>12, <1>13
  DEF Next, processDNSquery, Advance, Lookup

LEMMA HostsStep ==
    ASSUME TypeOK, HostsLive, [Next]_vars
    PROVE  HostsLive' /\ (RecordsUsedWhileLive => RecordsUsedWhileLive')
  BY DEF HostsLive, RecordsUsedWhileLive, EndLookup, type, Next, processDNSquery,
         Advance, Lookup, Call, vars, result, Return, DropTooLong, RefuseMalformed,
         RefuseShort,
         RefuseOpcode, RefuseType, Resolve, FindZone, QueryFails, Ask, AskAlias,
         AppendFails, AppendAnswers, AskTarget, AppendTargetFails, AppendTarget, Finish,
         Fail, Forward, ForwarderAnswers, ForwarderFails, ForwarderAnswerLost

\* No step but a reply, and the next query, has an effect on what was replied.
LEMMA NoReply ==
    ASSUME Begun, [Next]_vars, reply' # "none"
    PROVE  \/ UNCHANGED <<pc, reply, coded, body, q, lost, rr>>
           \/ DropTooLong \/ RefuseMalformed \/ RefuseOpcode \/ Finish \/ Fail
           \/ ForwarderAnswers \/ ForwarderFails
  BY DEF Begun, EndLookup, Next, processDNSquery, Advance, Lookup, Call, vars, result,
         Return, DropTooLong, RefuseMalformed, RefuseShort, RefuseOpcode, RefuseType,
         Resolve,
         FindZone, QueryFails, Ask, AskAlias, AppendFails, AppendAnswers, AskTarget,
         AppendTargetFails, AppendTarget, Finish, Fail, Forward, ForwarderAnswers,
         ForwarderFails, ForwarderAnswerLost

LEMMA CountedStep ==
    ASSUME TypeOK, Begun, Lookups, Counted, [Next]_vars
    PROVE  Counted'
<1> DEFINE Plain == q.type # "ALL" /\ q.extra = 0
           Equal == h.an = body.an /\ h.ar = body.ar /\ ~body.mixed
<1>t. h \in Header /\ q \in Datagram /\ found \in Nat
      /\ body \in [an : Nat, ar : Nat, mixed : BOOLEAN]
  BY DEF TypeOK, MessageType, CountType
<1>q. /\ HeaderOf(q) \in Header /\ HeaderOf(q).an = 0 /\ HeaderOf(q).ar = q.extra
      /\ HeaderOf(q).aa = 0
      /\ BodyOf(q).an = 0 /\ BodyOf(q).ar = q.extra /\ ~BodyOf(q).mixed
  BY <1>t, Question
<1>e. ASSUME NEW r, pc \in Looking, EndLookup(r), UNCHANGED q,
             Plain /\ r = 0 => Equal' /\ (h'.aa = 1 => lost' = 0 /\ rr' # "live")
      PROVE  Counted'
  <2>1. CASE ~Plain
    BY <1>e, <2>1 DEF Counted
  <2>2. CASE Plain
    <3>1. pc' = "finish" /\ ret' = r
      BY <1>e, <2>2, OneLookup
    <3> QED
      BY <1>e, <2>2, <3>1 DEF Counted, Looking
  <2> QED
    BY <2>1, <2>2
<1>1. CASE RefuseType
  <2>1. h'.an = 0 /\ h'.ar = q.extra /\ h'.aa = 0
    BY <1>1, <1>q DEF RefuseType, Header
  <2>2. body' = BodyOf(q) /\ pc' = "finish" /\ q' = q
    BY <1>1 DEF RefuseType, Begun
  <2> QED
    BY <1>q, <2>1, <2>2 DEF Counted, Looking
<1>2. CASE Resolve
  <2>1. h'.an = 0 /\ h'.ar = q.extra /\ h'.aa = 0
    BY <1>2, <1>q DEF Resolve, Header
  <2>2. body' = BodyOf(q) /\ pc' = "zone" /\ q' = q /\ lost' = 0
    BY <1>2 DEF Resolve, Begun, result
  <2> QED
    BY <1>q, <2>1, <2>2 DEF Counted, Looking
<1>3. CASE FindZone
  <2>1. CASE EndLookup(1)
    BY <1>3, <1>e, <2>1 DEF FindZone, Looking
  <2>2. CASE pc' = "ask" \/ UNCHANGED pc
    BY <1>3, <2>2 DEF FindZone, Counted, Looking
  <2> QED
    BY <1>3, <2>1, <2>2 DEF FindZone
<1>4. CASE QueryFails \/ AppendFails \/ AppendTargetFails
  BY <1>4, <1>e DEF QueryFails, AppendFails, AppendTargetFails, Looking
<1>5. CASE Ask
  <2>1. UNCHANGED <<h, body, q>> /\ pc = "ask"
    BY <1>5 DEF Ask
  <2>2. \/ pc' \in {"append", "askAlias"} /\ UNCHANGED lost
        \/ EndLookup(IF type = "PTR" THEN 1 ELSE 0)
    BY <1>5 DEF Ask
  <2>3. Plain => Equal' /\ h'.aa # 1
    BY <2>1 DEF Counted, Looking
  <2>4. CASE pc' \in {"append", "askAlias"} /\ UNCHANGED lost
    BY <2>1, <2>4 DEF Counted, Looking
  <2>5. CASE EndLookup(IF type = "PTR" THEN 1 ELSE 0)
    BY <1>e, <2>1, <2>3, <2>5 DEF Looking
  <2> QED
    BY <2>2, <2>4, <2>5
<1>6. CASE AskAlias
  <2>1. UNCHANGED <<body, q>> /\ pc = "askAlias"
    BY <1>6 DEF AskAlias
  <2>2. CASE pc' = "append" /\ UNCHANGED <<h, lost>>
    BY <2>1, <2>2 DEF Counted, Looking
  <2>3. CASE h' = [h EXCEPT !.aa = 0, !.rcode = "NAME_ERROR"] /\ EndLookup(0)
    <3>1. h'.an = h.an /\ h'.ar = h.ar /\ h'.aa = 0
      BY <1>t, <2>3 DEF Header
    <3> QED
      BY <1>e, <2>1, <2>3, <3>1 DEF Counted, Looking
  <2> QED
    BY <1>6, <2>2, <2>3 DEF AskAlias
<1>7. CASE AppendAnswers
  <2> DEFINE counted == [h EXCEPT !.an = @ + found]
  <2>1. UNCHANGED <<q, lost, alias>> /\ pc = "append"
    BY <1>7 DEF AppendAnswers
  <2>2. body'.an = body.an + found /\ body'.ar = body.ar
        /\ (body'.mixed => body.mixed \/ body.ar > 0)
    BY <1>7, <1>t DEF AppendAnswers, WithAnswers
  <2>3. counted.an = h.an + found /\ counted.ar = h.ar /\ counted.aa = h.aa
    BY <1>t DEF Header
  <2>4. \/ h' = counted /\ pc' = "target"
        \/ h' = Authoritative(counted) /\ EndLookup(0) /\ Targets = 0
    BY <1>7 DEF AppendAnswers
  <2>5. counted \in Header
    BY <1>t, HeaderChanges
  <2> HIDE DEF counted
  <2>6. Authoritative(counted).an = counted.an /\ Authoritative(counted).ar = counted.ar
    BY <2>5 DEF Authoritative, Header
  <2>7. Plain => Equal /\ body.ar = 0 /\ lost = 0 /\ h.aa = 0
    BY <2>1 DEF Counted, Looking
  <2>8. h'.an = h.an + found /\ h'.ar = h.ar
    BY <2>3, <2>4, <2>6
  <2>9. Plain => Equal'
    BY <2>2, <2>7, <2>8
  <2>10. CASE h' = counted /\ pc' = "target"
    BY <2>1, <2>2, <2>3, <2>7, <2>9, <2>10 DEF Counted, Looking
  <2>11. CASE h' = Authoritative(counted) /\ EndLookup(0) /\ Targets = 0
    <3>1. type # "MX"
      BY <1>t, <2>1, <2>11 DEF Targets, Lookups
    <3>2. rr' # "live"
      BY <1>7, <3>1 DEF AppendAnswers
    <3> QED
      BY <1>e, <2>1, <2>7, <2>9, <2>11, <3>2 DEF Looking
  <2> QED
    BY <2>4, <2>10, <2>11
<1>8. CASE AskTarget
  <2>1. UNCHANGED <<q, h, body, alias>> /\ pc = "target"
    BY <1>8 DEF AskTarget
  <2>2. \/ pc' \in {"target", "appendTarget"} /\ UNCHANGED lost
        \/ EndLookup(1) \/ EndLookup(-1)
    BY <1>8 DEF AskTarget
  <2>3. CASE pc' \in {"target", "appendTarget"} /\ UNCHANGED lost
    BY <2>1, <2>3 DEF Counted, Looking
  <2>4. CASE EndLookup(1) \/ EndLookup(-1)
    BY <1>e, <2>1, <2>4 DEF Looking
  <2> QED
    BY <2>2, <2>3, <2>4
<1>9. CASE AppendTarget
  <2> DEFINE counted == IF alias THEN [h EXCEPT !.an = @ + found] ELSE [h EXCEPT !.ar = @ + found]
  <2>1. UNCHANGED <<q, lost, alias>> /\ pc = "appendTarget"
    BY <1>9 DEF AppendTarget
  <2>2. counted \in Header
    BY <1>t, HeaderChanges
  <2>3. counted.aa = h.aa
    BY <1>t DEF Header
  <2>4. Plain => Equal /\ lost = 0 /\ h.aa = 0 /\ (alias => body.ar = 0)
    BY <2>1 DEF Counted, Looking
  <2>5. ASSUME Plain PROVE counted.an = body'.an /\ counted.ar = body'.ar /\ ~body'.mixed
    <3>1. CASE alias
      <4>1. counted.an = h.an + found /\ counted.ar = h.ar
        BY <1>t, <3>1 DEF Header
      <4>2. body'.an = body.an + found /\ body'.ar = body.ar
            /\ (body'.mixed => body.mixed \/ body.ar > 0)
        BY <1>9, <1>t, <3>1 DEF AppendTarget, WithAnswers
      <4> QED
        BY <2>4, <2>5, <3>1, <4>1, <4>2
    <3>2. CASE ~alias
      <4>1. counted.an = h.an /\ counted.ar = h.ar + found
        BY <1>t, <3>2 DEF Header
      <4>2. body'.an = body.an /\ body'.ar = body.ar + found /\ body'.mixed = body.mixed
        BY <1>9, <1>t, <3>2 DEF AppendTarget
      <4> QED
        BY <2>4, <2>5, <4>1, <4>2
    <3> QED
      BY <3>1, <3>2
  <2>6. alias => body'.ar = body.ar
    BY <1>9, <1>t DEF AppendTarget, WithAnswers
  <2>7. \/ h' = counted /\ pc' = "target"
        \/ h' = Authoritative(counted) /\ EndLookup(0) /\ rr' = "freed"
    BY <1>9 DEF AppendTarget
  <2> HIDE DEF counted
  <2>8. Authoritative(counted).an = counted.an /\ Authoritative(counted).ar = counted.ar
    BY <2>2 DEF Authoritative, Header
  <2>9. CASE h' = counted /\ pc' = "target"
    BY <2>1, <2>3, <2>4, <2>5, <2>6, <2>9 DEF Counted, Looking
  <2>10. CASE h' = Authoritative(counted) /\ EndLookup(0) /\ rr' = "freed"
    BY <1>e, <2>1, <2>4, <2>5, <2>8, <2>10 DEF Looking
  <2> QED
    BY <2>7, <2>9, <2>10
<1>10. CASE \/ DropTooLong \/ RefuseMalformed \/ RefuseShort \/ RefuseOpcode \/ Finish
            \/ Fail \/ Forward
            \/ ForwarderAnswers \/ ForwarderFails
  BY <1>10 DEF DropTooLong, RefuseMalformed, RefuseShort, RefuseOpcode, Finish, Fail,
               Forward,
               ForwarderAnswers, ForwarderFails, Return, Counted, Looking
<1>11. CASE ForwarderAnswerLost
  BY <1>11 DEF ForwarderAnswerLost, Counted, Looking
<1>12. CASE \E d \in Datagram : Call(d)
  BY <1>12 DEF Call, Counted, Looking
<1>13. CASE UNCHANGED vars
  BY <1>13 DEF vars, result, Counted
<1> QED
  BY <1>1, <1>2, <1>3, <1>4, <1>5, <1>6, <1>7, <1>8, <1>9, <1>10, <1>11, <1>12, <1>13
  DEF Next, processDNSquery, Advance, Lookup

LEMMA AnsweredStep ==
    ASSUME TypeOK, Begun, Counted, AuthoritativeRepliesParse, AuthoritativeLosesNothing,
           [Next]_vars
    PROVE  AuthoritativeRepliesParse' /\ AuthoritativeLosesNothing'
<1>t. h \in Header /\ q \in Datagram
  BY DEF TypeOK, MessageType
<1>q. HeaderOf(q) \in Header /\ HeaderOf(q).aa = 0
  BY <1>t, Question
<1> SUFFICES ASSUME Answered' PROVE AuthoritativeRepliesParse' /\ AuthoritativeLosesNothing'
  BY DEF AuthoritativeRepliesParse, AuthoritativeLosesNothing
<1>1. CASE UNCHANGED <<pc, reply, coded, body, q, lost, rr>>
  BY <1>1 DEF AuthoritativeRepliesParse, AuthoritativeLosesNothing, Answered
<1>2. CASE DropTooLong \/ ForwarderAnswers
  BY <1>2 DEF DropTooLong, ForwarderAnswers, Return, Answered
<1>3. CASE RefuseMalformed
  <2>1. h' \in Header
    <3>1. h' = [HeaderOf(q) EXCEPT !.qr = 1, !.rcode = "FORMAT_ERROR"]
      BY <1>3 DEF RefuseMalformed
    <3> QED
      BY <3>1, <1>q, HeaderChanges
  <2>2. h'.aa = 0
    BY <1>3, <1>q DEF RefuseMalformed, Header
  <2>3. coded' = codeHeader(h')
    BY <1>3 DEF RefuseMalformed
  <2>4. coded'.aa = 0
    BY <2>1, <2>2, <2>3, CodeHeader
  <2> QED
    BY <2>4 DEF Answered
<1>4. CASE RefuseOpcode
  <2>1. h' \in Header
    BY <1>4, <1>q, HeaderChanges DEF RefuseOpcode
  <2>2. h'.aa = 0
    BY <1>4, <1>q DEF RefuseOpcode, Header
  <2>3. coded' = codeHeader(h')
    BY <1>4 DEF RefuseOpcode
  <2>4. coded'.aa = 0
    BY <2>1, <2>2, <2>3, CodeHeader
  <2> QED
    BY <2>4 DEF Answered
<1>5. CASE Finish
  <2>1. UNCHANGED <<h, body, q, lost, rr>> /\ coded' = codeHeader(h)
    BY <1>5 DEF Finish, result
  <2>2. coded'.an = h.an /\ coded'.ar = h.ar /\ coded'.aa = h.aa
    BY <1>t, <2>1, CodeHeader
  <2>3. pc = "finish" /\ ret = 0 /\ h.aa = 1 /\ q.type # "ALL" /\ q.extra = 0
    BY <1>5, <2>1, <2>2 DEF Finish, Answered
  <2> QED
    BY <2>1, <2>2, <2>3 DEF Counted, AuthoritativeRepliesParse, AuthoritativeLosesNothing
<1>6. CASE Fail
  <2>1. h' \in Header
    BY <1>6, <1>q, HeaderChanges DEF Fail
  <2>2. h'.aa = 0
    BY <1>6, <1>q DEF Fail, Header
  <2>3. coded' = codeHeader(h')
    BY <1>6 DEF Fail
  <2>4. coded'.aa = 0
    BY <2>1, <2>2, <2>3, CodeHeader
  <2> QED
    BY <2>4 DEF Answered
<1>7. CASE ForwarderFails
  <2>1. h' \in Header
    BY <1>7, <1>t, HeaderChanges DEF ForwarderFails
  <2>2. h'.aa = 0
    BY <1>7, <1>t DEF ForwarderFails, Header
  <2>3. coded' = codeHeader(h')
    BY <1>7 DEF ForwarderFails
  <2>4. coded'.aa = 0
    BY <2>1, <2>2, <2>3, CodeHeader
  <2> QED
    BY <2>4 DEF Answered
<1>8. reply' # "none"
  BY DEF Answered
<1> QED
  BY <1>1, <1>2, <1>3, <1>4, <1>5, <1>6, <1>7, <1>8, NoReply

----------------------------------------------------------------------------
(* The theorems.                                                           *)

\* The invariant is inductive.
THEOREM QueryInvariant == Spec => []Inv
<1>1. Init => Inv
  <2> SUFFICES ASSUME Init PROVE Inv
    OBVIOUS
  <2>1. TypeOK
    BY InitialType
  <2>2. pc = "idle" /\ reply = "none" /\ fault = "none"
    BY DEF Init
  <2>3. Begun /\ Lookups /\ HostsLive /\ Counted
    BY <2>2 DEF Begun, Lookups, HostsLive, Counted, Looking
  <2>4. Promises
    BY <2>2 DEF Promises, RecordsUsedWhileLive, Answered, AuthoritativeRepliesParse,
                AuthoritativeLosesNothing
  <2> QED
    BY <2>1, <2>3, <2>4 DEF Inv
<1>2. Inv /\ [Next]_vars => Inv'
  <2> SUFFICES ASSUME Inv, [Next]_vars PROVE Inv'
    OBVIOUS
  <2>1. TypeOK'
    BY TypeStep DEF Inv
  <2>2. Begun' /\ Lookups' /\ Counted'
    BY BegunStep, LookupsStep, CountedStep DEF Inv
  <2>3. HostsLive' /\ RecordsUsedWhileLive'
    BY HostsStep DEF Inv, Promises
  <2>4. AuthoritativeRepliesParse' /\ AuthoritativeLosesNothing'
    BY AnsweredStep DEF Inv, Promises
  <2> QED
    BY <2>1, <2>2, <2>3, <2>4 DEF Inv, Promises
<1> QED
  BY <1>1, <1>2, PTL DEF Spec

\* processRRs frees the records of every lookup but MX, the only one that goes on
\* reading them; the record sets that are lost go with errors, with names that do not
\* exist and with hosts that are forwarded, never with an authoritative answer.
THEOREM QueryOwnsRecords == Spec => []RecordsOwned
<1>1. Inv => RecordsOwned
  BY DEF Inv, Promises, RecordsOwned
<1> QED
  BY <1>1, QueryInvariant, PTL

\* The counts that the lookup functions keep in h, apart from the message, are those
\* of its records, through the detours over aliases and hosts.
THEOREM QueryRepliesParse == Spec => []AuthoritativeRepliesParse
<1>1. Inv => AuthoritativeRepliesParse
  BY DEF Inv, Promises
<1> QED
  BY <1>1, QueryInvariant, PTL

----------------------------------------------------------------------------
(* The work of a query.                                                    *)

\* The steps of one lookup at most: a zone, two questions to the database, the records,
\* and two for each of its targets.
PerLookup == 2 * MaxRecords + 6

\* The lookups behind the current one, and what follows them.
Later == (Len(todo) - 1) * PerLookup + 3

InLookup ==
    [zone |-> PerLookup, ask |-> PerLookup - 1, askAlias |-> PerLookup - 2,
     append |-> PerLookup - 3, target |-> 2 * targets, appendTarget |-> 2 * targets - 1]

Outside == [idle |-> 0, forward |-> 1, finish |-> 2, decode |-> 4 * PerLookup + 4]

\* An upper bound of the steps that processDNSquery has still to do.
Work == IF pc \in Looking THEN Later + InLookup[pc] ELSE Outside[pc]

WorkTable ==
    /\ PerLookup \in Nat /\ PerLookup = 2 * MaxRecords + 6
    /\ pc = "idle" => Work = 0
    /\ pc = "forward" => Work = 1
    /\ pc = "finish" => Work = 2
    /\ pc = "decode" => Work = 4 * PerLookup + 4
    /\ pc \in Looking => Later \in Nat /\ Later >= 3
    /\ pc = "zone" => Work = Later + PerLookup
    /\ pc = "ask" => Work = Later + PerLookup - 1
    /\ pc = "askAlias" => Work = Later + PerLookup - 2
    /\ pc = "append" => Work = Later + PerLookup - 3
    /\ pc = "target" => Work = Later + 2 * targets
    /\ pc = "appendTarget" => Work = Later + 2 * targets - 1

LEMMA WorkValues == TypeOK => WorkTable
<1> SUFFICES ASSUME TypeOK PROVE WorkTable
  OBVIOUS
<1>1. PerLookup \in Nat /\ PerLookup = 2 * MaxRecords + 6
  BY DnsQueryAssumption DEF PerLookup
<1>2. ASSUME pc \in Looking PROVE Later \in Nat /\ Later >= 3
  <2>1. Len(todo) \in Nat /\ Len(todo) > 0
    BY <1>2 DEF TypeOK, LookupType, Looking
  <2> DEFINE k == Len(todo) - 1
  <2>2. k \in Nat
    BY <2>1
  <2> HIDE DEF k
  <2>3. k * PerLookup \in Nat
    BY <1>1, <2>2
  <2>4. Later = k * PerLookup + 3
    BY DEF Later, k
  <2> QED
    BY <2>3, <2>4
<1>3. targets \in Nat
  BY DEF TypeOK, CountType
<1> QED
  BY <1>1, <1>2, <1>3 DEF WorkTable, Work, Looking, InLookup, Outside

LEMMA WorkValuesNext == TypeOK' => WorkTable'
BY WorkValues, PTL

\* What a lookup finds is bounded.
FoundBound == found <= MaxRecords

LEMMA FoundStep ==
    ASSUME TypeOK, FoundBound, [Next]_vars
    PROVE  FoundBound'
  BY DnsQueryAssumption DEF FoundBound, Next, processDNSquery, Advance, Lookup,
         Call, vars, result, DropTooLong, RefuseMalformed, RefuseShort, RefuseOpcode,
         RefuseType, Resolve, FindZone, QueryFails, Ask, AskAlias, AppendFails,
         AppendAnswers, AskTarget, AppendTargetFails, AppendTarget, Finish, Fail,
         Forward, ForwarderAnswers, ForwarderFails, ForwarderAnswerLost

\* There is work as long as a query is not answered.
WorkLeft == Work \in Nat /\ (pc # "idle" => Work > 0)

LEMMA WorkIsNatural == TypeOK => WorkLeft
<1> SUFFICES ASSUME TypeOK PROVE WorkLeft
  OBVIOUS
<1>1. pc \in {"idle", "decode", "finish", "forward"} \cup Looking
  BY DEF TypeOK, ControlType, Looking
<1>2. targets \in Nat /\ (pc \in {"target", "appendTarget"} => targets > 0)
  BY DEF TypeOK, CountType, LookupType
<1> QED
  BY <1>1, <1>2, WorkValues, DnsQueryAssumption DEF WorkLeft, WorkTable, Looking

LEMMA WorkIsNaturalNext == TypeOK' => WorkLeft'
BY WorkIsNatural, PTL

\* The end of a lookup leaves the work of the later ones.
LEMMA WorkOfEnd ==
    ASSUME TypeOK, TypeOK', pc \in Looking, NEW r, EndLookup(r)
    PROVE  Work' <= Later
<1>1. todo \in Seq(QueryType) /\ todo # <<>>
  BY DEF TypeOK, LookupType, Looking
<1>2. PerLookup \in Nat /\ Later \in Nat /\ Later >= 3
  BY WorkValues DEF WorkTable
<1>3. CASE pc' = "finish"
  <2>1. Work' = 2
    BY <1>3, WorkValuesNext DEF WorkTable
  <2> QED
    BY <1>2, <2>1
<1>4. CASE pc' = "zone"
  <2>1. Len(todo') = Len(todo) - 1 /\ Len(todo) \in Nat
    BY <1>1 DEF EndLookup
  <2>2. Work' = Later' + PerLookup
    BY <1>4, WorkValuesNext DEF WorkTable
  <2> DEFINE m == Len(todo) - 1
  <2>3. m \in Int /\ Later' = (m - 1) * PerLookup + 3 /\ Later = m * PerLookup + 3
    BY <2>1 DEF Later
  <2> HIDE DEF m
  <2>4. (m - 1) * PerLookup + PerLookup = m * PerLookup
    BY <1>2, <2>3
  <2> QED
    BY <1>2, <2>2, <2>3, <2>4
<1> QED
  BY <1>3, <1>4 DEF EndLookup

\* Every step of a query is work done; only a fault leaves it as it is.
LEMMA WorkStep ==
    ASSUME TypeOK, TypeOK', FoundBound, [Next]_vars, pc # "idle"
    PROVE  Work' < Work \/ fault' # "none" \/ UNCHANGED vars
<1> USE DnsQueryAssumption
<1>1. WorkTable /\ WorkTable'
  BY WorkValues, WorkValuesNext
<1>2. ASSUME NEW r, pc \in Looking, EndLookup(r), Work > Later
      PROVE  Work' < Work
  <2>1. Work' <= Later
    BY <1>2, WorkOfEnd
  <2>2. Work' \in Nat /\ Work \in Nat /\ Later \in Nat
    BY <1>1, <1>2, WorkIsNatural, WorkIsNaturalNext DEF WorkTable, WorkLeft
  <2> QED
    BY <1>2, <2>1, <2>2
<1>3. CASE DropTooLong \/ RefuseMalformed \/ RefuseShort \/ RefuseOpcode \/ RefuseType
  BY <1>1, <1>3 DEF WorkTable, DropTooLong, RefuseMalformed, RefuseShort, RefuseOpcode,
                    RefuseType, Return
<1>4. CASE Resolve
  <2>1. pc = "decode" /\ pc' = "zone" /\ Len(todo') \in {1, 4}
    BY <1>4 DEF Resolve
  <2>2. Later' <= 3 * PerLookup + 3 /\ Work' = Later' + PerLookup
    <3>1. PerLookup \in Nat
      BY <1>1 DEF WorkTable
    <3>2. Len(todo') = 1 => Later' = 3
      BY <2>1, <3>1 DEF Later
    <3>3. Len(todo') = 4 => Later' = 3 * PerLookup + 3
      BY <2>1, <3>1 DEF Later
    <3> QED
      BY <1>1, <2>1, <3>1, <3>2, <3>3 DEF WorkTable
  <2>3. Later' \in Nat /\ PerLookup \in Nat /\ Work = 4 * PerLookup + 4
    BY <1>1, <2>1 DEF WorkTable, Looking
  <2>4. ASSUME NEW n \in Nat, NEW m \in Nat, m <= 3 * n + 3
        PROVE  m + n < 4 * n + 4
    BY <2>4
  <2>5. Work' < Work
    BY <2>2, <2>3, <2>4
  <2> QED
    BY <2>5
<1>5. CASE FindZone
  <2>1. pc = "zone" /\ Work > Later
    BY <1>1, <1>5 DEF FindZone, WorkTable, Looking
  <2>2. CASE pc' = "ask" /\ UNCHANGED todo
    BY <1>1, <2>1, <2>2 DEF WorkTable, Looking, Later
  <2>3. CASE fault' # "none"
    BY <2>3
  <2>4. CASE EndLookup(1)
    BY <1>2, <2>1, <2>4 DEF Looking
  <2> QED
    BY <1>5, <2>2, <2>3, <2>4 DEF FindZone
<1>6. CASE QueryFails
  BY <1>1, <1>2, <1>6 DEF QueryFails, WorkTable, Looking
<1>7. CASE Ask
  <2>1. pc = "ask" /\ Work > Later
    BY <1>1, <1>7 DEF Ask, WorkTable, Looking
  <2>2. CASE pc' \in {"append", "askAlias"} /\ UNCHANGED todo
    BY <1>1, <2>1, <2>2 DEF WorkTable, Looking, Later
  <2>3. CASE EndLookup(IF type = "PTR" THEN 1 ELSE 0)
    BY <1>2, <2>1, <2>3 DEF Looking
  <2> QED
    BY <1>7, <2>2, <2>3 DEF Ask
<1>8. CASE AskAlias
  <2>1. pc = "askAlias" /\ Work > Later
    BY <1>1, <1>8 DEF AskAlias, WorkTable, Looking
  <2>2. CASE pc' = "append" /\ UNCHANGED todo
    BY <1>1, <2>1, <2>2 DEF WorkTable, Looking, Later
  <2>3. CASE EndLookup(0)
    BY <1>2, <2>1, <2>3 DEF Looking
  <2> QED
    BY <1>8, <2>2, <2>3 DEF AskAlias
<1>9. CASE AppendFails
  BY <1>1, <1>2, <1>9 DEF AppendFails, WorkTable, Looking
<1>10. CASE AppendAnswers
  <2>1. pc = "append" /\ Work > Later
    BY <1>1, <1>10 DEF AppendAnswers, WorkTable, Looking
  <2>2. CASE pc' = "target" /\ UNCHANGED todo
    <3>1. targets' \in Nat /\ targets' <= MaxRecords + 1
      BY <1>10 DEF AppendAnswers, Targets, FoundBound, TypeOK, CountType
    <3> QED
      BY <1>1, <2>1, <2>2, <3>1 DEF WorkTable, Looking, Later
  <2>3. CASE EndLookup(0)
    BY <1>2, <2>1, <2>3 DEF Looking
  <2> QED
    BY <1>10, <2>2, <2>3 DEF AppendAnswers
<1>11. CASE AskTarget
  <2>1. pc = "target" /\ targets \in Nat /\ targets > 0
    BY <1>11 DEF AskTarget, TypeOK, LookupType, CountType
  <2>2. Work > Later /\ pc \in Looking
    BY <1>1, <2>1 DEF WorkTable, Looking
  <2>3. CASE fault' # "none"
    BY <2>3
  <2>4. CASE pc' = "appendTarget" /\ UNCHANGED <<todo, targets>>
    BY <1>1, <2>1, <2>4 DEF WorkTable, Looking, Later
  <2>5. CASE EndLookup(1) \/ EndLookup(-1)
    BY <1>2, <2>2, <2>5
  <2>6. CASE type = "MX" /\ rr # "live"
    BY <1>11, <2>6 DEF AskTarget
  <2>7. CASE ~(type = "MX" /\ rr # "live")
    BY <1>11, <2>4, <2>5, <2>7 DEF AskTarget
  <2> QED
    BY <2>6, <2>7
<1>12. CASE AppendTargetFails
  <2>1. pc = "appendTarget" /\ targets \in Nat /\ targets > 0 /\ EndLookup(-1)
    BY <1>12 DEF AppendTargetFails, TypeOK, LookupType, CountType
  <2> QED
    BY <1>1, <1>2, <2>1 DEF WorkTable, Looking
<1>13. CASE AppendTarget
  <2>1. pc = "appendTarget" /\ targets \in Nat /\ targets > 0 /\ targets' = targets - 1
    BY <1>13 DEF AppendTarget, TypeOK, LookupType, CountType
  <2>2. Work > Later /\ pc \in Looking
    BY <1>1, <2>1 DEF WorkTable, Looking
  <2>3. CASE pc' = "target" /\ UNCHANGED todo
    BY <1>1, <2>1, <2>3 DEF WorkTable, Looking, Later
  <2>4. CASE EndLookup(0)
    BY <1>2, <2>2, <2>4
  <2> QED
    BY <1>13, <2>3, <2>4 DEF AppendTarget
<1>14. CASE Finish \/ Fail \/ Forward \/ ForwarderFails \/ ForwarderAnswers
  BY <1>1, <1>14 DEF WorkTable, Finish, Fail, Forward, ForwarderFails, ForwarderAnswers,
                     Return
<1>15. CASE ForwarderAnswerLost
  BY <1>15 DEF ForwarderAnswerLost
<1>16. CASE \E d \in Datagram : Call(d)
  BY <1>16 DEF Call
<1> QED
  BY <1>3, <1>4, <1>5, <1>6, <1>7, <1>8, <1>9, <1>10, <1>11, <1>12, <1>13, <1>14, <1>15, <1>16
  DEF Next, processDNSquery, Advance, Lookup

\* Whatever the database finds and whatever fails, processDNSquery comes closer to its
\* return with every step: the aliases, the hosts of an answer and the lookups of ALL
\* never lead it back.  What QueryEnds needs besides is that the thread is scheduled.
THEOREM QueriesAreBounded ==
    Spec => /\ []WorkLeft
            /\ [][pc # "idle" => Work' < Work \/ fault' # "none"]_vars
<1>1. Init => FoundBound
  BY DnsQueryAssumption DEF Init, FoundBound
<1>2. TypeOK /\ FoundBound /\ [Next]_vars => FoundBound'
  BY FoundStep
<1>3. Spec => []FoundBound
  BY <1>1, <1>2, QueryTypeCorrect, PTL DEF Spec
<1>4. TypeOK /\ TypeOK' /\ FoundBound /\ [Next]_vars
        => [pc # "idle" => Work' < Work \/ fault' # "none"]_vars
  BY WorkStep
<1>5. Spec => []WorkLeft
  BY WorkIsNatural, QueryTypeCorrect, PTL
<1>6. Spec => [][pc # "idle" => Work' < Work \/ fault' # "none"]_vars
  BY <1>3, <1>4, QueryTypeCorrect, PTL DEF Spec
<1> QED
  BY <1>5, <1>6

----------------------------------------------------------------------------
(* Resolver.                                                               *)

\* A step of askForwarder is the step that DnsQuery has for its outcome, or none.
LEMMA ResolverStep == [ResolverNext]_resolverVars => [Next]_vars
<1> SUFFICES ASSUME [ResolverNext]_resolverVars PROVE [Next]_vars
  OBVIOUS
<1>1. CASE UNCHANGED resolverVars
  BY <1>1 DEF resolverVars
<1>2. CASE Local
  <2>1. fault = "none" /\ (Advance \/ \E d \in Datagram : Call(d))
    BY <1>2 DEF Local
  <2> QED
    BY <2>1 DEF Next, processDNSquery
<1>3. CASE Lose \/ OpenSocket \/ writeUdp
  <2>1. UNCHANGED vars
    BY <1>3 DEF Lose, OpenSocket, writeUdp
  <2> QED
    BY <2>1
<1>4. CASE fault = "none" /\ AskForwarder
  <2>1. ForwarderFails \/ ForwarderAnswers \/ ForwarderAnswerLost
    BY <1>4 DEF AskForwarder, NoSocket, WriteFails, Timeout, readUdp
  <2> QED
    BY <1>4, <2>1 DEF Next, processDNSquery, Advance
<1> QED
  BY <1>1, <1>2, <1>3, <1>4 DEF ResolverNext

\* The resolver with its sockets is a DnsQuery: what is proved of DnsQuery holds of it.
THEOREM ResolverImplementsQuery == ResolverSpec => Spec
<1>1. ResolverInit => Init
  BY DEF ResolverInit
<1> QED
  BY <1>1, ResolverStep, PTL DEF ResolverSpec, Spec

\* An answer on its way goes to a socket that was left open, where nobody reads, or is
\* the answer to the question that waits.
Matched ==
    /\ port # NoPort => pc = "forward" /\ port \in Port
    /\ answers \subseteq [to : Port, question : Nat]
    /\ \A a \in answers : a.to \in held \/ (a.to = port /\ a.question = queries)
    /\ port \notin held /\ held \subseteq Port
    /\ ~sent => \A a \in answers : a.to # port
    /\ queries \in Nat
    /\ AnswersMatch

LEMMA MatchedInit == ResolverInit => Matched
BY ResolverAssumption DEF ResolverInit, Init, Matched, AnswersMatch

\* The rest of the query leaves the network alone, and forgets the last reply.
LEMMA MatchedLocal ==
    ASSUME Matched, Local
    PROVE  Matched'
<1>1. pc # "forward" /\ UNCHANGED network
  BY DEF Local
<1>2. UNCHANGED <<port, sent, held, answers, got>> /\ port = NoPort
  BY <1>1 DEF network, Matched
<1>3. \A a \in answers : a.to \in held
  BY <1>2, ResolverAssumption DEF Matched
<1>4. queries' \in Nat /\ (reply' = "forwarded" => reply = "forwarded" /\ queries' = queries)
  <2>1. CASE Advance
    <3>1. queries' = queries /\ reply' \in {reply, "dropped", "local"}
      BY <2>1 DEF Advance, DropTooLong, RefuseMalformed, RefuseShort, RefuseOpcode,
                  RefuseType, Resolve,
         Lookup, FindZone, QueryFails, Ask, AskAlias, AppendFails, AppendAnswers, AskTarget,
         AppendTargetFails, AppendTarget, Finish, Fail, Forward, ForwarderFails, Return
    <3> QED
      BY <3>1 DEF Matched
  <2>2. CASE \E d \in Datagram : Call(d)
    BY <2>2 DEF Call, Matched
  <2> QED
    BY <2>1, <2>2 DEF Local
<1> QED
  BY <1>2, <1>3, <1>4 DEF Matched, AnswersMatch

LEMMA MatchedNetwork ==
    ASSUME Matched, Lose \/ OpenSocket \/ writeUdp
    PROVE  Matched'
<1>1. CASE Lose
  <2>1. UNCHANGED <<pc, queries, reply, port, sent, held, got>> /\ answers' \subseteq answers
    BY <1>1 DEF Lose, vars
  <2> QED
    BY <2>1 DEF Matched, AnswersMatch
<1>2. CASE OpenSocket
  <2>1. PICK p \in Port \ held : port' = p
    BY <1>2 DEF OpenSocket
  <2>2. /\ UNCHANGED <<pc, queries, reply, sent, held, answers, got>>
        /\ pc = "forward" /\ port = NoPort
    BY <1>2 DEF OpenSocket, Forwarding, vars
  <2>3. \A a \in answers : a.to \in held
    BY <2>2, ResolverAssumption DEF Matched
  <2>4. port' \in Port /\ port' \notin held
    BY <2>1
  <2> QED
    BY <2>2, <2>3, <2>4 DEF Matched, AnswersMatch
<1>3. CASE writeUdp
  <2>1. /\ UNCHANGED <<pc, queries, reply, port, held, got>>
        /\ port # NoPort /\ sent' = TRUE
        /\ answers' = answers \cup {[to |-> port, question |-> queries]}
    BY <1>3 DEF writeUdp, vars
  <2> QED
    BY <2>1 DEF Matched, AnswersMatch
<1> QED
  BY <1>1, <1>2, <1>3

LEMMA MatchedForwarder ==
    ASSUME Matched, AskForwarder
    PROVE  Matched'
<1>1. CASE NoSocket
  <2>1. UNCHANGED <<port, sent, held, answers, got, queries>> /\ reply' = "local" /\ port = NoPort
    BY <1>1 DEF NoSocket, ForwarderFails, Return, network
  <2> QED
    BY <2>1 DEF Matched, AnswersMatch
<1>2. CASE WriteFails \/ Timeout
  <2>1. /\ held' = held \cup {port} /\ port' = NoPort /\ sent' = FALSE /\ port # NoPort
        /\ UNCHANGED <<answers, got, queries>> /\ reply' = "local"
    BY <1>2 DEF WriteFails, Timeout, ForwarderFails, Return, LeaveSocket
  <2>2. \A a \in answers : a.to \in held' /\ a.to # NoPort
    BY <2>1, ResolverAssumption DEF Matched
  <2>3. NoPort \notin held'
    BY <2>1, ResolverAssumption DEF Matched
  <2> QED
    BY <2>1, <2>2, <2>3 DEF Matched, AnswersMatch
<1>3. CASE readUdp
  <2>1. PICK a \in answers :
            /\ a.to = port /\ answers' = answers \ {a} /\ got' = a.question
            /\ \/ ForwarderAnswers /\ CloseSocket
               \/ ForwarderAnswerLost /\ LeaveSocket
    BY <1>3 DEF readUdp
  <2>2. a.question = queries /\ port \in Port
    BY <2>1 DEF Matched
  <2>3. port' = NoPort /\ queries' = queries /\ sent' = FALSE /\ held' \in {held, held \cup {port}}
    BY <2>1 DEF ForwarderAnswers, ForwarderAnswerLost, CloseSocket, LeaveSocket
  <2>4. \A b \in answers' : b.to \in held
    <3> SUFFICES ASSUME NEW b \in answers', b.to \notin held PROVE FALSE
      OBVIOUS
    <3>1. b \in answers /\ b # a /\ b.to = port /\ b.question = queries
      BY <2>1 DEF Matched
    <3>2. a \in [to : Port, question : Nat] /\ b \in [to : Port, question : Nat]
      BY <3>1 DEF Matched
    <3>3. a = b
      BY <2>1, <2>2, <3>1, <3>2
    <3> QED
      BY <3>1, <3>3
  <2>5. NoPort \notin held' /\ held' \subseteq Port
    BY <2>2, <2>3, ResolverAssumption DEF Matched
  <2>6. \A b \in answers' : b.to # NoPort
    BY <2>1, ResolverAssumption DEF Matched
  <2>7. AnswersMatch'
    BY <2>1, <2>2, <2>3 DEF AnswersMatch
  <2> QED
    BY <2>1, <2>3, <2>4, <2>5, <2>6, <2>7 DEF Matched
<1> QED
  BY <1>1, <1>2, <1>3 DEF AskForwarder

\* Whatever the forwarder and the network delay or lose, and however often the system
\* gives a port again, a client gets the answer to its own question.
THEOREM ResolverMatches == ResolverSpec => []AnswersMatch
<1>1. Matched /\ [ResolverNext]_resolverVars => Matched'
  <2> SUFFICES ASSUME Matched, [ResolverNext]_resolverVars PROVE Matched'
    OBVIOUS
  <2>1. CASE UNCHANGED resolverVars
    BY <2>1 DEF Matched, AnswersMatch, resolverVars, vars, network
  <2> QED
    BY <2>1, MatchedLocal, MatchedNetwork, MatchedForwarder DEF ResolverNext
<1>2. Matched => AnswersMatch
  BY DEF Matched
<1> QED
  BY <1>1, <1>2, MatchedInit, PTL DEF ResolverSpec

\* The socket of a question stays open only when the client hears that its name does
\* not exist, or its answer did not fit into the message: for any network.
THEOREM SocketsAreLostByFailures == ResolverSpec => OnlyFailuresLeaveSockets
<1> DEFINE Excused == held' # held =>
                        (coded'.rcode = "NAME_ERROR" /\ reply' = "local") \/ fault' # "none"
<1>1. TypeOK /\ [ResolverNext]_resolverVars => [Excused]_resolverVars
  <2> SUFFICES ASSUME TypeOK, [ResolverNext]_resolverVars PROVE Excused
    OBVIOUS
  <2>1. CASE Local \/ Lose \/ OpenSocket \/ writeUdp \/ NoSocket \/ UNCHANGED resolverVars
    BY <2>1 DEF Local, Lose, OpenSocket, writeUdp, NoSocket, network, resolverVars
  <2>2. CASE WriteFails \/ Timeout
    <3>1. reply' = "local" /\ coded' = codeHeader([h EXCEPT !.an = 0, !.aa = 0, !.rcode = "NAME_ERROR"])
      BY <2>2 DEF WriteFails, Timeout, ForwarderFails, Return
    <3>2. h \in Header /\ [h EXCEPT !.an = 0, !.aa = 0, !.rcode = "NAME_ERROR"] \in Header
      BY HeaderChanges DEF TypeOK, MessageType
    <3>3. [h EXCEPT !.an = 0, !.aa = 0, !.rcode = "NAME_ERROR"].rcode = "NAME_ERROR"
      BY <3>2 DEF Header
    <3> QED
      BY <3>1, <3>2, <3>3, CodeHeader
  <2>3. CASE readUdp
    BY <2>3 DEF readUdp, ForwarderAnswers, ForwarderAnswerLost, CloseSocket
  <2> QED
    BY <2>1, <2>2, <2>3 DEF ResolverNext, AskForwarder
<1> QED
  BY <1>1, ResolverImplementsQuery, QueryTypeCorrect, PTL
  DEF ResolverSpec, OnlyFailuresLeaveSockets
====
