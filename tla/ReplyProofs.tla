---- MODULE ReplyProofs ----
(***************************************************************************)
(* Theorems about Reply, for rows and questions of any number and length.  *)
(***************************************************************************)
EXTENDS Reply, SequenceTheorems, TLAPS

----------------------------------------------------------------------------
(* Bytes.                                                                  *)

LEMMA Num2Bytes ==
    ASSUME NEW n \in Nat
    PROVE  /\ Num2(n) \in Seq(Byte) /\ Len(Num2(n)) = 2
           /\ Num2(n)[1] = (n \div 256) % 256 /\ Num2(n)[2] = n % 256
  <1>1. (n \div 256) % 256 \in Byte /\ n % 256 \in Byte
    BY DEF Byte
  <1> DEFINE x == (n \div 256) % 256
             y == n % 256
  <1>2. Num2(n) = <<x, y>> /\ x \in Byte /\ y \in Byte
    BY <1>1 DEF Num2
  <1> HIDE DEF x, y
  <1>3. <<x, y>> \in Seq(Byte) /\ Len(<<x, y>>) = 2 /\ <<x, y>>[1] = x /\ <<x, y>>[2] = y
    BY <1>2
  <1> QED
    BY <1>2, <1>3 DEF x, y

\* Two sequences of bytes, one behind the other.
LEMMA Joined ==
    ASSUME NEW s \in Seq(Byte), NEW t \in Seq(Byte)
    PROVE  s \o t \in Seq(Byte) /\ Len(s \o t) = Len(s) + Len(t) /\ Len(s \o t) \in Nat
  <1> DEFINE S == Byte
  <1>1. s \in Seq(S) /\ t \in Seq(S)
    OBVIOUS
  <1> HIDE DEF S
  <1>2. s \o t \in Seq(S) /\ Len(s \o t) = Len(s) + Len(t)
    BY <1>1, ConcatProperties
  <1>3. Len(s \o t) \in Nat
    BY <1>2, LenProperties
  <1> QED
    BY <1>2, <1>3 DEF S

LEMMA Num4Bytes ==
    ASSUME NEW n \in Nat
    PROVE  Num4(n) \in Seq(Byte) /\ Len(Num4(n)) = 4
  <1>1. n \div 65536 \in Nat /\ n % 65536 \in Nat
    OBVIOUS
  <1> DEFINE s == Num2(n \div 65536)
             t == Num2(n % 65536)
  <1>2. s \in Seq(Byte) /\ t \in Seq(Byte) /\ Len(s) = 2 /\ Len(t) = 2
    BY <1>1, Num2Bytes
  <1>3. Num4(n) = s \o t
    BY DEF Num4
  <1> HIDE DEF s, t
  <1>4. s \o t \in Seq(Byte) /\ Len(s \o t) = Len(s) + Len(t)
    BY <1>2, Joined
  <1>5. Len(s \o t) = 4
    BY <1>2, <1>4
  <1> QED
    BY <1>3, <1>4, <1>5

\* The place that begins a label holds a length, and no zero.
LEMMA LabelLength ==
    ASSUME NEW n, Len(n) \in Nat, WellFormed(n),
           NEW i \in 1..(Len(n) + 1), i = 1 \/ IsDot(n, i - 1)
    PROVE  LabelEnd(n, i) - i \in 1..MaxLabel
  <1>1. PICK d \in 0..(i - 1), e \in i..(Len(n) + 1) : IsLabel(n, d, e)
    BY DEF WellFormed
  <1>2. ~(d < i - 1)
    <2> SUFFICES ASSUME d < i - 1 PROVE FALSE
      OBVIOUS
    <2>1. i - 1 \in (d + 1)..(e - 1) /\ IsDot(n, i - 1)
      OBVIOUS
    <2> QED
      BY <1>1, <2>1 DEF IsLabel
  <1>3. d = i - 1
    BY <1>2
  <1> DEFINE f == LabelEnd(n, i)
  <1>4. f \in i..(Len(n) + 1) /\ IsLabel(n, i - 1, f)
    BY <1>1, <1>3 DEF LabelEnd
  <1>5. f - (i - 1) - 1 \in 1..MaxLabel
    BY <1>4 DEF IsLabel
  <1> HIDE DEF f
  <1>6. f - (i - 1) - 1 = f - i
    BY <1>4
  <1> QED
    BY <1>5, <1>6 DEF f

\* A name on the wire is one string for strlen, with the root label as its end.
LEMMA WireWhole ==
    ASSUME NEW n, WellFormed(n)
    PROVE  /\ Len(n) \in Nat /\ Wire(n) \in Seq(Byte) /\ Len(Wire(n)) = Len(n) + 2
           /\ WireLength(Wire(n)) = Len(n) + 1
  <1> DEFINE S == Letter \cup {Dot}
             m == Len(n) + 2
             e == Len(n) + 1
             byte(i) == IF i = m THEN 0
                        ELSE IF i = 1 \/ IsDot(n, i - 1) THEN LabelEnd(n, i) - i
                        ELSE n[i - 1]
             w == Wire(n)
  <1>1. n \in Seq(S) /\ S \subseteq 1..255
    BY LetterAssumption DEF WellFormed, Dot
  <1>2. Len(n) \in Nat /\ m \in Nat
    <2> HIDE DEF S
    <2>1. Len(n) \in Nat
      BY <1>1, LenProperties
    <2> QED
      BY <2>1
  <1>3. \A i \in 1..e : byte(i) \in 1..255
    <2> TAKE i \in 1..e
    <2>1. CASE i = 1 \/ IsDot(n, i - 1)
      <3> DEFINE l == LabelEnd(n, i) - i
      <3>1. l \in 1..63
        BY <1>2, <2>1, LabelLength DEF MaxLabel
      <3>2. byte(i) = l
        BY <1>2, <2>1
      <3> HIDE DEF byte, l
      <3> QED
        BY <3>1, <3>2
    <2>2. CASE ~(i = 1 \/ IsDot(n, i - 1))
      <3>1. i - 1 \in 1..Len(n)
        BY <1>2, <2>2
      <3>2. byte(i) = n[i - 1]
        BY <1>2, <2>2
      <3> HIDE DEF byte, S
      <3>3. n[i - 1] \in S
        BY <1>1, <3>1, ElementOfSeq
      <3>4. byte(i) \in S
        BY <3>2, <3>3
      <3>5. S \subseteq 1..255
        BY <1>1
      <3> QED
        BY <3>4, <3>5
    <2> QED
      BY <2>1, <2>2
  <1>4. byte(m) = 0
    OBVIOUS
  <1>5. w = [i \in 1..m |-> byte(i)]
    BY DEF Wire
  <1> HIDE DEF byte, w, S
  <1>6. w \in Seq(Byte) /\ Len(w) = m
    <2>1. \A i \in 1..m : byte(i) \in Byte
      <3> TAKE i \in 1..m
      <3>1. CASE i \in 1..e
        BY <1>3, <3>1 DEF Byte
      <3>2. CASE i = m
        BY <1>4, <3>2 DEF Byte
      <3> QED
        BY <1>2, <3>1, <3>2
    <2> QED
      BY <1>2, <1>5, <2>1
  <1>7. \A i \in 1..m : w[i] = byte(i)
    BY <1>5
  <1>8. w[m] = 0
    BY <1>2, <1>7, <1>4
  <1>9. \A i \in 1..e : w[i] # 0
    <2> TAKE i \in 1..e
    <2>1. w[i] = byte(i)
      BY <1>2, <1>7
    <2>2. byte(i) \in 1..255
      BY <1>3
    <2>3. \A v \in 1..255 : v # 0
      OBVIOUS
    <2> QED
      BY <2>1, <2>2, <2>3
  <1>10. e \in 0..(Len(w) - 1) /\ w[e + 1] = 0 /\ \A i \in 1..e : w[i] # 0
    <2>1. e + 1 = m /\ e \in 0..(Len(w) - 1)
      BY <1>2, <1>6
    <2> QED
      BY <1>8, <1>9, <2>1
  <1>11. \A k \in 0..(Len(w) - 1) : (w[k + 1] = 0 /\ \A i \in 1..k : w[i] # 0) => k = e
    <2> TAKE k \in 0..(Len(w) - 1)
    <2> HAVE w[k + 1] = 0 /\ \A i \in 1..k : w[i] # 0
    <2>1. ~(k < e)
      <3> SUFFICES ASSUME k < e PROVE FALSE
        OBVIOUS
      <3>1. k + 1 \in 1..e
        BY <1>2, <1>6
      <3> QED
        BY <1>10, <3>1
    <2>2. ~(e < k)
      <3> SUFFICES ASSUME e < k PROVE FALSE
        OBVIOUS
      <3>1. e + 1 \in 1..k
        BY <1>2, <1>6
      <3> QED
        BY <1>10, <3>1
    <2> QED
      BY <1>2, <1>6, <2>1, <2>2
  <1>12. WireLength(w) = e
    BY <1>10, <1>11 DEF WireLength
  <1> QED
    BY <1>2, <1>6, <1>12 DEF w

----------------------------------------------------------------------------
(* Records.                                                                *)

LEMMA RowFacts ==
    ASSUME NEW r \in Row
    PROVE  /\ WellFormed(r.name) /\ WellFormed(OwnerName(r))
           /\ WellFormed(r.host) /\ WellFormed(r.mail)
           /\ r.address \in [1..4 -> Byte] /\ r.ttl \in Nat /\ r.preference \in Nat
           /\ \A i \in 1..5 : r.number[i] \in Nat
           /\ Len(r.name) <= 255 /\ Len(r.host) <= 255 /\ Len(r.mail) <= 255
  BY ReplyAssumption DEF OwnerName, Column

\* 16 bits are enough for a number below 65536.
LEMMA ShortNumber ==
    ASSUME NEW n \in Nat, n < 65536
    PROVE  USI(n) = n
  BY DEF USI

\* rdlength is computed from the row, and is the length of what is written to rdata.
LEMMA DataBytes ==
    ASSUME NEW r \in Row
    PROVE  /\ Data(r) \in Seq(Byte) /\ Len(Data(r)) = DataLength(r) /\ DataLength(r) \in Nat
           /\ kind = "SOA" => DataLength(r) = Len(r.name) + Len(r.mail) + 24
  <1>1. CASE kind = "A"
    <2> DEFINE a == r.address
    <2>1. a \in [1..4 -> Byte]
      BY RowFacts
    <2>2. Data(r) = a /\ DataLength(r) = 4
      BY <1>1 DEF Data, DataLength
    <2> HIDE DEF a
    <2>3. a \in Seq(Byte)
      BY <2>1, SeqDef
    <2>4. Len(a) \in Nat /\ 1..Len(a) = 1..4
      BY <2>1, <2>3, LenProperties
    <2> DEFINE l == Len(a)
    <2>5. l = 4
      <3>1. l \in Nat /\ 1..l = 1..4
        BY <2>4
      <3> HIDE DEF l
      <3>2. 4 \in 1..l
        BY <3>1
      <3>3. l \in 1..4
        BY <3>1, <3>2
      <3> QED
        BY <3>2, <3>3
    <2> QED
      BY <1>1, <2>2, <2>3, <2>5
  <1>2. CASE kind = "MX"
    <2> DEFINE s == Num2(r.preference)
               t == Wire(r.host)
    <2>1. s \in Seq(Byte) /\ Len(s) = 2 /\ t \in Seq(Byte)
      BY RowFacts, Num2Bytes, WireWhole, ZenonT(60)
    <2>2. Len(t) = Len(r.host) + 2 /\ Len(r.host) \in Nat
      BY RowFacts, WireWhole
    <2>3. Data(r) = s \o t /\ DataLength(r) = 2 + Len(r.host) + 1 + 1
      BY <1>2 DEF Data, DataLength
    <2> HIDE DEF s, t
    <2>4. s \o t \in Seq(Byte) /\ Len(s \o t) = Len(s) + Len(t)
      BY <2>1, Joined
    <2>5. Len(s \o t) = 2 + Len(r.host) + 1 + 1 /\ 2 + Len(r.host) + 1 + 1 \in Nat
      BY <2>1, <2>2, <2>4
    <2> QED
      BY <1>2, <2>3, <2>4, <2>5
  <1>3. CASE kind = "SOA"
    <2> DEFINE s == Wire(r.name)
               t == Wire(r.mail)
               n1 == Num4(r.number[1])
               n2 == Num4(r.number[2])
               n3 == Num4(r.number[3])
               n4 == Num4(r.number[4])
               n5 == Num4(r.number[5])
    <2>1. s \in Seq(Byte) /\ t \in Seq(Byte) /\ Len(s) = Len(r.name) + 2
          /\ Len(t) = Len(r.mail) + 2 /\ Len(r.name) \in Nat /\ Len(r.mail) \in Nat
      BY RowFacts, WireWhole
    <2>2. /\ n1 \in Seq(Byte) /\ n2 \in Seq(Byte) /\ n3 \in Seq(Byte) /\ n4 \in Seq(Byte)
          /\ n5 \in Seq(Byte)
          /\ Len(n1) = 4 /\ Len(n2) = 4 /\ Len(n3) = 4 /\ Len(n4) = 4 /\ Len(n5) = 4
      BY RowFacts, Num4Bytes, SMTT(30)
    <2>3. /\ Data(r) = s \o t \o n1 \o n2 \o n3 \o n4 \o n5
          /\ DataLength(r) = (Len(r.name) + 1 + 1) + (Len(r.mail) + 1 + 1) + 5 * 4
      BY <1>3 DEF Data, DataLength
    <2> HIDE DEF s, t, n1, n2, n3, n4, n5
    <2> DEFINE d0 == s \o t
               d1 == d0 \o n1
               d2 == d1 \o n2
               d3 == d2 \o n3
               d4 == d3 \o n4
               d5 == d4 \o n5
    <2>4. d0 \in Seq(Byte) /\ Len(d0) = Len(s) + Len(t)
      BY <2>1, Joined
    <2> HIDE DEF d0
    <2>5. d1 \in Seq(Byte) /\ Len(d1) = Len(d0) + Len(n1)
      BY <2>2, <2>4, Joined
    <2> HIDE DEF d1
    <2>6. d2 \in Seq(Byte) /\ Len(d2) = Len(d1) + Len(n2)
      BY <2>2, <2>5, Joined
    <2> HIDE DEF d2
    <2>7. d3 \in Seq(Byte) /\ Len(d3) = Len(d2) + Len(n3)
      BY <2>2, <2>6, Joined
    <2> HIDE DEF d3
    <2>8. d4 \in Seq(Byte) /\ Len(d4) = Len(d3) + Len(n4)
      BY <2>2, <2>7, Joined
    <2> HIDE DEF d4
    <2>9. d5 \in Seq(Byte) /\ Len(d5) = Len(d4) + Len(n5)
      BY <2>2, <2>8, Joined
    <2>10. Data(r) = d5
      BY <2>3 DEF d0, d1, d2, d3, d4
    <2> HIDE DEF d5
    <2> DEFINE ln == Len(r.name)
               lm == Len(r.mail)
    <2>11. /\ Len(s) = ln + 2 /\ Len(t) = lm + 2 /\ ln \in Nat /\ lm \in Nat
           /\ DataLength(r) = (ln + 1 + 1) + (lm + 1 + 1) + 5 * 4
      BY <2>1, <2>3
    <2> HIDE DEF ln, lm
    <2>12. Len(d5) = ln + lm + 24
      BY <2>2, <2>4, <2>5, <2>6, <2>7, <2>8, <2>9, <2>11
    <2>13. DataLength(r) = ln + lm + 24 /\ DataLength(r) \in Nat
      BY <2>11
    <2> QED
      BY <2>9, <2>10, <2>12, <2>13 DEF ln, lm
  <1>4. CASE kind \notin {"A", "MX", "SOA"}
    <2> DEFINE w == Wire(r.host)
               lh == Len(r.host)
    <2>1. w \in Seq(Byte) /\ Len(w) = lh + 2 /\ lh \in Nat
      BY RowFacts, WireWhole
    <2>2. Data(r) = w /\ DataLength(r) = lh + 1 + 1
      BY <1>4 DEF Data, DataLength
    <2> HIDE DEF w, lh
    <2>3. DataLength(r) = Len(w) /\ DataLength(r) \in Nat
      BY <2>1, <2>2
    <2> QED
      BY <1>4, <2>1, <2>2, <2>3
  <1> QED
    BY <1>1, <1>2, <1>3, <1>4

\* The columns are so short that the lengths keep their values in 16 bits.
LEMMA LengthsAreShort ==
    ASSUME NEW r \in Row
    PROVE  /\ DataLength(r) <= 534 /\ USI(DataLength(r)) = DataLength(r)
           /\ Len(OwnerName(r)) <= 268
  <1> DEFINE ln == Len(r.name)
             lh == Len(r.host)
             lm == Len(r.mail)
             d  == DataLength(r)
  <1>1. ln \in Nat /\ lh \in Nat /\ lm \in Nat /\ ln <= 255 /\ lh <= 255 /\ lm <= 255
    BY RowFacts, WireWhole
  <1>2. /\ d \in Nat
        /\ \/ d = 4 \/ d = 2 + lh + 1 + 1 \/ d = lh + 1 + 1
           \/ d = (ln + 1 + 1) + (lm + 1 + 1) + 5 * 4
    BY DataBytes DEF DataLength
  <1>3. Len(OwnerName(r)) \in {ln, ln + 13}
    <2>1. CASE kind = "PTR"
      <3>1. r.name \in Seq(Byte) /\ InAddrArpa \in Seq(Byte) /\ Len(InAddrArpa) = 13
        <4>1. r.name \in Seq(Byte)
          <5> DEFINE w == r.name
                     S == Letter \cup {Dot}
          <5>1. w \in Seq(S) /\ S \subseteq Byte
            BY RowFacts, LetterAssumption DEF WellFormed, Byte, Dot
          <5> HIDE DEF w, S
          <5> QED
            BY <5>1 DEF w
        <4> QED
          BY <4>1 DEF InAddrArpa, Byte
      <3>2. Len(r.name \o InAddrArpa) = ln + 13
        BY <3>1, Joined
      <3> QED
        BY <2>1, <3>2 DEF OwnerName
    <2>2. CASE kind # "PTR"
      BY <2>2 DEF OwnerName
    <2> QED
      BY <2>1, <2>2
  <1> HIDE DEF ln, lh, lm, d
  <1>4. d <= 534 /\ d \in Nat
    BY <1>1, <1>2
  <1>5. USI(d) = d
    BY <1>4, ShortNumber
  <1>6. ln + 13 <= 268 /\ ln <= 268
    BY <1>1
  <1> QED
    BY <1>3, <1>4, <1>5, <1>6 DEF d

\* The records whose length in the message, as it was computed, is the one appendRR
\* gives them.
GoodRecord ==
    {x \in [name : Seq(Byte), type : Nat, ttl : Nat, rdlength : Nat, rdata : Seq(Byte),
            rrlen : Nat] :
        written(x) \in Seq(Byte) /\ Len(written(x)) = x.rrlen}

LEMMA KindNumbers == ASSUME NEW k PROVE TypeNumber(k) \in Nat
  BY DEF TypeNumber

\* A record that was built is good, and is written as its row's resource record.
LEMMA RecordBytes ==
    ASSUME NEW r \in Row
    PROVE  NewRecord(r) \in GoodRecord /\ written(NewRecord(r)) = ResourceRecord(r)
  <1> DEFINE o == OwnerName(r)
             w == Wire(o)
             d == Data(r)
             dl == DataLength(r)
             ttl == IF kind = "SOA" THEN r.number[5] ELSE r.ttl
             x == NewRecord(r)
  <1>1. ttl \in Nat /\ TypeNumber(kind) \in Nat /\ RRC_IN \in Nat
    BY RowFacts, KindNumbers DEF RRC_IN
  <1>2. d \in Seq(Byte) /\ Len(d) = dl /\ dl \in Nat
    BY DataBytes
  <1>3. w \in Seq(Byte) /\ Len(o) \in Nat /\ Len(w) = Len(o) + 2
        /\ WireLength(w) = Len(o) + 1
    BY RowFacts, WireWhole
  <1>4. NameLength(r) = Len(o) + 2
    <2>1. CASE kind = "PTR"
      BY <1>3, <2>1 DEF NameLength
    <2>2. CASE kind # "PTR"
      BY <1>3, <2>2 DEF NameLength, OwnerName
    <2> QED
      BY <2>1, <2>2
  <1>5. /\ x.name = w /\ x.type = TypeNumber(kind) /\ x.ttl = ttl /\ x.rdlength = dl
        /\ x.rdata = d /\ x.rrlen = USI(NameLength(r) + (2 + 2 + 4) + dl + 2)
        /\ x = [name |-> w, type |-> x.type, ttl |-> x.ttl, rdlength |-> dl,
                rdata |-> d, rrlen |-> x.rrlen]
    BY LengthsAreShort DEF NewRecord
  <1> DEFINE n1 == Num2(TypeNumber(kind))
             n2 == Num2(RRC_IN)
             n3 == Num4(ttl)
             n4 == Num2(dl)
  <1>6. /\ n1 \in Seq(Byte) /\ n2 \in Seq(Byte) /\ n3 \in Seq(Byte) /\ n4 \in Seq(Byte)
        /\ Len(n1) = 2 /\ Len(n2) = 2 /\ Len(n3) = 4 /\ Len(n4) = 2
    <2>1. n1 \in Seq(Byte) /\ Len(n1) = 2
      BY <1>1, Num2Bytes
    <2>2. n2 \in Seq(Byte) /\ Len(n2) = 2
      BY <1>1, Num2Bytes
    <2>3. n3 \in Seq(Byte) /\ Len(n3) = 4
      BY <1>1, Num4Bytes
    <2>4. n4 \in Seq(Byte) /\ Len(n4) = 2
      BY <1>2, Num2Bytes
    <2> QED
      BY <2>1, <2>2, <2>3, <2>4
  <1>7. ResourceRecord(r) = w \o n1 \o n2 \o n3 \o n4 \o d
    BY <1>2 DEF ResourceRecord
  <1> HIDE DEF w, d, dl, o, ttl, x
  <1>8. SubSeq(w, 1, WireLength(w) + 1) = w
    <2>1. WireLength(w) + 1 = Len(w)
      BY <1>3
    <2> QED
      BY <1>3, <2>1, SubSeqFull
  <1>9. SubSeq(d, 1, dl) = d
    BY <1>2, SubSeqFull
  <1>10. written(x) = w \o n1 \o n2 \o n3 \o n4 \o d
    <2>1. written(x) = SubSeq(x.name, 1, WireLength(x.name) + 1)
             \o Num2(x.type) \o Num2(RRC_IN) \o Num4(x.ttl) \o Num2(x.rdlength)
             \o SubSeq(x.rdata, 1, x.rdlength)
      BY DEF written
    <2>2. written(x) = SubSeq(w, 1, WireLength(w) + 1) \o n1 \o n2 \o n3 \o n4
                       \o SubSeq(d, 1, dl)
      BY <1>5, <2>1
    <2> QED
      BY <1>8, <1>9, <2>2
  <1> HIDE DEF n1, n2, n3, n4
  <1> DEFINE w1 == w \o n1
             w2 == w1 \o n2
             w3 == w2 \o n3
             w4 == w3 \o n4
             w5 == w4 \o d
  <1>11. w1 \in Seq(Byte) /\ Len(w1) = Len(w) + Len(n1)
    BY <1>3, <1>6, Joined
  <1> HIDE DEF w1
  <1>12. w2 \in Seq(Byte) /\ Len(w2) = Len(w1) + Len(n2)
    BY <1>6, <1>11, Joined
  <1> HIDE DEF w2
  <1>13. w3 \in Seq(Byte) /\ Len(w3) = Len(w2) + Len(n3)
    BY <1>6, <1>12, Joined
  <1> HIDE DEF w3
  <1>14. w4 \in Seq(Byte) /\ Len(w4) = Len(w3) + Len(n4)
    BY <1>6, <1>13, Joined
  <1> HIDE DEF w4
  <1>15. w5 \in Seq(Byte) /\ Len(w5) = Len(w4) + Len(d)
    BY <1>2, <1>14, Joined
  <1>16. written(x) = w5 /\ ResourceRecord(r) = w5
    BY <1>7, <1>10 DEF w1, w2, w3, w4
  <1> HIDE DEF w5
  <1>17. x.rrlen \in Nat /\ Len(w5) = x.rrlen
    <2> DEFINE lo == Len(o)
    <2>1. x.rrlen = USI(lo + 2 + (2 + 2 + 4) + dl + 2) /\ lo <= 268 /\ dl <= 534
      BY <1>4, <1>5, LengthsAreShort DEF o, dl
    <2>2. Len(w5) = lo + 2 + 2 + 2 + 4 + 2 + dl
      BY <1>2, <1>3, <1>6, <1>11, <1>12, <1>13, <1>14, <1>15
    <2>3. lo \in Nat
      BY <1>3
    <2> HIDE DEF lo
    <2> DEFINE l == lo + 2 + (2 + 2 + 4) + dl + 2
    <2>4. l \in Nat /\ l < 65536 /\ Len(w5) = l
      BY <1>2, <2>1, <2>2, <2>3
    <2> HIDE DEF l
    <2> QED
      BY <2>1, <2>4, ShortNumber DEF l
  <1>18. x \in [name : Seq(Byte), type : Nat, ttl : Nat, rdlength : Nat, rdata : Seq(Byte),
                rrlen : Nat]
    BY <1>1, <1>2, <1>3, <1>5, <1>17
  <1>19. x \in GoodRecord
    BY <1>15, <1>16, <1>17, <1>18 DEF GoodRecord
  <1> QED
    BY <1>16, <1>19 DEF x

----------------------------------------------------------------------------
(* Headers.                                                                *)

Word == {n \in Nat : n < 65536}
Bit  == 0..1

HeaderType ==
    [id : Word, qr : Bit, opcode : 0..15, aa : Bit, tc : Bit, rd : Bit, ra : Bit,
     z : 0..7, rcode : 0..15, qdcount : Word, ancount : Word, nscount : Word,
     arcount : Word]

LEMMA TwoBytes ==
    ASSUME NEW a \in Byte, NEW b \in Byte
    PROVE  256 * a + b \in Word
  <1>1. a \in Int /\ 0 <= a /\ a <= 255 /\ b \in Int /\ 0 <= b /\ b <= 255
    BY DEF Byte
  <1> DEFINE n == 256 * a + b
  <1>2. n \in Int /\ 0 <= n /\ n <= 65535
    BY <1>1
  <1> HIDE DEF n
  <1>3. n \in Word
    BY <1>2 DEF Word
  <1> QED
    BY <1>3 DEF n

\* A number of two bytes is read as it was written.
LEMMA TwoBytesBack ==
    ASSUME NEW n \in Word
    PROVE  256 * ((n \div 256) % 256) + (n % 256) = n
  <1> DEFINE q == n \div 256
             r == n % 256
  <1>1. n \in Int /\ 0 <= n /\ n <= 65535
    BY DEF Word
  <1>2. q \in Int /\ r \in Int /\ 0 <= r /\ r <= 255 /\ n = 256 * q + r
    BY <1>1
  <1> HIDE DEF q, r
  <1>3. 0 <= q /\ q <= 255
    BY <1>1, <1>2
  <1>4. q % 256 = q
    BY <1>2, <1>3
  <1>5. 256 * (q % 256) + r = n
    BY <1>2, <1>4
  <1>6. (n \div 256) % 256 = q % 256 /\ n % 256 = r
    BY DEF q, r
  <1> QED
    BY <1>5 DEF q, r

\* The header of every question has the widths of its fields.
LEMMA HeaderTyped ==
    ASSUME NEW b \in Seq(Byte), Len(b) > HeaderLen
    PROVE  extractHeader(b) \in HeaderType
  <1>1. Len(b) \in Nat
    BY LenProperties
  <1>2. \A i \in 1..12 : b[i] \in Byte
    <2> TAKE i \in 1..12
    <2>1. i \in 1..Len(b)
      BY <1>1 DEF HeaderLen
    <2> QED
      BY <2>1, ElementOfSeq
  <1>3. b[3] \in 0..255 /\ b[4] \in 0..255
    BY <1>2 DEF Byte
  <1>4. /\ Value2(b, 1) \in Word /\ Value2(b, 5) \in Word /\ Value2(b, 7) \in Word
        /\ Value2(b, 9) \in Word /\ Value2(b, 11) \in Word
    <2>1. \A i \in 1..11 : Value2(b, i) \in Word
      <3> TAKE i \in 1..11
      <3>1. b[i] \in Byte /\ b[i + 1] \in Byte
        BY <1>2
      <3> QED
        BY <3>1, TwoBytes DEF Value2
    <2> QED
      BY <2>1
  <1>5. \A c \in 0..255 : /\ c \div 128 \in Bit /\ (c \div 8) % 16 \in 0..15
                          /\ (c \div 4) % 2 \in Bit /\ (c \div 2) % 2 \in Bit
                          /\ c % 2 \in Bit /\ (c \div 16) % 8 \in 0..7
                          /\ c % 16 \in 0..15
    BY DEF Bit
  <1>6. /\ b[3] \div 128 \in Bit /\ (b[3] \div 8) % 16 \in 0..15
        /\ (b[3] \div 4) % 2 \in Bit /\ (b[3] \div 2) % 2 \in Bit /\ b[3] % 2 \in Bit
        /\ b[4] \div 128 \in Bit /\ (b[4] \div 16) % 8 \in 0..7 /\ b[4] % 16 \in 0..15
    BY <1>3, <1>5
  <1> QED
    BY <1>4, <1>6 DEF extractHeader, HeaderType

\* The two bytes of flags, without an opcode and reserved bits.
Flags1(x) == 128 * ((x.qr + x.opcode \div 2) % 2) + 64 * (x.opcode % 2)
                + 4 * x.aa + 2 * x.tc + x.rd
Flags2(x) == 128 * ((x.ra + x.z \div 2) % 2) + 64 * (x.z % 2) + x.rcode

LEMMA FlagsAreBytes ==
    ASSUME NEW x \in HeaderType
    PROVE  Flags1(x) \in Byte /\ Flags2(x) \in Byte
  <1> DEFINE p == (x.qr + x.opcode \div 2) % 2
             q == x.opcode % 2
             s == (x.ra + x.z \div 2) % 2
             t == x.z % 2
  <1>1. /\ x.qr \in 0..1 /\ x.opcode \in 0..15 /\ x.ra \in 0..1 /\ x.z \in 0..7
        /\ x.aa \in 0..1 /\ x.tc \in 0..1 /\ x.rd \in 0..1 /\ x.rcode \in 0..15
    BY DEF HeaderType, Bit
  <1>2. p \in 0..1 /\ q \in 0..1 /\ s \in 0..1 /\ t \in 0..1
    BY <1>1
  <1>3. /\ Flags1(x) = 128 * p + 64 * q + 4 * x.aa + 2 * x.tc + x.rd
        /\ Flags2(x) = 128 * s + 64 * t + x.rcode
    BY DEF Flags1, Flags2
  <1> HIDE DEF p, q, s, t
  <1> QED
    BY <1>1, <1>2, <1>3 DEF Byte

\* They are read as they were written.
LEMMA FlagsBack ==
    ASSUME NEW x \in HeaderType, x.opcode = 0, x.z = 0
    PROVE  /\ Flags1(x) \div 128 = x.qr /\ (Flags1(x) \div 8) % 16 = 0
           /\ (Flags1(x) \div 4) % 2 = x.aa /\ (Flags1(x) \div 2) % 2 = x.tc
           /\ Flags1(x) % 2 = x.rd
           /\ Flags2(x) \div 128 = x.ra /\ (Flags2(x) \div 16) % 8 = 0
           /\ Flags2(x) % 16 = x.rcode
  <1>1. /\ x.qr \in 0..1 /\ x.ra \in 0..1
        /\ x.aa \in 0..1 /\ x.tc \in 0..1 /\ x.rd \in 0..1 /\ x.rcode \in 0..15
    BY DEF HeaderType, Bit
  <1>2. (x.qr + 0 \div 2) % 2 = x.qr /\ (x.ra + 0 \div 2) % 2 = x.ra /\ 0 % 2 = 0
    BY <1>1
  <1>3. /\ Flags1(x) = 128 * x.qr + 4 * x.aa + 2 * x.tc + x.rd
        /\ Flags2(x) = 128 * x.ra + x.rcode
    BY <1>1, <1>2 DEF Flags1, Flags2
  <1> DEFINE f == Flags1(x)
             g == Flags2(x)
             qr == x.qr
             aa == x.aa
             tc == x.tc
             rd == x.rd
             ra == x.ra
             rcode == x.rcode
  <1>4. /\ qr \in 0..1 /\ ra \in 0..1 /\ aa \in 0..1 /\ tc \in 0..1 /\ rd \in 0..1
        /\ rcode \in 0..15
        /\ f = 128 * qr + 4 * aa + 2 * tc + rd /\ g = 128 * ra + rcode
    BY <1>1, <1>3
  <1> HIDE DEF f, g, qr, aa, tc, rd, ra, rcode
  <1>5. f \div 128 = qr /\ (f \div 8) % 16 = 0
    BY <1>4
  <1>6. (f \div 4) % 2 = aa /\ (f \div 2) % 2 = tc /\ f % 2 = rd
    BY <1>4
  <1>7. g \div 128 = ra /\ (g \div 16) % 8 = 0 /\ g % 16 = rcode
    BY <1>4
  <1> QED
    BY <1>5, <1>6, <1>7 DEF f, g, qr, aa, tc, rd, ra, rcode

\* Two bytes behind others.
LEMMA ConcatPair ==
    ASSUME NEW s \in Seq(Byte), NEW t \in Seq(Byte), Len(t) = 2
    PROVE  /\ s \o t \in Seq(Byte) /\ Len(s \o t) = Len(s) + 2
           /\ \A i \in 1..Len(s) : (s \o t)[i] = s[i]
           /\ (s \o t)[Len(s) + 1] = t[1] /\ (s \o t)[Len(s) + 2] = t[2]
  <1> DEFINE S == Byte
             u == s \o t
             m == Len(s)
  <1> m \in Nat
    BY LenProperties
  <1>1. s \in Seq(S) /\ t \in Seq(S)
    OBVIOUS
  <1> HIDE DEF S
  <1>2. /\ u \in Seq(S) /\ Len(u) = Len(s) + Len(t)
        /\ \A i \in 1..(Len(s) + Len(t)) : u[i] = IF i <= Len(s) THEN s[i] ELSE t[i - Len(s)]
    BY <1>1, ConcatProperties
  <1> HIDE DEF u, m
  <1>3. \A i \in 1..(m + 2) : u[i] = IF i <= m THEN s[i] ELSE t[i - m]
    BY <1>2 DEF m
  <1>4. \A i \in 1..m : u[i] = s[i]
    BY <1>3
  <1>5. u[m + 1] = t[1]
    <2>1. m + 1 \in 1..(m + 2) /\ ~(m + 1 <= m) /\ (m + 1) - m = 1
      OBVIOUS
    <2> QED
      BY <1>3, <2>1
  <1>6. u[m + 2] = t[2]
    <2>1. m + 2 \in 1..(m + 2) /\ ~(m + 2 <= m) /\ (m + 2) - m = 2
      OBVIOUS
    <2> QED
      BY <1>3, <2>1
  <1> QED
    BY <1>2, <1>4, <1>5, <1>6 DEF S, u, m

\* A header is twelve bytes.
LEMMA HeaderBytes ==
    ASSUME NEW x \in HeaderType
    PROVE  /\ codeHeader(x) \in Seq(Byte) /\ Len(codeHeader(x)) = 12
           /\ codeHeader(x)[1] = (x.id \div 256) % 256 /\ codeHeader(x)[2] = x.id % 256
           /\ codeHeader(x)[3] = Flags1(x) /\ codeHeader(x)[4] = Flags2(x)
           /\ codeHeader(x)[5] = (x.qdcount \div 256) % 256
           /\ codeHeader(x)[6] = x.qdcount % 256
           /\ codeHeader(x)[7] = (x.ancount \div 256) % 256
           /\ codeHeader(x)[8] = x.ancount % 256
           /\ codeHeader(x)[9] = (x.nscount \div 256) % 256
           /\ codeHeader(x)[10] = x.nscount % 256
           /\ codeHeader(x)[11] = (x.arcount \div 256) % 256
           /\ codeHeader(x)[12] = x.arcount % 256
  <1> DEFINE a == Num2(x.id)
             f == <<Flags1(x), Flags2(x)>>
             b == Num2(x.qdcount)
             c == Num2(x.ancount)
             d == Num2(x.nscount)
             e == Num2(x.arcount)
  <1>1. x.id \in Nat /\ x.qdcount \in Nat /\ x.ancount \in Nat /\ x.nscount \in Nat
        /\ x.arcount \in Nat
    <2>1. /\ x.id \in Word /\ x.qdcount \in Word /\ x.ancount \in Word
          /\ x.nscount \in Word /\ x.arcount \in Word
      BY DEF HeaderType
    <2>2. Word \subseteq Nat
      BY DEF Word
    <2> QED
      BY <2>1, <2>2
  <1>2. a \in Seq(Byte) /\ Len(a) = 2 /\ a[1] = (x.id \div 256) % 256 /\ a[2] = x.id % 256
    BY <1>1, Num2Bytes, ZenonT(60)
  <1>3. b \in Seq(Byte) /\ Len(b) = 2 /\ b[1] = (x.qdcount \div 256) % 256
        /\ b[2] = x.qdcount % 256
    BY <1>1, Num2Bytes, ZenonT(60)
  <1>4. c \in Seq(Byte) /\ Len(c) = 2 /\ c[1] = (x.ancount \div 256) % 256
        /\ c[2] = x.ancount % 256
    BY <1>1, Num2Bytes, ZenonT(60)
  <1>5. d \in Seq(Byte) /\ Len(d) = 2 /\ d[1] = (x.nscount \div 256) % 256
        /\ d[2] = x.nscount % 256
    BY <1>1, Num2Bytes, ZenonT(60)
  <1>6. e \in Seq(Byte) /\ Len(e) = 2 /\ e[1] = (x.arcount \div 256) % 256
        /\ e[2] = x.arcount % 256
    BY <1>1, Num2Bytes, ZenonT(60)
  <1>7. f \in Seq(Byte) /\ Len(f) = 2 /\ f[1] = Flags1(x) /\ f[2] = Flags2(x)
    <2> DEFINE u == Flags1(x)
               v == Flags2(x)
    <2>1. u \in Byte /\ v \in Byte
      BY FlagsAreBytes
    <2> HIDE DEF u, v
    <2>2. <<u, v>> \in Seq(Byte) /\ Len(<<u, v>>) = 2 /\ <<u, v>>[1] = u /\ <<u, v>>[2] = v
      BY <2>1
    <2> QED
      BY <2>2 DEF u, v
  <1>8. codeHeader(x) = a \o f \o b \o c \o d \o e
    BY DEF codeHeader, Flags1, Flags2
  <1> HIDE DEF a, b, c, d, e, f
  <1> DEFINE s2 == a \o f
             s3 == s2 \o b
             s4 == s3 \o c
             s5 == s4 \o d
             s6 == s5 \o e
  <1>9. s2 \in Seq(Byte) /\ Len(s2) = 4 /\ (\A i \in 1..2 : s2[i] = a[i])
        /\ s2[3] = f[1] /\ s2[4] = f[2]
    BY <1>2, <1>7, ConcatPair
  <1> HIDE DEF s2
  <1>10. s3 \in Seq(Byte) /\ Len(s3) = 6 /\ (\A i \in 1..4 : s3[i] = s2[i])
         /\ s3[5] = b[1] /\ s3[6] = b[2]
    <2>1. s2 \in Seq(Byte) /\ Len(s2) = 4
      BY <1>9
    <2>2. /\ s3 \in Seq(Byte) /\ Len(s3) = Len(s2) + 2
          /\ (\A i \in 1..Len(s2) : s3[i] = s2[i])
          /\ s3[Len(s2) + 1] = b[1] /\ s3[Len(s2) + 2] = b[2]
      BY <1>3, <2>1, ConcatPair, ZenonT(60)
    <2> HIDE DEF s3
    <2> QED
      BY <2>1, <2>2
  <1> HIDE DEF s3
  <1>11. s4 \in Seq(Byte) /\ Len(s4) = 8 /\ (\A i \in 1..6 : s4[i] = s3[i])
         /\ s4[7] = c[1] /\ s4[8] = c[2]
    <2>1. s3 \in Seq(Byte) /\ Len(s3) = 6
      BY <1>10
    <2>2. /\ s4 \in Seq(Byte) /\ Len(s4) = Len(s3) + 2
          /\ (\A i \in 1..Len(s3) : s4[i] = s3[i])
          /\ s4[Len(s3) + 1] = c[1] /\ s4[Len(s3) + 2] = c[2]
      BY <1>4, <2>1, ConcatPair, ZenonT(60)
    <2> HIDE DEF s4
    <2> QED
      BY <2>1, <2>2
  <1> HIDE DEF s4
  <1>12. s5 \in Seq(Byte) /\ Len(s5) = 10 /\ (\A i \in 1..8 : s5[i] = s4[i])
         /\ s5[9] = d[1] /\ s5[10] = d[2]
    <2>1. s4 \in Seq(Byte) /\ Len(s4) = 8
      BY <1>11
    <2>2. /\ s5 \in Seq(Byte) /\ Len(s5) = Len(s4) + 2
          /\ (\A i \in 1..Len(s4) : s5[i] = s4[i])
          /\ s5[Len(s4) + 1] = d[1] /\ s5[Len(s4) + 2] = d[2]
      BY <1>5, <2>1, ConcatPair, ZenonT(60)
    <2> HIDE DEF s5
    <2> QED
      BY <2>1, <2>2
  <1> HIDE DEF s5
  <1>13. s6 \in Seq(Byte) /\ Len(s6) = 12 /\ (\A i \in 1..10 : s6[i] = s5[i])
         /\ s6[11] = e[1] /\ s6[12] = e[2]
    <2>1. s5 \in Seq(Byte) /\ Len(s5) = 10
      BY <1>12
    <2>2. /\ s6 \in Seq(Byte) /\ Len(s6) = Len(s5) + 2
          /\ (\A i \in 1..Len(s5) : s6[i] = s5[i])
          /\ s6[Len(s5) + 1] = e[1] /\ s6[Len(s5) + 2] = e[2]
      BY <1>6, <2>1, ConcatPair, ZenonT(60)
    <2> HIDE DEF s6
    <2> QED
      BY <2>1, <2>2
  <1>14. codeHeader(x) = s6
    BY <1>8 DEF s2, s3, s4, s5
  <1> HIDE DEF s6
  <1>15. /\ s6[1] = a[1] /\ s6[2] = a[2] /\ s6[3] = f[1] /\ s6[4] = f[2] /\ s6[5] = b[1]
         /\ s6[6] = b[2] /\ s6[7] = c[1] /\ s6[8] = c[2] /\ s6[9] = d[1] /\ s6[10] = d[2]
    BY <1>9, <1>10, <1>11, <1>12, <1>13
  <1> QED
    BY <1>2, <1>3, <1>4, <1>5, <1>6, <1>7, <1>13, <1>14, <1>15

\* A message with a new header keeps everything behind it.
LEMMA NewHeader ==
    ASSUME NEW x \in HeaderType, NEW b \in Seq(Byte \cup {Garbage}), Len(b) > HeaderLen
    PROVE  /\ WithHeader(b, x) \in Seq(Byte \cup {Garbage})
           /\ Len(WithHeader(b, x)) = Len(b)
           /\ \A i \in 1..12 : WithHeader(b, x)[i] = codeHeader(x)[i]
           /\ \A i \in 13..Len(b) : WithHeader(b, x)[i] = b[i]
  <1> DEFINE B == Byte \cup {Garbage}
             l == Len(b)
             c == codeHeader(x)
             t == SubSeq(b, HeaderLen + 1, Len(b))
             w == c \o t
  <1>1. l \in Nat /\ l > 12 /\ b \in Seq(B) /\ l = Len(b)
    BY LenProperties DEF HeaderLen
  <1>2. c \in Seq(Byte) /\ Len(c) = 12
    BY HeaderBytes
  <1>3. WithHeader(b, x) = w
    BY DEF WithHeader
  <1> HIDE DEF c
  <1>4. c \in Seq(B)
    <2> DEFINE S == Byte
    <2>1. c \in Seq(S) /\ S \subseteq B
      BY <1>2
    <2> HIDE DEF S, B
    <2> QED
      BY <2>1, SeqMonotonic
  <1> HIDE DEF B
  <1>5. /\ t \in Seq(B) /\ Len(t) = l - 12
        /\ \A i \in 1..(l - 12) : t[i] = b[12 + i]
    <2>1. 13 \in 1..l /\ l \in 1..Len(b) /\ HeaderLen + 1 = 13
      BY <1>1 DEF HeaderLen
    <2> HIDE DEF l
    <2>2. t = SubSeq(b, 13, l)
      BY <2>1 DEF l
    <2> HIDE DEF t
    <2>3. /\ SubSeq(b, 13, l) \in Seq(B)
          /\ Len(SubSeq(b, 13, l)) = l - 13 + 1
          /\ \A i \in 1..(l - 13 + 1) : SubSeq(b, 13, l)[i] = b[13 + i - 1]
      <3>1. \A i \in 13..l : i \in 1..Len(b)
        BY <1>1
      <3>2. 13 \in 1..(Len(b) + 1) /\ l \in 12..Len(b)
        BY <1>1
      <3> QED
        BY <1>1, <2>1, <3>1, <3>2, SubSeqProperties
    <2>4. l - 13 + 1 = l - 12 /\ \A i \in 1..(l - 12) : 13 + i - 1 = 12 + i
      BY <1>1
    <2> QED
      BY <2>2, <2>3, <2>4
  <1> HIDE DEF t, l
  <1>6. /\ w \in Seq(B) /\ Len(w) = 12 + (l - 12)
        /\ \A i \in 1..(12 + (l - 12)) : w[i] = IF i <= 12 THEN c[i] ELSE t[i - 12]
    <2>1. /\ w \in Seq(B) /\ Len(w) = Len(c) + Len(t)
          /\ \A i \in 1..(Len(c) + Len(t)) :
                w[i] = IF i <= Len(c) THEN c[i] ELSE t[i - Len(c)]
      BY <1>4, <1>5, ConcatProperties
    <2> QED
      BY <1>2, <1>5, <2>1
  <1> HIDE DEF w
  <1>7. Len(w) = l /\ \A i \in 1..12 : w[i] = c[i]
    BY <1>1, <1>6
  <1>8. \A i \in 13..l : w[i] = b[i]
    <2> TAKE i \in 13..l
    <2>1. i \in 1..(12 + (l - 12)) /\ ~(i <= 12) /\ i - 12 \in 1..(l - 12)
          /\ 12 + (i - 12) = i
      BY <1>1
    <2> QED
      BY <1>5, <1>6, <2>1
  <1> QED
    BY <1>3, <1>6, <1>7, <1>8 DEF B, c, l

\* Without an opcode and reserved bits a header is read as it was written.
LEMMA HeaderBack ==
    ASSUME NEW x \in HeaderType, x.opcode = 0, x.z = 0,
           NEW b \in Seq(Byte \cup {Garbage}), Len(b) > HeaderLen
    PROVE  extractHeader(WithHeader(b, x)) = x
  <1> DEFINE w == WithHeader(b, x)
             c == codeHeader(x)
  <1>1. \A i \in 1..12 : w[i] = c[i]
    BY NewHeader
  <1>2. /\ c[1] = (x.id \div 256) % 256 /\ c[2] = x.id % 256
        /\ c[3] = Flags1(x) /\ c[4] = Flags2(x)
        /\ c[5] = (x.qdcount \div 256) % 256 /\ c[6] = x.qdcount % 256
        /\ c[7] = (x.ancount \div 256) % 256 /\ c[8] = x.ancount % 256
        /\ c[9] = (x.nscount \div 256) % 256 /\ c[10] = x.nscount % 256
        /\ c[11] = (x.arcount \div 256) % 256 /\ c[12] = x.arcount % 256
    BY HeaderBytes
  <1> HIDE DEF w, c
  <1>3. /\ x.id \in Word /\ x.qdcount \in Word /\ x.ancount \in Word
        /\ x.nscount \in Word /\ x.arcount \in Word
    BY DEF HeaderType
  <1>4. /\ w[1] = c[1] /\ w[2] = c[2] /\ w[3] = c[3] /\ w[4] = c[4] /\ w[5] = c[5]
        /\ w[6] = c[6] /\ w[7] = c[7] /\ w[8] = c[8] /\ w[9] = c[9] /\ w[10] = c[10]
        /\ w[11] = c[11] /\ w[12] = c[12]
    BY <1>1
  <1>5. Value2(w, 1) = x.id
    <2>1. Value2(w, 1) = 256 * w[1] + w[2]
      BY DEF Value2
    <2> QED
      BY <1>2, <1>3, <1>4, <2>1, TwoBytesBack
  <1>6. Value2(w, 5) = x.qdcount
    <2>1. Value2(w, 5) = 256 * w[5] + w[6]
      BY DEF Value2
    <2> QED
      BY <1>2, <1>3, <1>4, <2>1, TwoBytesBack
  <1>7. Value2(w, 7) = x.ancount
    <2>1. Value2(w, 7) = 256 * w[7] + w[8]
      BY DEF Value2
    <2> QED
      BY <1>2, <1>3, <1>4, <2>1, TwoBytesBack
  <1>8. Value2(w, 9) = x.nscount
    <2>1. Value2(w, 9) = 256 * w[9] + w[10]
      BY DEF Value2
    <2> QED
      BY <1>2, <1>3, <1>4, <2>1, TwoBytesBack
  <1>9. Value2(w, 11) = x.arcount
    <2>1. Value2(w, 11) = 256 * w[11] + w[12]
      BY DEF Value2
    <2> QED
      BY <1>2, <1>3, <1>4, <2>1, TwoBytesBack
  <1>10. /\ w[3] \div 128 = x.qr /\ (w[3] \div 8) % 16 = 0
         /\ (w[3] \div 4) % 2 = x.aa /\ (w[3] \div 2) % 2 = x.tc /\ w[3] % 2 = x.rd
         /\ w[4] \div 128 = x.ra /\ (w[4] \div 16) % 8 = 0 /\ w[4] % 16 = x.rcode
    BY <1>2, <1>4, FlagsBack
  <1>11. extractHeader(w) =
            [id |-> x.id, qr |-> x.qr, opcode |-> 0, aa |-> x.aa, tc |-> x.tc,
             rd |-> x.rd, ra |-> x.ra, z |-> 0, rcode |-> x.rcode,
             qdcount |-> x.qdcount, ancount |-> x.ancount, nscount |-> x.nscount,
             arcount |-> x.arcount]
    BY <1>5, <1>6, <1>7, <1>8, <1>9, <1>10 DEF extractHeader
  <1>12. x = [id |-> x.id, qr |-> x.qr, opcode |-> x.opcode, aa |-> x.aa, tc |-> x.tc,
              rd |-> x.rd, ra |-> x.ra, z |-> x.z, rcode |-> x.rcode,
              qdcount |-> x.qdcount, ancount |-> x.ancount, nscount |-> x.nscount,
              arcount |-> x.arcount]
    BY DEF HeaderType
  <1> QED
    BY <1>11, <1>12 DEF w

----------------------------------------------------------------------------
(* The inductive invariant.                                                *)

Before == {"query", "array", "rows"}            \* no length was added up yet
After  == {"append", "hosts", "header", "answered"}

\* The phases: which records there are in which of them.
Phase ==
    /\ pc \in Before \cup {"size"} \cup After \cup {"failed", "refused"}
    /\ fault \in {"none", "overrun"}
    /\ kind \in Kind /\ rows \in Seq(Row)
    /\ request \in Seq(Byte) /\ Len(request) > HeaderLen
    /\ rr \in Seq(GoodRecord) /\ Len(rr) <= Len(rows)
    /\ done \in 0..Len(rr)
    /\ pc \in {"query", "array"} => rr = <<>>
    /\ pc \in After \cup {"size"} => Len(rr) = Len(rows)
    /\ pc \in Before \cup {"size"} => done = 0
    /\ pc = "hosts" => kind = "MX"

\* The records are those of the rows.
Built ==
    \A k \in 1..Len(rr) : \A r \in Row :
        r = rows[k] => written(rr[k]) = ResourceRecord(r)

\* The places of the records in the message follow each other.
Places ==
    /\ ends \in Seq(Nat) /\ sum \in Nat
    /\ pc \in Before => ends = <<>>
    /\ pc = "size" => Len(ends) \in 1..(Len(rr) + 1)
    /\ pc \in After => Len(ends) = Len(rr) + 1
    /\ Len(ends) > 0 => ends[1] = Len(request) /\ sum = ends[Len(ends)]
    /\ Len(ends) \in 0..(Len(rr) + 1)
    /\ \A k \in 1..(Len(ends) - 1) : ends[k + 1] = ends[k] + rr[k].rrlen
    /\ \A j \in 1..Len(ends) : \A i \in 1..j : ends[i] <= ends[j]

\* Records whose bytes the message holds.
Filled == IF pc = "append" THEN done ELSE Len(rr)

\* The message holds the question and the records that were appended.
Text ==
    /\ msg \in Seq(Byte \cup {Garbage}) /\ used \in Nat
    /\ pc \in Before \cup {"size"} => msg = request /\ used = Len(request)
    /\ pc \in After =>
        /\ Len(msg) = sum /\ used = ends[Filled + 1]
        /\ \A i \in (HeaderLen + 1)..Len(request) : msg[i] = request[i]
        /\ \A k \in 1..Filled : \A j \in 1..rr[k].rrlen :
                msg[ends[k] + j] = written(rr[k])[j]

\* The blocks that are allocated.
Kept ==
    IF pc = "hosts" \/ (pc = "append" /\ kind # "MX") THEN (done + 1)..Len(rr)
    ELSE 1..Len(rr)

Heap ==
    /\ pc = "query" => heap = {<<"message">>}
    /\ pc = "array" => heap = {<<"message">>, <<"result">>}
    /\ pc = "rows"  => heap = {<<"message">>, <<"result">>, <<"array">>}
                                \cup UNION {Blocks(k) : k \in Kept}
    /\ pc \in {"size", "append", "hosts"} =>
            heap = {<<"message">>, <<"array">>} \cup UNION {Blocks(k) : k \in Kept}
    /\ pc \in {"header", "answered"} => heap = {<<"message">>}
    /\ pc \in {"failed", "refused"} => Len(ends) = 0 \/ heap = {<<"message">>}

\* The header that is prepared, and the one that the message has.
Heading ==
    LET asked == extractHeader(request)
    IN  /\ h \in HeaderType
        /\ h.id = asked.id /\ h.rd = asked.rd /\ h.opcode = asked.opcode /\ h.z = asked.z
        /\ pc # "refused" => h.qr = 1
        /\ pc = "answered" => h.aa = 1 /\ h.rcode = RCODE_NO_ERROR
        /\ pc \in Before \cup {"size", "append"} => h.ancount = asked.ancount
        /\ pc \in After \ {"append"} => h.ancount = USI(asked.ancount + Len(rows))
        /\ pc \in {"answered", "refused"} /\ asked.z = 0 /\ asked.opcode = 0 =>
                extractHeader(msg) = h

LEMMA InputKept ==
    ASSUME [Next]_vars
    PROVE  kind' = kind /\ rows' = rows /\ request' = request
  BY DEF Next, vars, input, Query, AllocArray, BuildRecord, RecordsBuilt, AddLength,
         AllocMessage, appendRR, AllAppended, FreeHost, FreeHosts, Answer, Refuse

LEMMA InitPhase == Init => Phase /\ Built
  <1> SUFFICES ASSUME Init PROVE Phase /\ Built
    OBVIOUS
  <1>1. Len(rr) = 0 /\ rr = <<>> /\ rr \in Seq(GoodRecord) /\ done = 0 /\ pc = "query"
        /\ fault = "none" /\ kind \in Kind
    BY DEF Init
  <1>2. rows \in Seq(Row) /\ request \in Seq(Byte) /\ Len(request) > HeaderLen
    BY ReplyAssumption DEF Init
  <1>3. Len(rows) \in Nat
    BY <1>2, LenProperties
  <1> QED
    BY <1>1, <1>2, <1>3 DEF Phase, Built, Before, After

LEMMA StepPhase ==
    ASSUME Phase, [Next]_vars
    PROVE  Phase'
  <1>1. kind' = kind /\ rows' = rows /\ request' = request
    BY InputKept
  <1>2. Len(rr) \in Nat /\ Len(rows) \in Nat
    BY LenProperties DEF Phase
  <1>3. CASE Query
    BY <1>1, <1>3 DEF Query, Fails, Phase, Before, After
  <1>4. CASE AllocArray
    BY <1>1, <1>4 DEF AllocArray, Fails, Phase, Before, After
  <1>5. CASE BuildRecord
    <2> DEFINE k == Len(rr) + 1
               r == rows[k]
               x == NewRecord(r)
    <2>1. pc = "rows" /\ done = 0 /\ Len(rr) < Len(rows) /\ done' = done
      BY <1>5 DEF BuildRecord, Phase, Before
    <2>2. r \in Row
      <3>1. k \in 1..Len(rows) /\ rows \in Seq(Row)
        BY <1>2, <2>1 DEF Phase
      <3> QED
        BY <3>1, ElementOfSeq
    <2>3. x \in GoodRecord
      BY <2>2, RecordBytes
    <2>4. rr' = rr \/ rr' = Append(rr, x)
      BY <1>5 DEF BuildRecord
    <2>5. pc' \in {"rows", "failed"} /\ fault' \in {"none", "overrun"}
      BY <1>5, <2>1 DEF BuildRecord, Fails, Phase
    <2> HIDE DEF x
    <2>6. rr' \in Seq(GoodRecord) /\ Len(rr') <= Len(rows) /\ Len(rr') \in Nat
      BY <1>2, <2>1, <2>3, <2>4, AppendProperties, SMTT(30) DEF Phase
    <2> QED
      BY <1>1, <2>1, <2>5, <2>6 DEF Phase, Before, After
  <1>6. CASE RecordsBuilt
    BY <1>1, <1>2, <1>6 DEF RecordsBuilt, Phase, Before, After
  <1>7. CASE AddLength
    BY <1>1, <1>7 DEF AddLength, Phase, Before, After
  <1>8. CASE AllocMessage
    BY <1>1, <1>8 DEF AllocMessage, Fails, Phase, Before, After
  <1>9. CASE appendRR
    <2>1. pc = "append" /\ pc' = pc /\ rr' = rr /\ done < Len(rr)
          /\ done' \in {done, done + 1} /\ fault' \in {fault, "overrun"}
      BY <1>9 DEF appendRR
    <2>2. done' \in 0..Len(rr)
      BY <1>2, <2>1 DEF Phase
    <2> QED
      BY <1>1, <2>1, <2>2 DEF Phase, Before, After
  <1>10. CASE AllAppended
    <2>1. pc = "append" /\ rr' = rr /\ fault' = fault /\ done' \in {0, done}
          /\ ((pc' = "hosts" /\ kind = "MX") \/ pc' = "header")
      BY <1>10 DEF AllAppended
    <2>2. done' \in 0..Len(rr)
      BY <1>2, <2>1 DEF Phase
    <2> QED
      BY <1>1, <2>1, <2>2 DEF Phase, Before, After
  <1>11. CASE FreeHost
    <2>1. pc = "hosts" /\ pc' = pc /\ rr' = rr /\ done < Len(rr)
          /\ done' = done + 1 /\ fault' = fault
      BY <1>11 DEF FreeHost
    <2>2. done' \in 0..Len(rr)
      BY <1>2, <2>1 DEF Phase
    <2> QED
      BY <1>1, <2>1, <2>2 DEF Phase, Before, After
  <1>12. CASE FreeHosts
    BY <1>1, <1>12 DEF FreeHosts, Phase, Before, After
  <1>13. CASE Answer
    BY <1>1, <1>13 DEF Answer, Phase, Before, After
  <1>14. CASE Refuse
    BY <1>1, <1>14 DEF Refuse, Phase, Before, After
  <1>15. CASE UNCHANGED vars
    BY <1>1, <1>15 DEF vars, Phase, Before, After
  <1> QED
    BY <1>3, <1>4, <1>5, <1>6, <1>7, <1>8, <1>9, <1>10, <1>11, <1>12, <1>13, <1>14, <1>15
       DEF Next

\* What a record is written as depends on the row and the kind alone.
LEMMA RecordKept ==
    ASSUME NEW CONSTANT r, kind' = kind
    PROVE  ResourceRecord(r)' = ResourceRecord(r)
  BY DEF ResourceRecord, OwnerName, Data

LEMMA StepBuilt ==
    ASSUME Phase, Built, [Next]_vars
    PROVE  Built'
  <1>1. kind' = kind /\ rows' = rows
    BY InputKept
  <1>2. CASE rr' = rr
    BY <1>1, <1>2, ZenonT(60) DEF Built, ResourceRecord, OwnerName, Data
  <1>3. CASE rr' # rr
    <2> DEFINE k == Len(rr) + 1
               x == NewRecord(rows[k])
    <2>1. Len(rr) < Len(rows) /\ rr' = Append(rr, x)
      BY <1>3 DEF Next, vars, Query, AllocArray, BuildRecord, RecordsBuilt, AddLength,
         AllocMessage, appendRR, AllAppended, FreeHost, FreeHosts, Answer, Refuse
    <2>2. Len(rr) \in Nat /\ Len(rows) \in Nat /\ rows \in Seq(Row)
          /\ rr \in Seq(GoodRecord)
      BY LenProperties DEF Phase
    <2>3. rows[k] \in Row
      <3>1. k \in 1..Len(rows)
        BY <2>1, <2>2
      <3> QED
        BY <2>2, <3>1, ElementOfSeq
    <2>4. x \in GoodRecord /\ written(x) = ResourceRecord(rows[k])
      BY <2>3, RecordBytes
    <2> HIDE DEF x
    <2>5. Len(rr') = k /\ rr'[k] = x /\ \A j \in 1..Len(rr) : rr'[j] = rr[j]
      BY <2>1, <2>2, <2>4, AppendProperties
    <2> SUFFICES ASSUME NEW j \in 1..Len(rr'), NEW r \in Row, r = rows'[j]
                 PROVE  written(rr'[j]) = ResourceRecord(r)'
      BY DEF Built
    <2>6. ResourceRecord(r)' = ResourceRecord(r)
      BY <1>1, RecordKept
    <2>7. CASE j = k
      BY <1>1, <2>4, <2>5, <2>6, <2>7
    <2>8. CASE j # k
      <3>1. j \in 1..Len(rr)
        BY <2>2, <2>5, <2>8
      <3> QED
        BY <1>1, <2>5, <2>6, <3>1 DEF Built
    <2> QED
      BY <2>7, <2>8
  <1> QED
    BY <1>2, <1>3

LEMMA InitPlaces == Init => Places
  <1> SUFFICES ASSUME Init PROVE Places
    OBVIOUS
  <1>1. pc = "query" /\ ends = <<>> /\ sum = 0 /\ rr = <<>>
    BY DEF Init
  <1>2. ends \in Seq(Nat) /\ Len(ends) = 0 /\ Len(rr) = 0
    BY <1>1
  <1> QED
    BY <1>1, <1>2 DEF Places, Before, After

\* A step that leaves the places and the records alone.
LEMMA PlacesStay ==
    ASSUME Phase, Places, UNCHANGED <<ends, sum, rr, request>>,
           pc' \in Before => pc \in Before,
           pc' = "size" => pc = "size",
           pc' \in After => pc \in After \/ (pc = "size" /\ Len(ends) = Len(rr) + 1)
    PROVE  Places'
  BY DEF Places

LEMMA StepPlaces ==
    ASSUME Phase, Places, Text, [Next]_vars
    PROVE  Places'
  <1>1. kind' = kind /\ rows' = rows /\ request' = request
    BY InputKept
  <1>2. Len(rr) \in Nat /\ Len(rows) \in Nat /\ Len(request) \in Nat
        /\ Len(ends) \in Nat
    BY LenProperties DEF Phase, Places
  <1>3. CASE BuildRecord
    <2>1. pc = "rows" /\ ends' = ends /\ sum' = sum /\ pc' \in {"rows", "failed"}
          /\ ends = <<>>
      BY <1>3 DEF BuildRecord, Fails, Places, Before
    <2>2. Len(ends) = 0 /\ Len(rr') \in Nat
      <3>1. Phase'
        BY StepPhase
      <3> QED
        BY <2>1, <3>1, LenProperties DEF Phase
    <2> QED
      BY <1>1, <2>1, <2>2 DEF Places, Before, After
  <1>4. CASE RecordsBuilt
    <2> DEFINE u == Len(request)
    <2>1. pc = "rows" /\ pc' = "size" /\ sum' = u /\ ends' = <<u>> /\ rr' = rr
      BY <1>4 DEF RecordsBuilt, Text, Before
    <2>2. u \in Nat
      BY <1>2
    <2> HIDE DEF u
    <2>3. ends' \in Seq(Nat) /\ Len(ends') = 1 /\ ends'[1] = u
      BY <2>1, <2>2
    <2>4. \A j \in 1..1 : \A i \in 1..j : i = 1 /\ j = 1
      OBVIOUS
    <2>5. /\ ends' \in Seq(Nat) /\ sum' \in Nat
          /\ pc' \notin Before /\ pc' \notin After /\ pc' = "size"
          /\ Len(ends') \in 1..(Len(rr') + 1) /\ Len(ends') \in 0..(Len(rr') + 1)
          /\ ends'[1] = Len(request') /\ sum' = ends'[Len(ends')]
      BY <1>1, <1>2, <2>1, <2>2, <2>3 DEF Before, After, u
    <2>6. \A k \in 1..(Len(ends') - 1) : ends'[k + 1] = ends'[k] + rr'[k].rrlen
      BY <2>3
    <2>7. \A j \in 1..Len(ends') : \A i \in 1..j : ends'[i] <= ends'[j]
      BY <2>2, <2>3, <2>4
    <2> QED
      BY <2>5, <2>6, <2>7 DEF Places
  <1>5. CASE AddLength
    <2> DEFINE l == Len(ends)
               s == sum + rr[l].rrlen
    <2>1. pc = "size" /\ pc' = "size" /\ l <= Len(rr) /\ sum' = s
          /\ ends' = Append(ends, s) /\ rr' = rr
      BY <1>5 DEF AddLength
    <2>2. l \in 1..Len(rr) /\ rr[l].rrlen \in Nat
      <3>1. l \in 1..Len(rr)
        BY <1>2, <2>1 DEF Places
      <3>2. rr[l] \in GoodRecord
        BY <3>1, ElementOfSeq DEF Phase
      <3> QED
        BY <3>1, <3>2 DEF GoodRecord
    <2>3. s \in Nat /\ sum <= s /\ sum = ends[l] /\ ends[1] = Len(request)
          /\ ends \in Seq(Nat) /\ sum \in Nat
      BY <2>2 DEF Places
    <2> HIDE DEF s
    <2>4. /\ ends' \in Seq(Nat) /\ Len(ends') = l + 1 /\ ends'[l + 1] = s
          /\ \A i \in 1..l : ends'[i] = ends[i]
      BY <2>1, <2>3, AppendProperties
    <2>5. \A k \in 1..(Len(ends') - 1) : ends'[k + 1] = ends'[k] + rr'[k].rrlen
      <3> TAKE k \in 1..(Len(ends') - 1)
      <3>1. CASE k = l
        <4>1. ends'[k + 1] = s /\ ends'[k] = sum /\ rr'[k] = rr[l]
          BY <2>1, <2>2, <2>3, <2>4, <3>1
        <4> QED
          BY <3>1, <4>1 DEF s
      <3>2. CASE k # l
        <4>1. k \in 1..(l - 1) /\ k \in 1..l /\ k + 1 \in 1..l
          BY <2>2, <2>4, <3>2
        <4> QED
          BY <2>1, <2>4, <4>1 DEF Places
      <3> QED
        BY <3>1, <3>2
    <2>6. \A j \in 1..Len(ends') : \A i \in 1..j : ends'[i] <= ends'[j]
      <3> TAKE j \in 1..Len(ends')
      <3> TAKE i \in 1..j
      <3>1. CASE j = l + 1
        <4>1. CASE i = l + 1
          BY <2>3, <2>4, <3>1, <4>1
        <4>2. CASE i # l + 1
          <5>1. i \in 1..l /\ l \in 1..l
            BY <2>2, <3>1, <4>2
          <5>2. ends[i] <= ends[l] /\ ends[i] \in Nat
            BY <2>3, <5>1, ElementOfSeq DEF Places
          <5> QED
            BY <2>3, <2>4, <3>1, <5>1, <5>2
        <4> QED
          BY <4>1, <4>2
      <3>2. CASE j # l + 1
        <4>1. j \in 1..l /\ i \in 1..l
          BY <2>2, <2>4, <3>2
        <4> QED
          BY <2>4, <4>1 DEF Places
      <3> QED
        BY <3>1, <3>2
    <2>7. /\ ends' \in Seq(Nat) /\ sum' \in Nat
          /\ pc' \notin Before /\ pc' \notin After /\ pc' = "size"
          /\ Len(ends') \in 1..(Len(rr') + 1) /\ Len(ends') \in 0..(Len(rr') + 1)
      BY <1>2, <2>1, <2>2, <2>3, <2>4 DEF Before, After
    <2>8. ends'[1] = Len(request') /\ sum' = ends'[Len(ends')]
      <3>1. 1 \in 1..l
        BY <2>2
      <3> QED
        BY <1>1, <2>1, <2>3, <2>4, <3>1
    <2> QED
      BY <2>5, <2>6, <2>7, <2>8 DEF Places
  <1>6. CASE ends' = ends /\ sum' = sum /\ rr' = rr
    <2>1. \/ pc' = pc
          \/ pc \in Before /\ pc' \in Before
          \/ pc \in After /\ pc' \in After
          \/ pc = "size" /\ Len(ends) = Len(rr) + 1 /\ pc' \in {"append", "failed"}
          \/ pc' \in {"failed", "refused"}
          \/ BuildRecord \/ RecordsBuilt \/ AddLength
      BY DEF Next, vars, Query, AllocArray, AllocMessage, appendRR, AllAppended, FreeHost,
             FreeHosts, Answer, Refuse, Fails, Before, After
    <2>2. CASE BuildRecord \/ RecordsBuilt \/ AddLength
      BY <1>3, <1>4, <1>5, <2>2
    <2>3. CASE ~(BuildRecord \/ RecordsBuilt \/ AddLength)
      <3>1. /\ pc' \in Before => pc \in Before
            /\ pc' = "size" => pc = "size"
            /\ pc' \in After => pc \in After \/ (pc = "size" /\ Len(ends) = Len(rr) + 1)
        BY <2>1, <2>3 DEF Before, After
      <3> QED
        BY <1>1, <1>6, <3>1, PlacesStay
    <2> QED
      BY <2>2, <2>3
  <1>7. CASE ~(ends' = ends /\ sum' = sum /\ rr' = rr)
    <2>1. BuildRecord \/ RecordsBuilt \/ AddLength
      BY <1>7 DEF Next, vars, Query, AllocArray, AllocMessage, appendRR, AllAppended,
                  FreeHost, FreeHosts, Answer, Refuse
    <2> QED
      BY <1>3, <1>4, <1>5, <2>1
  <1> QED
    BY <1>6, <1>7

\* What the places mean for record k.
LEMMA PlaceFacts ==
    ASSUME Phase, Places, Len(ends) = Len(rr) + 1
    PROVE  /\ sum \in Nat /\ Len(request) \in Nat /\ ends[1] = Len(request)
           /\ Len(request) <= sum /\ ends[Len(rr) + 1] = sum
           /\ \A k \in 1..(Len(rr) + 1) :
                ends[k] \in Nat /\ Len(request) <= ends[k] /\ ends[k] <= sum
           /\ \A k \in 1..Len(rr) :
                /\ rr[k].rrlen \in Nat /\ ends[k + 1] = ends[k] + rr[k].rrlen
                /\ written(rr[k]) \in Seq(Byte) /\ Len(written(rr[k])) = rr[k].rrlen
           /\ \A j \in 1..(Len(rr) + 1) : \A i \in 1..j : ends[i] <= ends[j]
  <1> DEFINE l == Len(rr)
             q == Len(request)
  <1>1. l \in Nat /\ q \in Nat /\ sum \in Nat /\ Len(ends) = l + 1
    BY LenProperties DEF Phase, Places
  <1>2. ends[1] = q /\ sum = ends[l + 1]
    BY <1>1 DEF Places
  <1>3. \A k \in 1..(l + 1) : ends[k] \in Nat
    <2> TAKE k \in 1..(l + 1)
    <2>1. k \in 1..Len(ends) /\ ends \in Seq(Nat)
      BY <1>1 DEF Places
    <2> QED
      BY <2>1, ElementOfSeq
  <1>4. \A j \in 1..(l + 1) : \A i \in 1..j : ends[i] <= ends[j]
    BY <1>1 DEF Places
  <1>5. \A k \in 1..l : rr[k] \in GoodRecord
    BY ElementOfSeq DEF Phase
  <1>6. \A k \in 1..l : ends[k + 1] = ends[k] + rr[k].rrlen
    <2> TAKE k \in 1..l
    <2>1. k \in 1..(Len(ends) - 1)
      BY <1>1
    <2> QED
      BY <2>1 DEF Places
  <1>7. \A k \in 1..l : /\ rr[k].rrlen \in Nat /\ written(rr[k]) \in Seq(Byte)
                        /\ Len(written(rr[k])) = rr[k].rrlen
    BY <1>5 DEF GoodRecord
  <1> HIDE DEF l, q
  <1>8. \A k \in 1..(l + 1) : 1 \in 1..k /\ k \in 1..(l + 1) /\ l + 1 \in 1..(l + 1)
    BY <1>1
  <1>9. \A k \in 1..(l + 1) : q <= ends[k] /\ ends[k] <= sum
    <2> TAKE k \in 1..(l + 1)
    <2>1. ends[1] <= ends[k]
      BY <1>4, <1>8
    <2>2. ends[k] <= ends[l + 1]
      BY <1>4, <1>8
    <2> QED
      BY <1>2, <2>1, <2>2
  <1>10. q <= sum
    <2>1. 1 \in 1..(l + 1)
      BY <1>1
    <2> QED
      BY <1>2, <1>9, <2>1
  <1> QED
    BY <1>1, <1>2, <1>3, <1>4, <1>6, <1>7, <1>9, <1>10 DEF l, q

LEMMA MessageIsSeq ==
    ASSUME NEW n \in Nat, NEW f(_), \A i \in 1..n : f(i) \in Byte \cup {Garbage}
    PROVE  /\ [i \in 1..n |-> f(i)] \in Seq(Byte \cup {Garbage})
           /\ Len([i \in 1..n |-> f(i)]) = n
  <1> DEFINE B == Byte \cup {Garbage}
             m == [i \in 1..n |-> f(i)]
  <1>1. m \in [1..n -> B]
    OBVIOUS
  <1>2. DOMAIN m = 1..n
    OBVIOUS
  <1> HIDE DEF B, m
  <1>3. m \in Seq(B)
    BY <1>1, SeqDef
  <1>4. Len(m) \in Nat /\ DOMAIN m = 1..Len(m)
    BY <1>3, LenProperties
  <1> DEFINE l == Len(m)
  <1>5. l \in Nat /\ 1..l = 1..n
    BY <1>2, <1>4
  <1> HIDE DEF l
  <1>6. l = n
    <2>1. ~(l < n)
      <3> SUFFICES ASSUME l < n PROVE FALSE
        OBVIOUS
      <3>1. n \in 1..n /\ n \notin 1..l
        BY <1>5
      <3> QED
        BY <1>5, <3>1
    <2>2. ~(n < l)
      <3> SUFFICES ASSUME n < l PROVE FALSE
        OBVIOUS
      <3>1. l \in 1..l /\ l \notin 1..n
        BY <1>5
      <3> QED
        BY <1>5, <3>1
    <2> QED
      BY <1>5, <2>1, <2>2
  <1> QED
    BY <1>3, <1>6 DEF B, m, l

LEMMA InitText == Init => Text
  <1> SUFFICES ASSUME Init PROVE Text
    OBVIOUS
  <1>1. pc = "query" /\ msg = request /\ used = Len(request) /\ request \in Seq(Byte)
    BY ReplyAssumption DEF Init
  <1>2. Len(request) \in Nat
    BY <1>1, LenProperties
  <1>3. request \in Seq(Byte \cup {Garbage})
    <2> DEFINE S == Byte
               B == Byte \cup {Garbage}
    <2>1. request \in Seq(S) /\ S \subseteq B
      BY <1>1
    <2> HIDE DEF S, B
    <2>2. request \in Seq(B)
      BY <2>1, SeqMonotonic
    <2> QED
      BY <2>2 DEF B
  <1> QED
    BY <1>1, <1>2, <1>3 DEF Text, Before, After

\* The step that gets the longer block.
LEMMA AllocText ==
    ASSUME Phase, Places, Text, AllocMessage
    PROVE  Text'
  <1> DEFINE q == Len(request)
             B == Byte \cup {Garbage}
  <1>1. /\ pc = "size" /\ Len(ends) = Len(rr) + 1 /\ rr' = rr /\ ends' = ends
        /\ sum' = sum /\ used' = used /\ done' = done /\ request' = request
        /\ msg = request /\ used = q /\ msg \in Seq(B) /\ done = 0
    BY DEF AllocMessage, input, Text, Phase
  <1>2. sum \in Nat /\ q \in Nat /\ q <= sum /\ ends[1] = q
    BY <1>1, PlaceFacts
  <1>3. CASE pc' = "failed" /\ msg' = msg
    BY <1>1, <1>2, <1>3 DEF Text, Before, After
  <1>4. CASE /\ pc' = "append"
             /\ msg' = [i \in 1..sum |-> IF i <= used THEN msg[i] ELSE Garbage]
    <2> DEFINE f(i) == IF i <= used THEN msg[i] ELSE Garbage
    <2>1. \A i \in 1..q : msg[i] \in B
      BY <1>1, ElementOfSeq
    <2>2. \A i \in 1..sum : f(i) \in B
      <3> TAKE i \in 1..sum
      <3>1. CASE i <= used
        <4>1. i \in 1..q
          BY <1>1, <1>2, <3>1
        <4> QED
          BY <2>1, <3>1, <4>1
      <3>2. CASE ~(i <= used)
        BY <3>2
      <3> QED
        BY <3>1, <3>2
    <2>3. /\ [i \in 1..sum |-> f(i)] \in Seq(B) /\ Len([i \in 1..sum |-> f(i)]) = sum
      <3> HIDE DEF f
      <3> QED
        BY <1>2, <2>2, MessageIsSeq
    <2>4. msg' \in Seq(B) /\ Len(msg') = sum
      BY <1>4, <2>3
    <2>5. \A i \in (HeaderLen + 1)..q : msg'[i] = request[i]
      <3> TAKE i \in (HeaderLen + 1)..q
      <3>1. i \in 1..sum /\ i <= used
        BY <1>1, <1>2 DEF HeaderLen
      <3> QED
        BY <1>1, <1>4, <3>1
    <2>6. Filled' = 0
      BY <1>1, <1>4 DEF Filled
    <2>7. used' = ends'[Filled' + 1]
      BY <1>1, <1>2, <2>6
    <2>8. \A k \in 1..Filled' : FALSE
      BY <2>6
    <2>9. used' \in Nat /\ pc' \notin Before \cup {"size"} /\ Len(msg') = sum'
      BY <1>1, <1>2, <1>4, <2>4 DEF Before
    <2>10. \A i \in (HeaderLen + 1)..Len(request') : msg'[i] = request'[i]
      BY <1>1, <2>5
    <2> QED
      BY <2>4, <2>7, <2>8, <2>9, <2>10 DEF Text
  <1> QED
    BY <1>3, <1>4 DEF AllocMessage, Fails

\* The step that writes a record: it fits, and leaves what is there already.
LEMMA AppendFits ==
    ASSUME Phase, Places, Text, appendRR
    PROVE  /\ fault' = fault /\ done' = done + 1
           /\ used + Len(written(rr[done + 1])) <= Len(msg)
           /\ used' = used + rr[done + 1].rrlen
           /\ msg' = [i \in 1..Len(msg) |->
                        IF i \in (used + 1)..(used + Len(written(rr[done + 1])))
                        THEN written(rr[done + 1])[i - used] ELSE msg[i]]
  <1>1. pc = "append" /\ done < Len(rr) /\ done \in Nat /\ Len(rr) \in Nat
    BY LenProperties DEF appendRR, Phase
  <1>2. Len(ends) = Len(rr) + 1 /\ used = ends[done + 1] /\ Len(msg) = sum
    BY <1>1 DEF Places, Text, After, Filled
  <1>3. done + 1 \in 1..Len(rr) /\ done + 1 + 1 \in 1..(Len(rr) + 1)
    BY <1>1
  <1>4. /\ ends[done + 1 + 1] <= sum /\ Len(written(rr[done + 1])) = rr[done + 1].rrlen
        /\ ends[done + 1 + 1] = ends[done + 1] + rr[done + 1].rrlen
    BY <1>2, <1>3, PlaceFacts
  <1>5. used + Len(written(rr[done + 1])) <= Len(msg)
    BY <1>2, <1>4
  <1>6. ~(used + Len(written(rr[done + 1])) > Len(msg))
    <2> DEFINE a == used + Len(written(rr[done + 1]))
    <2>1. a = ends[done + 1 + 1] /\ ends[done + 1 + 1] \in Nat /\ sum \in Nat
      BY <1>2, <1>3, <1>4, PlaceFacts
    <2> QED
      BY <1>2, <1>5, <2>1
  <1> QED
    BY <1>5, <1>6 DEF appendRR

LEMMA AppendText ==
    ASSUME Phase, Places, Text, appendRR
    PROVE  Text'
  <1> DEFINE q == Len(request)
             B == Byte \cup {Garbage}
             n == done + 1
             w == written(rr[n])
             l == rr[n].rrlen
             m == Len(msg)
             u == used
  <1>1. /\ pc = "append" /\ pc' = pc /\ rr' = rr /\ ends' = ends /\ sum' = sum
        /\ request' = request /\ done < Len(rr) /\ done \in Nat /\ Len(rr) \in Nat
    BY LenProperties DEF appendRR, input, Phase
  <1>2. /\ Len(ends) = Len(rr) + 1 /\ u = ends[n] /\ m = sum /\ msg \in Seq(B)
        /\ \A i \in (HeaderLen + 1)..q : msg[i] = request[i]
        /\ \A k \in 1..done : \A j \in 1..rr[k].rrlen : msg[ends[k] + j] = written(rr[k])[j]
    BY <1>1 DEF Places, Text, After, Filled
  <1>3. n \in 1..Len(rr) /\ n \in 1..(Len(rr) + 1) /\ n + 1 \in 1..(Len(rr) + 1)
    BY <1>1
  <1>4. /\ l \in Nat /\ w \in Seq(Byte) /\ Len(w) = l /\ u \in Nat /\ u + l = ends[n + 1]
        /\ m \in Nat /\ q \in Nat /\ q <= u /\ ends[n + 1] \in Nat
    BY <1>2, <1>3, PlaceFacts
  <1>5. /\ done' = n /\ u + Len(w) <= m /\ used' = u + l
        /\ msg' = [i \in 1..m |-> IF i \in (u + 1)..(u + Len(w)) THEN w[i - u] ELSE msg[i]]
    BY AppendFits
  <1>6. \A i \in 1..l : w[i] \in Byte
    BY <1>4, ElementOfSeq
  <1>7. \A i \in 1..m : msg[i] \in B
    BY <1>2, ElementOfSeq
  <1> HIDE DEF w, l, m, u, q, n
  <1> DEFINE f(i) == IF i \in (u + 1)..(u + l) THEN w[i - u] ELSE msg[i]
  <1>8. msg' = [i \in 1..m |-> f(i)]
    BY <1>4, <1>5
  <1>9. \A i \in 1..m : f(i) \in B
    <2> TAKE i \in 1..m
    <2>1. CASE i \in (u + 1)..(u + l)
      <3>1. i - u \in 1..l
        BY <1>4, <2>1
      <3>2. w[i - u] \in Byte
        BY <1>6, <3>1
      <3> QED
        BY <2>1, <3>2
    <2>2. CASE i \notin (u + 1)..(u + l)
      BY <1>7, <2>2
    <2> QED
      BY <2>1, <2>2
  <1>10. msg' \in Seq(B) /\ Len(msg') = m
    <2> HIDE DEF f
    <2>1. [i \in 1..m |-> f(i)] \in Seq(B) /\ Len([i \in 1..m |-> f(i)]) = m
      BY <1>4, <1>9, MessageIsSeq
    <2> QED
      BY <1>8, <2>1
  \* What stands before the new record stays, and the new record is what was written.
  <1>11. \A i \in 1..u : msg'[i] = msg[i]
    <2> TAKE i \in 1..u
    <2>1. i \in 1..m /\ i \notin (u + 1)..(u + l)
      BY <1>4, <1>5
    <2> QED
      BY <1>8, <2>1
  <1>12. \A j \in 1..l : msg'[u + j] = w[j]
    <2> TAKE j \in 1..l
    <2>1. u + j \in 1..m /\ u + j \in (u + 1)..(u + l) /\ (u + j) - u = j
      BY <1>4, <1>5
    <2> QED
      BY <1>8, <2>1
  <1>13. \A i \in (HeaderLen + 1)..q : msg'[i] = request[i]
    <2> TAKE i \in (HeaderLen + 1)..q
    <2>1. i \in 1..u
      BY <1>4 DEF HeaderLen
    <2> QED
      BY <1>2, <1>11, <2>1
  <1>14. \A k \in 1..n : \A j \in 1..rr[k].rrlen : msg'[ends[k] + j] = written(rr[k])[j]
    <2> TAKE k \in 1..n
    <2> TAKE j \in 1..rr[k].rrlen
    <2>1. CASE k = n
      BY <1>2, <1>12, <2>1 DEF l, w
    <2>2. CASE k # n
      <3>1. k \in 1..done /\ k \in 1..Len(rr) /\ k + 1 \in 1..n /\ k \in 1..(Len(rr) + 1)
        BY <1>1, <1>3, <2>2 DEF n
      <3>2. /\ ends[k] \in Nat /\ rr[k].rrlen \in Nat
            /\ ends[k + 1] = ends[k] + rr[k].rrlen /\ ends[k + 1] <= ends[n]
        BY <1>2, <1>3, <3>1, PlaceFacts
      <3> DEFINE e == ends[k]
                 len == rr[k].rrlen
      <3>3. e \in Nat /\ len \in Nat /\ j \in 1..len /\ e + len <= u
        BY <1>2, <3>2
      <3> HIDE DEF e, len
      <3>4. e + j \in 1..u
        BY <1>4, <3>3
      <3> QED
        BY <1>2, <1>11, <3>1, <3>4 DEF e
    <2> QED
      BY <2>1, <2>2
  <1>15. Filled' = n
    BY <1>1, <1>5 DEF Filled
  <1>16. used' = ends'[Filled' + 1] /\ used' \in Nat /\ Len(msg') = sum'
    BY <1>1, <1>2, <1>4, <1>5, <1>10, <1>15
  <1>17. \A i \in (HeaderLen + 1)..Len(request') : msg'[i] = request'[i]
    BY <1>1, <1>13 DEF q
  <1>18. \A k \in 1..Filled' : \A j \in 1..rr'[k].rrlen :
            msg'[ends'[k] + j] = written(rr'[k])[j]
    BY <1>1, <1>14, <1>15
  <1>19. pc' \notin Before \cup {"size"}
    BY <1>1 DEF Before
  <1> QED
    BY <1>10, <1>16, <1>17, <1>18, <1>19 DEF Text

\* The new header of an answer is in front of everything else.
LEMMA AnswerText ==
    ASSUME Phase, Places, Text, h \in HeaderType, Answer
    PROVE  Text' /\ h' \in HeaderType /\ msg' = WithHeader(msg, h')
           /\ Len(msg) > HeaderLen /\ msg \in Seq(Byte \cup {Garbage})
  <1> DEFINE B == Byte \cup {Garbage}
  <1>1. /\ pc = "header" /\ pc' = "answered" /\ rr' = rr /\ ends' = ends /\ sum' = sum
        /\ request' = request /\ used' = used /\ msg' = WithHeader(msg, h')
        /\ h' = [h EXCEPT !.aa = 1, !.rcode = RCODE_NO_ERROR]
    BY DEF Answer, input
  <1>2. h' \in HeaderType
    <2> DEFINE g == [h EXCEPT !.aa = 1]
    <2>1. g \in HeaderType
      BY DEF HeaderType, Bit
    <2>2. h' = [g EXCEPT !.rcode = RCODE_NO_ERROR]
      BY <1>1
    <2> HIDE DEF g
    <2>3. h' \in HeaderType
      BY <2>1, <2>2 DEF HeaderType, RCODE_NO_ERROR
    <2> QED
      BY <2>3
  <1>3. /\ Len(ends) = Len(rr) + 1 /\ Len(msg) = sum /\ msg \in Seq(B)
        /\ used = ends[Len(rr) + 1] /\ used \in Nat
        /\ \A i \in (HeaderLen + 1)..Len(request) : msg[i] = request[i]
        /\ \A k \in 1..Len(rr) : \A j \in 1..rr[k].rrlen :
                msg[ends[k] + j] = written(rr[k])[j]
    BY <1>1 DEF Places, Text, After, Filled
  <1>4. /\ Len(request) \in Nat /\ Len(request) > HeaderLen /\ Len(request) <= sum
        /\ sum \in Nat /\ Len(rr) \in Nat
    BY <1>3, PlaceFacts, LenProperties DEF Phase
  <1>5. Len(msg) > HeaderLen
    BY <1>3, <1>4 DEF HeaderLen
  <1>6. /\ msg' \in Seq(B) /\ Len(msg') = sum
        /\ \A i \in 13..sum : msg'[i] = msg[i]
    BY <1>1, <1>2, <1>3, <1>5, NewHeader
  <1>7. \A i \in (HeaderLen + 1)..Len(request') : msg'[i] = request'[i]
    <2> TAKE i \in (HeaderLen + 1)..Len(request')
    <2>1. i \in 13..sum /\ i \in (HeaderLen + 1)..Len(request)
      BY <1>1, <1>4 DEF HeaderLen
    <2> QED
      BY <1>1, <1>3, <1>6, <2>1
  <1>8. Filled' = Len(rr)
    BY <1>1 DEF Filled
  <1>9. \A k \in 1..Filled' : \A j \in 1..rr'[k].rrlen :
            msg'[ends'[k] + j] = written(rr'[k])[j]
    <2> TAKE k \in 1..Filled'
    <2> TAKE j \in 1..rr'[k].rrlen
    <2>1. k \in 1..Len(rr) /\ k \in 1..(Len(rr) + 1) /\ k + 1 \in 1..(Len(rr) + 1)
      BY <1>4, <1>8
    <2>2. /\ ends[k] \in Nat /\ Len(request) <= ends[k] /\ ends[k + 1] <= sum
          /\ ends[k + 1] = ends[k] + rr[k].rrlen /\ rr[k].rrlen \in Nat
      BY <1>3, <2>1, PlaceFacts
    <2> DEFINE e == ends[k]
               len == rr[k].rrlen
               q == Len(request)
    <2>3. /\ e \in Nat /\ len \in Nat /\ j \in 1..len /\ e + len <= sum /\ q <= e
          /\ q \in Nat /\ q > 12
      BY <1>1, <1>4, <2>2 DEF HeaderLen
    <2> HIDE DEF e, len, q
    <2>4. e + j \in 13..sum
      BY <1>4, <2>3
    <2>5. msg'[e + j] = msg[e + j]
      BY <1>6, <2>4
    <2> QED
      BY <1>1, <1>3, <2>1, <2>5 DEF e
  <1>10. used' = ends'[Filled' + 1] /\ used' \in Nat /\ Len(msg') = sum'
    BY <1>1, <1>3, <1>6, <1>8
  <1>11. pc' \notin Before \cup {"size"}
    BY <1>1 DEF Before
  <1>12. Text'
    BY <1>6, <1>7, <1>9, <1>10, <1>11 DEF Text
  <1> QED
    BY <1>1, <1>2, <1>3, <1>5, <1>12

\* The header of a refusal is in front of the question.
LEMMA RefuseText ==
    ASSUME Phase, Refuse
    PROVE  Text' /\ h' \in HeaderType /\ msg' = WithHeader(request, h')
           /\ request \in Seq(Byte \cup {Garbage})
  <1> DEFINE S == Byte
             B == Byte \cup {Garbage}
  <1>1. /\ pc = "failed" /\ pc' = "refused" /\ msg' = WithHeader(request, h')
        /\ used' = Len(request)
        /\ h' = [extractHeader(request) EXCEPT !.rcode = RCODE_SERVER_FAILURE]
    BY DEF Refuse
  <1>2. extractHeader(request) \in HeaderType
    BY HeaderTyped DEF Phase
  <1>3. h' \in HeaderType
    BY <1>1, <1>2 DEF HeaderType, Bit, RCODE_SERVER_FAILURE
  <1>4. request \in Seq(B) /\ Len(request) \in Nat
    <2>1. request \in Seq(S) /\ S \subseteq B
      BY DEF Phase
    <2> HIDE DEF S, B
    <2> QED
      BY <2>1, SeqMonotonic, LenProperties
  <1>5. msg' \in Seq(B)
    BY <1>1, <1>3, <1>4, NewHeader DEF Phase
  <1>6. pc' \notin Before \cup {"size"} \cup After /\ used' \in Nat
    BY <1>1, <1>4 DEF Before, After
  <1> QED
    BY <1>1, <1>3, <1>4, <1>5, <1>6 DEF Text

LEMMA StepText ==
    ASSUME Phase, Places, Text, h \in HeaderType, [Next]_vars
    PROVE  Text'
  <1>1. request' = request
    BY InputKept
  <1>2. CASE AllocMessage
    BY <1>2, AllocText
  <1>3. CASE appendRR
    BY <1>3, AppendText
  <1>4. CASE Answer
    BY <1>4, AnswerText
  <1>5. CASE Refuse
    BY <1>5, RefuseText
  <1>6. CASE Query \/ AllocArray \/ BuildRecord \/ RecordsBuilt \/ AddLength
    <2>1. msg' = msg /\ used' = used /\ pc \in Before \cup {"size"}
          /\ pc' \in Before \cup {"size", "failed"}
      BY <1>6 DEF Query, AllocArray, BuildRecord, RecordsBuilt, AddLength, text, Fails,
                  Before
    <2>2. pc' \notin After
      BY <2>1 DEF Before, After
    <2> QED
      BY <1>1, <2>1, <2>2 DEF Text
  <1>7. CASE AllAppended \/ FreeHost \/ FreeHosts \/ UNCHANGED vars
    <2>1. /\ msg' = msg /\ used' = used /\ ends' = ends /\ sum' = sum /\ rr' = rr
          /\ pc' \in Before \cup {"size"} => pc \in Before \cup {"size"}
          /\ pc' \in After => pc \in After /\ Filled' = Filled
      BY <1>7 DEF AllAppended, FreeHost, FreeHosts, vars, text, Before, After, Filled
    <2> QED
      BY <1>1, <2>1 DEF Text
  <1> QED
    BY <1>2, <1>3, <1>4, <1>5, <1>6, <1>7 DEF Next

----------------------------------------------------------------------------
(* Memory.                                                                 *)

LEMMA Apart ==
    /\ <<"message">> # <<"array">> /\ <<"message">> # <<"result">>
    /\ <<"array">> # <<"result">>
    /\ \A k \in Int : /\ <<"message">> \notin Blocks(k) /\ <<"array">> \notin Blocks(k)
                      /\ <<"result">> \notin Blocks(k)
    /\ \A k, l \in Int : k # l => Blocks(k) \cap Blocks(l) = {}
  <1>1. /\ <<"message">> # <<"array">> /\ <<"message">> # <<"result">>
        /\ <<"array">> # <<"result">>
    OBVIOUS
  <1>2. \A k \in Int : \A w \in {"message", "array", "result"} :
            <<w>> # <<"record", k>> /\ <<w>> # <<"data", k>>
    OBVIOUS
  <1>3. \A k, l \in Int : /\ <<"record", k>> # <<"data", l>>
                          /\ k # l => <<"record", k>> # <<"record", l>>
                                      /\ <<"data", k>> # <<"data", l>>
    OBVIOUS
  <1> QED
    BY <1>1, <1>2, <1>3 DEF Blocks, Record, DataOf

LEMMA NoBlocks ==
    ASSUME NEW n \in Nat
    PROVE  /\ UNION {Blocks(k) : k \in 1..0} = {}
           /\ UNION {Blocks(k) : k \in (n + 1)..n} = {}
  <1>1. 1..0 = {} /\ (n + 1)..n = {}
    OBVIOUS
  <1> QED
    BY <1>1

\* The blocks of one record more.
LEMMA UnionSplit ==
    ASSUME NEW A, NEW C, NEW e, \A k : k \in A <=> (k \in C \/ k = e)
    PROVE  UNION {Blocks(k) : k \in A} = (UNION {Blocks(k) : k \in C}) \cup Blocks(e)
  <1>1. \A x : x \in UNION {Blocks(k) : k \in A} <=> \E k \in A : x \in Blocks(k)
    OBVIOUS
  <1>2. \A x : x \in UNION {Blocks(k) : k \in C} <=> \E k \in C : x \in Blocks(k)
    OBVIOUS
  <1> DEFINE U == UNION {Blocks(k) : k \in A}
             V == UNION {Blocks(k) : k \in C}
  <1> HIDE DEF U, V
  <1>3. \A x : x \in U <=> (x \in V \/ x \in Blocks(e))
    BY <1>1, <1>2 DEF U, V
  <1>4. U = V \cup Blocks(e)
    BY <1>3
  <1> QED
    BY <1>4 DEF U, V

\* One more record, and one less.
LEMMA BlockAdded ==
    ASSUME NEW n \in Nat
    PROVE  UNION {Blocks(k) : k \in 1..(n + 1)}
             = (UNION {Blocks(k) : k \in 1..n}) \cup Blocks(n + 1)
  <1>1. \A k : k \in 1..(n + 1) <=> (k \in 1..n \/ k = n + 1)
    OBVIOUS
  <1> QED
    BY <1>1, UnionSplit

LEMMA BlockFreed ==
    ASSUME NEW n \in Nat, NEW d \in Nat, d < n
    PROVE  ({<<"message">>, <<"array">>} \cup UNION {Blocks(k) : k \in (d + 1)..n})
             \ Blocks(d + 1)
             = {<<"message">>, <<"array">>} \cup UNION {Blocks(k) : k \in (d + 1 + 1)..n}
  <1>1. \A k : k \in (d + 1)..n <=> (k \in (d + 1 + 1)..n \/ k = d + 1)
    OBVIOUS
  <1>2. \A k \in (d + 1 + 1)..n : k \in Int /\ k # d + 1
    OBVIOUS
  <1>3. d + 1 \in Int
    OBVIOUS
  <1>4. \A k \in (d + 1 + 1)..n : Blocks(k) \cap Blocks(d + 1) = {}
    BY <1>2, <1>3, Apart
  <1>5. <<"message">> \notin Blocks(d + 1) /\ <<"array">> \notin Blocks(d + 1)
    BY <1>3, Apart
  <1> DEFINE e == d + 1
             A == (d + 1)..n
             C == (e + 1)..n
  <1>6. /\ \A k : k \in A <=> (k \in C \/ k = e)
        /\ \A k \in C : Blocks(k) \cap Blocks(e) = {}
    BY <1>1, <1>4
  <1> HIDE DEF e, A, C
  <1> DEFINE U == UNION {Blocks(k) : k \in A}
             V == UNION {Blocks(k) : k \in C}
             b == Blocks(e)
  <1>7. U = V \cup b
    BY <1>6, UnionSplit
  <1>8. \A x : ~(x \in V /\ x \in b)
    <2> SUFFICES ASSUME NEW x, x \in V, x \in b PROVE FALSE
      OBVIOUS
    <2>1. PICK k \in C : x \in Blocks(k)
      OBVIOUS
    <2> QED
      BY <1>6, <2>1
  <1>9. <<"message">> \notin b /\ <<"array">> \notin b
    BY <1>5 DEF e
  <1> DEFINE m == <<"message">>
             a == <<"array">>
  <1> HIDE DEF U, V, b, m, a
  <1>10. ({m, a} \cup U) \ b = {m, a} \cup V
    BY <1>7, <1>8, <1>9 DEF m, a
  <1> QED
    BY <1>10 DEF e, A, C, U, V, b, m, a

LEMMA InitHeap == Init => Heap
  BY DEF Init, Heap

LEMMA StepHeap ==
    ASSUME Phase, Places, Heap, [Next]_vars
    PROVE  Heap'
  <1> DEFINE n == Len(rr)
             U(S) == UNION {Blocks(k) : k \in S}
  <1>1. kind' = kind
    BY InputKept
  <1>2. n \in Nat /\ done \in Nat /\ done <= n
    BY LenProperties DEF Phase
  <1>3. CASE Query
    <2>1. pc = "query" /\ ends' = ends /\ Len(ends) = 0 /\ heap = {<<"message">>}
      BY <1>3 DEF Query, Places, Before, Heap
    <2> QED
      BY <1>3, <2>1 DEF Query, Fails, Heap
  <1>4. CASE AllocArray
    <2>1. /\ pc = "array" /\ ends' = ends /\ Len(ends) = 0 /\ rr' = rr /\ Len(rr) = 0
          /\ heap = {<<"message">>, <<"result">>}
      BY <1>4 DEF AllocArray, Places, Before, Heap, Phase
    <2>2. CASE pc' = "rows" /\ heap' = heap \cup {<<"array">>}
      <3>1. Kept' = 1..0
        BY <2>1, <2>2 DEF Kept
      <3>2. UNION {Blocks(k) : k \in Kept'} = {}
        BY <3>1, NoBlocks
      <3>3. heap' = {<<"message">>, <<"result">>, <<"array">>}
                        \cup UNION {Blocks(k) : k \in Kept'}
        BY <2>1, <2>2, <3>2
      <3> QED
        BY <2>2, <3>3 DEF Heap
    <2>3. CASE Fails
      BY <2>1, <2>3 DEF Heap, Fails
    <2> QED
      BY <1>4, <2>2, <2>3 DEF AllocArray
  <1>5. CASE BuildRecord
    <2>1. pc = "rows" /\ ends' = ends /\ Len(ends) = 0
      BY <1>5 DEF BuildRecord, Places, Before
    <2>2. heap = {<<"message">>, <<"result">>, <<"array">>} \cup U(1..n)
      BY <2>1 DEF Heap, Kept
    <2>3. CASE Fails
      BY <2>1, <2>3 DEF Fails, Heap
    <2>4. CASE pc' = pc /\ heap' = heap /\ rr' = rr
      <3>1. Kept' = 1..n
        BY <2>1, <2>4 DEF Kept
      <3> QED
        BY <2>1, <2>2, <2>4, <3>1 DEF Heap
    <2>5. CASE /\ pc' = pc /\ rr' = Append(rr, NewRecord(rows[n + 1]))
               /\ heap' = heap \cup {Record(n + 1), DataOf(n + 1)}
      <3>1. Len(rr') = n + 1
        <4>1. Len(rr) < Len(rows) /\ rows \in Seq(Row) /\ Len(rows) \in Nat
              /\ rr \in Seq(GoodRecord)
          BY <1>5, LenProperties DEF BuildRecord, Phase
        <4>2. n + 1 \in 1..Len(rows)
          BY <1>2, <4>1
        <4>3. NewRecord(rows[n + 1]) \in GoodRecord
          <5>1. rows[n + 1] \in Row
            BY <4>1, <4>2, ElementOfSeq
          <5> QED
            BY <5>1, RecordBytes
        <4> QED
          BY <2>5, <4>1, <4>3, AppendProperties
      <3>2. Kept' = 1..(n + 1)
        BY <2>1, <2>5, <3>1 DEF Kept
      <3>3. U(1..(n + 1)) = U(1..n) \cup Blocks(n + 1)
        BY <1>2, BlockAdded
      <3> DEFINE V == U(1..n)
                 W == U(1..(n + 1))
                 b == Blocks(n + 1)
      <3>4. heap = {<<"message">>, <<"result">>, <<"array">>} \cup V /\ W = V \cup b
            /\ heap' = heap \cup b
        BY <2>2, <2>5, <3>3 DEF Blocks
      <3> HIDE DEF V, W, b
      <3>5. heap' = {<<"message">>, <<"result">>, <<"array">>} \cup W
        BY <3>4
      <3>6. heap' = {<<"message">>, <<"result">>, <<"array">>}
                        \cup UNION {Blocks(k) : k \in Kept'}
        BY <3>2, <3>5 DEF W
      <3> QED
        BY <2>1, <2>5, <3>6 DEF Heap
    <2> QED
      BY <1>5, <2>3, <2>4, <2>5 DEF BuildRecord
  <1>6. CASE RecordsBuilt
    <2>1. /\ pc = "rows" /\ pc' = "size" /\ rr' = rr /\ heap' = heap \ {<<"result">>}
      BY <1>6 DEF RecordsBuilt
    <2>2. Kept = 1..n /\ Kept' = 1..n
      BY <2>1 DEF Kept
    <2> DEFINE V == U(1..n)
    <2>3. heap = {<<"message">>, <<"result">>, <<"array">>} \cup V
      BY <2>1, <2>2 DEF Heap
    <2>4. <<"result">> \notin V
      <3>1. \A k \in 1..n : <<"result">> \notin Blocks(k)
        BY Apart
      <3> QED
        BY <3>1
    <2> HIDE DEF V
    <2>5. heap' = {<<"message">>, <<"array">>} \cup V
      BY <2>1, <2>3, <2>4, Apart
    <2>6. heap' = {<<"message">>, <<"array">>} \cup UNION {Blocks(k) : k \in Kept'}
      BY <2>2, <2>5 DEF V
    <2> QED
      BY <2>1, <2>6 DEF Heap
  <1>7. CASE AddLength
    <2>1. pc = "size" /\ pc' = pc /\ rr' = rr /\ heap' = heap
      BY <1>7 DEF AddLength
    <2>2. Kept = 1..n /\ Kept' = 1..n
      BY <2>1 DEF Kept
    <2> QED
      BY <2>1, <2>2 DEF Heap
  <1>8. CASE AllocMessage
    <2>1. pc = "size" /\ rr' = rr /\ done' = done /\ done = 0 /\ ends' = ends
      BY <1>8 DEF AllocMessage, Phase
    <2> DEFINE V == U(1..n)
    <2>2. heap = {<<"message">>, <<"array">>} \cup V
      BY <2>1 DEF Heap, Kept
    <2>3. CASE pc' = "append" /\ heap' = heap
      <3>1. Kept' = 1..n
        BY <1>1, <2>1, <2>3 DEF Kept
      <3> QED
        BY <2>2, <2>3, <3>1 DEF Heap
    <2>4. CASE Fails /\ heap' = heap \ AllBlocks
      <3>1. AllBlocks = {<<"array">>} \cup V
        BY DEF AllBlocks
      <3>2. <<"message">> \notin V
        <4>1. \A k \in 1..n : <<"message">> \notin Blocks(k)
          BY Apart
        <4> QED
          BY <4>1
      <3> HIDE DEF V
      <3>3. heap' = {<<"message">>}
        BY <2>2, <2>4, <3>1, <3>2, Apart
      <3> QED
        BY <2>4, <3>3 DEF Fails, Heap
    <2> QED
      BY <1>8, <2>3, <2>4 DEF AllocMessage
  <1>9. CASE appendRR
    <2>1. pc = "append" /\ pc' = pc /\ rr' = rr /\ done < n
      BY <1>9 DEF appendRR
    <2>2. heap = {<<"message">>, <<"array">>} \cup U(Kept)
      BY <2>1 DEF Heap
    <2>3. CASE heap' = heap /\ (done' = done \/ kind = "MX")
      <3>1. Kept' = Kept
        BY <1>1, <2>1, <2>3 DEF Kept
      <3> QED
        BY <2>1, <2>2, <2>3, <3>1 DEF Heap
    <2>4. CASE heap' = heap \ Blocks(done + 1) /\ done' = done + 1 /\ kind # "MX"
      <3>1. Kept = (done + 1)..n /\ Kept' = (done + 1 + 1)..n
        BY <1>1, <2>1, <2>4 DEF Kept
      <3>2. heap' = {<<"message">>, <<"array">>} \cup U((done + 1 + 1)..n)
        BY <1>2, <2>1, <2>2, <2>4, <3>1, BlockFreed
      <3> QED
        BY <2>1, <3>1, <3>2 DEF Heap
    <2> QED
      BY <1>9, <2>3, <2>4 DEF appendRR, Freed
  <1>10. CASE AllAppended
    <2>1. pc = "append" /\ rr' = rr /\ done = n
      BY <1>10 DEF AllAppended
    <2>2. heap = {<<"message">>, <<"array">>} \cup U(Kept)
      BY <2>1 DEF Heap
    <2>3. CASE kind = "MX" /\ pc' = "hosts" /\ done' = 0 /\ heap' = heap
      <3>1. Kept' = Kept
        BY <2>1, <2>3 DEF Kept
      <3> QED
        BY <2>2, <2>3, <3>1 DEF Heap
    <2>4. CASE kind # "MX" /\ pc' = "header" /\ heap' = heap \ {<<"array">>}
      <3>1. Kept = (n + 1)..n
        BY <2>1, <2>4 DEF Kept
      <3>2. U(Kept) = {}
        BY <1>2, <3>1, NoBlocks
      <3>3. heap' = {<<"message">>}
        BY <2>2, <2>4, <3>2, Apart
      <3> QED
        BY <2>4, <3>3 DEF Heap
    <2> QED
      BY <1>10, <2>3, <2>4 DEF AllAppended
  <1>11. CASE FreeHost
    <2>1. /\ pc = "hosts" /\ pc' = pc /\ rr' = rr /\ done < n /\ done' = done + 1
          /\ heap' = heap \ Blocks(done + 1)
      BY <1>11 DEF FreeHost
    <2>2. Kept = (done + 1)..n /\ Kept' = (done + 1 + 1)..n
      BY <2>1 DEF Kept
    <2>3. heap = {<<"message">>, <<"array">>} \cup U((done + 1)..n)
      BY <2>1, <2>2 DEF Heap
    <2>4. heap' = {<<"message">>, <<"array">>} \cup U((done + 1 + 1)..n)
      BY <1>2, <2>1, <2>3, BlockFreed
    <2> QED
      BY <2>1, <2>2, <2>4 DEF Heap
  <1>12. CASE FreeHosts
    <2>1. pc = "hosts" /\ pc' = "header" /\ done = n /\ heap' = heap \ {<<"array">>}
      BY <1>12 DEF FreeHosts
    <2>2. Kept = (n + 1)..n
      BY <2>1 DEF Kept
    <2>3. heap = {<<"message">>, <<"array">>} \cup U(Kept) /\ U(Kept) = {}
      BY <1>2, <2>1, <2>2, NoBlocks DEF Heap
    <2>4. heap' = {<<"message">>}
      BY <2>1, <2>3, Apart
    <2> QED
      BY <2>1, <2>4 DEF Heap
  <1>13. CASE Answer
    BY <1>13 DEF Answer, Heap
  <1>14. CASE Refuse
    BY <1>14 DEF Refuse, Heap
  <1>15. CASE UNCHANGED vars
    <2>1. /\ pc' = pc /\ rr' = rr /\ done' = done /\ heap' = heap /\ ends' = ends
      BY <1>15 DEF vars
    <2>2. Kept' = Kept
      BY <1>1, <2>1 DEF Kept
    <2> QED
      BY <2>1, <2>2 DEF Heap
  <1> QED
    BY <1>3, <1>4, <1>5, <1>6, <1>7, <1>8, <1>9, <1>10, <1>11, <1>12, <1>13, <1>14, <1>15
       DEF Next

----------------------------------------------------------------------------
(* The header.                                                             *)

LEMMA InitHeading == Init => Heading
  <1> SUFFICES ASSUME Init PROVE Heading
    OBVIOUS
  <1> DEFINE asked == extractHeader(request)
  <1>1. request \in Seq(Byte) /\ Len(request) > HeaderLen
    BY ReplyAssumption DEF Init
  <1>2. asked \in HeaderType
    BY <1>1, HeaderTyped
  <1>3. pc = "query" /\ h = [asked EXCEPT !.qr = 1]
    BY DEF Init
  <1> HIDE DEF asked
  <1>4. /\ h \in HeaderType /\ h.id = asked.id /\ h.rd = asked.rd
        /\ h.opcode = asked.opcode /\ h.z = asked.z /\ h.ancount = asked.ancount
        /\ h.qr = 1
    BY <1>2, <1>3 DEF HeaderType, Bit
  <1> QED
    BY <1>3, <1>4 DEF Heading, Before, After, asked

LEMMA StepHeading ==
    ASSUME Phase, Places, Text, Heading, [Next]_vars
    PROVE  Heading'
  <1> DEFINE asked == extractHeader(request)
  <1>1. request' = request /\ rows' = rows /\ extractHeader(request') = asked
    BY InputKept
  <1>2. /\ h \in HeaderType /\ h.id = asked.id /\ h.rd = asked.rd
        /\ h.opcode = asked.opcode /\ h.z = asked.z
    BY DEF Heading
  <1>3. CASE AllAppended
    <2> DEFINE n == USI(h.ancount + Len(rr))
    <2>1. pc = "append" /\ pc' \in {"hosts", "header"} /\ h' = [h EXCEPT !.ancount = n]
      BY <1>3 DEF AllAppended
    <2>2. h.ancount = asked.ancount /\ Len(rr) = Len(rows)
      BY <2>1 DEF Heading, Phase, After
    <2>3. n \in Word
      <3>1. h.ancount \in Nat
        <4>1. h.ancount \in Word
          BY <1>2 DEF HeaderType
        <4>2. Word \subseteq Nat
          BY DEF Word
        <4> QED
          BY <4>1, <4>2
      <3>2. Len(rr) \in Nat
        BY LenProperties DEF Phase
      <3> DEFINE c == h.ancount + Len(rr)
      <3>3. c \in Nat
        BY <3>1, <3>2
      <3> HIDE DEF c
      <3>4. c % 65536 \in Word
        BY <3>3 DEF Word
      <3>5. n = c % 65536
        BY DEF c, USI
      <3> HIDE DEF n
      <3> QED
        BY <3>4, <3>5
    <2>4. n = USI(asked.ancount + Len(rows))
      BY <2>2
    <2> HIDE DEF n
    <2>5. /\ h' \in HeaderType /\ h'.id = h.id /\ h'.rd = h.rd /\ h'.opcode = h.opcode
          /\ h'.z = h.z /\ h'.ancount = n /\ h'.qr = h.qr
      BY <1>2, <2>1, <2>3 DEF HeaderType
    <2>6. h.qr = 1
      BY <2>1 DEF Heading
    <2> QED
      BY <1>1, <1>2, <2>1, <2>4, <2>5, <2>6 DEF Heading, Before, After
  <1>4. CASE Answer
    <2>1. /\ pc = "header" /\ pc' = "answered"
          /\ h' = [h EXCEPT !.aa = 1, !.rcode = RCODE_NO_ERROR]
      BY <1>4 DEF Answer
    <2>2. /\ h' \in HeaderType /\ msg' = WithHeader(msg, h')
          /\ Len(msg) > HeaderLen /\ msg \in Seq(Byte \cup {Garbage})
      BY <1>2, <1>4, AnswerText
    <2>3. /\ h'.id = h.id /\ h'.rd = h.rd /\ h'.opcode = h.opcode /\ h'.z = h.z
          /\ h'.ancount = h.ancount /\ h'.qr = h.qr /\ h'.aa = 1
          /\ h'.rcode = RCODE_NO_ERROR
      BY <1>2, <2>1 DEF HeaderType
    <2>4. h.ancount = USI(asked.ancount + Len(rows)) /\ h.qr = 1
      BY <2>1 DEF Heading, After
    <2>5. asked.z = 0 /\ asked.opcode = 0 => extractHeader(msg') = h'
      <3> SUFFICES ASSUME asked.z = 0, asked.opcode = 0 PROVE extractHeader(msg') = h'
        OBVIOUS
      <3>1. h'.opcode = 0 /\ h'.z = 0
        BY <1>2, <2>3
      <3>2. extractHeader(WithHeader(msg, h')) = h'
        BY <2>2, <3>1, HeaderBack
      <3> QED
        BY <2>2, <3>2
    <2> QED
      BY <1>1, <1>2, <2>1, <2>2, <2>3, <2>4, <2>5 DEF Heading, Before, After
  <1>5. CASE Refuse
    <2>1. pc' = "refused" /\ h' = [asked EXCEPT !.rcode = RCODE_SERVER_FAILURE]
      BY <1>5 DEF Refuse
    <2>2. /\ h' \in HeaderType /\ msg' = WithHeader(request, h')
          /\ request \in Seq(Byte \cup {Garbage})
      BY <1>5, RefuseText
    <2>3. asked \in HeaderType /\ Len(request) > HeaderLen
      BY HeaderTyped DEF Phase
    <2>4. /\ h'.id = asked.id /\ h'.rd = asked.rd /\ h'.opcode = asked.opcode
          /\ h'.z = asked.z
      <3> HIDE DEF asked
      <3> QED
        BY <2>1, <2>3 DEF HeaderType
    <2>5. asked.z = 0 /\ asked.opcode = 0 => extractHeader(msg') = h'
      <3> SUFFICES ASSUME asked.z = 0, asked.opcode = 0 PROVE extractHeader(msg') = h'
        OBVIOUS
      <3>1. h'.opcode = 0 /\ h'.z = 0
        BY <2>4
      <3>2. extractHeader(WithHeader(request, h')) = h'
        BY <2>2, <2>3, <3>1, HeaderBack
      <3> QED
        BY <2>2, <3>2
    <2> QED
      BY <1>1, <2>1, <2>2, <2>4, <2>5 DEF Heading, Before, After
  <1>6. CASE h' = h /\ (pc' = pc \/ pc' \notin {"answered", "refused"})
    <2>1. CASE ~Answer /\ ~Refuse /\ ~AllAppended
      <3>1. /\ pc' \in Before \cup {"size", "append"}
                    => pc \in Before \cup {"size", "append"}
            /\ pc' \in After \ {"append"} => pc \in After \ {"append"}
            /\ pc' \in {"answered", "refused"} => pc' = pc /\ msg' = msg
            /\ pc = "refused" => pc' = "refused"
        BY <1>6, <2>1 DEF Next, vars, text, Query, AllocArray, BuildRecord, RecordsBuilt,
           AddLength, AllocMessage, appendRR, FreeHost, FreeHosts, Fails, Before, After
      <3> QED
        BY <1>1, <1>6, <3>1 DEF Heading
    <2> QED
      BY <1>3, <1>4, <1>5, <2>1
  <1>7. CASE ~(h' = h /\ (pc' = pc \/ pc' \notin {"answered", "refused"}))
    <2>1. AllAppended \/ Answer \/ Refuse
      BY <1>7 DEF Next, vars, Query, AllocArray, BuildRecord, RecordsBuilt, AddLength,
                  AllocMessage, appendRR, FreeHost, FreeHosts, Fails
    <2> QED
      BY <1>3, <1>4, <1>5, <2>1
  <1> QED
    BY <1>6, <1>7

----------------------------------------------------------------------------
(* The theorems.                                                           *)

\* Everything that is maintained together.
Lookup == Phase /\ Built /\ Places /\ Text /\ Heap /\ Heading /\ WritesFit

LEMMA StepFits ==
    ASSUME Phase, Places, Text, WritesFit, [Next]_vars
    PROVE  WritesFit'
  <1>1. kind' = kind /\ rows' = rows
    BY InputKept
  <1>2. CASE BuildRecord
    <2> DEFINE k == Len(rr) + 1
               r == rows[k]
    <2>1. Len(rr) < Len(rows) /\ Len(rr) \in Nat /\ Len(rows) \in Nat /\ rows \in Seq(Row)
      BY <1>2, LenProperties DEF BuildRecord, Phase
    <2>2. k \in 1..Len(rows)
      BY <2>1
    <2>3. r \in Row
      BY <2>1, <2>2, ElementOfSeq
    <2>4. /\ Len(Data(r)) = DataLength(r) /\ DataLength(r) \in Nat
          /\ kind = "SOA" => DataLength(r) = Len(r.name) + Len(r.mail) + 24
          /\ USI(DataLength(r)) = DataLength(r)
      BY <2>3, DataBytes, LengthsAreShort
    <2>5. CASE ~(NameFits(r) /\ DataFits(r))
      <3>1. CASE ~NameFits(r)
        <4>1. Len(Wire(OwnerName(r))) = Len(OwnerName(r)) + 2
          BY <2>3, RowFacts, WireWhole
        <4>2. Len(Wire(OwnerName(r))) > NameBuffer
          <5>1. Len(Wire(OwnerName(r))) \in Nat /\ NameBuffer \in Nat
            BY <2>3, RowFacts, WireWhole, LenProperties, ReplyAssumption
          <5> QED
            BY <3>1, <5>1 DEF NameFits
        <4>3. Len(OwnerName(r)) + 2 > NameBuffer
          BY <4>1, <4>2
        <4> QED
          BY <1>1, <2>2, <4>3 DEF WritesFit, OwnerName
      <3>2. CASE ~DataFits(r)
        <4>1. DataLength(r) > DataSize(r)
          <5>1. DataSize(r) \in Nat
            BY <2>4, ReplyAssumption DEF DataSize
          <5> QED
            BY <2>4, <3>2, <5>1 DEF DataFits
        <4>2. kind = "SOA"
          <5> SUFFICES ASSUME kind # "SOA" PROVE FALSE
            OBVIOUS
          <5> DEFINE d == DataLength(r)
          <5>1. d > d /\ d \in Nat
            BY <2>4, <4>1 DEF DataSize
          <5> HIDE DEF d
          <5> QED
            BY <5>1
        <4>3. Len(r.name) + Len(r.mail) + 24 > SoaBuffer
          BY <2>4, <4>1, <4>2 DEF DataSize
        <4> QED
          BY <1>1, <2>2, <4>2, <4>3 DEF WritesFit
      <3> QED
        BY <2>5, <3>1, <3>2
    <2>6. CASE fault' = fault
      BY <1>1, <2>6 DEF WritesFit, OwnerName
    <2> QED
      BY <1>2, <2>5, <2>6 DEF BuildRecord
  <1>3. CASE appendRR
    BY <1>1, <1>3, AppendFits DEF WritesFit, OwnerName
  <1>4. CASE ~BuildRecord /\ ~appendRR
    <2>1. fault' = fault
      BY <1>4 DEF Next, vars, Query, AllocArray, RecordsBuilt, AddLength, AllocMessage,
                  AllAppended, FreeHost, FreeHosts, Answer, Refuse
    <2> QED
      BY <1>1, <2>1 DEF WritesFit, OwnerName
  <1> QED
    BY <1>2, <1>3, <1>4

THEOREM LookupHolds == Spec => []Lookup
  <1>1. Init => Lookup
    <2>1. Init => WritesFit
      BY DEF Init, WritesFit
    <2> QED
      BY <2>1, InitPhase, InitPlaces, InitText, InitHeap, InitHeading DEF Lookup
  <1>2. Lookup /\ [Next]_vars => Lookup'
    <2> SUFFICES ASSUME Lookup, [Next]_vars PROVE Lookup'
      OBVIOUS
    <2>1. Phase /\ Built /\ Places /\ Text /\ Heap /\ Heading /\ WritesFit
      BY DEF Lookup
    <2>2. h \in HeaderType
      BY <2>1 DEF Heading
    <2>3. Phase' /\ Built'
      BY <2>1, StepPhase, StepBuilt
    <2>4. Places'
      BY <2>1, StepPlaces
    <2>5. Text'
      BY <2>1, <2>2, StepText
    <2>6. Heap'
      BY <2>1, StepHeap
    <2>7. Heading'
      BY <2>1, StepHeading
    <2>8. WritesFit'
      BY <2>1, StepFits
    <2> QED
      BY <2>3, <2>4, <2>5, <2>6, <2>7, <2>8 DEF Lookup
  <1> QED
    BY <1>1, <1>2, PTL DEF Spec

\* Nothing is written behind a block but by owner names and SOA data that are too long
\* for theirs, whatever the sizes of the two and for names of any column.
THEOREM WritesAlwaysFit == Spec => []WritesFit
  <1>1. Lookup => WritesFit
    BY DEF Lookup
  <1> QED
    BY <1>1, LookupHolds, PTL

\* The records that are to be read are allocated, and an answer leaves none behind.
THEOREM BlocksStayBalanced == Spec => []BlocksBalanced
  <1>1. Lookup => BlocksBalanced
    <2> SUFFICES ASSUME Lookup PROVE BlocksBalanced
      OBVIOUS
    <2>1. Phase /\ Places /\ Heap
      BY DEF Lookup
    <2>2. Len(rr) \in Nat /\ done \in Nat /\ Len(rows) \in Nat
      BY <2>1, LenProperties DEF Phase
    <2>3. ASSUME pc \in {"append", "hosts"}, NEW k \in (done + 1)..Len(rr)
          PROVE  Blocks(k) \subseteq heap
      <3>1. k \in Kept
        BY <2>2, <2>3 DEF Kept
      <3>2. heap = {<<"message">>, <<"array">>} \cup UNION {Blocks(j) : j \in Kept}
        BY <2>1, <2>3 DEF Heap
      <3>3. Blocks(k) \subseteq UNION {Blocks(j) : j \in Kept}
        BY <3>1
      <3> DEFINE U == UNION {Blocks(j) : j \in Kept}
      <3> HIDE DEF U
      <3>4. Blocks(k) \subseteq {<<"message">>, <<"array">>} \cup U
        BY <3>3 DEF U
      <3> QED
        BY <3>2, <3>4 DEF U
    <2>4. pc = "answered" \/ (pc = "refused" /\ Len(ends) = Len(rows) + 1)
            => heap = {<<"message">>}
      BY <2>1, <2>2 DEF Heap
    <2> QED
      BY <2>3, <2>4 DEF BlocksBalanced
  <1> QED
    BY <1>1, LookupHolds, PTL

\* The client reads the header that was meant, in an answer to any question and with
\* any number of rows.
THEOREM HeadersArrive == Spec => []HeaderArrives
  <1>1. Lookup => HeaderArrives
    <2> SUFFICES ASSUME Lookup PROVE HeaderArrives
      OBVIOUS
    <2>1. Heading
      BY DEF Lookup
    <2> QED
      BY <2>1 DEF Heading, HeaderArrives, After
  <1> QED
    BY <1>1, LookupHolds, PTL

\* An answer is the question and the resource records of all rows.
THEOREM AnswersHoldRows == Spec => []AnswerHoldsRows
  <1>1. Lookup => AnswerHoldsRows
    <2> SUFFICES ASSUME Lookup, pc = "answered" PROVE AnswerHoldsRows
      BY DEF AnswerHoldsRows
    <2> DEFINE q == Len(request)
               n == Len(rr)
               B == Byte \cup {Garbage}
    <2>1. Phase /\ Built /\ Places /\ Text
      BY DEF Lookup
    <2>2. /\ Len(ends) = n + 1 /\ n = Len(rows) /\ n \in Nat /\ q > HeaderLen
      BY <2>1, LenProperties DEF Phase, Places, After
    <2>3. /\ sum \in Nat /\ q \in Nat /\ ends[1] = q /\ q <= sum /\ ends[n + 1] = sum
      BY <2>1, <2>2, PlaceFacts
    <2>4. /\ Len(msg) = sum /\ used = sum /\ msg \in Seq(B)
          /\ \A i \in (HeaderLen + 1)..q : msg[i] = request[i]
          /\ \A k \in 1..n : \A j \in 1..rr[k].rrlen : msg[ends[k] + j] = written(rr[k])[j]
      BY <2>1, <2>3 DEF Text, After, Filled
    <2>5. SubSeq(msg, HeaderLen + 1, ends[1]) = SubSeq(request, HeaderLen + 1, q)
      <3> DEFINE S == Byte
                 u == SubSeq(msg, 13, q)
                 v == SubSeq(request, 13, q)
      <3>1. request \in Seq(S)
        BY <2>1 DEF Phase
      <3>2. \A i \in 13..q : msg[i] \in B /\ request[i] \in S
        <4>1. \A i \in 13..q : i \in 1..Len(msg) /\ i \in 1..Len(request)
          BY <2>3, <2>4
        <4> QED
          BY <2>4, <3>1, <4>1, ElementOfSeq
      <3> HIDE DEF S, B, q
      <3> q \in Int /\ 13 \in Int /\ 13 <= q
        BY <2>2, <2>3 DEF HeaderLen
      <3>3. /\ u \in Seq(B) /\ Len(u) = q - 13 + 1
            /\ \A i \in 1..(q - 13 + 1) : u[i] = msg[13 + i - 1]
        BY <3>2, SubSeqProperties
      <3>4. /\ v \in Seq(S) /\ Len(v) = q - 13 + 1
            /\ \A i \in 1..(q - 13 + 1) : v[i] = request[13 + i - 1]
        BY <3>2, SubSeqProperties
      <3> HIDE DEF u, v
      <3>5. \A i \in 1..(q - 13 + 1) : u[i] = v[i]
        <4> TAKE i \in 1..(q - 13 + 1)
        <4>1. 13 + i - 1 \in (HeaderLen + 1)..q
          BY <2>3 DEF HeaderLen
        <4> QED
          BY <2>4, <3>3, <3>4, <4>1
      <3>6. u = v
        BY <3>3, <3>4, <3>5, SeqEqual
      <3> QED
        BY <2>3, <3>6 DEF u, v, HeaderLen
    <2>6. ASSUME NEW k \in 1..Len(rows)
          PROVE  SubSeq(msg, ends[k] + 1, ends[k + 1]) = ResourceRecord(rows[k])
      <3> DEFINE w == written(rr[k])
                 a == ends[k]
                 b == ends[k + 1]
                 l == rr[k].rrlen
                 u == SubSeq(msg, a + 1, b)
                 S == Byte
      <3>1. k \in 1..n /\ k \in 1..(n + 1) /\ k + 1 \in 1..(n + 1)
        BY <2>2, <2>6
      <3>2. /\ a \in Nat /\ b \in Nat /\ b <= sum /\ b = a + l /\ l \in Nat
            /\ w \in Seq(S) /\ Len(w) = l
        BY <2>1, <2>2, <3>1, PlaceFacts
      <3>3. w = ResourceRecord(rows[k])
        <4>1. rows[k] \in Row
          BY <2>1, <2>6, ElementOfSeq DEF Phase
        <4> QED
          BY <2>1, <3>1, <4>1 DEF Built
      <3>4. \A j \in 1..l : msg[a + j] = w[j]
        BY <2>4, <3>1
      <3> HIDE DEF w, a, b, l, S, B
      <3>5. /\ u \in Seq(B) /\ Len(u) = b - (a + 1) + 1
            /\ \A i \in 1..(b - (a + 1) + 1) : u[i] = msg[a + 1 + i - 1]
        <4>1. \A i \in (a + 1)..b : i \in 1..Len(msg)
          BY <2>3, <2>4, <3>2
        <4>2. \A i \in (a + 1)..b : msg[i] \in B
          BY <2>4, <4>1, ElementOfSeq
        <4> DEFINE c == a + 1
        <4>3. c \in Int /\ b \in Int /\ \A i \in c..b : msg[i] \in B
          BY <3>2, <4>2
        <4> HIDE DEF c
        <4> DEFINE t == SubSeq(msg, c, b)
        <4>4. /\ t \in Seq(B) /\ Len(t) = IF c <= b THEN b - c + 1 ELSE 0
              /\ \A i \in 1..(b - c + 1) : t[i] = msg[c + i - 1]
          BY <4>3, SubSeqProperties
        <4>5. u = t
          BY DEF u, c
        <4> HIDE DEF t
        <4>6. Len(t) = b - c + 1
          BY <3>2, <4>3, <4>4 DEF c
        <4> QED
          BY <4>4, <4>5, <4>6 DEF c
      <3> HIDE DEF u
      <3>6. b - (a + 1) + 1 = l
        BY <3>2
      <3>7. \A i \in 1..l : u[i] = w[i]
        <4> TAKE i \in 1..l
        <4>1. a + 1 + i - 1 = a + i
          BY <3>2
        <4> QED
          BY <3>4, <3>5, <3>6, <4>1
      <3>8. u = w
        BY <3>2, <3>5, <3>6, <3>7, SeqEqual
      <3> QED
        BY <3>3, <3>8 DEF u, a, b
    <2> QED
      BY <2>2, <2>3, <2>4, <2>5, <2>6 DEF AnswerHoldsRows
  <1> QED
    BY <1>1, LookupHolds, PTL

\* Every variable has its type.
THEOREM TypesHold == Spec => []TypeOK
  <1>1. Lookup => TypeOK
    <2> SUFFICES ASSUME Lookup PROVE TypeOK
      OBVIOUS
    <2>1. Phase /\ Places /\ Text
      BY DEF Lookup
    <2>2. Len(rr) \in 0..Len(rows)
      BY <2>1, LenProperties DEF Phase
    <2> QED
      BY <2>1, <2>2 DEF Phase, Places, Text, TypeOK, Before, After
  <1> QED
    BY <1>1, LookupHolds, PTL
====
