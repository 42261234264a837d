---- MODULE NamesProofs ----
(***************************************************************************)
(* Proofs about Names, for names of any length and any table of zones: the *)
(* two directions of convertDomainName are inverse, the type of a question *)
(* is read behind its name, and findZoneName misses no zone around a name. *)
(***************************************************************************)
EXTENDS Names, SequenceTheorems, WellFoundedInduction, TLAPS

----------------------------------------------------------------------------
(* Names and their form on the wire.                                       *)

LEMMA NameBytes ==
    ASSUME NEW n \in Seq(Letter \cup {Dot})
    PROVE  n \in Seq(0..255) /\ Len(n) \in Nat
  <1> DEFINE S == Letter \cup {Dot}
             T == 0..255
  <1>1. n \in Seq(S) /\ S \subseteq T
    BY LetterAssumption DEF Dot
  <1> HIDE DEF S, T
  <1>2. n \in Seq(T) /\ Len(n) \in Nat
    BY <1>1, SeqMonotonic, LenProperties
  <1> QED
    BY <1>2 DEF T

\* A label begins at the start of a name and behind every dot.
LEMMA LabelHere ==
    ASSUME NEW n, Len(n) \in Nat, WellFormed(n),
           NEW i \in 1..(Len(n) + 1), i = 1 \/ IsDot(n, i - 1)
    PROVE  /\ LabelEnd(n, i) \in i..(Len(n) + 1)
           /\ IsLabel(n, i - 1, LabelEnd(n, i))
           /\ LabelEnd(n, i) - i \in 1..63
  <1>1. PICK d \in 0..(i - 1), e \in i..(Len(n) + 1) : IsLabel(n, d, e)
    BY DEF WellFormed
  <1>2. d = i - 1
    <2> SUFFICES ASSUME d < i - 1 PROVE FALSE
      OBVIOUS
    <2>1. i - 1 \in (d + 1)..(e - 1)
      OBVIOUS
    <2>2. IsDot(n, i - 1)
      OBVIOUS
    <2> QED
      BY <1>1, <2>1, <2>2 DEF IsLabel
  <1>3. \E f \in i..(Len(n) + 1) : IsLabel(n, i - 1, f)
    BY <1>1, <1>2
  <1>4. LabelEnd(n, i) \in i..(Len(n) + 1) /\ IsLabel(n, i - 1, LabelEnd(n, i))
    BY <1>3 DEF LabelEnd
  <1> DEFINE f == LabelEnd(n, i)
  <1>5. f - (i - 1) - 1 \in 1..63
    BY <1>4 DEF IsLabel, MaxLabel
  <1> HIDE DEF f
  <1>6. f \in Int
    BY <1>4 DEF f
  <1>7. f - (i - 1) - 1 = f - i
    BY <1>6
  <1>8. f - i \in 1..63
    BY <1>5, <1>7
  <1> QED
    BY <1>4, <1>8 DEF f

\* It ends at the first dot, or with the name.
LEMMA LabelEndsAt ==
    ASSUME NEW n, Len(n) \in Nat, WellFormed(n),
           NEW i \in 1..(Len(n) + 1), i = 1 \/ IsDot(n, i - 1),
           NEW e \in i..(Len(n) + 1), e = Len(n) + 1 \/ IsDot(n, e),
           \A k \in i..(e - 1) : ~IsDot(n, k)
    PROVE  LabelEnd(n, i) = e
  <1> DEFINE f == LabelEnd(n, i)
  <1>1. f \in i..(Len(n) + 1) /\ IsLabel(n, i - 1, f)
    BY LabelHere
  <1>2. f = Len(n) + 1 \/ IsDot(n, f)
    BY <1>1 DEF IsLabel
  <1>3. \A k \in i..(f - 1) : ~IsDot(n, k)
    BY <1>1 DEF IsLabel
  <1> HIDE DEF f
  <1>4. ~(f < e)
    BY <1>1, <1>2
  <1>5. ~(e < f)
    BY <1>1, <1>3
  <1> QED
    BY <1>1, <1>4, <1>5 DEF f

\* What is written on the wire, place by place.
LEMMA WireBytes ==
    ASSUME NEW n, n \in Seq(0..255), Len(n) \in Nat, WellFormed(n)
    PROVE  /\ Wire(n) \in Seq(0..255) /\ Len(Wire(n)) = Len(n) + 2
           /\ Wire(n)[Len(n) + 2] = 0
           /\ \A i \in 1..(Len(n) + 1) :
                IF i = 1 \/ IsDot(n, i - 1)
                THEN Wire(n)[i] = LabelEnd(n, i) - i
                ELSE Wire(n)[i] = n[i - 1]
  <1> DEFINE m == Len(n) + 2
             byte(i) == IF i = m THEN 0
                        ELSE IF i = 1 \/ IsDot(n, i - 1) THEN LabelEnd(n, i) - i
                        ELSE n[i - 1]
  <1>1. Wire(n) = [i \in 1..m |-> byte(i)]
    BY DEF Wire
  <1>2. \A i \in 1..(Len(n) + 1) :
          IF i = 1 \/ IsDot(n, i - 1) THEN byte(i) = LabelEnd(n, i) - i ELSE byte(i) = n[i - 1]
    OBVIOUS
  <1>3. byte(m) = 0
    OBVIOUS
  <1>4. \A i \in 1..m : byte(i) \in 0..255
    <2> TAKE i \in 1..m
    <2>1. CASE i = m
      BY <2>1, <1>3
    <2>2. CASE i # m /\ (i = 1 \/ IsDot(n, i - 1))
      <3>1. i \in 1..(Len(n) + 1)
        BY <2>2
      <3>2. LabelEnd(n, i) - i \in 1..63
        BY <2>2, <3>1, LabelHere
      <3> QED
        BY <2>2, <3>1, <3>2, <1>2
    <2>3. CASE i # m /\ ~(i = 1 \/ IsDot(n, i - 1))
      <3>1. i - 1 \in 1..Len(n) /\ i \in 1..(Len(n) + 1)
        BY <2>3
      <3>2. n[i - 1] \in 0..255
        BY <3>1, ElementOfSeq
      <3> QED
        BY <2>3, <3>1, <3>2, <1>2
    <2> QED
      BY <2>1, <2>2, <2>3
  <1> HIDE DEF byte
  <1>5. m \in Nat
    OBVIOUS
  <1>6. Wire(n) \in Seq(0..255) /\ Len(Wire(n)) = m
    BY <1>1, <1>4, <1>5
  <1>7. \A i \in 1..m : Wire(n)[i] = byte(i)
    BY <1>1
  <1> QED
    BY <1>2, <1>3, <1>6, <1>7

LEMMA NamesAreSequences ==
    ASSUME NEW n \in Name
    PROVE  n \in Seq(0..255) /\ n \in Seq(Letter \cup {Dot}) /\ Len(n) \in Nat
  <1>1. n \in Seq(Letter \cup {Dot})
    <2>1. CASE n = Root
      BY <2>1 DEF Root
    <2>2. CASE WellFormed(n)
      BY <2>2 DEF WellFormed
    <2> QED
      BY <2>1, <2>2, NamesAssumption
  <1> QED
    BY <1>1, NameBytes

----------------------------------------------------------------------------
(* The inductive invariant of convertDomainName.                           *)

Input ==
    /\ name \in Name /\ zones \in ZoneTable /\ (use = "host" => name # Root)
    /\ pc \in {"encode", "decode", "type", "search", "scan", "table", "done"}

\* All bytes are written but the length of the label that is being copied.
Encoding == pc = "encode" =>
    /\ use = "host" /\ text = <<>>
    /\ wire \in Seq(0..255) /\ Len(wire) = src /\ src \in 1..(Len(name) + 1)
    /\ len \in 1..src /\ (len = 1 \/ IsDot(name, len - 1))
    /\ \A k \in len..(src - 1) : ~IsDot(name, k)
    /\ \A i \in 1..src : i # len => wire[i] = Wire(name)[i]

Wired == pc # "encode" => wire = ClientWire(name)

\* The labels before src are decoded, with the dot behind them.
Decoding == pc = "decode" =>
    /\ name = Root => text = <<>> /\ len = 0
    /\ name # Root =>
        /\ src \in 1..(Len(name) + 2) /\ len = wire[src]
        /\ src = Len(name) + 2 => text = name
        /\ src # Len(name) + 2 =>
            (src = 1 \/ IsDot(name, src - 1)) /\ text = SubSeq(name, 1, src - 1)

Decoded == pc \notin {"encode", "decode"} => text = name

CodingInv == Input /\ Encoding /\ Wired /\ Decoding /\ Decoded

\* What the assumption says of a name that is not the root.
LEMMA ProperName ==
    ASSUME NEW n \in Name, n # Root
    PROVE  WellFormed(n) /\ n \in Seq(0..255) /\ Len(n) \in Nat
  BY NamesAssumption, NamesAreSequences

\* The first length is that of the first label, and positive as a char.
LEMMA FirstLength ==
    ASSUME NEW n \in Name, n # Root
    PROVE  Wire(n)[1] \in 1..63 /\ Signed(Wire(n)[1]) = Wire(n)[1]
  <1>1. WellFormed(n) /\ n \in Seq(0..255) /\ Len(n) \in Nat
    BY ProperName
  <1>2. Wire(n)[1] = LabelEnd(n, 1) - 1
    BY <1>1, WireBytes
  <1>3. LabelEnd(n, 1) - 1 \in 1..63
    <2>1. 1 \in 1..(Len(n) + 1)
      BY <1>1
    <2> QED
      BY <2>1, <1>1, LabelHere
  <1>4. Wire(n)[1] \in 1..63
    BY <1>2, <1>3
  <1> QED
    BY <1>4 DEF Signed

LEMMA CodingInit == Init => CodingInv
  <1> SUFFICES ASSUME Init PROVE CodingInv
    OBVIOUS
  <1>1. Input
    BY DEF Init, Input
  <1>2. CASE use = "host"
    <2>1. pc = "encode" /\ wire = <<0>> /\ src = 1 /\ len = 1 /\ text = <<>>
      BY <1>2 DEF Init
    <2>2. Len(name) \in Nat
      BY <1>1, NamesAreSequences DEF Input
    <2>3. Encoding
      BY <1>2, <2>1, <2>2 DEF Encoding
    <2> QED
      BY <1>1, <2>1, <2>3 DEF CodingInv, Wired, Decoding, Decoded
  <1>3. CASE use # "host"
    <2>1. pc = "decode" /\ wire = ClientWire(name) /\ src = 1 /\ len = wire[1] /\ text = <<>>
      BY <1>3 DEF Init
    <2>2. Len(name) \in Nat /\ name \in Seq(0..255)
      BY <1>1, NamesAreSequences DEF Input
    <2>3. name = Root => len = 0
      BY <2>1 DEF ClientWire
    <2>4. SubSeq(name, 1, 0) = <<>>
      BY <2>2, SubSeqEmpty
    <2>5. Decoding
      BY <2>1, <2>2, <2>3, <2>4 DEF Decoding
    <2> QED
      BY <1>1, <2>1, <2>5 DEF CodingInv, Encoding, Wired, Decoded
  <1> QED
    BY <1>2, <1>3

LEMMA LetterStep ==
    ASSUME CodingInv, EncodeLetter
    PROVE  CodingInv'
  <1> DEFINE L == Len(name)
  <1>1. /\ pc = "encode" /\ pc' = pc /\ src <= L /\ ~IsDot(name, src)
        /\ wire' = Append(wire, name[src]) /\ src' = src + 1 /\ len' = len
        /\ text' = text /\ name' = name /\ use' = use /\ zones' = zones
    BY DEF EncodeLetter, input
  <1>2. name \in Name /\ name # Root
    BY <1>1 DEF CodingInv, Input, Encoding
  <1>3. WellFormed(name) /\ name \in Seq(0..255) /\ L \in Nat
    BY <1>2, ProperName
  <1>4. /\ use = "host" /\ text = <<>>
        /\ wire \in Seq(0..255) /\ Len(wire) = src /\ src \in 1..(L + 1)
        /\ len \in 1..src /\ (len = 1 \/ IsDot(name, len - 1))
        /\ \A k \in len..(src - 1) : ~IsDot(name, k)
        /\ \A i \in 1..src : i # len => wire[i] = Wire(name)[i]
    BY <1>1 DEF CodingInv, Encoding
  <1>5. src \in 1..L /\ name[src] \in 0..255
    <2>1. src \in 1..L
      BY <1>1, <1>3, <1>4
    <2> QED
      BY <2>1, <1>3, ElementOfSeq
  <1>6. /\ wire' \in Seq(0..255) /\ Len(wire') = src + 1
        /\ \A i \in 1..src : wire'[i] = wire[i]
        /\ wire'[src + 1] = name[src]
    BY <1>1, <1>4, <1>5, AppendProperties
  <1>7. Wire(name)[src + 1] = name[src]
    <2>1. src + 1 \in 1..(L + 1) /\ src + 1 # 1 /\ (src + 1) - 1 = src
      BY <1>5, <1>3
    <2> QED
      BY <2>1, <1>1, <1>3, WireBytes
  <1>8. \A i \in 1..(src + 1) : i # len => wire'[i] = Wire(name)[i]
    <2> TAKE i \in 1..(src + 1)
    <2>1. CASE i = src + 1
      BY <2>1, <1>6, <1>7
    <2>2. CASE i # src + 1
      <3>1. i \in 1..src
        BY <2>2, <1>5
      <3> QED
        BY <3>1, <1>4, <1>6
    <2> QED
      BY <2>1, <2>2
  <1>9. \A k \in len..((src + 1) - 1) : ~IsDot(name, k)
    <2> TAKE k \in len..((src + 1) - 1)
    <2>1. k = src \/ k \in len..(src - 1)
      BY <1>4
    <2> QED
      BY <2>1, <1>1, <1>4
  <1>10. Encoding'
    <2>1. src + 1 \in 1..(L + 1) /\ len \in 1..(src + 1)
      BY <1>3, <1>4, <1>5
    <2>2. /\ use' = "host" /\ text' = <<>> /\ wire' \in Seq(0..255) /\ Len(wire') = src'
          /\ src' \in 1..(Len(name') + 1) /\ len' \in 1..src'
      BY <2>1, <1>1, <1>4, <1>6
    <2>3. len' = 1 \/ IsDot(name', len' - 1)
      BY <1>1, <1>4
    <2>4. \A k \in len'..(src' - 1) : ~IsDot(name', k)
      BY <1>1, <1>9
    <2>5. \A i \in 1..src' : i # len' => wire'[i] = Wire(name')[i]
      BY <1>1, <1>8
    <2> QED
      BY <2>2, <2>3, <2>4, <2>5 DEF Encoding
  <1> QED
    BY <1>1, <1>10 DEF CodingInv, Input, Wired, Decoding, Decoded

LEMMA DotStep ==
    ASSUME CodingInv, EncodeDot
    PROVE  CodingInv'
  <1> DEFINE L == Len(name)
             w == Append(wire, Dot)
  <1>1. /\ pc = "encode" /\ pc' = pc /\ src <= L /\ IsDot(name, src)
        /\ wire' = [w EXCEPT ![len] = Len(wire) - len] /\ src' = src + 1
        /\ len' = Len(wire) + 1
        /\ text' = text /\ name' = name /\ use' = use /\ zones' = zones
    BY DEF EncodeDot, input
  <1>2. name \in Name /\ name # Root
    BY <1>1 DEF CodingInv, Input, Encoding
  <1>3. WellFormed(name) /\ name \in Seq(0..255) /\ L \in Nat
    BY <1>2, ProperName
  <1>4. /\ use = "host" /\ text = <<>>
        /\ wire \in Seq(0..255) /\ Len(wire) = src /\ src \in 1..(L + 1)
        /\ len \in 1..src /\ (len = 1 \/ IsDot(name, len - 1))
        /\ \A k \in len..(src - 1) : ~IsDot(name, k)
        /\ \A i \in 1..src : i # len => wire[i] = Wire(name)[i]
    BY <1>1 DEF CodingInv, Encoding
  <1>5. src \in 1..L /\ len \in 1..(L + 1) /\ src \in len..(L + 1)
    BY <1>1, <1>3, <1>4
  <1>6. LabelEnd(name, len) = src
    BY <1>1, <1>3, <1>4, <1>5, LabelEndsAt
  <1>7. Wire(name)[len] = src - len /\ src - len \in 1..63
    BY <1>3, <1>4, <1>5, <1>6, WireBytes, LabelHere
  <1>8. /\ w \in Seq(0..255) /\ Len(w) = src + 1
        /\ \A i \in 1..src : w[i] = wire[i]
    <2>1. Dot \in 0..255
      BY DEF Dot
    <2> QED
      BY <2>1, <1>4, AppendProperties
  <1>9. /\ wire' \in Seq(0..255) /\ Len(wire') = src + 1
        /\ \A i \in 1..(src + 1) : wire'[i] = IF i = len THEN src - len ELSE w[i]
    <2>1. len \in 1..Len(w) /\ src - len \in 0..255
      BY <1>4, <1>7, <1>8
    <2>2. wire' = [w EXCEPT ![len] = src - len]
      BY <1>1, <1>4
    <2> HIDE DEF w
    <2> QED
      BY <2>1, <2>2, <1>8, ExceptSeq
  <1> HIDE DEF w
  <1>10. \A i \in 1..(src + 1) : i # src + 1 => wire'[i] = Wire(name)[i]
    <2> TAKE i \in 1..(src + 1)
    <2> HAVE i # src + 1
    <2>1. i \in 1..src
      BY <1>5
    <2>2. CASE i = len
      BY <2>2, <1>7, <1>9
    <2>3. CASE i # len
      BY <2>1, <2>3, <1>4, <1>8, <1>9
    <2> QED
      BY <2>2, <2>3
  <1>11. Encoding'
    <2>1. src + 1 \in 1..(L + 1) /\ src + 1 \in 1..(src + 1)
      BY <1>3, <1>4, <1>5
    <2>2. /\ use' = "host" /\ text' = <<>> /\ wire' \in Seq(0..255) /\ Len(wire') = src'
          /\ src' \in 1..(Len(name') + 1) /\ len' \in 1..src'
      BY <2>1, <1>1, <1>4, <1>9
    <2>3. len' = 1 \/ IsDot(name', len' - 1)
      <3>1. (src + 1) - 1 = src
        BY <1>5
      <3> QED
        BY <3>1, <1>1, <1>4
    <2>4. \A k \in len'..(src' - 1) : ~IsDot(name', k)
      BY <1>1, <1>4, <1>5
    <2>5. \A i \in 1..src' : i # len' => wire'[i] = Wire(name')[i]
      BY <1>1, <1>4, <1>10
    <2> QED
      BY <2>2, <2>3, <2>4, <2>5 DEF Encoding
  <1> QED
    BY <1>1, <1>11 DEF CodingInv, Input, Wired, Decoding, Decoded

\* The name is coded.
LEMMA EndStep ==
    ASSUME CodingInv, EncodeEnd
    PROVE  CodingInv'
  <1> DEFINE L == Len(name)
             w == Append(wire, 0)
  <1>1. /\ pc = "encode" /\ pc' = "decode" /\ src = L + 1
        /\ wire' = [w EXCEPT ![len] = Len(wire) - len] /\ src' = 1
        /\ len' = Signed(wire'[1])
        /\ text' = text /\ name' = name /\ use' = use /\ zones' = zones
    BY DEF EncodeEnd, input
  <1>2. name \in Name /\ name # Root
    BY <1>1 DEF CodingInv, Input, Encoding
  <1>3. WellFormed(name) /\ name \in Seq(0..255) /\ L \in Nat
    BY <1>2, ProperName
  <1>4. /\ use = "host" /\ text = <<>>
        /\ wire \in Seq(0..255) /\ Len(wire) = src /\ src \in 1..(L + 1)
        /\ len \in 1..src /\ (len = 1 \/ IsDot(name, len - 1))
        /\ \A k \in len..(src - 1) : ~IsDot(name, k)
        /\ \A i \in 1..src : i # len => wire[i] = Wire(name)[i]
    BY <1>1 DEF CodingInv, Encoding
  <1>5. len \in 1..(L + 1) /\ src \in len..(L + 1)
    BY <1>1, <1>3, <1>4
  <1>6. LabelEnd(name, len) = src
    BY <1>1, <1>3, <1>4, <1>5, LabelEndsAt
  <1>7. Wire(name)[len] = src - len /\ src - len \in 1..63
    BY <1>3, <1>4, <1>5, <1>6, WireBytes, LabelHere
  <1>8. /\ w \in Seq(0..255) /\ Len(w) = src + 1
        /\ \A i \in 1..src : w[i] = wire[i]
        /\ w[src + 1] = 0
    <2>1. 0 \in 0..255
      OBVIOUS
    <2> QED
      BY <2>1, <1>4, AppendProperties
  <1>9. /\ wire' \in Seq(0..255) /\ Len(wire') = src + 1
        /\ \A i \in 1..(src + 1) : wire'[i] = IF i = len THEN src - len ELSE w[i]
    <2>1. len \in 1..Len(w) /\ src - len \in 0..255
      BY <1>4, <1>7, <1>8
    <2>2. wire' = [w EXCEPT ![len] = src - len]
      BY <1>1, <1>4
    <2> HIDE DEF w
    <2> QED
      BY <2>1, <2>2, <1>8, ExceptSeq
  <1> HIDE DEF w
  <1>10. Wire(name) \in Seq(0..255) /\ Len(Wire(name)) = L + 2 /\ Wire(name)[L + 2] = 0
    BY <1>3, WireBytes
  <1>11. \A i \in 1..(src + 1) : wire'[i] = Wire(name)[i]
    <2> TAKE i \in 1..(src + 1)
    <2>1. CASE i = len
      BY <2>1, <1>7, <1>9
    <2>2. CASE i = src + 1
      <3>1. src + 1 = L + 2 /\ i # len
        BY <2>2, <1>1, <1>3, <1>4
      <3> QED
        BY <3>1, <2>2, <1>8, <1>9, <1>10
    <2>3. CASE i # len /\ i # src + 1
      <3>1. i \in 1..src
        BY <2>3, <1>4
      <3> QED
        BY <3>1, <2>3, <1>4, <1>8, <1>9
    <2> QED
      BY <2>1, <2>2, <2>3
  <1>12. wire' = Wire(name)
    <2>1. Len(wire') = Len(Wire(name)) /\ Len(wire') = src + 1
      BY <1>1, <1>3, <1>9, <1>10
    <2> QED
      BY <2>1, <1>9, <1>10, <1>11, SeqEqual
  <1>13. Wired'
    BY <1>1, <1>2, <1>12 DEF Wired, ClientWire
  <1>14. Decoding'
    <2>1. len' = wire'[1]
      BY <1>1, <1>2, <1>12, FirstLength
    <2>2. SubSeq(name, 1, 0) = <<>>
      BY <1>3, SubSeqEmpty
    <2>3. 1 \in 1..(L + 2) /\ 1 # L + 2
      BY <1>3
    <2> QED
      BY <1>1, <1>2, <1>4, <2>1, <2>2, <2>3 DEF Decoding
  <1> QED
    BY <1>1, <1>13, <1>14 DEF CodingInv, Input, Encoding, Decoded

\* A label of the name, as it is read back, and what is behind it.
LEMMA LabelOnWire ==
    ASSUME NEW n \in Name, n # Root,
           NEW i \in 1..(Len(n) + 1), i = 1 \/ IsDot(n, i - 1)
    PROVE  LET w == Wire(n)
               e == LabelEnd(n, i)
           IN  /\ e \in i..(Len(n) + 1) /\ w[i] = e - i /\ w[i] > 0
               /\ SubSeq(w, i + 1, i + w[i]) = SubSeq(n, i, e - 1)
               /\ e = Len(n) + 1 => Signed(w[e + 1]) = 0
               /\ e # Len(n) + 1 => IsDot(n, e) /\ Signed(w[e + 1]) = w[e + 1] /\ w[e + 1] > 0
  <1> DEFINE w == Wire(n)
             e == LabelEnd(n, i)
             L == Len(n)
  <1>1. WellFormed(n) /\ n \in Seq(0..255) /\ L \in Nat
    BY ProperName
  <1>2. e \in i..(L + 1) /\ e - i \in 1..63 /\ IsLabel(n, i - 1, e)
    BY <1>1, LabelHere
  <1>3. w[i] = e - i /\ w \in Seq(0..255) /\ Len(w) = L + 2 /\ w[L + 2] = 0
    BY <1>1, WireBytes
  <1>4. (e = L + 1 \/ IsDot(n, e)) /\ \A k \in i..(e - 1) : ~IsDot(n, k)
    <2>1. (i - 1) + 1 = i
      OBVIOUS
    <2> QED
      BY <2>1, <1>2 DEF IsLabel
  <1>5. \A k \in (i + 1)..e : w[k] = n[k - 1]
    <2> TAKE k \in (i + 1)..e
    <2>1. k \in 1..(L + 1) /\ k # 1 /\ k - 1 \in i..(e - 1)
      BY <1>1, <1>2
    <2> QED
      BY <2>1, <1>1, <1>4, WireBytes
  <1> HIDE DEF w, e, L
  <1>6. SubSeq(w, i + 1, e) = SubSeq(n, i, e - 1)
    <2>1. \A k \in (i + 1)..e : w[k] \in 0..255
      <3> TAKE k \in (i + 1)..e
      <3>1. k \in 1..Len(w)
        BY <1>1, <1>2, <1>3
      <3> QED
        BY <3>1, <1>3, ElementOfSeq
    <2>2. \A k \in i..(e - 1) : n[k] \in 0..255
      <3> TAKE k \in i..(e - 1)
      <3>1. k \in 1..Len(n)
        BY <1>1, <1>2 DEF L
      <3> QED
        BY <3>1, <1>1, ElementOfSeq
    <2>3. /\ SubSeq(w, i + 1, e) \in Seq(0..255) /\ Len(SubSeq(w, i + 1, e)) = e - i
          /\ \A k \in 1..(e - i) : SubSeq(w, i + 1, e)[k] = w[i + k]
      <3>1. i + 1 \in Int /\ e \in Int /\ e - (i + 1) + 1 = e - i
            /\ \A k \in 1..(e - i) : (i + 1) + k - 1 = i + k
        BY <1>2
      <3>2. i + 1 <= e
        BY <1>2
      <3> QED
        BY <2>1, <3>1, <3>2, SubSeqProperties
    <2>4. /\ SubSeq(n, i, e - 1) \in Seq(0..255) /\ Len(SubSeq(n, i, e - 1)) = e - i
          /\ \A k \in 1..(e - i) : SubSeq(n, i, e - 1)[k] = n[i + k - 1]
      <3>1. i \in Int /\ e - 1 \in Int /\ (e - 1) - i + 1 = e - i /\ i <= e - 1
        BY <1>2
      <3> QED
        BY <2>2, <3>1, SubSeqProperties
    <2>5. \A k \in 1..(e - i) : w[i + k] = n[i + k - 1]
      <3> TAKE k \in 1..(e - i)
      <3>1. i + k \in (i + 1)..e
        BY <1>2
      <3> QED
        BY <3>1, <1>5
    <2> DEFINE s == SubSeq(w, i + 1, e)
               t == SubSeq(n, i, e - 1)
    <2>6. Len(s) = Len(t) /\ Len(s) = e - i /\ \A k \in 1..(e - i) : s[k] = t[k]
      BY <2>3, <2>4, <2>5
    <2>7. s \in Seq(0..255) /\ t \in Seq(0..255)
      BY <2>3, <2>4
    <2> HIDE DEF s, t
    <2>8. s = t
      BY <2>6, <2>7, SeqEqual
    <2> QED
      BY <2>8 DEF s, t
  <1>7. i + w[i] = e /\ w[i] > 0
    BY <1>2, <1>3
  <1>8. e = L + 1 => Signed(w[e + 1]) = 0
    <2> HAVE e = L + 1
    <2>1. e + 1 = L + 2
      BY <1>1
    <2> QED
      BY <2>1, <1>3 DEF Signed
  <1>9. e # L + 1 => IsDot(n, e) /\ Signed(w[e + 1]) = w[e + 1] /\ w[e + 1] > 0
    <2> HAVE e # L + 1
    <2>1. IsDot(n, e)
      BY <1>4
    <2>2. e + 1 \in 1..(L + 1) /\ (e + 1) - 1 = e
      BY <1>1, <1>2
    <2>3. LabelEnd(n, e + 1) - (e + 1) \in 1..63
      BY <2>1, <2>2, <1>1, LabelHere DEF L
    <2>4. w[e + 1] \in 1..63
      BY <2>1, <2>2, <2>3, <1>1, WireBytes DEF w, L
    <2> DEFINE v == w[e + 1]
    <2>5. v \in 1..63
      BY <2>4
    <2> HIDE DEF v
    <2>6. Signed(v) = v /\ v > 0
      BY <2>5 DEF Signed
    <2> QED
      BY <2>1, <2>6 DEF v
  <1> QED
    BY <1>2, <1>3, <1>6, <1>7, <1>8, <1>9 DEF w, e, L

LEMMA LabelStep ==
    ASSUME CodingInv, DecodeLabel
    PROVE  CodingInv'
  <1> DEFINE L == Len(name)
             e == LabelEnd(name, src)
  <1>1. /\ pc = "decode" /\ pc' = pc /\ len > 0
        /\ src' = src + len + 1 /\ len' = Signed(wire[src']) /\ wire' = wire
        /\ text' = text \o SubSeq(wire, src + 1, src + len)
                        \o IF len' > 0 THEN <<Dot>> ELSE <<>>
        /\ name' = name /\ use' = use /\ zones' = zones
    BY DEF DecodeLabel, input
  <1>2. name \in Name /\ name # Root /\ wire = Wire(name)
    BY <1>1 DEF CodingInv, Input, Wired, Decoding, ClientWire
  <1>3. /\ WellFormed(name) /\ name \in Seq(0..255) /\ L \in Nat
        /\ name \in Seq(Letter \cup {Dot})
    BY <1>2, ProperName, NamesAreSequences
  <1>4. /\ src \in 1..(L + 2) /\ len = wire[src]
        /\ src = L + 2 => text = name
        /\ src # L + 2 =>
            (src = 1 \/ IsDot(name, src - 1)) /\ text = SubSeq(name, 1, src - 1)
    BY <1>1, <1>2 DEF CodingInv, Decoding
  <1>5. src # L + 2
    BY <1>1, <1>2, <1>3, <1>4, WireBytes
  <1>6. src \in 1..(L + 1)
    BY <1>3, <1>4, <1>5
  <1>7. /\ e \in src..(L + 1) /\ len = e - src
        /\ SubSeq(wire, src + 1, src + len) = SubSeq(name, src, e - 1)
        /\ e = L + 1 => Signed(wire[e + 1]) = 0
        /\ e # L + 1 => IsDot(name, e) /\ Signed(wire[e + 1]) = wire[e + 1] /\ wire[e + 1] > 0
    BY <1>2, <1>4, <1>5, <1>6, LabelOnWire
  <1> HIDE DEF e
  <1>8. src' = e + 1
    BY <1>1, <1>6, <1>7
  <1>9. /\ text \o SubSeq(wire, src + 1, src + len) = SubSeq(name, 1, e - 1)
        /\ SubSeq(name, 1, e - 1) \in Seq(0..255)
    <2>1. 1 \in 1..(Len(name) + 1) /\ src - 1 \in (1 - 1)..Len(name)
          /\ e - 1 \in (src - 1)..Len(name) /\ (src - 1) + 1 = src
      BY <1>3, <1>6, <1>7
    <2>2. SubSeq(name, 1, src - 1) \o SubSeq(name, (src - 1) + 1, e - 1)
            = SubSeq(name, 1, e - 1)
      BY <2>1, <1>3, ConcatAdjacentSubSeq
    <2>3. \A k \in 1..(e - 1) : name[k] \in 0..255
      <3> TAKE k \in 1..(e - 1)
      <3>1. k \in 1..Len(name)
        BY <2>1
      <3> QED
        BY <3>1, <1>3, ElementOfSeq
    <2>4. SubSeq(name, 1, e - 1) \in Seq(0..255)
      BY <2>1, <2>3, SubSeqProperties
    <2> QED
      BY <2>1, <2>2, <2>4, <1>4, <1>5, <1>7
  <1>10. Decoding'
    <2>1. CASE e = L + 1
      <3>1. len' = 0
        BY <2>1, <1>1, <1>7, <1>8
      <3>2. text' = SubSeq(name, 1, e - 1) \o <<>>
        <4> DEFINE t == text \o SubSeq(wire, src + 1, src + len)
        <4>1. text' = t \o IF len' > 0 THEN <<Dot>> ELSE <<>>
          BY <1>1
        <4>2. ~(len' > 0)
          BY <3>1
        <4>3. t = SubSeq(name, 1, e - 1)
          BY <1>9
        <4> HIDE DEF t
        <4>4. text' = t \o <<>>
          BY <4>1, <4>2
        <4> QED
          BY <4>3, <4>4
      <3>3. SubSeq(name, 1, e - 1) = name
        <4>1. e - 1 = Len(name)
          BY <2>1, <1>3
        <4> QED
          BY <4>1, <1>3, SubSeqFull
      <3>4. text' = name
        BY <3>2, <3>3, <1>3, ConcatEmptySeq
      <3>5. src' = L + 2 /\ src' \in 1..(L + 2)
        BY <2>1, <1>3, <1>8
      <3>6. len' = wire'[src']
        BY <3>1, <3>5, <1>1, <1>2, <1>3, WireBytes
      <3> QED
        BY <1>1, <1>2, <3>4, <3>5, <3>6 DEF Decoding
    <2>2. CASE e # L + 1
      <3>1. IsDot(name, e) /\ len' = wire[src'] /\ len' > 0
        BY <2>2, <1>1, <1>7, <1>8
      <3>2. text' = SubSeq(name, 1, e - 1) \o <<Dot>>
        BY <3>1, <1>1, <1>9
      <3>3. e \in 1..Len(name) /\ 1 \in 1..Len(name) /\ e \in 1..Len(name)
        BY <2>2, <1>3, <1>6, <1>7
      <3>4. SubSeq(name, 1, e) = SubSeq(name, 1, e - 1) \o <<name[e]>>
        BY <3>3, <1>3, SubSeqRecursiveSecond
      <3>5. text' = SubSeq(name, 1, e)
        BY <3>1, <3>2, <3>4 DEF IsDot
      <3>6. src' - 1 = e /\ src' \in 1..(L + 2) /\ src' # L + 2
        BY <3>3, <1>3, <1>8
      <3>7. IsDot(name', src' - 1) /\ text' = SubSeq(name', 1, src' - 1)
        BY <1>1, <3>1, <3>5, <3>6
      <3>8. src' \in 1..(Len(name') + 2) /\ len' = wire'[src'] /\ src' # Len(name') + 2
        BY <1>1, <3>1, <3>6
      <3> QED
        BY <1>1, <1>2, <3>7, <3>8 DEF Decoding
    <2> QED
      BY <2>1, <2>2
  <1> QED
    BY <1>1, <1>10 DEF CodingInv, Input, Encoding, Wired, Decoded

\* No length is left to read: the name is there.
LEMMA DecodedStep ==
    ASSUME CodingInv, DecodeEnd
    PROVE  CodingInv'
  <1> DEFINE L == Len(name)
  <1>1. /\ pc = "decode" /\ pc' \in {"type", "search"} /\ len <= 0
        /\ UNCHANGED <<wire, src, len, text, name, use, zones>>
    BY DEF DecodeEnd, input
  <1>2. text = name
    <2>1. CASE name = Root
      BY <2>1, <1>1 DEF CodingInv, Decoding, Root
    <2>2. CASE name # Root
      <3>1. name \in Name /\ wire = Wire(name)
        BY <2>2, <1>1 DEF CodingInv, Input, Wired, ClientWire
      <3>2. /\ src \in 1..(L + 2) /\ len = wire[src]
            /\ src = L + 2 => text = name
            /\ src # L + 2 => src = 1 \/ IsDot(name, src - 1)
        BY <1>1, <2>2 DEF CodingInv, Decoding
      <3>3. L \in Nat
        BY <3>1, NamesAreSequences
      <3>4. src # L + 2 => wire[src] > 0
        <4> HAVE src # L + 2
        <4>1. src \in 1..(L + 1)
          BY <3>2, <3>3
        <4> QED
          BY <4>1, <2>2, <3>1, <3>2, LabelOnWire
      <3>5. ~(wire[src] > 0)
        <4>1. wire \in Seq(0..255) /\ Len(wire) = L + 2
          BY <2>2, <3>1, ProperName, WireBytes
        <4>2. src \in 1..Len(wire)
          BY <4>1, <3>2, <3>3
        <4>3. wire[src] \in 0..255
          BY <4>1, <4>2, ElementOfSeq
        <4>4. len \in 0..255
          BY <4>3, <3>2
        <4>5. ~(len > 0)
          BY <4>4, <1>1
        <4> QED
          BY <4>5, <3>2
      <3> QED
        BY <3>2, <3>4, <3>5
    <2> QED
      BY <2>1, <2>2
  <1> QED
    BY <1>1, <1>2 DEF CodingInv, Input, Encoding, Wired, Decoding, Decoded

\* Neither extractQuestion nor the search changes the name again.
LEMMA LaterStep ==
    ASSUME CodingInv, extractQuestion \/ findZoneName \/ strConvert \/ UNCHANGED vars
    PROVE  CodingInv'
  <1>1. CASE UNCHANGED vars
    BY <1>1 DEF CodingInv, vars, input, result, Input, Encoding, Wired, Decoding, Decoded
  <1>2. CASE extractQuestion \/ findZoneName \/ strConvert
    <2>1. /\ pc \in {"type", "search", "scan", "table"}
          /\ pc' \in {"search", "scan", "table", "done"}
          /\ UNCHANGED <<wire, src, len, text, name, use, zones>>
      BY <1>2 DEF extractQuestion, findZoneName, FindExact, ScanBehind, Scan, Finds,
                  strConvert, input
    <2> QED
      BY <2>1 DEF CodingInv, Input, Encoding, Wired, Decoding, Decoded
  <1> QED
    BY <1>1, <1>2

LEMMA CodingNext == CodingInv /\ [Next]_vars => CodingInv'
  BY LetterStep, DotStep, EndStep, LabelStep, DecodedStep, LaterStep
  DEF Next, convertDomainName

LEMMA CodingAlways == Spec => []CodingInv
  BY CodingInit, CodingNext, PTL DEF Spec

\* A name comes back from the wire as it was put on it: whatever its length and its
\* labels, the lengths that convertDomainName writes are those that it reads.
THEOREM NamesComeBack == Spec => []NameComesBack
  <1>1. CodingInv => NameComesBack
    BY DEF CodingInv, Wired, Decoded, NameComesBack
  <1> QED
    BY <1>1, CodingAlways, PTL

----------------------------------------------------------------------------
(* The type of a question.                                                 *)

Typed == pc \notin {"encode", "decode", "type"} /\ use # "host" =>
    typeAt = Len(name) + 2

LEMMA TypedNext == CodingInv /\ Typed /\ [Next]_vars => Typed'
  <1> SUFFICES ASSUME CodingInv, Typed, [Next]_vars PROVE Typed'
    OBVIOUS
  <1>1. CASE UNCHANGED vars
    BY <1>1 DEF Typed, vars, input, result
  <1>2. CASE convertDomainName
    BY <1>2 DEF Typed, convertDomainName, EncodeLetter, EncodeDot, EncodeEnd,
                DecodeLabel, DecodeEnd, input, result
  <1>3. CASE extractQuestion
    <2>1. text = name
      BY <1>3 DEF CodingInv, Decoded, extractQuestion
    <2> QED
      BY <1>3, <2>1 DEF Typed, extractQuestion, input
  <1>4. CASE findZoneName \/ strConvert
    <2>1. /\ pc \in {"search", "scan", "table"}
          /\ UNCHANGED <<typeAt, name, use>>
      BY <1>4 DEF findZoneName, FindExact, ScanBehind, Scan, strConvert, input
    <2> QED
      BY <2>1 DEF Typed
  <1> QED
    BY <1>1, <1>2, <1>3, <1>4 DEF Next

\* The place that extractQuestion computes from the decoded name is behind the name on
\* the wire, whatever its labels.
THEOREM TypesBehindNames == Spec => []TypeBehindName
  <1>1. Init => Typed
    BY DEF Init, Typed
  <1>2. CodingInv /\ Typed => TypeBehindName
    <2> SUFFICES ASSUME CodingInv, Typed, pc \notin {"decode", "type"}, use # "host",
                        name # Root
                 PROVE  typeAt = Len(wire)
      BY DEF TypeBehindName
    <2>1. pc # "encode" /\ wire = Wire(name) /\ name \in Name
      BY DEF CodingInv, Input, Encoding, Wired, ClientWire
    <2>2. Len(wire) = Len(name) + 2
      BY <2>1, ProperName, WireBytes
    <2> QED
      BY <2>1, <2>2 DEF Typed
  <1> QED
    BY <1>1, <1>2, TypedNext, CodingAlways, PTL DEF Spec

----------------------------------------------------------------------------
(* The smallest zone.                                                      *)

\* testZoneName finds a zone where there is one, and 0 otherwise.
LEMMA TestZoneName ==
    ASSUME NEW z, zones \in Seq(Name)
    PROVE  LET i == testZoneName(z)
           IN  /\ i \in 0..Len(zones)
               /\ i > 0 => zones[i] = z
               /\ i = 0 => z \notin Zones
  <1> DEFINE T == {i \in 1..Len(zones) : zones[i] = z}
  <1>1. Len(zones) \in Nat
    BY LenProperties
  <1>2. CASE T = {}
    BY <1>1, <1>2 DEF testZoneName, Zones
  <1>3. CASE T # {}
    <2> DEFINE R == OpToRel(<, Nat)
    <2>1. PICK i \in T : \A j \in T : ~(<<j, i>> \in R)
      <3>1. T \subseteq Nat
        BY <1>1
      <3>2. IsWellFoundedOn(R, Nat)
        BY NatLessThanWellFounded
      <3> HIDE DEF T, R
      <3> QED
        BY <1>3, <3>1, <3>2, WFMin
    <2>2. \A j \in T : ~(j < i)
      <3> TAKE j \in T
      <3>1. <<j, i>> \in Nat \X Nat
        BY <1>1
      <3> QED
        BY <2>1, <3>1 DEF OpToRel
    <2>3. \A j \in 1..(i - 1) : zones[j] # z
      BY <1>1, <2>2
    <2>4. \E k \in 1..Len(zones) : zones[k] = z /\ \A j \in 1..(k - 1) : zones[j] # z
      BY <2>3
    <2>5. testZoneName(z) \in 1..Len(zones) /\ zones[testZoneName(z)] = z
      BY <2>4 DEF testZoneName
    <2> QED
      BY <1>1, <2>5
  <1> QED
    BY <1>2, <1>3

\* There is a last dot, or none, before every place of a name.
LEMMA DotBeforeHere ==
    ASSUME NEW n \in Name, NEW i \in 1..(Len(n) + 1)
    PROVE  LET d == DotBefore(n, i)
           IN  /\ d \in 0..(i - 1) /\ (d = 0 \/ IsDot(n, d))
               /\ \A k \in (d + 1)..(i - 1) : ~IsDot(n, k)
  <1>1. \E d \in 0..(i - 1) :
            (d = 0 \/ IsDot(n, d)) /\ \A k \in (d + 1)..(i - 1) : ~IsDot(n, k)
    <2>1. CASE n = Root
      <3>1. i = 1
        BY <2>1 DEF Root
      <3>2. 0 \in 0..(i - 1) /\ \A k \in (0 + 1)..(i - 1) : FALSE
        BY <3>1
      <3> QED
        BY <3>2
    <2>2. CASE n # Root
      <3>1. WellFormed(n) /\ Len(n) \in Nat
        BY <2>2, ProperName
      <3>2. PICK d \in 0..(i - 1), e \in i..(Len(n) + 1) : IsLabel(n, d, e)
        BY <3>1 DEF WellFormed
      <3>3. (d = 0 \/ IsDot(n, d)) /\ \A k \in (d + 1)..(e - 1) : ~IsDot(n, k)
        BY <3>2 DEF IsLabel
      <3>4. \A k \in (d + 1)..(i - 1) : k \in (d + 1)..(e - 1)
        BY <3>1
      <3> QED
        BY <3>3, <3>4
    <2> QED
      BY <2>1, <2>2
  <1> QED
    BY <1>1 DEF DotBefore

\* The search has found no zone behind the places from here on.
Searching == pc = "scan" =>
    /\ use # "soa" /\ name \notin Zones /\ from \in 1..(Len(name) + 2)
    /\ \A d \in 1..Len(name) : d >= from /\ IsDot(name, d) => Suffix(name, d) \notin Zones

Unfound == pc \notin {"table", "done"} => found = 0

\* The search stops at the smallest zone.
SmallestFound ==
    IF found = 0 THEN \A z \in Zones : ~Encloses(z, name)
    ELSE /\ Encloses(zones[found], name)
         /\ IF name \in Zones THEN zones[found] = name
            ELSE \A z \in Zones : Encloses(z, name) => Len(zones[found]) <= Len(z)

Searched == pc \in {"table", "done"} /\ use # "soa" /\ ~stale => SmallestFound

SearchInv == Searching /\ Unfound /\ Searched

\* The zones are names, and the name that is searched is the decoded one.
LEMMA SearchedNames ==
    ASSUME CodingInv
    PROVE  /\ zones \in Seq(Name) /\ name \in Name /\ Len(name) \in Nat
           /\ pc \notin {"encode", "decode"} => text = name
           /\ \A i \in 1..Len(zones) : zones[i] \in Zones
  <1>1. name \in Name /\ zones \in ZoneTable
    BY DEF CodingInv, Input
  <1>2. zones \in Seq(Name \ {Root}) /\ Name \ {Root} \subseteq Name
    BY <1>1, NamesAssumption
  <1>3. zones \in Seq(Name)
    <2> DEFINE S == Name \ {Root}
    <2>1. zones \in Seq(S) /\ S \subseteq Name
      BY <1>2
    <2> HIDE DEF S
    <2> QED
      BY <2>1, SeqMonotonic
  <1> QED
    BY <1>1, <1>3, NamesAreSequences DEF CodingInv, Decoded, Zones

LEMMA ExactStep ==
    ASSUME CodingInv, SearchInv, FindExact
    PROVE  SearchInv'
  <1> DEFINE i == testZoneName(text)
  <1>1. /\ pc = "search" /\ text = name /\ found = 0
        /\ UNCHANGED <<name, zones, use, stale>>
    BY SearchedNames DEF FindExact, SearchInv, Unfound, input
  <1>2. /\ zones \in Seq(Name) /\ Len(name) \in Nat
        /\ i \in 0..Len(zones) /\ (i > 0 => zones[i] = name) /\ (i = 0 => name \notin Zones)
    BY <1>1, SearchedNames, TestZoneName
  <1>3. \/ i > 0 /\ found' = i /\ pc' = "table"
        \/ i = 0 /\ use = "soa" /\ pc' = "done" /\ found' = found
        \/ i = 0 /\ use # "soa" /\ pc' = "scan" /\ from' = Len(text) + 2 /\ found' = found
    BY DEF FindExact, Finds
  <1> HIDE DEF i
  <1>4. Zones' = Zones
    BY <1>1 DEF Zones
  <1>5. CASE i > 0 /\ found' = i /\ pc' = "table"
    <2>1. found' \in 1..Len(zones) /\ zones[found'] = name /\ name \in Zones
      BY <1>2, <1>5, SearchedNames DEF Zones
    <2>2. SmallestFound'
      BY <1>1, <1>4, <2>1 DEF SmallestFound, Encloses
    <2> QED
      BY <1>5, <2>2 DEF SearchInv, Searching, Unfound, Searched
  <1>6. CASE i = 0 /\ use = "soa" /\ pc' = "done" /\ found' = found
    BY <1>1, <1>6 DEF SearchInv, Searching, Unfound, Searched
  <1>7. CASE i = 0 /\ use # "soa" /\ pc' = "scan" /\ from' = Len(text) + 2 /\ found' = found
    <2>1. from' \in 1..(Len(name) + 2) /\ \A d \in 1..Len(name) : ~(d >= from')
      BY <1>1, <1>2, <1>7
    <2>2. Searching'
      BY <1>1, <1>2, <1>4, <1>7, <2>1 DEF Searching
    <2> QED
      BY <1>1, <1>7, <2>2 DEF SearchInv, Unfound, Searched
  <1> QED
    BY <1>3, <1>5, <1>6, <1>7

LEMMA BehindStep ==
    ASSUME CodingInv, SearchInv, ScanBehind
    PROVE  SearchInv'
  <1>1. /\ pc = "scan" /\ found = 0 /\ text = name /\ from = Len(name) + 2
        /\ Len(name) \in Nat /\ UNCHANGED <<name, zones, use>>
    BY SearchedNames DEF ScanBehind, SearchInv, Unfound, input
  <1>2. Zones' = Zones
    BY <1>1 DEF Zones
  <1>3. CASE from' = from - 1 /\ UNCHANGED <<pc, found, stale>>
    <2>1. from' \in 1..(Len(name) + 2) /\ \A d \in 1..Len(name) : ~(d >= from')
      BY <1>1, <1>3
    <2>2. Searching'
      BY <1>1, <1>2, <1>3, <2>1 DEF SearchInv, Searching
    <2> QED
      BY <1>1, <1>3, <2>2 DEF SearchInv, Unfound, Searched
  <1>4. CASE pc' = "table" /\ stale' = TRUE
    BY <1>4 DEF SearchInv, Searching, Unfound, Searched
  <1> QED
    BY <1>3, <1>4 DEF ScanBehind, Finds

\* The rests of a name, from the right, are the zones that enclose it.
LEMMA ScanStep ==
    ASSUME CodingInv, SearchInv, Scan
    PROVE  SearchInv'
  <1> DEFINE L == Len(name)
             d == DotBefore(text, from)
             i == testZoneName(Suffix(text, d))
  <1>1. /\ pc = "scan" /\ found = 0 /\ text = name /\ from <= L + 1
        /\ name \in Name /\ L \in Nat /\ zones \in Seq(Name)
        /\ UNCHANGED <<name, zones, use, stale>>
    BY SearchedNames DEF Scan, SearchInv, Unfound, input
  <1>2. /\ use # "soa" /\ name \notin Zones /\ from \in 1..(L + 2)
        /\ \A k \in 1..L : k >= from /\ IsDot(name, k) => Suffix(name, k) \notin Zones
    BY <1>1 DEF SearchInv, Searching
  <1>3. \/ i > 0 /\ found' = i /\ pc' = "table"
        \/ i = 0 /\ d > 0 /\ from' = d /\ pc' = pc /\ found' = found
        \/ i = 0 /\ d = 0 /\ pc' = "done" /\ found' = found
    BY DEF Scan, Finds
  <1>4. from \in 1..(L + 1)
    BY <1>1, <1>2
  <1>5. /\ d \in 0..(from - 1) /\ (d = 0 \/ IsDot(name, d))
        /\ \A k \in (d + 1)..(from - 1) : ~IsDot(name, k)
    BY <1>1, <1>4, DotBeforeHere
  <1>6. /\ i \in 0..Len(zones) /\ (i > 0 => zones[i] = Suffix(name, d))
        /\ (i = 0 => Suffix(name, d) \notin Zones)
    BY <1>1, TestZoneName
  <1> HIDE DEF L, d, i
  <1>7. Zones' = Zones
    BY <1>1 DEF Zones
  <1>8. Suffix(name, 0) = name
    <2>1. name \in Seq(0..255)
      BY <1>1, NamesAreSequences
    <2> QED
      BY <2>1, SubSeqFull DEF Suffix
  \* No zone lies between the dot and the places that the search has left.
  <1>9. \A k \in 1..L : k > d /\ IsDot(name, k) => Suffix(name, k) \notin Zones
    <2> TAKE k \in 1..L
    <2> HAVE k > d /\ IsDot(name, k)
    <2>1. ~(k \in (d + 1)..(from - 1))
      BY <1>5
    <2>2. k >= from
      BY <2>1, <1>4, <1>5
    <2> QED
      BY <2>2, <1>2
  <1>10. CASE i > 0 /\ found' = i /\ pc' = "table"
    <2>1. i \in 1..Len(zones) /\ zones[i] = Suffix(name, d) /\ zones[i] \in Zones
      BY <1>6, <1>10 DEF Zones
    <2>2. d \in 1..L /\ IsDot(name, d)
      <3>1. d # 0
        BY <2>1, <1>2, <1>8
      <3> QED
        BY <3>1, <1>1, <1>4, <1>5
    <2>3. Encloses(zones[i], name)
      BY <2>1, <2>2 DEF Encloses, L
    <2>4. \A z \in Zones : Encloses(z, name) => Len(zones[i]) <= Len(z)
      <3> SUFFICES ASSUME NEW z \in Zones, Encloses(z, name) PROVE Len(zones[i]) <= Len(z)
        OBVIOUS
      <3>1. PICK k \in 1..L : IsDot(name, k) /\ z = Suffix(name, k)
        BY <1>2 DEF Encloses, L
      <3>2. k <= d
        BY <3>1, <1>9, <2>2
      <3>3. \A m \in 1..L : Len(Suffix(name, m)) = L - m
        <4> TAKE m \in 1..L
        <4>1. \A x \in (m + 1)..L : name[x] \in 0..255
          <5> TAKE x \in (m + 1)..L
          <5>1. x \in 1..Len(name) /\ name \in Seq(0..255)
            BY <1>1, NamesAreSequences DEF L
          <5> QED
            BY <5>1, ElementOfSeq
        <4>2. m + 1 \in Int /\ L \in Int /\ L - (m + 1) + 1 = L - m
          BY <1>1
        <4> DEFINE length == Len(SubSeq(name, m + 1, L))
        <4>3. length = IF m + 1 <= L THEN L - (m + 1) + 1 ELSE 0
          BY <4>1, <4>2, SubSeqProperties
        <4> HIDE DEF length
        <4>4. length = L - m
          BY <1>1, <4>3
        <4>5. Len(SubSeq(name, m + 1, L)) = L - m
          BY <4>4 DEF length
        <4>6. Suffix(name, m) = SubSeq(name, m + 1, L)
          BY DEF Suffix, L
        <4> QED
          BY <4>5, <4>6
      <3>4. Len(zones[i]) = L - d /\ Len(z) = L - k
        BY <2>1, <2>2, <3>1, <3>3
      <3> QED
        BY <1>1, <2>2, <3>2, <3>4
    <2>5. SmallestFound'
      <3>1. found' # 0
        BY <2>1, <1>10
      <3> QED
        BY <3>1, <2>3, <2>4, <1>1, <1>2, <1>7, <1>10 DEF SmallestFound, Encloses, IsDot, Suffix
    <2> QED
      BY <1>10, <2>5 DEF SearchInv, Searching, Unfound, Searched
  <1>11. CASE i = 0 /\ d > 0 /\ from' = d /\ pc' = pc /\ found' = found
    <2>1. d \in 1..(L + 2)
      BY <1>1, <1>4, <1>5, <1>11
    <2>2. \A k \in 1..L : k >= d /\ IsDot(name, k) => Suffix(name, k) \notin Zones
      <3> TAKE k \in 1..L
      <3> HAVE k >= d /\ IsDot(name, k)
      <3>1. CASE k = d
        BY <3>1, <1>6, <1>11
      <3>2. CASE k # d
        BY <3>2, <1>5, <1>9
      <3> QED
        BY <3>1, <3>2
    <2>3. Searching'
      <3>1. use' # "soa" /\ name' \notin Zones' /\ from' \in 1..(Len(name') + 2)
        BY <2>1, <1>1, <1>2, <1>7, <1>11 DEF L
      <3>2. \A k \in 1..Len(name') :
                k >= from' /\ IsDot(name', k) => Suffix(name', k) \notin Zones'
        BY <2>2, <1>1, <1>7, <1>11 DEF L
      <3> QED
        BY <3>1, <3>2 DEF Searching
    <2> QED
      BY <1>1, <1>11, <2>3 DEF SearchInv, Unfound, Searched
  <1>12. CASE i = 0 /\ d = 0 /\ pc' = "done" /\ found' = found
    <2>1. \A k \in 1..L : IsDot(name, k) => Suffix(name, k) \notin Zones
      BY <1>9, <1>12
    <2>2. \A z \in Zones : ~Encloses(z, name)
      BY <2>1, <1>2 DEF Encloses, L
    <2>3. SmallestFound'
      BY <2>2, <1>1, <1>7, <1>12 DEF SmallestFound, Encloses
    <2> QED
      BY <1>12, <2>3 DEF SearchInv, Searching, Unfound, Searched
  <1> QED
    BY <1>3, <1>10, <1>11, <1>12

LEMMA SearchNext == CodingInv /\ SearchInv /\ [Next]_vars => SearchInv'
  <1> SUFFICES ASSUME CodingInv, SearchInv, [Next]_vars PROVE SearchInv'
    OBVIOUS
  <1>1. CASE UNCHANGED vars
    BY <1>1 DEF SearchInv, Searching, Unfound, Searched, SmallestFound, Zones, vars, input,
                result
  <1>2. CASE convertDomainName \/ extractQuestion
    <2>1. /\ pc' \in {"encode", "decode", "type", "search"} /\ found' = found
          /\ pc \in {"encode", "decode", "type"}
      BY <1>2 DEF convertDomainName, EncodeLetter, EncodeDot, EncodeEnd, DecodeLabel,
                  DecodeEnd, extractQuestion, result
    <2> QED
      BY <2>1 DEF SearchInv, Searching, Unfound, Searched
  <1>3. CASE strConvert
    <2>1. /\ pc = "table" /\ pc' = "done"
          /\ UNCHANGED <<name, zones, use, found, stale>>
      BY <1>3 DEF strConvert, input
    <2> QED
      BY <2>1 DEF SearchInv, Searching, Unfound, Searched, SmallestFound, Zones
  <1> QED
    BY <1>1, <1>2, <1>3, ExactStep, BehindStep, ScanStep DEF Next, findZoneName

\* Whatever the zones and the name are, findZoneName misses no zone that encloses the
\* name: it looks at the rests of the name from the shortest one, and stops at the first
\* that is a zone.
THEOREM ZonesAreFound == Spec => []ZoneEncloses
  <1>1. Init => SearchInv
    BY DEF Init, SearchInv, Searching, Unfound, Searched
  <1>2. SearchInv => ZoneEncloses
    BY DEF SearchInv, Searched, SmallestFound, ZoneEncloses
  <1> QED
    BY <1>1, <1>2, SearchNext, CodingAlways, PTL DEF Spec
====
