---- MODULE DomainNames ----
(***************************************************************************)
(* Domain names as texts and as they are on the wire.  The codes of the    *)
(* characters are bytes.  This is the form that convertDomainName of       *)
(* mpDNSlib/src/dns/dns.c reads and writes, and rfc1035.txt 3.1 describes.  *)
(***************************************************************************)
EXTENDS Integers, Sequences

CONSTANT Letter     \* the characters of labels

Dot      == 46
MaxLabel == 63    \* the longest label (rfc1035.txt 2.3.4)

IsDot(n, i) == n[i] = Dot

\* The characters between places d and e of n are a label.
IsLabel(n, d, e) ==
    /\ d = 0 \/ IsDot(n, d)
    /\ e = Len(n) + 1 \/ IsDot(n, e)
    /\ \A k \in (d + 1)..(e - 1) : ~IsDot(n, k)
    /\ e - d - 1 \in 1..MaxLabel

\* Every character is in a label or ends one, as does the end of the name.  "Die Daten
\* in der MySQL Datenbank muessen! eine gueltige Syntax haben." (mpdnsmysql.c:12)
WellFormed(n) ==
    /\ n \in Seq(Letter \cup {Dot})
    /\ \A i \in 1..(Len(n) + 1) :
        \E d \in 0..(i - 1), e \in i..(Len(n) + 1) : IsLabel(n, d, e)

Root == <<>>

ASSUME LetterAssumption == Letter \subseteq 1..255 /\ Dot \notin Letter

\* The place behind the label of n that begins at place i.
LabelEnd(n, i) == CHOOSE e \in i..(Len(n) + 1) : IsLabel(n, i - 1, e)

\* A name on the wire (rfc1035.txt 3.1): each label behind its length, and a zero
\* at the end.  Every dot has become the length of the label behind it.
Wire(n) ==
    [i \in 1..(Len(n) + 2) |->
        IF i = Len(n) + 2 THEN 0
        ELSE IF i = 1 \/ IsDot(n, i - 1) THEN LabelEnd(n, i) - i ELSE n[i - 1]]
====
