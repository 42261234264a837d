---- MODULE Win32ServerProofs ----
(***************************************************************************)
(* Theorems about Win32Server: types, the lives of the buffers between two *)
(* threads that do not lock their array, the order of the ends, and that   *)
(* the server is a RequestRelay but for the order of its replies.          *)
(***************************************************************************)
EXTENDS Win32Server, SequenceTheorems, TLAPS

----------------------------------------------------------------------------
(* The inductive invariant.                                                *)

\* Which thread runs while which other one does.
Ends ==
    /\ ~running => in = "ended"
    /\ in \in {"ended", "ini"} => proc = "ended"
    /\ in \in {"read", "grow", "fill", "closed"} => proc # "ended" /\ ~terminatedProc
    /\ proc = "ended" => pData = <<>>

\* Where the lengths that the threads keep lie in the array: it is only cut while the
\* in thread has one, and only grows while the processing thread has one.
Lengths ==
    /\ in = "grow" => Len(pData) <= lenIn
    /\ in = "fill" =>
        /\ Len(pData) <= lenIn + 1
        /\ lenIn + 1 \in DOMAIN pData => pData[lenIn + 1] = nil
        /\ Len(pData) <= lenIn => received \in overlapped
    /\ Busy => lenProc \in 1..Len(pData)

\* A buffer is in one place, but for the one that was freed and is cut off next.
Places ==
    /\ Puts => received > 0
    /\ \A i \in DOMAIN pData : pData[i] <= received /\ pData[i] \notin lost
    /\ \A i \in DOMAIN pData : pData[i] \in freed => proc = "shrink" /\ i = lenProc
    /\ Puts => \A i \in DOMAIN pData : pData[i] # received
    /\ \A i, j \in DOMAIN pData : pData[i] = pData[j] /\ pData[i] # nil => i = j
    /\ freed \subseteq 1..received /\ lost \subseteq 1..received /\ freed \cap lost = {}
    /\ Puts => received \notin freed \cup lost
    /\ \A r \in 1..received :
        \/ r \in freed \cup lost
        \/ Puts /\ r = received
        \/ \E i \in DOMAIN pData : pData[i] = r

\* What the processing thread meets unprocessed, or cuts off, was put meanwhile.
Overlaps ==
    /\ overlapped \subseteq 1..received
    /\ Busy => \A i \in DOMAIN pData : i > lenProc => pData[i] \in overlapped \cup {nil}
    /\ proc = "send" => pData[lenProc] \in processed \cup overlapped \cup {nil}
    /\ proc = "shrink" => pData[lenProc] \in freed \cup overlapped \cup {nil}
    /\ lost \subseteq overlapped

\* Who was answered is freed next, and was processed if nothing overlapped.
Replies ==
    \A k \in DOMAIN replies :
        /\ replies[k] \in processed \cup overlapped
        /\ \/ replies[k] \in freed \cup lost
           \/ proc = "free" /\ replies[k] = pData[lenProc]

Inv == TypeOK /\ Ends /\ Lengths /\ Places /\ Overlaps /\ Replies /\ fault # "doubleFree"

----------------------------------------------------------------------------
(* The array.                                                              *)

LEMMA Numbers ==
    /\ MaxRequests \in Nat /\ MaxStarts \in Nat
    /\ nil = 0 /\ Request = 1..MaxRequests /\ Request \cup {nil} = 0..MaxRequests
  BY Win32Assumption DEF Request, nil

LEMMA ArrayFacts ==
    ASSUME TypeOK
    PROVE  /\ Len(pData) \in Nat /\ DOMAIN pData = 1..Len(pData)
           /\ \A i \in 1..Len(pData) : pData[i] \in 0..MaxRequests
  <1> DEFINE S == Request \cup {nil}
  <1>1. pData \in Seq(S) /\ S = 0..MaxRequests
    BY Numbers DEF TypeOK, DataType
  <1> HIDE DEF S
  <1>2. Len(pData) \in Nat /\ DOMAIN pData = 1..Len(pData)
    BY <1>1, LenProperties
  <1>3. \A i \in 1..Len(pData) : pData[i] \in S
    BY <1>1, ElementOfSeq
  <1> QED
    BY <1>1, <1>2, <1>3

\* What SetLength makes of the array.
LEMMA ResizedFacts ==
    ASSUME TypeOK, NEW n \in Nat
    PROVE  /\ Resized(n) \in Seq(Request \cup {nil}) /\ Len(Resized(n)) = n
           /\ DOMAIN Resized(n) = 1..n
           /\ \A i \in 1..n : Resized(n)[i] = IF i <= Len(pData) THEN pData[i] ELSE 0
  <1> DEFINE S == Request \cup {nil}
             at(i) == IF i \in DOMAIN pData THEN pData[i] ELSE nil
  <1>1. S = 0..MaxRequests /\ nil \in S /\ nil = 0
    BY Numbers
  <1>2. \A i \in 1..n : at(i) \in S /\ at(i) = IF i <= Len(pData) THEN pData[i] ELSE 0
    <2> TAKE i \in 1..n
    <2>1. i \in DOMAIN pData <=> i <= Len(pData)
      BY ArrayFacts
    <2>2. CASE i \in DOMAIN pData
      BY <1>1, <2>1, <2>2, ArrayFacts
    <2>3. CASE i \notin DOMAIN pData
      BY <1>1, <2>1, <2>3
    <2> QED
      BY <2>2, <2>3
  <1>3. Resized(n) = [i \in 1..n |-> at(i)]
    BY DEF Resized
  <1> HIDE DEF S, at
  <1>4. Resized(n) \in Seq(S) /\ Len(Resized(n)) = n /\ DOMAIN Resized(n) = 1..n
    BY <1>2, <1>3
  <1> QED
    BY <1>2, <1>3, <1>4 DEF S

\* The requests of the array are its records but the empty ones.
LEMMA RequestsFacts ==
    ASSUME NEW s, DOMAIN s = 1..Len(s)
    PROVE  \A r : r \in Requests(s) <=> r # 0 /\ \E i \in 1..Len(s) : s[i] = r
  BY DEF Requests, nil

LEMMA InitInv == Init => Inv
  <1> SUFFICES ASSUME Init PROVE Inv
    OBVIOUS
  <1> USE Numbers DEF Init
  <1>1. ControlType
    BY DEF ControlType
  <1>2. DataType
    <2>1. <<>> \in Seq(Request \cup {nil}) /\ <<>> \in Seq(Request)
      OBVIOUS
    <2>2. starts \in 0..MaxStarts /\ received \in 0..MaxRequests /\ lenIn \in Nat /\ lenProc \in Nat
      OBVIOUS
    <2> QED
      BY <2>1, <2>2 DEF DataType
  <1>3. Ends /\ Lengths
    BY DEF Ends, Lengths, Busy
  <1>4. Places /\ Overlaps /\ Replies
    BY DEF Places, Overlaps, Replies, Puts, Busy
  <1> QED
    BY <1>1, <1>2, <1>3, <1>4 DEF Inv, TypeOK

----------------------------------------------------------------------------
(* Every step keeps the invariant.                                         *)

\* The form and the waiting in thread do not touch the array.
LEMMA FormStep == Inv /\ Form => Inv'
  <1> SUFFICES ASSUME Inv, Form PROVE Inv'
    OBVIOUS
  <1> USE Numbers DEF Inv
  <1>1. CASE StartButtonClick
    <2> USE <1>1 DEF StartButtonClick, history, proVars
    <2>1. ControlType'
      BY DEF TypeOK, ControlType
    <2>2. DataType'
      BY DEF TypeOK, DataType
    <2>3. in = "ended" /\ in' = "ini" /\ ~Puts /\ ~Puts' /\ Busy' = Busy
      BY DEF Ends, Puts, Busy
    <2>4. Ends' /\ Lengths'
      BY <2>3 DEF Ends, Lengths
    <2>5. Places' /\ Overlaps' /\ Replies'
      BY <2>3 DEF Places, Overlaps, Replies
    <2> QED
      BY <2>1, <2>2, <2>4, <2>5 DEF TypeOK
  <1>2. CASE StopButtonClick
    BY <1>2 DEF StopButtonClick, TypeOK, ControlType, DataType, Ends, Lengths, Places, Overlaps, Replies, Puts, Busy, history, proVars
  <1>3. CASE FormDestroy
    BY <1>3 DEF FormDestroy, TypeOK, ControlType, DataType, Ends, Lengths, Places, Overlaps, Replies, Puts, Busy, history, proVars
  <1>4. CASE Stopped
    BY <1>4 DEF Stopped, TypeOK, ControlType, DataType, Ends, Lengths, Places, Overlaps, Replies, Puts, Busy, history, proVars, inVars
  <1> QED
    BY <1>1, <1>2, <1>3, <1>4 DEF Form

\* The processing thread starts with an empty array.
LEMMA InIniStep == Inv /\ InIni => Inv'
  <1> SUFFICES ASSUME Inv, InIni PROVE Inv'
    OBVIOUS
  <1> USE Numbers DEF InIni, shell, history
  <1>1. ControlType'
    BY DEF Inv, TypeOK, ControlType
  <1>2. DataType'
    BY DEF Inv, TypeOK, DataType
  <1>3. Ends'
    BY DEF Inv, Ends
  <1>4. Lengths'
    BY DEF Lengths, Busy
  <1>5. Places'
    BY DEF Inv, Places, Ends, Puts
  <1>6. Overlaps'
    BY DEF Inv, Overlaps
  <1>7. Replies'
    BY DEF Inv, Replies, Ends
  <1>8. fault' # "doubleFree"
    BY DEF Inv
  <1> QED
    BY <1>1, <1>2, <1>3, <1>4, <1>5, <1>6, <1>7, <1>8 DEF Inv, TypeOK

\* A datagram gets the next number.
LEMMA InReadStep == Inv /\ InRead => Inv'
  <1> SUFFICES ASSUME Inv, InRead PROVE Inv'
    OBVIOUS
  <1> USE Numbers DEF InRead, shell, history, proVars
  <1>1. ControlType'
    BY DEF Inv, TypeOK, ControlType
  <1>2. DataType'
    BY DEF Inv, TypeOK, DataType
  <1>3. Ends'
    BY DEF Inv, Ends
  <1>4. Lengths'
    BY DEF Inv, Lengths, Busy
  <1>5. Places'
    BY ArrayFacts DEF Inv, TypeOK, DataType, Places, Puts
  <1>6. Overlaps'
    BY DEF Inv, TypeOK, DataType, Overlaps, Busy
  <1>7. Replies'
    BY DEF Inv, Replies
  <1>8. fault' # "doubleFree"
    BY DEF Inv
  <1> QED
    BY <1>1, <1>2, <1>3, <1>4, <1>5, <1>6, <1>7, <1>8 DEF Inv, TypeOK

\* The in thread ends.
LEMMA InClosesStep == Inv /\ InCloses => Inv'
  <1> SUFFICES ASSUME Inv, InCloses PROVE Inv'
    OBVIOUS
  <1> USE Numbers DEF InCloses, shell, history, proVars
  <1>1. ControlType'
    BY DEF Inv, TypeOK, ControlType
  <1>2. DataType'
    BY DEF Inv, TypeOK, DataType
  <1>3. Ends'
    BY DEF Inv, Ends
  <1>4. Lengths'
    BY DEF Inv, Lengths, Busy
  <1>5. Places'
    BY DEF Inv, Places, Puts
  <1>6. Overlaps'
    BY DEF Inv, Overlaps, Busy
  <1>7. Replies'
    BY DEF Inv, Replies
  <1>8. fault' # "doubleFree"
    BY DEF Inv
  <1> QED
    BY <1>1, <1>2, <1>3, <1>4, <1>5, <1>6, <1>7, <1>8 DEF Inv, TypeOK

LEMMA InTerminatedStep == Inv /\ InTerminated => Inv'
  <1> SUFFICES ASSUME Inv, InTerminated PROVE Inv'
    OBVIOUS
  <1> USE Numbers DEF InTerminated, shell, history
  <1>1. ControlType'
    BY DEF Inv, TypeOK, ControlType
  <1>2. DataType'
    BY DEF Inv, TypeOK, DataType
  <1>3. Ends'
    BY DEF Inv, Ends
  <1>4. Lengths'
    BY DEF Inv, Lengths, Busy
  <1>5. Places'
    BY DEF Inv, Places, Puts
  <1>6. Overlaps'
    BY DEF Inv, Overlaps, Busy
  <1>7. Replies'
    BY DEF Inv, Replies
  <1>8. fault' # "doubleFree"
    BY DEF Inv
  <1> QED
    BY <1>1, <1>2, <1>3, <1>4, <1>5, <1>6, <1>7, <1>8 DEF Inv, TypeOK

LEMMA InWaitedStep == Inv /\ InWaited => Inv'
  <1> SUFFICES ASSUME Inv, InWaited PROVE Inv'
    OBVIOUS
  <1> USE Numbers DEF InWaited, shell, history, proVars
  <1>1. ControlType'
    BY DEF Inv, TypeOK, ControlType
  <1>2. DataType'
    BY DEF Inv, TypeOK, DataType
  <1>3. Ends'
    BY DEF Inv, Ends
  <1>4. Lengths'
    BY DEF Lengths, Busy
  <1>5. Places'
    BY DEF Inv, Places, Puts
  <1>6. Overlaps'
    BY DEF Inv, Overlaps, Ends
  <1>7. Replies'
    BY DEF Inv, Replies
  <1>8. fault' # "doubleFree"
    BY DEF Inv
  <1> QED
    BY <1>1, <1>2, <1>3, <1>4, <1>5, <1>6, <1>7, <1>8 DEF Inv, TypeOK

\* What is last in the array is processed next.
LEMMA ProcLookStep == Inv /\ ProcLook => Inv'
  <1> SUFFICES ASSUME Inv, ProcLook PROVE Inv'
    OBVIOUS
  <1> USE Numbers DEF ProcLook, shell, history, inVars
  <1>1. ControlType'
    BY DEF Inv, TypeOK, ControlType
  <1>2. DataType'
    BY DEF Inv, TypeOK, DataType
  <1>3. Ends'
    BY DEF Inv, Ends
  <1>4. Lengths'
    BY DEF Inv, Lengths
  <1>5. Places'
    BY DEF Inv, Places, Puts
  <1>6. Overlaps'
    BY DEF Inv, Overlaps
  <1>7. Replies'
    BY DEF Inv, Replies
  <1>8. fault' # "doubleFree"
    BY DEF Inv
  <1> QED
    BY <1>1, <1>2, <1>3, <1>4, <1>5, <1>6, <1>7, <1>8 DEF Inv, TypeOK

LEMMA ProcProcessStep == Inv /\ ProcProcess => Inv'
  <1> SUFFICES ASSUME Inv, ProcProcess PROVE Inv'
    OBVIOUS
  <1> USE Numbers DEF ProcProcess, shell, inVars
  <1>1. ControlType'
    BY DEF Inv, TypeOK, ControlType
  <1>2. DataType'
    BY DEF Inv, TypeOK, DataType
  <1>3. Ends'
    BY DEF Inv, Ends
  <1>4. Lengths'
    BY DEF Inv, Lengths, Busy
  <1>5. Places'
    BY DEF Inv, Places, Puts
  <1>6. Overlaps'
    BY DEF Inv, Overlaps, Busy
  <1>7. Replies'
    BY DEF Inv, Replies
  <1>8. fault' # "doubleFree"
    BY DEF Inv
  <1> QED
    BY <1>1, <1>2, <1>3, <1>4, <1>5, <1>6, <1>7, <1>8 DEF Inv, TypeOK

LEMMA ProcSendStep == Inv /\ ProcSend => Inv'
  <1> SUFFICES ASSUME Inv, ProcSend PROVE Inv'
    OBVIOUS
  <1> USE Numbers DEF ProcSend, shell, inVars
  <1> DEFINE r == pData[lenProc]
  <1>1. r \in 0..MaxRequests
    BY ArrayFacts DEF Inv, Lengths, Busy
  <1>2. ASSUME ssocket, r # 0
        PROVE  DataType' /\ Replies'
    <2> HIDE DEF r
    <2>1. r \in Request /\ replies \in Seq(Request)
      BY <1>1, <1>2 DEF Inv, TypeOK, DataType
    <2>2. replies' = Append(replies, r)
      BY <1>2 DEF r
    <2>3. /\ replies' \in Seq(Request) /\ DOMAIN replies' = DOMAIN replies \cup {Len(replies) + 1}
          /\ \A k \in DOMAIN replies : replies'[k] = replies[k]
          /\ replies'[Len(replies) + 1] = r
      <3> DEFINE S == Request
      <3>1. replies \in Seq(S) /\ r \in S
        BY <2>1
      <3> HIDE DEF S
      <3>2. /\ Append(replies, r) \in Seq(S) /\ Len(Append(replies, r)) = Len(replies) + 1
            /\ Append(replies, r)[Len(replies) + 1] = r
            /\ \A k \in 1..Len(replies) : Append(replies, r)[k] = replies[k]
        BY <3>1, AppendProperties
      <3>3. DOMAIN replies = 1..Len(replies) /\ Len(replies) \in Nat
        BY <3>1, LenProperties
      <3>4. DOMAIN Append(replies, r) = 1..(Len(replies) + 1)
        BY <3>2, LenProperties
      <3>5. 1..(Len(replies) + 1) = 1..Len(replies) \cup {Len(replies) + 1}
        BY <3>3
      <3>6. Append(replies, r) \in Seq(Request)
        BY <3>2 DEF S
      <3> QED
        BY <2>2, <3>2, <3>3, <3>4, <3>5, <3>6
    <2>4. r \in processed \cup overlapped
      BY <1>1, <1>2 DEF Inv, Overlaps, r
    <2>5. DataType'
      BY <2>3 DEF Inv, TypeOK, DataType
    <2>6. Replies'
      <3>1. ASSUME NEW k \in DOMAIN replies
            PROVE  replies'[k] \in processed \cup overlapped /\ replies'[k] \in freed \cup lost
        BY <2>3 DEF Inv, Replies
      <3>2. proc' = "free" /\ r = pData[lenProc]
        BY DEF r
      <3> QED
        BY <2>3, <2>4, <3>1, <3>2 DEF Replies
    <2> QED
      BY <2>5, <2>6
  <1>3. ASSUME ~(ssocket /\ r # 0)
        PROVE  DataType' /\ Replies'
    <2>1. replies' = replies
      BY <1>3
    <2> HIDE DEF r
    <2>2. DataType'
      BY <2>1 DEF Inv, TypeOK, DataType
    <2>3. Replies'
      BY <2>1 DEF Inv, Replies
    <2> QED
      BY <2>2, <2>3
  <1>4. ControlType'
    BY DEF Inv, TypeOK, ControlType
  <1>5. Ends'
    BY DEF Inv, Ends
  <1>6. Lengths'
    BY DEF Inv, Lengths, Busy
  <1>7. Places'
    BY DEF Inv, Places, Puts
  <1>8. Overlaps'
    BY DEF Inv, Overlaps, Busy
  <1> QED
    BY <1>2, <1>3, <1>4, <1>5, <1>6, <1>7, <1>8 DEF Inv, TypeOK

LEMMA ProcFreeStep == Inv /\ ProcFree => Inv'
  <1> SUFFICES ASSUME Inv, ProcFree PROVE Inv'
    OBVIOUS
  <1> USE Numbers DEF ProcFree, shell, inVars
  <1> DEFINE r == pData[lenProc]
  <1>1. /\ lenProc \in DOMAIN pData /\ DOMAIN pData = 1..Len(pData) /\ Len(pData) \in Nat
        /\ r \in 0..MaxRequests /\ received \in Nat
    BY ArrayFacts DEF Inv, TypeOK, DataType, Lengths, Busy
  <1>2. r \notin freed /\ r \notin lost /\ r <= received /\ (Puts => r # received)
    <2>1. lenProc \in DOMAIN pData /\ proc = "free"
      BY <1>1
    <2> QED
      BY <2>1 DEF Inv, Places
  <1>3. freed' = IF r = 0 THEN freed ELSE freed \cup {r}
    BY DEF r
  <1>4. UNCHANGED <<pData, lenProc, received, lost, overlapped, replies, processed, in, lenIn>>
        /\ proc = "free" /\ proc' = "shrink" /\ fault' = fault
    BY <1>2
  <1>5. ControlType'
    BY <1>4 DEF Inv, TypeOK, ControlType
  <1>6. DataType'
    BY DEF Inv, TypeOK, DataType
  <1>7. Ends'
    BY DEF Inv, Ends
  <1>8. Lengths'
    BY DEF Inv, Lengths, Busy
  <1> HIDE DEF r, ProcFree
  <1>9. Places'
    <2>1. \A i \in DOMAIN pData' : pData'[i] \in freed' => proc' = "shrink" /\ i = lenProc'
      <3> SUFFICES ASSUME NEW i \in DOMAIN pData, pData[i] \in freed' PROVE i = lenProc
        BY <1>4
      <3>1. pData[i] \notin freed
        BY <1>4 DEF Inv, Places
      <3>2. r # 0 /\ pData[i] = pData[lenProc]
        BY <1>3, <3>1 DEF r
      <3> QED
        BY <1>1, <3>2 DEF Inv, Places, r
    <2>2. freed' \subseteq 1..received' /\ freed' \cap lost' = {}
      <3>1. freed \subseteq 1..received /\ freed \cap lost = {}
        BY DEF Inv, Places
      <3>2. r # 0 => r \in 1..received
        BY <1>1, <1>2
      <3> QED
        BY <1>2, <1>3, <1>4, <3>1, <3>2
    <2>3. Puts' => received' \notin freed' \cup lost'
      BY <1>2, <1>3, <1>4 DEF Inv, Places, Puts
    <2>4. \A n \in 1..received :
             \/ n \in freed' \cup lost
             \/ Puts /\ n = received
             \/ \E i \in DOMAIN pData : pData[i] = n
      <3> TAKE n \in 1..received
      <3>1. \/ n \in freed \cup lost
            \/ Puts /\ n = received
            \/ \E i \in DOMAIN pData : pData[i] = n
        BY DEF Inv, Places
      <3>2. n \in freed => n \in freed'
        BY <1>3
      <3> QED
        BY <3>1, <3>2
    <2>5. Puts' <=> Puts
      BY <1>4 DEF Puts
    <2>6. /\ Puts => received > 0
          /\ \A i \in DOMAIN pData : pData[i] <= received /\ pData[i] \notin lost
          /\ Puts => \A i \in DOMAIN pData : pData[i] # received
          /\ \A i, j \in DOMAIN pData : pData[i] = pData[j] /\ pData[i] # nil => i = j
          /\ lost \subseteq 1..received
      BY DEF Inv, Places
    <2> QED
      BY <1>4, <2>1, <2>2, <2>3, <2>4, <2>5, <2>6 DEF Places
  <1>10. Overlaps'
    <2>1. r \in freed' \cup {nil}
      BY <1>3
    <2> QED
      BY <1>4, <2>1 DEF Inv, Overlaps, Busy, r
  <1>11. Replies'
    <2> SUFFICES ASSUME NEW k \in DOMAIN replies
                 PROVE  replies[k] \in processed \cup overlapped /\ replies[k] \in freed' \cup lost
      BY <1>4 DEF Replies
    <2>1. /\ replies[k] \in processed \cup overlapped
          /\ replies[k] \in freed \cup lost \/ replies[k] = r
      BY DEF Inv, Replies, r
    <2>2. replies[k] \in Request
      <3>1. replies \in Seq(Request)
        BY DEF Inv, TypeOK, DataType
      <3> QED
        BY <3>1
    <2>3. replies[k] # 0
      BY <2>2
    <2> QED
      BY <1>3, <2>1, <2>3
  <1> QED
    BY <1>4, <1>5, <1>6, <1>7, <1>8, <1>9, <1>10, <1>11 DEF Inv, TypeOK

\* The array grows by empty records.
LEMMA InGrowStep == Inv /\ InGrow => Inv'
  <1> SUFFICES ASSUME Inv, InGrow PROVE Inv'
    OBVIOUS
  <1> USE Numbers
  <1> DEFINE n == lenIn + 1
  <1>1. /\ Len(pData) \in Nat /\ DOMAIN pData = 1..Len(pData) /\ n \in Nat /\ Len(pData) < n
        /\ lenIn \in Nat /\ \A i \in 1..Len(pData) : pData[i] \in 0..MaxRequests
    BY ArrayFacts DEF InGrow, Inv, TypeOK, DataType, Lengths
  <1>2. /\ pData' \in Seq(Request \cup {nil}) /\ Len(pData') = n /\ DOMAIN pData' = 1..n
        /\ \A i \in 1..n : pData'[i] = IF i <= Len(pData) THEN pData[i] ELSE 0
    BY <1>1, ResizedFacts DEF InGrow, Inv
  <1>3. /\ in = "grow" /\ in' = "fill"
        /\ fault' # "doubleFree" /\ fault' \in {fault, "moved"}
        /\ UNCHANGED <<form, running, isIni, starts, terminatedIn, lenIn, proc, terminatedProc,
                       lenProc, ssocket, received, processed, replies, freed, lost, overlapped>>
    BY DEF InGrow, MayMove, shell, proVars, history, Inv
  <1>4. ControlType'
    BY <1>3 DEF Inv, TypeOK, ControlType
  <1>5. DataType'
    BY <1>2, <1>3 DEF Inv, TypeOK, DataType
  <1>6. Ends'
    BY <1>3 DEF Inv, Ends
  <1>7. Puts /\ Puts' /\ Busy' = Busy
    BY <1>3 DEF Puts, Busy
  <1>8. Lengths'
    BY <1>1, <1>2, <1>3 DEF Inv, Lengths, Busy
  <1>9. \A i \in 1..Len(pData) : i \in DOMAIN pData' /\ pData'[i] = pData[i]
    BY <1>1, <1>2
  <1>10. \A i \in DOMAIN pData' : (i \in DOMAIN pData /\ pData'[i] = pData[i]) \/ pData'[i] = 0
    BY <1>1, <1>2
  <1>11. Places'
    <2>1. received \in Nat /\ received > 0 /\ 0 \notin freed /\ 0 \notin lost
      BY <1>7 DEF Inv, TypeOK, DataType, Places
    <2>2. \A i \in DOMAIN pData' : pData'[i] <= received /\ pData'[i] \notin lost
      BY <1>10, <2>1 DEF Inv, Places
    <2>3. \A i \in DOMAIN pData' : pData'[i] \in freed => proc = "shrink" /\ i = lenProc
      BY <1>10, <2>1 DEF Inv, Places
    <2>4. \A i \in DOMAIN pData' : pData'[i] # received
      BY <1>7, <1>10, <2>1 DEF Inv, Places
    <2>5. \A i, j \in DOMAIN pData' : pData'[i] = pData'[j] /\ pData'[i] # nil => i = j
      BY <1>10 DEF Inv, Places
    <2>6. \A r \in 1..received :
             \/ r \in freed \cup lost
             \/ Puts /\ r = received
             \/ \E i \in DOMAIN pData' : pData'[i] = r
      <3> TAKE r \in 1..received
      <3>1. \/ r \in freed \cup lost
            \/ Puts /\ r = received
            \/ \E i \in DOMAIN pData : pData[i] = r
        BY DEF Inv, Places
      <3> QED
        BY <1>1, <1>9, <3>1
    <2> QED
      BY <1>3, <1>7, <2>1, <2>2, <2>3, <2>4, <2>5, <2>6 DEF Inv, Places
  <1>12. Overlaps'
    <2>1. Busy => lenProc \in DOMAIN pData /\ lenProc \in 1..Len(pData)
      BY <1>1 DEF Inv, Lengths
    <2>2. Busy => pData'[lenProc] = pData[lenProc]
      BY <1>9, <2>1
    <2>3. Busy => \A i \in DOMAIN pData' : i > lenProc => pData'[i] \in overlapped \cup {nil}
      BY <1>10 DEF Inv, Overlaps
    <2> QED
      BY <1>3, <1>7, <2>2, <2>3 DEF Inv, Overlaps, Busy
  <1>13. Replies'
    <2>1. proc = "free" => pData'[lenProc] = pData[lenProc]
      BY <1>1, <1>9 DEF Inv, Lengths, Busy
    <2> QED
      BY <1>3, <2>1 DEF Inv, Replies
  <1> QED
    BY <1>3, <1>4, <1>5, <1>6, <1>8, <1>11, <1>12, <1>13 DEF Inv, TypeOK

\* The rest of the array is freed with the processing thread.
LEMMA ProcTerminatedStep == Inv /\ ProcTerminated => Inv'
  <1> SUFFICES ASSUME Inv, ProcTerminated PROVE Inv'
    OBVIOUS
  <1> USE Numbers
  <1>1. /\ proc = "look" /\ proc' = "ended" /\ terminatedProc /\ pData' = <<>>
        /\ freed' = freed \cup Requests(pData)
        /\ UNCHANGED <<form, running, isIni, starts, in, terminatedIn, lenIn, terminatedProc,
                       lenProc, ssocket, received, processed, replies, lost, overlapped>>
    BY DEF ProcTerminated, shell, inVars
  <1>2. /\ DOMAIN pData = 1..Len(pData) /\ \A i \in DOMAIN pData : pData[i] \in 0..MaxRequests
        /\ received \in Nat
    BY ArrayFacts DEF Inv, TypeOK, DataType
  <1>3. \A r : r \in Requests(pData) <=> r # 0 /\ \E i \in DOMAIN pData : pData[i] = r
    BY <1>2, RequestsFacts
  <1>4. Requests(pData) \cap freed = {} /\ Requests(pData) \cap lost = {}
    BY <1>1, <1>3 DEF Inv, Places
  <1>5. Requests(pData) \subseteq 1..received
    BY <1>2, <1>3 DEF Inv, Places
  <1>6. in \notin {"read", "grow", "fill"} /\ ~Puts
    BY <1>1 DEF Inv, Ends, Puts
  <1>7. fault' = fault
    BY <1>4 DEF ProcTerminated
  <1>8. ControlType'
    BY <1>1, <1>7 DEF Inv, TypeOK, ControlType
  <1>9. DataType'
    <2>1. <<>> \in Seq(Request \cup {nil})
      OBVIOUS
    <2> QED
      BY <1>1, <2>1 DEF Inv, TypeOK, DataType
  <1>10. Ends' /\ Lengths' /\ ~Puts' /\ ~Busy'
    BY <1>1, <1>6 DEF Inv, Ends, Lengths, Puts, Busy
  <1>11. Places'
    <2>1. \A i : i \notin DOMAIN pData'
      BY <1>1
    <2>2. freed' \subseteq 1..received /\ freed' \cap lost = {}
      BY <1>1, <1>4, <1>5 DEF Inv, Places
    <2>3. \A r \in 1..received : r \in freed' \cup lost
      <3> TAKE r \in 1..received
      <3>1. r \in freed \cup lost \/ \E i \in DOMAIN pData : pData[i] = r
        BY <1>6 DEF Inv, Places
      <3>2. r # 0
        OBVIOUS
      <3> QED
        BY <1>1, <1>3, <3>1, <3>2
    <2> QED
      BY <1>1, <1>10, <2>1, <2>2, <2>3 DEF Inv, Places
  <1>12. Overlaps'
    BY <1>1, <1>10 DEF Inv, Overlaps
  <1>13. Replies'
    BY <1>1 DEF Inv, Replies
  <1> QED
    BY <1>7, <1>8, <1>9, <1>10, <1>11, <1>12, <1>13 DEF Inv, TypeOK

\* The request is put at its place, or lost when its place was cut off meanwhile.
LEMMA InFillStep == Inv /\ InFill => Inv'
  <1> SUFFICES ASSUME Inv, InFill PROVE Inv'
    OBVIOUS
  <1> USE Numbers
  <1> DEFINE n == lenIn + 1
  <1>1. /\ in = "fill" /\ in' = "read"
        /\ overlapped' = IF Busy THEN overlapped \cup {received} ELSE overlapped
        /\ UNCHANGED <<form, running, isIni, starts, terminatedIn, lenIn, proc, terminatedProc,
                       lenProc, ssocket, received, processed, replies, freed>>
    BY DEF InFill, shell, proVars
  <1>2. /\ Len(pData) \in Nat /\ DOMAIN pData = 1..Len(pData) /\ lenIn \in Nat
        /\ \A i \in 1..Len(pData) : pData[i] \in 0..MaxRequests
        /\ received \in 1..MaxRequests
        /\ \A k \in DOMAIN replies : replies[k] # 0
    <2>1. replies \in Seq(Request) /\ lenIn \in Nat /\ received \in 0..MaxRequests
      BY DEF Inv, TypeOK, DataType
    <2>2. \A k \in DOMAIN replies : replies[k] \in Request
      BY <2>1
    <2>3. received > 0
      BY <1>1 DEF Inv, Places, Puts
    <2> QED
      BY <2>1, <2>2, <2>3, ArrayFacts DEF Inv
  <1>3. Puts /\ ~Puts' /\ (Busy' <=> Busy)
    BY <1>1 DEF Puts, Busy
  <1>4. Ends'
    <2>1. pData = <<>> => pData' = <<>>
      BY <1>2 DEF InFill
    <2> QED
      BY <1>1, <2>1 DEF Inv, Ends
  <1>5. overlapped \subseteq overlapped' /\ overlapped' \subseteq 1..received
    BY <1>1, <1>2 DEF Inv, Overlaps
  <1>6. /\ received \notin freed \cup lost
        /\ \A i \in DOMAIN pData : pData[i] # received
    BY <1>3 DEF Inv, Places
  <1>7. CASE n \in DOMAIN pData
    <2>1. pData' = [pData EXCEPT ![n] = received] /\ UNCHANGED <<lost, fault>>
      BY <1>7 DEF InFill
    <2>2. /\ DOMAIN pData' = DOMAIN pData /\ pData'[n] = received
          /\ \A i \in DOMAIN pData : i # n => pData'[i] = pData[i]
      BY <1>7, <2>1
    <2>3. pData[n] = 0
      BY <1>1, <1>7 DEF Inv, Lengths
    <2>4. ControlType'
      BY <1>1, <2>1 DEF Inv, TypeOK, ControlType
    <2>5. DataType' /\ Len(pData') = Len(pData)
      <3> DEFINE S == Request \cup {nil}
      <3>1. pData \in Seq(S) /\ received \in S /\ n \in 1..Len(pData)
        BY <1>2, <1>7 DEF Inv, TypeOK, DataType
      <3> HIDE DEF S
      <3>2. pData' \in Seq(S) /\ Len(pData') = Len(pData)
        BY <2>1, <3>1
      <3> QED
        BY <1>1, <3>2 DEF Inv, TypeOK, DataType, S
    <2>6. Lengths'
      BY <1>1, <1>3, <2>5 DEF Inv, Lengths
    <2>7. Places'
      <3>1. \A i \in DOMAIN pData' : pData'[i] <= received /\ pData'[i] \notin lost
        BY <1>2, <1>6, <2>2 DEF Inv, Places
      <3>2. \A i \in DOMAIN pData' : pData'[i] \in freed => proc = "shrink" /\ i = lenProc
        BY <1>6, <2>2 DEF Inv, Places
      <3>3. \A i, j \in DOMAIN pData' : pData'[i] = pData'[j] /\ pData'[i] # nil => i = j
        BY <1>6, <2>2 DEF Inv, Places
      <3>4. \A r \in 1..received : r \in freed \cup lost \/ \E i \in DOMAIN pData' : pData'[i] = r
        <4> TAKE r \in 1..received
        <4>1. \/ r \in freed \cup lost
              \/ r = received
              \/ \E i \in DOMAIN pData : pData[i] = r
          BY <1>3 DEF Inv, Places
        <4>2. CASE r = received
          BY <1>7, <2>2, <4>2
        <4>3. ASSUME NEW i \in DOMAIN pData, pData[i] = r
              PROVE  i \in DOMAIN pData' /\ pData'[i] = r
          BY <2>2, <2>3, <4>3
        <4> QED
          BY <4>1, <4>2, <4>3
      <3> QED
        BY <1>1, <1>3, <2>1, <3>1, <3>2, <3>3, <3>4 DEF Inv, Places
    <2>8. Overlaps'
      <3>1. Busy => received \in overlapped'
        BY <1>1
      <3>2. Busy => \A i \in DOMAIN pData' : i > lenProc => pData'[i] \in overlapped' \cup {nil}
        BY <1>5, <2>2, <3>1 DEF Inv, Overlaps
      <3>3. Busy => lenProc \in DOMAIN pData
        BY <1>2 DEF Inv, Lengths
      <3>4. Busy => pData'[lenProc] = pData[lenProc] \/ pData'[lenProc] \in overlapped'
        BY <2>2, <3>1, <3>3
      <3>5. proc \in {"send", "shrink"} => Busy
        BY DEF Busy
      <3>6. proc = "send" => pData'[lenProc] \in processed \cup overlapped' \cup {nil}
        BY <1>5, <3>4, <3>5 DEF Inv, Overlaps
      <3>7. proc = "shrink" => pData'[lenProc] \in freed \cup overlapped' \cup {nil}
        BY <1>5, <3>4, <3>5 DEF Inv, Overlaps
      <3>8. lost \subseteq overlapped'
        BY <1>5 DEF Inv, Overlaps
      <3> QED
        BY <1>1, <1>3, <1>5, <2>1, <3>2, <3>6, <3>7, <3>8 DEF Overlaps
    <2>9. Replies'
      <3> SUFFICES ASSUME NEW k \in DOMAIN replies
                   PROVE  /\ replies[k] \in processed \cup overlapped'
                          /\ \/ replies[k] \in freed \cup lost
                             \/ proc = "free" /\ replies[k] = pData'[lenProc]
        BY <1>1, <2>1 DEF Replies
      <3>1. /\ replies[k] \in processed \cup overlapped
            /\ \/ replies[k] \in freed \cup lost
               \/ proc = "free" /\ replies[k] = pData[lenProc]
        BY DEF Inv, Replies
      <3>2. proc = "free" => lenProc \in DOMAIN pData
        BY <1>2 DEF Inv, Lengths, Busy
      <3>3. proc = "free" /\ replies[k] = pData[lenProc] => pData'[lenProc] = pData[lenProc]
        BY <1>2, <2>2, <2>3, <3>2
      <3> QED
        BY <1>5, <3>1, <3>3
    <2> QED
      BY <1>4, <2>1, <2>4, <2>5, <2>6, <2>7, <2>8, <2>9 DEF Inv, TypeOK
  <1>8. CASE n \notin DOMAIN pData
    <2>1. /\ lost' = lost \cup {received} /\ fault' \in {fault, "outside"} /\ pData' = pData
      BY <1>8 DEF InFill
    <2>2. ControlType' /\ fault' # "doubleFree"
      BY <1>1, <2>1 DEF Inv, TypeOK, ControlType
    <2>3. DataType'
      BY <1>1, <2>1 DEF Inv, TypeOK, DataType
    <2>4. Lengths'
      BY <1>1, <1>3, <2>1 DEF Inv, Lengths
    <2>5. received \in overlapped
      <3>1. Len(pData) <= lenIn
        BY <1>2, <1>8
      <3> QED
        BY <1>1, <3>1 DEF Inv, Lengths
    <2>6. Places'
      <3>1. \A i \in DOMAIN pData : pData[i] \notin lost'
        BY <1>6, <2>1 DEF Inv, Places
      <3>2. lost' \subseteq 1..received /\ freed \cap lost' = {}
        BY <1>2, <1>6, <2>1 DEF Inv, Places
      <3>3. \A r \in 1..received : r \in freed \cup lost' \/ \E i \in DOMAIN pData : pData[i] = r
        <4> TAKE r \in 1..received
        <4>1. \/ r \in freed \cup lost
              \/ r = received
              \/ \E i \in DOMAIN pData : pData[i] = r
          BY <1>3 DEF Inv, Places
        <4> QED
          BY <2>1, <4>1
      <3> QED
        BY <1>1, <1>3, <2>1, <3>1, <3>2, <3>3 DEF Inv, Places
    <2>7. Overlaps'
      <3>1. lost' \subseteq overlapped'
        BY <1>5, <2>1, <2>5 DEF Inv, Overlaps
      <3> QED
        BY <1>1, <1>3, <1>5, <2>1, <3>1 DEF Inv, Overlaps
    <2>8. Replies'
      BY <1>1, <1>5, <2>1 DEF Inv, Replies
    <2> QED
      BY <1>4, <2>2, <2>3, <2>4, <2>6, <2>7, <2>8 DEF Inv, TypeOK
  <1> QED
    BY <1>7, <1>8

\* The array is cut before the request that was answered; what was put behind it is lost.
LEMMA ProcShrinkStep == Inv /\ ProcShrink => Inv'
  <1> SUFFICES ASSUME Inv, ProcShrink PROVE Inv'
    OBVIOUS
  <1> USE Numbers
  <1> DEFINE n == lenProc - 1
             cut == Requests(pData) \ (Requests(pData') \cup freed)
  <1>1. /\ proc = "shrink" /\ proc' = "look"
        /\ overlapped' = IF Puts THEN overlapped \cup {received} ELSE overlapped
        /\ UNCHANGED <<form, running, isIni, starts, in, terminatedIn, lenIn, terminatedProc,
                       lenProc, ssocket, received, processed, replies, freed>>
        /\ lost' = lost \cup cut /\ pData' = Resized(n)
        /\ fault' \in {fault, "moved"}
    BY DEF ProcShrink, Shrink, MayMove, shell, inVars
  <1>2. /\ Len(pData) \in Nat /\ DOMAIN pData = 1..Len(pData) /\ lenProc \in 1..Len(pData)
        /\ \A i \in 1..Len(pData) : pData[i] \in 0..MaxRequests
        /\ n \in Nat /\ n < Len(pData) /\ received \in 0..MaxRequests /\ lenIn \in Nat
    BY <1>1, ArrayFacts DEF Inv, TypeOK, DataType, Lengths, Busy
  <1>3. /\ pData' \in Seq(Request \cup {nil}) /\ Len(pData') = n /\ DOMAIN pData' = 1..n
        /\ \A i \in 1..n : pData'[i] = pData[i]
    <2>1. \A i \in 1..n : i <= Len(pData)
      BY <1>2
    <2>2. /\ Resized(n) \in Seq(Request \cup {nil}) /\ Len(Resized(n)) = n
          /\ DOMAIN Resized(n) = 1..n
          /\ \A i \in 1..n : Resized(n)[i] = IF i <= Len(pData) THEN pData[i] ELSE 0
      <3> HIDE DEF n
      <3> QED
        BY <1>2, ResizedFacts DEF Inv
    <2> QED
      BY <1>1, <2>1, <2>2
  <1>4. \A i \in DOMAIN pData' : i \in DOMAIN pData /\ i < lenProc /\ pData'[i] = pData[i]
    BY <1>2, <1>3
  <1>5. \A r : r \in cut <=> /\ r # 0 /\ r \notin freed
                             /\ \E i \in DOMAIN pData : pData[i] = r
                             /\ \A i \in DOMAIN pData' : pData'[i] # r
    <2>1. \A r : r \in Requests(pData) <=> r # 0 /\ \E i \in DOMAIN pData : pData[i] = r
      BY <1>2, RequestsFacts
    <2>2. \A r : r \in Requests(pData') <=> r # 0 /\ \E i \in DOMAIN pData' : pData'[i] = r
      BY <1>3, RequestsFacts
    <2> QED
      BY <2>1, <2>2
  <1> HIDE DEF cut
  <1>6. (Puts' <=> Puts) /\ Busy /\ ~Busy'
    BY <1>1 DEF Puts, Busy
  <1>7. ControlType' /\ fault' # "doubleFree"
    BY <1>1 DEF Inv, TypeOK, ControlType
  <1>8. DataType'
    BY <1>1, <1>3 DEF Inv, TypeOK, DataType
  <1>9. Ends'
    BY <1>1 DEF Inv, Ends
  <1>10. Lengths'
    <2>1. CASE in = "fill"
      <3>1. Len(pData') <= lenIn /\ lenIn + 1 \notin DOMAIN pData'
        BY <1>2, <1>3, <2>1 DEF Inv, Lengths
      <3>2. received \in overlapped'
        BY <1>1, <2>1 DEF Puts
      <3> QED
        BY <1>1, <1>2, <1>3, <1>6, <2>1, <3>1, <3>2 DEF Lengths
    <2>2. CASE in # "fill"
      BY <1>1, <1>2, <1>3, <1>6, <2>2 DEF Inv, Lengths
    <2> QED
      BY <2>1, <2>2
  <1>11. overlapped \subseteq overlapped' /\ overlapped' \subseteq 1..received
    <2>1. Puts => received \in 1..received
      BY <1>2 DEF Inv, Places
    <2> QED
      BY <1>1, <2>1 DEF Inv, Overlaps
  <1>12. cut \subseteq overlapped'
    <2> SUFFICES ASSUME NEW r \in cut PROVE r \in overlapped'
      OBVIOUS
    <2>1. PICK i \in DOMAIN pData : pData[i] = r
      BY <1>5
    <2>2. i \notin DOMAIN pData'
      BY <1>4, <1>5, <2>1
    <2>3. i = lenProc \/ i > lenProc
      BY <1>2, <1>3, <2>2
    <2>4. r # nil /\ r \notin freed
      BY <1>5
    <2>5. r \in overlapped
      BY <1>1, <1>6, <2>1, <2>3, <2>4 DEF Inv, Overlaps
    <2> QED
      BY <1>11, <2>5
  <1>13. Places'
    <2>1. cut \subseteq 1..received
      <3> SUFFICES ASSUME NEW r \in cut PROVE r \in 1..received
        OBVIOUS
      <3>1. PICK i \in DOMAIN pData : pData[i] = r
        BY <1>5
      <3>2. r # 0 /\ r <= received
        BY <1>5, <3>1 DEF Inv, Places
      <3> QED
        BY <1>2, <3>1, <3>2
    <2>2. \A i \in DOMAIN pData' : pData'[i] <= received /\ pData'[i] \notin lost'
      BY <1>1, <1>4, <1>5 DEF Inv, Places
    <2>3. \A i \in DOMAIN pData' : pData'[i] \notin freed
      <3> TAKE i \in DOMAIN pData'
      <3>1. i \in DOMAIN pData /\ i # lenProc /\ pData'[i] = pData[i]
        BY <1>2, <1>4
      <3> QED
        BY <3>1 DEF Inv, Places
    <2>4. Puts => \A i \in DOMAIN pData' : pData'[i] # received
      BY <1>4 DEF Inv, Places
    <2>5. \A i, j \in DOMAIN pData' : pData'[i] = pData'[j] /\ pData'[i] # nil => i = j
      BY <1>4 DEF Inv, Places
    <2>6. lost' \subseteq 1..received /\ freed \cap lost' = {}
      BY <1>1, <1>5, <2>1 DEF Inv, Places
    <2>7. Puts => received \notin freed \cup lost'
      <3>1. Puts => received \notin cut
        BY <1>5 DEF Inv, Places
      <3> QED
        BY <1>1, <3>1 DEF Inv, Places
    <2>8. \A r \in 1..received :
             \/ r \in freed \cup lost'
             \/ Puts /\ r = received
             \/ \E i \in DOMAIN pData' : pData'[i] = r
      <3> TAKE r \in 1..received
      <3>1. \/ r \in freed \cup lost
            \/ Puts /\ r = received
            \/ \E i \in DOMAIN pData : pData[i] = r
        BY DEF Inv, Places
      <3>2. r # 0
        OBVIOUS
      <3> QED
        BY <1>1, <1>5, <3>1, <3>2
    <2> QED
      BY <1>1, <1>6, <2>2, <2>3, <2>4, <2>5, <2>6, <2>7, <2>8 DEF Inv, Places
  <1>14. Overlaps'
    <2>1. lost' \subseteq overlapped'
      BY <1>1, <1>11, <1>12 DEF Inv, Overlaps
    <2> QED
      BY <1>1, <1>6, <1>11, <2>1 DEF Overlaps
  <1>15. Replies'
    BY <1>1, <1>11 DEF Inv, Replies
  <1> QED
    BY <1>7, <1>8, <1>9, <1>10, <1>13, <1>14, <1>15 DEF Inv, TypeOK

LEMMA NextInv == Inv /\ [Next]_vars => Inv'
  <1> SUFFICES ASSUME Inv, [Next]_vars PROVE Inv'
    OBVIOUS
  <1>1. CASE Form
    BY <1>1, FormStep
  <1>2. CASE InThread
    BY <1>2, InIniStep, InReadStep, InGrowStep, InFillStep, InClosesStep, InTerminatedStep,
       InWaitedStep
       DEF InThread
  <1>3. CASE ProcThread
    BY <1>3, ProcLookStep, ProcProcessStep, ProcSendStep, ProcFreeStep, ProcShrinkStep,
       ProcTerminatedStep DEF ProcThread
  <1>4. CASE UNCHANGED vars
    BY <1>4 DEF vars, shell, inVars, proVars, history, Inv, TypeOK, ControlType, DataType, Ends,
       Lengths, Places, Overlaps, Replies, Puts, Busy
  <1> QED
    BY <1>1, <1>2, <1>3, <1>4 DEF Next

\* The invariant holds, also in the states in which the program is at fault.
THEOREM InvHolds == Spec => []Inv
  BY InitInv, NextInv, PTL DEF Spec

----------------------------------------------------------------------------
(* The theorems.                                                           *)

\* Every variable has its type, for every number of datagrams and clicks.
THEOREM Win32TypeCorrect == Spec => []TypeOK
  <1>1. Inv => TypeOK
    BY DEF Inv
  <1> QED
    BY <1>1, InvHolds, PTL

LEMMA PlacesOfBuffers == Inv => BuffersFreedOnce
  <1> SUFFICES ASSUME Inv PROVE BuffersFreedOnce
    OBVIOUS
  <1> USE Numbers
  <1>1. /\ DOMAIN pData = 1..Len(pData) /\ received \in Nat
        /\ \A i \in DOMAIN pData : pData[i] \in 0..MaxRequests
    BY ArrayFacts DEF Inv, TypeOK, DataType
  <1>2. \A r : r \in Requests(pData) <=> r # 0 /\ \E i \in DOMAIN pData : pData[i] = r
    BY <1>1, RequestsFacts
  <1>3. proc = "shrink" => lenProc \in DOMAIN pData
    BY <1>1 DEF Inv, Lengths, Busy
  <1>4. Requests(pData) \cap freed \subseteq Answered
    <2> SUFFICES ASSUME NEW r \in Requests(pData), r \in freed PROVE r \in Answered
      OBVIOUS
    <2>1. PICK i \in DOMAIN pData : pData[i] = r
      BY <1>2
    <2>2. proc = "shrink" /\ i = lenProc
      BY <2>1 DEF Inv, Places
    <2> QED
      BY <2>1, <2>2 DEF Answered
  <1>5. Queued = Requests(pData) \ freed
    BY <1>4 DEF Queued
  <1>6. 1..received = InHand \cup Queued \cup freed \cup lost
    <2>1. Requests(pData) \subseteq 1..received
      BY <1>1, <1>2 DEF Inv, Places
    <2>2. InHand \subseteq 1..received
      BY <1>1 DEF InHand, Inv, Places
    <2>3. freed \subseteq 1..received /\ lost \subseteq 1..received
      BY DEF Inv, Places
    <2>4. ASSUME NEW r \in 1..received PROVE r \in InHand \cup Queued \cup freed \cup lost
      <3>1. \/ r \in freed \cup lost
            \/ Puts /\ r = received
            \/ \E i \in DOMAIN pData : pData[i] = r
        BY DEF Inv, Places
      <3>2. r # 0
        OBVIOUS
      <3> QED
        BY <1>2, <1>5, <3>1, <3>2 DEF InHand
    <2> QED
      BY <1>5, <2>1, <2>2, <2>3, <2>4
  <1>7. InHand \cap (Queued \cup freed \cup lost) = {}
    <2>1. Puts => received \notin Requests(pData) /\ received \notin freed \cup lost
      BY <1>2 DEF Inv, Places
    <2> QED
      BY <1>5, <2>1 DEF InHand
  <1>8. Queued \cap (freed \cup lost) = {} /\ freed \cap lost = {}
    BY <1>2, <1>5 DEF Inv, Places
  <1>9. \A i, j \in DOMAIN pData : pData[i] = pData[j] /\ pData[i] # nil => i = j
    BY DEF Inv, Places
  <1> QED
    BY <1>6, <1>7, <1>8, <1>9 DEF Inv, BuffersFreedOnce

\* Although nothing locks the array, no request's buffer is freed twice or used after it
\* was freed, and none that was not cut off is forgotten: each is in one place.
THEOREM BuffersStayFreedOnce == Spec => []BuffersFreedOnce
  BY PlacesOfBuffers, InvHolds, PTL

LEMMA LossesOverlap == Inv => OnlyOverlapsLose
  <1> SUFFICES ASSUME Inv, NEW r \in Request \ overlapped
               PROVE  r \notin lost /\ (r \in Range(replies) => r \in processed)
    BY DEF OnlyOverlapsLose
  <1>1. r \notin lost
    BY DEF Inv, Overlaps
  <1>2. ASSUME r \in Range(replies) PROVE r \in processed
    <2>1. PICK k \in DOMAIN replies : replies[k] = r
      BY <1>2 DEF Range
    <2> QED
      BY <2>1 DEF Inv, Replies
  <1> QED
    BY <1>1, <1>2

\* Only a request that was put while the processing thread was between its look at the
\* array and the cut can be lost, or be sent back as it came.
THEOREM LossesNeedOverlaps == Spec => []OnlyOverlapsLose
  BY LossesOverlap, InvHolds, PTL

\* When the form frees the in thread and the library, no thread is left to use them.
THEOREM StopsAreComplete == Spec => StopIsComplete
  <1>1. Inv /\ [Next]_vars => [running /\ ~running' => in' = "ended" /\ proc' = "ended"]_vars
    <2> SUFFICES ASSUME Inv, Next, running, ~running'
                 PROVE  in' = "ended" /\ proc' = "ended"
      OBVIOUS
    <2>1. Stopped
      BY DEF Next, Form, InThread, ProcThread, StartButtonClick, StopButtonClick, FormDestroy,
         InIni, InRead, InGrow, InFill, InCloses, InTerminated, InWaited, ProcLook, ProcProcess,
         ProcSend, ProcFree, ProcShrink, Shrink, ProcTerminated, shell
    <2> QED
      BY <2>1 DEF Stopped, Inv, Ends, inVars, proVars
  <1> QED
    BY <1>1, InvHolds, PTL DEF Spec, StopIsComplete

----------------------------------------------------------------------------
(* The end.                                                                *)

Stopping == form \in {"stops", "closes"}

\* The form tells the in thread to end, and that one the processing thread.
Told ==
    /\ Stopping /\ running => terminatedIn
    /\ in = "waits" => terminatedProc

\* What each thread does at most from where it is, when no more datagrams are read: the
\* processing thread goes round once for each record of the array.
InSteps   == [ended |-> 0, waits |-> 1, closed |-> 2, read |-> 3, fill |-> 4, ini |-> 5,
              grow |-> 5 * (lenIn + 1) + 5]
ProcSteps == [ended |-> 0, look |-> 1, process |-> 0, send |-> -1, free |-> -2, shrink |-> -3]

StopWork == InSteps[in] + ProcSteps[proc] + 5 * Len(pData)

LEMMA ToldStep == Inv /\ Told /\ [Next]_vars => Told'
  <1> SUFFICES ASSUME Inv, Told, [Next]_vars PROVE Told'
    OBVIOUS
  <1>1. CASE Form
    <2>1. CASE StartButtonClick
      BY <1>1, <2>1 DEF StartButtonClick, Told, Stopping
    <2>2. CASE StopButtonClick
      BY <2>2 DEF StopButtonClick, Told, Stopping, proVars
    <2>3. CASE FormDestroy
      <3>1. running => terminatedIn'
        BY <2>3 DEF FormDestroy
      <3> QED
        BY <2>3, <3>1 DEF FormDestroy, Told, Stopping, proVars
    <2>4. CASE Stopped
      BY <2>4 DEF Stopped, Told, Stopping, inVars, proVars
    <2> QED
      BY <1>1, <2>1, <2>2, <2>3, <2>4 DEF Form
  <1>2. CASE InThread
    BY <1>2 DEF InThread, InIni, InRead, InGrow, InFill, InCloses, InTerminated, InWaited, shell,
       proVars, Told, Stopping
  <1>3. CASE ProcThread
    BY <1>3 DEF ProcThread, ProcLook, ProcProcess, ProcSend, ProcFree, ProcShrink, Shrink,
       ProcTerminated, shell, inVars, Told, Stopping
  <1>4. CASE UNCHANGED vars
    BY <1>4 DEF vars, shell, inVars, proVars, Told, Stopping
  <1> QED
    BY <1>1, <1>2, <1>3, <1>4 DEF Next

StopWorkLeft == StopWork \in Nat

LEMMA StopWorkIsNatural == Inv => StopWorkLeft
  <1> SUFFICES ASSUME Inv PROVE StopWork \in Nat
    BY DEF StopWorkLeft
  <1>1. Len(pData) \in Nat /\ lenIn \in Nat
    BY ArrayFacts DEF Inv, TypeOK, DataType
  <1>2. InSteps[in] \in Nat
    BY <1>1 DEF InSteps, Inv, TypeOK, ControlType
  <1>3. Busy => Len(pData) > 0
    BY <1>1 DEF Inv, Lengths
  <1>4. ProcSteps[proc] + 5 * Len(pData) \in Nat /\ ProcSteps[proc] \in Int
    BY <1>1, <1>3 DEF ProcSteps, Inv, TypeOK, ControlType, Busy
  <1> QED
    BY <1>1, <1>2, <1>4 DEF StopWork

\* While the form waits, each step of a thread is one less that it has to wait for.
LEMMA StopWorkStep ==
    ASSUME Inv, Told, Next, Stopping, form' = form
    PROVE  StopWork' < StopWork
  <1>1. Len(pData) \in Nat /\ lenIn \in Nat /\ DOMAIN pData = 1..Len(pData)
    BY ArrayFacts DEF Inv, TypeOK, DataType
  <1>2. CASE Form
    BY <1>2 DEF Form, StartButtonClick, StopButtonClick, FormDestroy, Stopped, Stopping
  <1>3. CASE InIni
    <2>1. proc = "ended" /\ pData = <<>>
      BY <1>3 DEF InIni, Inv, Ends
    <2> QED
      BY <1>3, <2>1 DEF InIni, StopWork, InSteps, ProcSteps
  <1>4. CASE InRead
    BY <1>4 DEF InRead, Told, Inv, Ends
  <1>5. CASE InGrow
    <2>1. Len(pData') = lenIn + 1
      BY <1>1, <1>5, ResizedFacts DEF InGrow, Inv
    <2>2. proc' = proc /\ in = "grow" /\ in' = "fill"
      BY <1>5 DEF InGrow, proVars
    <2>3. ProcSteps[proc] \in Int
      BY DEF ProcSteps, Inv, TypeOK, ControlType
    <2>4. StopWork = 5 * (lenIn + 1) + 5 + ProcSteps[proc] + 5 * Len(pData)
      BY <2>2 DEF StopWork, InSteps
    <2>5. StopWork' = 4 + ProcSteps[proc] + 5 * (lenIn + 1)
      BY <2>1, <2>2 DEF StopWork, InSteps, ProcSteps
    <2> QED
      BY <1>1, <2>3, <2>4, <2>5
  <1>6. CASE InFill
    <2>1. Len(pData') = Len(pData)
      <3> DEFINE S == Request \cup {nil}
      <3>1. pData \in Seq(S)
        BY DEF Inv, TypeOK, DataType
      <3>2. lenIn + 1 \in DOMAIN pData => received \in S
        BY Numbers DEF Inv, TypeOK, DataType
      <3> HIDE DEF S
      <3> QED
        BY <1>1, <1>6, <3>1, <3>2 DEF InFill
    <2>2. proc' = proc /\ in = "fill" /\ in' = "read"
      BY <1>6 DEF InFill, proVars
    <2>3. ProcSteps[proc] \in Int
      BY DEF ProcSteps, Inv, TypeOK, ControlType
    <2> QED
      BY <1>1, <2>1, <2>2, <2>3 DEF StopWork, InSteps, ProcSteps
  <1>7. CASE InCloses \/ InTerminated \/ InWaited
    <2>1. /\ proc' = proc /\ pData' = pData
          /\ <<in, in'>> \in {<<"read", "closed">>, <<"closed", "waits">>, <<"waits", "ended">>}
      BY <1>7 DEF InCloses, InTerminated, InWaited, proVars
    <2>2. ProcSteps[proc] \in Int
      BY DEF ProcSteps, Inv, TypeOK, ControlType
    <2> QED
      BY <1>1, <2>1, <2>2 DEF StopWork, InSteps, ProcSteps
  <1>8. CASE ProcThread
    <2>1. in' = in /\ lenIn' = lenIn
      BY <1>8 DEF ProcThread, ProcLook, ProcProcess, ProcSend, ProcFree, ProcShrink, Shrink,
         ProcTerminated, inVars
    <2>2. InSteps[in] \in Int /\ InSteps'[in'] = InSteps[in]
      BY <1>1, <2>1 DEF InSteps, Inv, TypeOK, ControlType
    <2>3. ProcSteps[proc] \in Int
      BY DEF ProcSteps, Inv, TypeOK, ControlType
    <2>4. CASE ProcLook \/ ProcProcess \/ ProcSend \/ ProcFree
      <3>1. /\ pData' = pData
            /\ <<proc, proc'>> \in {<<"look", "process">>, <<"process", "send">>,
                                    <<"send", "free">>, <<"free", "shrink">>}
        BY <2>4 DEF ProcLook, ProcProcess, ProcSend, ProcFree
      <3>2. ProcSteps'[proc'] < ProcSteps[proc] /\ ProcSteps'[proc'] \in Int
        BY <3>1 DEF ProcSteps
      <3> QED
        BY <1>1, <2>2, <2>3, <3>1, <3>2 DEF StopWork
    <2>5. CASE ProcShrink
      <3>1. lenProc \in 1..Len(pData) /\ proc = "shrink" /\ proc' = "look"
        BY <2>5 DEF ProcShrink, Shrink, Inv, Lengths, Busy
      <3> DEFINE n == lenProc - 1
      <3>2. pData' = Resized(n) /\ n \in Nat
        BY <1>1, <2>5, <3>1 DEF ProcShrink, Shrink
      <3> HIDE DEF n
      <3>3. Len(pData') = n
        BY <3>2, ResizedFacts DEF Inv
      <3>4. Len(pData') <= Len(pData) - 1 /\ Len(pData') \in Nat
        BY <1>1, <3>1, <3>2, <3>3 DEF n
      <3>5. ProcSteps[proc] = -3 /\ ProcSteps'[proc'] = 1
        BY <3>1 DEF ProcSteps
      <3> QED
        BY <1>1, <2>2, <3>4, <3>5 DEF StopWork
    <2>6. CASE ProcTerminated
      <3>1. proc = "look" /\ proc' = "ended" /\ Len(pData') = 0
        BY <2>6 DEF ProcTerminated
      <3>2. ProcSteps[proc] = 1 /\ ProcSteps'[proc'] = 0
        BY <3>1 DEF ProcSteps
      <3> QED
        BY <1>1, <2>2, <3>1, <3>2 DEF StopWork
    <2> QED
      BY <1>8, <2>4, <2>5, <2>6 DEF ProcThread
  <1> QED
    BY <1>2, <1>3, <1>4, <1>5, <1>6, <1>7, <1>8 DEF Next, InThread

\* A stop comes to its end after a bounded number of steps: each thread was told to end
\* before it is waited for, the in thread reads no further datagram, and what is still
\* in the array is answered or freed.  What StopEnds needs besides is that the threads
\* are scheduled.
THEOREM StopsAreBounded ==
    Spec => /\ [](Told /\ StopWorkLeft)
            /\ [][Stopping /\ form' = form => StopWork' < StopWork]_vars
  <1>1. Init => Told
    BY DEF Init, Told, Stopping
  <1>2. Spec => []Told
    BY <1>1, ToldStep, InvHolds, PTL DEF Spec
  <1>3. Spec => []StopWorkLeft
    BY StopWorkIsNatural, InvHolds, PTL
  <1>4. Inv /\ Told /\ [Next]_vars => [Stopping /\ form' = form => StopWork' < StopWork]_vars
    BY StopWorkStep
  <1>5. Spec => [][Stopping /\ form' = form => StopWork' < StopWork]_vars
    BY <1>2, <1>4, InvHolds, PTL DEF Spec
  <1> QED
    BY <1>2, <1>3, <1>5, PTL

----------------------------------------------------------------------------
(* The Win32 server is a relay without an order.                           *)

\* Only a datagram and a reply change what the relay shows; the other steps free or lose.
LEMMA OthersGiveUp ==
    Next => \/ InRead \/ ProcSend
            \/ /\ received' = received /\ replies' = replies
               /\ freed \subseteq freed' /\ lost \subseteq lost'
  <1> SUFFICES ASSUME Next, ~InRead, ~ProcSend
               PROVE  /\ received' = received /\ replies' = replies
                      /\ freed \subseteq freed' /\ lost \subseteq lost'
    OBVIOUS
  <1>1. CASE Form
    BY <1>1 DEF Form, StartButtonClick, StopButtonClick, FormDestroy, Stopped, history
  <1>2. CASE InThread
    BY <1>2 DEF InThread, InIni, InGrow, InFill, InCloses, InTerminated, InWaited, history
  <1>3. CASE ProcThread
    BY <1>3 DEF ProcThread, ProcLook, ProcProcess, ProcFree, ProcShrink, Shrink, ProcTerminated,
       history
  <1> QED
    BY <1>1, <1>2, <1>3 DEF Next

\* What is freed, lost or answered had come before.
LEMMA HistoryFacts ==
    Inv => /\ received \in Nat /\ freed \subseteq 1..received /\ lost \subseteq 1..received
           /\ Range(replies) \subseteq 1..received
  <1> SUFFICES ASSUME Inv
               PROVE  /\ received \in Nat
                      /\ freed \subseteq 1..received /\ lost \subseteq 1..received
                      /\ Range(replies) \subseteq 1..received
    OBVIOUS
  <1>1. received \in Nat /\ freed \subseteq 1..received /\ lost \subseteq 1..received
    BY Numbers DEF Inv, TypeOK, DataType, Places
  <1>2. ASSUME NEW k \in DOMAIN replies PROVE replies[k] \in 1..received
    <2>1. replies \in Seq(Request)
      BY DEF Inv, TypeOK, DataType
    <2>2. replies[k] \in Request
      BY <2>1
    <2>3. \/ replies[k] \in freed \cup lost
          \/ proc = "free" /\ replies[k] = pData[lenProc]
      BY DEF Inv, Replies
    <2>4. proc = "free" => pData[lenProc] <= received
      BY ArrayFacts DEF Inv, Lengths, Places, Busy
    <2>5. replies[k] <= received
      <3>1. \A m \in freed \cup lost : m <= received
        BY <1>1
      <3> QED
        BY <2>3, <2>4, <3>1
    <2> QED
      BY <1>1, <2>2, <2>5, Numbers
  <1> QED
    BY <1>1, <1>2 DEF Range

\* A reply answers a request that waits: it is in the array, and was not answered before.
LEMMA SendAnswers == Inv /\ ProcSend => [Relay!Next]_(Relay!vars)
  <1> SUFFICES ASSUME Inv, ProcSend PROVE [Relay!Next]_(Relay!vars)
    OBVIOUS
  <1> DEFINE r == pData[lenProc]
  <1>1. received' = received /\ freed' = freed /\ lost' = lost /\ proc = "send"
    BY DEF ProcSend
  <1>2. CASE ~(ssocket /\ r # nil)
    <2>1. replies' = replies
      BY <1>2 DEF ProcSend
    <2> QED
      BY <1>1, <2>1 DEF Relay!vars, Waiting
  <1>3. CASE ssocket /\ r # nil
    <2>1. lenProc \in DOMAIN pData /\ r \in 0..MaxRequests
      BY <1>1, ArrayFacts DEF Inv, Lengths, Busy
    <2>2. r <= received /\ r \notin lost /\ r \notin freed
      BY <1>1, <2>1 DEF Inv, Places
    <2>3. r \notin Range(replies)
      BY <1>1, <2>2 DEF Inv, Replies, Range
    <2>4. r \in Waiting
      BY <1>3, <2>1, <2>2, <2>3, HistoryFacts, Numbers DEF Waiting
    <2>5. replies' = Append(replies, r) /\ replies \in Seq(Request) /\ r \in Request
      BY <1>3, <2>1, Numbers DEF ProcSend, Inv, TypeOK, DataType
    <2> HIDE DEF r
    <2>6. Range(replies') = Range(replies) \cup {r}
      <3> DEFINE S == Request
      <3>1. replies \in Seq(S) /\ r \in S
        BY <2>5
      <3> HIDE DEF S
      <3>2. /\ Append(replies, r) \in Seq(S) /\ Len(Append(replies, r)) = Len(replies) + 1
            /\ Append(replies, r)[Len(replies) + 1] = r
            /\ \A k \in 1..Len(replies) : Append(replies, r)[k] = replies[k]
        BY <3>1, AppendProperties
      <3>3. DOMAIN replies = 1..Len(replies) /\ Len(replies) \in Nat
        BY <3>1, LenProperties
      <3>4. DOMAIN Append(replies, r) = 1..(Len(replies) + 1)
        BY <3>2, LenProperties
      <3>5. 1..(Len(replies) + 1) = 1..Len(replies) \cup {Len(replies) + 1}
        BY <3>3
      <3> QED
        BY <2>5, <3>2, <3>3, <3>4, <3>5 DEF Range
    <2>7. Waiting' = Waiting \ {r}
      BY <1>1, <2>6 DEF Waiting
    <2>8. Relay!Reply(r)
      BY <1>1, <2>5, <2>7 DEF Relay!Reply
    <2> QED
      BY <2>4, <2>8 DEF Relay!Next
  <1> QED
    BY <1>2, <1>3

\* The next datagram waits from now on.
LEMMA ReadTakes == Inv /\ InRead => Relay!Next
  <1> SUFFICES ASSUME Inv, InRead PROVE Relay!Next
    OBVIOUS
  <1>1. received' = received + 1 /\ replies' = replies /\ freed' = freed /\ lost' = lost
    BY DEF InRead, history
  <1>2. received \in Nat /\ received + 1 \notin freed \cup lost \cup Range(replies)
    BY HistoryFacts
  <1>3. 1..(received + 1) = 1..received \cup {received + 1}
    BY <1>2
  <1>4. Waiting' = Waiting \cup {received + 1}
    BY <1>1, <1>2, <1>3 DEF Waiting
  <1> QED
    BY <1>1, <1>4 DEF Relay!Next, Relay!Take

\* Every step of the Win32 server reads, answers or gives up requests, or is none of the
\* relay's: no request is answered twice, or after it was freed or cut off.
THEOREM Win32ImplementsRelay == Spec => RelaySpec
  <1>1. Init => Relay!Init
    <2> SUFFICES ASSUME Init PROVE Relay!Init
      OBVIOUS
    <2>1. received = 0 /\ replies = <<>>
      BY DEF Init
    <2>2. Waiting = {}
      BY <2>1 DEF Waiting
    <2> QED
      BY <2>1, <2>2 DEF Relay!Init
  <1>2. Inv /\ [Next]_vars => [Relay!Next]_(Relay!vars)
    <2> SUFFICES ASSUME Inv, [Next]_vars PROVE [Relay!Next]_(Relay!vars)
      OBVIOUS
    <2>1. CASE InRead
      BY <2>1, ReadTakes
    <2>2. CASE ProcSend
      BY <2>2, SendAnswers
    <2>3. ASSUME received' = received, replies' = replies,
                 freed \subseteq freed', lost \subseteq lost'
          PROVE  Relay!Next
      <3>1. Waiting' \subseteq Waiting
        BY <2>3 DEF Waiting
      <3> DEFINE gone == Waiting \ Waiting'
      <3>2. Relay!GiveUp(gone)
        BY <2>3, <3>1 DEF Relay!GiveUp
      <3>3. gone \in SUBSET Waiting
        OBVIOUS
      <3> QED
        BY <3>2, <3>3 DEF Relay!Next
    <2>4. CASE UNCHANGED vars
      BY <2>4 DEF vars, history, Relay!vars, Waiting
    <2> QED
      BY <2>1, <2>2, <2>3, <2>4, OthersGiveUp
  <1> QED
    BY <1>1, <1>2, InvHolds, PTL DEF Spec, RelaySpec, Relay!Spec

====
