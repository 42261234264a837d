---- MODULE ServerProofs ----
(***************************************************************************)
(* Theorems about Server, for every value of its constants: its types, its *)
(* inductive invariant and what follows from it, the refinement of         *)
(* RequestRelay, and what threads and shutdown leave behind.               *)
(***************************************************************************)
EXTENDS Server, SequenceTheorems, TLAPS

\* Appending an element and removing the first one, on the elements of a queue.
LEMMA RangeAppend ==
    ASSUME NEW s \in Seq(Pointer), NEW x \in Pointer
    PROVE  Append(s, x) \in Seq(Pointer) /\ Range(Append(s, x)) = Range(s) \cup {x}
  <1>1. /\ Append(s, x) \in Seq(Pointer) /\ DOMAIN Append(s, x) = 1..(Len(s) + 1)
        /\ DOMAIN s = 1..Len(s) /\ Len(s) \in Nat
        /\ \A i \in 1..Len(s) : Append(s, x)[i] = s[i]
        /\ Append(s, x)[Len(s) + 1] = x
    BY AppendProperties, LenProperties
  <1>2. Range(Append(s, x)) \subseteq Range(s) \cup {x}
    BY <1>1 DEF Range
  <1>3. Range(s) \cup {x} \subseteq Range(Append(s, x))
    <2>1. Len(s) + 1 \in DOMAIN Append(s, x)
      BY <1>1
    <2>2. \A i \in DOMAIN s : i \in DOMAIN Append(s, x)
      BY <1>1
    <2> QED BY <1>1, <2>1, <2>2 DEF Range
  <1> QED BY <1>1, <1>2, <1>3

LEMMA RangeTail ==
    ASSUME NEW s \in Seq(Pointer), s # <<>>
    PROVE  /\ Tail(s) \in Seq(Pointer) /\ Head(s) \in Pointer
           /\ Range(s) = {Head(s)} \cup Range(Tail(s))
  <1>1. /\ Tail(s) \in Seq(Pointer) /\ Head(s) \in Pointer /\ Head(s) = s[1]
        /\ Len(s) \in Nat \ {0} /\ DOMAIN s = 1..Len(s)
        /\ DOMAIN Tail(s) = 1..(Len(s) - 1)
        /\ \A i \in 1..(Len(s) - 1) : Tail(s)[i] = s[i + 1]
    BY HeadTailProperties, EmptySeq, LenProperties
  <1>2. \A i \in DOMAIN Tail(s) : i + 1 \in DOMAIN s
    BY <1>1
  <1>3. \A i \in DOMAIN s : i # 1 => i - 1 \in DOMAIN Tail(s) /\ Tail(s)[i - 1] = s[i]
    BY <1>1
  <1>4. 1 \in DOMAIN s
    BY <1>1
  <1>5. {Head(s)} \cup Range(Tail(s)) \subseteq Range(s)
    BY <1>1, <1>2, <1>4 DEF Range
  <1>6. ASSUME NEW i \in DOMAIN s PROVE s[i] \in {Head(s)} \cup Range(Tail(s))
    BY <1>1, <1>3 DEF Range
  <1> QED BY <1>1, <1>5, <1>6 DEF Range

\* An increasing queue stays increasing when a later element is appended ...
LEMMA IncreasingAppend ==
    ASSUME NEW s \in Seq(Pointer), NEW x \in Pointer, Increasing(s), Below(Range(s), {x})
    PROVE  Increasing(Append(s, x))
  BY DEF Increasing, Below, Range

\* ... and when its first element is removed, which was below the others.
LEMMA IncreasingTail ==
    ASSUME NEW s \in Seq(Pointer), s # <<>>, Increasing(s)
    PROVE  Increasing(Tail(s)) /\ Below({Head(s)}, Range(Tail(s)))
  <1>1. Tail(s) \in Seq(Pointer) /\ Len(Tail(s)) = Len(s) - 1 /\ Len(s) \in Nat \ {0}
    BY EmptySeq, LenProperties
  <1>2. \A i \in DOMAIN Tail(s) : i \in Nat /\ i + 1 \in DOMAIN s /\ 1 < i + 1 /\ Tail(s)[i] = s[i + 1]
    BY <1>1
  <1>3. Increasing(Tail(s))
    BY <1>2 DEF Increasing
  <1>4. 1 \in DOMAIN s /\ Head(s) = s[1]
    BY <1>1
  <1> QED BY <1>2, <1>3, <1>4 DEF Increasing, Below, Range

----------------------------------------------------------------------------
(* Types.                                                                  *)

LEMMA TypeInit == Init => TypeOK
  <1> SUFFICES ASSUME Init PROVE TypeOK
    OBVIOUS
  <1>1. ControlType
    BY DEF Init, ControlType, Label, MainLabel, FrameLabel
  <1>2. FlagType
    BY DEF Init, FlagType
  <1>3. CountType
    BY DEF Init, CountType
  <1>4. DataType
    BY DEF Init, DataType, Pointer, Garbage
  <1> QED BY <1>1, <1>2, <1>3, <1>4 DEF TypeOK

LEMMA TypeIn == TypeOK /\ InThread => TypeOK'
  <1> SUFFICES ASSUME ControlType, FlagType, CountType, DataType, InThread
               PROVE  TypeOK'
    BY DEF TypeOK
  <1> USE DEF lifecycle, data
  <1>1. CASE InStart
    <2>1. ControlType'
      BY <1>1 DEF InStart, ControlType, Goto, Label, Thread
    <2>2. FlagType'
      BY <1>1 DEF InStart, FlagType, Fails, Thread
    <2>3. CountType'
      BY <1>1 DEF InStart, CountType, Succeeds, Fails
    <2>4. DataType'
      BY <1>1 DEF InStart, DataType
    <2> QED BY <2>1, <2>2, <2>3, <2>4 DEF TypeOK
  <1>2. CASE InLoop
    <2>1. ControlType'
      BY <1>2 DEF InLoop, ControlType, Goto, Label, Thread
    <2>2. FlagType'
      BY <1>2 DEF InLoop, FlagType
    <2>3. CountType'
      BY <1>2 DEF InLoop, CountType
    <2>4. DataType'
      BY <1>2 DEF InLoop, DataType
    <2> QED BY <2>1, <2>2, <2>3, <2>4 DEF TypeOK
  <1>3. CASE InCount
    <2>1. ControlType'
      BY <1>3 DEF InCount, ControlType, Goto, Label, Thread
    <2>2. FlagType'
      BY <1>3 DEF InCount, FlagType
    <2>3. CountType'
      BY <1>3 DEF InCount, CountType
    <2>4. DataType'
      BY <1>3 DEF InCount, DataType
    <2> QED BY <2>1, <2>2, <2>3, <2>4 DEF TypeOK
  <1>4. CASE InRead
    <2>1. ControlType'
      BY <1>4 DEF InRead, ControlType, Goto, Label, Thread
    <2>2. FlagType'
      BY <1>4 DEF InRead, FlagType
    <2>3. CountType'
      BY <1>4 DEF InRead, CountType, Succeeds, Fails
    <2>4. DataType'
      BY <1>4 DEF InRead, DataType, Thread, Pointer, NoNode, Garbage, CountType
    <2> QED BY <2>1, <2>2, <2>3, <2>4 DEF TypeOK
  <1>5. CASE InLock
    <2>1. ControlType'
      BY <1>5 DEF InLock, ControlType, Goto, Label, Thread
    <2>2. FlagType'
      BY <1>5 DEF InLock, FlagType, Acquire, Mutex, Thread
    <2>3. CountType'
      BY <1>5 DEF InLock, CountType
    <2>4. DataType'
      BY <1>5 DEF InLock, DataType
    <2> QED BY <2>1, <2>2, <2>3, <2>4 DEF TypeOK
  <1>6. CASE InAppend
    <2>1. ControlType'
      BY <1>6 DEF InAppend, ControlType, Goto, Label, Thread
    <2>2. FlagType'
      BY <1>6 DEF InAppend, FlagType
    <2>3. CountType'
      BY <1>6 DEF InAppend, CountType
    <2>4. DataType'
      BY <1>6 DEF InAppend, DataType, Thread
    <2> QED BY <2>1, <2>2, <2>3, <2>4 DEF TypeOK
  <1>7. CASE InUnlock
    <2>1. ControlType'
      BY <1>7 DEF InUnlock, ControlType, Goto, Label, Thread
    <2>2. FlagType'
      BY <1>7 DEF InUnlock, FlagType, Release, Mutex, Thread
    <2>3. CountType'
      BY <1>7 DEF InUnlock, CountType, Succeeds, Fails
    <2>4. DataType'
      BY <1>7 DEF InUnlock, DataType, Thread, Pointer, NoNode, Garbage
    <2> QED BY <2>1, <2>2, <2>3, <2>4 DEF TypeOK
  <1>8. CASE CleanUp("in")
    <2>1. ControlType'
      BY <1>8 DEF CleanUp, ControlType, Goto, Label, Thread
    <2>2. FlagType'
      BY <1>8 DEF CleanUp, FlagType
    <2>3. CountType'
      BY <1>8 DEF CleanUp, CountType
    <2>4. DataType'
      BY <1>8 DEF CleanUp, DataType
    <2> QED BY <2>1, <2>2, <2>3, <2>4 DEF TypeOK
  <1>9. CASE Destroy("in", "mutexIn")
    <2>1. ControlType'
      BY <1>9 DEF Destroy, ControlType, Goto, Label, Thread
    <2>2. FlagType'
      BY <1>9 DEF Destroy, FlagType, Mutex, Thread
    <2>3. CountType'
      BY <1>9 DEF Destroy, CountType
    <2>4. DataType'
      BY <1>9 DEF Destroy, DataType
    <2> QED BY <2>1, <2>2, <2>3, <2>4 DEF TypeOK
  <1> QED BY <1>1, <1>2, <1>3, <1>4, <1>5, <1>6, <1>7, <1>8, <1>9 DEF InThread

LEMMA TypeProc == TypeOK /\ ProcThread => TypeOK'
  <1> SUFFICES ASSUME ControlType, FlagType, CountType, DataType, ProcThread
               PROVE  TypeOK'
    BY DEF TypeOK
  <1> USE DEF lifecycle, data
  <1>1. CASE Start("proc")
    <2>1. ControlType'
      BY <1>1 DEF Start, ControlType, Goto, Label, Thread
    <2>2. FlagType'
      BY <1>1 DEF Start, FlagType
    <2>3. CountType'
      BY <1>1 DEF Start, CountType
    <2>4. DataType'
      BY <1>1 DEF Start, DataType
    <2> QED BY <2>1, <2>2, <2>3, <2>4 DEF TypeOK
  <1>2. CASE Wait("proc", queueIn, "exited")
    <2>1. ControlType'
      BY <1>2 DEF Wait, ControlType, Goto, Label, Thread
    <2>2. FlagType'
      BY <1>2 DEF Wait, FlagType
    <2>3. CountType'
      BY <1>2 DEF Wait, CountType
    <2>4. DataType'
      BY <1>2 DEF Wait, DataType
    <2> QED BY <2>1, <2>2, <2>3, <2>4 DEF TypeOK
  <1>3. CASE Check("proc", "exited")
    <2>1. ControlType'
      BY <1>3 DEF Check, ControlType, Goto, Label, Thread
    <2>2. FlagType'
      BY <1>3 DEF Check, FlagType
    <2>3. CountType'
      BY <1>3 DEF Check, CountType
    <2>4. DataType'
      BY <1>3 DEF Check, DataType
    <2> QED BY <2>1, <2>2, <2>3, <2>4 DEF TypeOK
  <1>4. CASE ProcLock("lock", "mutexIn", "take")
    <2>1. ControlType'
      BY <1>4 DEF ProcLock, ControlType, Goto, Label, Thread
    <2>2. FlagType'
      BY <1>4 DEF ProcLock, FlagType, Acquire, Mutex, Thread
    <2>3. CountType'
      BY <1>4 DEF ProcLock, CountType
    <2>4. DataType'
      BY <1>4 DEF ProcLock, DataType
    <2> QED BY <2>1, <2>2, <2>3, <2>4 DEF TypeOK
  <1>5. CASE ProcTake
    <2>1. ControlType'
      BY <1>5 DEF ProcTake, ControlType, Goto, Label, Thread
    <2>2. FlagType'
      BY <1>5 DEF ProcTake, FlagType
    <2>3. CountType'
      BY <1>5 DEF ProcTake, CountType
    <2>4. DataType'
      BY <1>5, RangeTail DEF ProcTake, DataType, Thread, Pointer, NoNode, Garbage, Torn
    <2> QED BY <2>1, <2>2, <2>3, <2>4 DEF TypeOK
  <1>6. CASE ProcUnlock("unlockIn", "mutexIn", "work")
    <2>1. ControlType'
      BY <1>6 DEF ProcUnlock, ControlType, Goto, Label, Thread
    <2>2. FlagType'
      BY <1>6 DEF ProcUnlock, FlagType, Release, Mutex, Thread
    <2>3. CountType'
      BY <1>6 DEF ProcUnlock, CountType
    <2>4. DataType'
      BY <1>6 DEF ProcUnlock, DataType
    <2> QED BY <2>1, <2>2, <2>3, <2>4 DEF TypeOK
  <1>7. CASE ProcDrop
    <2>1. ControlType'
      BY <1>7 DEF ProcDrop, ControlType, Goto, Label, Thread, nodeFree
    <2>2. FlagType'
      BY <1>7 DEF ProcDrop, FlagType
    <2>3. CountType'
      BY <1>7 DEF ProcDrop, CountType
    <2>4. DataType'
      BY <1>7 DEF ProcDrop, DataType, nodeFree, Freed, Thread, Pointer, NoNode
    <2> QED BY <2>1, <2>2, <2>3, <2>4 DEF TypeOK
  <1>8. CASE ProcAnswer
    <2>1. ControlType'
      BY <1>8 DEF ProcAnswer, ControlType, Goto, Label, Thread
    <2>2. FlagType'
      BY <1>8 DEF ProcAnswer, FlagType
    <2>3. CountType'
      BY <1>8 DEF ProcAnswer, CountType
    <2>4. DataType'
      BY <1>8 DEF ProcAnswer, DataType
    <2> QED BY <2>1, <2>2, <2>3, <2>4 DEF TypeOK
  <1>9. CASE ProcLock("lockOut", "mutexOut", "append")
    <2>1. ControlType'
      BY <1>9 DEF ProcLock, ControlType, Goto, Label, Thread
    <2>2. FlagType'
      BY <1>9 DEF ProcLock, FlagType, Acquire, Mutex, Thread
    <2>3. CountType'
      BY <1>9 DEF ProcLock, CountType
    <2>4. DataType'
      BY <1>9 DEF ProcLock, DataType
    <2> QED BY <2>1, <2>2, <2>3, <2>4 DEF TypeOK
  <1>10. CASE ProcAppend
    <2>1. ControlType'
      BY <1>10 DEF ProcAppend, ControlType, Goto, Label, Thread
    <2>2. FlagType'
      BY <1>10 DEF ProcAppend, FlagType
    <2>3. CountType'
      BY <1>10 DEF ProcAppend, CountType
    <2>4. DataType'
      BY <1>10 DEF ProcAppend, DataType, Torn, Thread
    <2> QED BY <2>1, <2>2, <2>3, <2>4 DEF TypeOK
  <1>11. CASE ProcUnlock("unlockOut", "mutexOut", "wait")
    <2>1. ControlType'
      BY <1>11 DEF ProcUnlock, ControlType, Goto, Label, Thread
    <2>2. FlagType'
      BY <1>11 DEF ProcUnlock, FlagType, Release, Mutex, Thread
    <2>3. CountType'
      BY <1>11 DEF ProcUnlock, CountType
    <2>4. DataType'
      BY <1>11 DEF ProcUnlock, DataType
    <2> QED BY <2>1, <2>2, <2>3, <2>4 DEF TypeOK
  <1> QED BY <1>1, <1>2, <1>3, <1>4, <1>5, <1>6, <1>7, <1>8, <1>9, <1>10, <1>11 DEF ProcThread

LEMMA TypeOut == TypeOK /\ OutThread => TypeOK'
  <1> SUFFICES ASSUME ControlType, FlagType, CountType, DataType, OutThread
               PROVE  TypeOK'
    BY DEF TypeOK
  <1> USE DEF lifecycle, data
  <1>1. CASE Start("out")
    <2>1. ControlType'
      BY <1>1 DEF Start, ControlType, Goto, Label, Thread
    <2>2. FlagType'
      BY <1>1 DEF Start, FlagType
    <2>3. CountType'
      BY <1>1 DEF Start, CountType
    <2>4. DataType'
      BY <1>1 DEF Start, DataType
    <2> QED BY <2>1, <2>2, <2>3, <2>4 DEF TypeOK
  <1>2. CASE Wait("out", queueOut, "cleanup")
    <2>1. ControlType'
      BY <1>2 DEF Wait, ControlType, Goto, Label, Thread
    <2>2. FlagType'
      BY <1>2 DEF Wait, FlagType
    <2>3. CountType'
      BY <1>2 DEF Wait, CountType
    <2>4. DataType'
      BY <1>2 DEF Wait, DataType
    <2> QED BY <2>1, <2>2, <2>3, <2>4 DEF TypeOK
  <1>3. CASE Check("out", "cleanup")
    <2>1. ControlType'
      BY <1>3 DEF Check, ControlType, Goto, Label, Thread
    <2>2. FlagType'
      BY <1>3 DEF Check, FlagType
    <2>3. CountType'
      BY <1>3 DEF Check, CountType
    <2>4. DataType'
      BY <1>3 DEF Check, DataType
    <2> QED BY <2>1, <2>2, <2>3, <2>4 DEF TypeOK
  <1>4. CASE OutLock
    <2>1. ControlType'
      BY <1>4 DEF OutLock, ControlType, Goto, Label, Thread
    <2>2. FlagType'
      BY <1>4 DEF OutLock, FlagType, Acquire, Mutex, Thread
    <2>3. CountType'
      BY <1>4 DEF OutLock, CountType
    <2>4. DataType'
      BY <1>4 DEF OutLock, DataType
    <2> QED BY <2>1, <2>2, <2>3, <2>4 DEF TypeOK
  <1>5. CASE OutTake
    <2>1. ControlType'
      BY <1>5 DEF OutTake, ControlType, Goto, Label, Thread
    <2>2. FlagType'
      BY <1>5 DEF OutTake, FlagType
    <2>3. CountType'
      BY <1>5 DEF OutTake, CountType
    <2>4. DataType'
      BY <1>5, RangeTail DEF OutTake, DataType, Thread, Pointer, NoNode, Garbage, Torn
    <2> QED BY <2>1, <2>2, <2>3, <2>4 DEF TypeOK
  <1>6. CASE OutUnlock
    <2>1. ControlType'
      BY <1>6 DEF OutUnlock, ControlType, Goto, Label, Thread
    <2>2. FlagType'
      BY <1>6 DEF OutUnlock, FlagType, Release, Mutex, Thread
    <2>3. CountType'
      BY <1>6 DEF OutUnlock, CountType
    <2>4. DataType'
      BY <1>6 DEF OutUnlock, DataType
    <2> QED BY <2>1, <2>2, <2>3, <2>4 DEF TypeOK
  <1>7. CASE OutSend
    <2>1. ControlType'
      BY <1>7 DEF OutSend, ControlType, Goto, Label, Thread
    <2>2. FlagType'
      BY <1>7 DEF OutSend, FlagType
    <2>3. CountType'
      BY <1>7 DEF OutSend, CountType
    <2>4. DataType'
      BY <1>7 DEF OutSend, DataType, Thread
    <2> QED BY <2>1, <2>2, <2>3, <2>4 DEF TypeOK
  <1>8. CASE OutFree
    <2>1. ControlType'
      BY <1>8 DEF OutFree, ControlType, Goto, Label, Thread, nodeFree
    <2>2. FlagType'
      BY <1>8 DEF OutFree, FlagType
    <2>3. CountType'
      BY <1>8 DEF OutFree, CountType
    <2>4. DataType'
      BY <1>8 DEF OutFree, DataType, nodeFree, Freed, Thread, Pointer, NoNode
    <2> QED BY <2>1, <2>2, <2>3, <2>4 DEF TypeOK
  <1>9. CASE CleanUp("out")
    <2>1. ControlType'
      BY <1>9 DEF CleanUp, ControlType, Goto, Label, Thread
    <2>2. FlagType'
      BY <1>9 DEF CleanUp, FlagType
    <2>3. CountType'
      BY <1>9 DEF CleanUp, CountType
    <2>4. DataType'
      BY <1>9 DEF CleanUp, DataType
    <2> QED BY <2>1, <2>2, <2>3, <2>4 DEF TypeOK
  <1>10. CASE Destroy("out", "mutexOut")
    <2>1. ControlType'
      BY <1>10 DEF Destroy, ControlType, Goto, Label, Thread
    <2>2. FlagType'
      BY <1>10 DEF Destroy, FlagType, Mutex, Thread
    <2>3. CountType'
      BY <1>10 DEF Destroy, CountType
    <2>4. DataType'
      BY <1>10 DEF Destroy, DataType
    <2> QED BY <2>1, <2>2, <2>3, <2>4 DEF TypeOK
  <1> QED BY <1>1, <1>2, <1>3, <1>4, <1>5, <1>6, <1>7, <1>8, <1>9, <1>10 DEF OutThread

LEMMA OneFrame == Activation \in Frame /\ <<Activation>> \in Seq(Frame)
  BY DEF Activation, Frame, FrameLabel, Pointer, Garbage

LEMMA TypeMain == TypeOK /\ Main => TypeOK'
  <1> SUFFICES ASSUME ControlType, FlagType, CountType, DataType, Main
               PROVE  TypeOK'
    BY DEF TypeOK
  <1> USE DEF lifecycle, data
  <1>1. CASE CreateThread("proc", "createProc", "createIn")
    <2>1. ControlType'
      BY <1>1 DEF CreateThread, ControlType, Goto, Label, Thread, MainLabel
    <2>2. FlagType'
      BY <1>1 DEF CreateThread, FlagType
    <2>3. CountType'
      BY <1>1 DEF CreateThread, CountType, Succeeds, Fails
    <2>4. DataType'
      BY <1>1 DEF CreateThread, DataType
    <2> QED BY <2>1, <2>2, <2>3, <2>4 DEF TypeOK
  <1>2. CASE CreateThread("in", "createIn", "createOut")
    <2>1. ControlType'
      BY <1>2 DEF CreateThread, ControlType, Goto, Label, Thread, MainLabel
    <2>2. FlagType'
      BY <1>2 DEF CreateThread, FlagType
    <2>3. CountType'
      BY <1>2 DEF CreateThread, CountType, Succeeds, Fails
    <2>4. DataType'
      BY <1>2 DEF CreateThread, DataType
    <2> QED BY <2>1, <2>2, <2>3, <2>4 DEF TypeOK
  <1>3. CASE CreateThread("out", "createOut", "socket")
    <2>1. ControlType'
      BY <1>3 DEF CreateThread, ControlType, Goto, Label, Thread, MainLabel
    <2>2. FlagType'
      BY <1>3 DEF CreateThread, FlagType
    <2>3. CountType'
      BY <1>3 DEF CreateThread, CountType, Succeeds, Fails
    <2>4. DataType'
      BY <1>3 DEF CreateThread, DataType
    <2> QED BY <2>1, <2>2, <2>3, <2>4 DEF TypeOK
  <1>4. CASE OpenSocket
    <2>1. ControlType'
      BY <1>4 DEF OpenSocket, ControlType, MainLabel
    <2>2. FlagType'
      BY <1>4 DEF OpenSocket, FlagType
    <2>3. CountType'
      BY <1>4 DEF OpenSocket, CountType, Succeeds, Fails
    <2>4. DataType'
      BY <1>4 DEF OpenSocket, DataType
    <2> QED BY <2>1, <2>2, <2>3, <2>4 DEF TypeOK
  <1>5. CASE RunThread("in", "runIn", "runOut")
    <2>1. ControlType'
      BY <1>5 DEF RunThread, ControlType, MainLabel
    <2>2. FlagType'
      BY <1>5 DEF RunThread, FlagType, Thread
    <2>3. CountType'
      BY <1>5 DEF RunThread, CountType
    <2>4. DataType'
      BY <1>5 DEF RunThread, DataType
    <2> QED BY <2>1, <2>2, <2>3, <2>4 DEF TypeOK
  <1>6. CASE RunThread("out", "runOut", "runProc")
    <2>1. ControlType'
      BY <1>6 DEF RunThread, ControlType, MainLabel
    <2>2. FlagType'
      BY <1>6 DEF RunThread, FlagType, Thread
    <2>3. CountType'
      BY <1>6 DEF RunThread, CountType
    <2>4. DataType'
      BY <1>6 DEF RunThread, DataType
    <2> QED BY <2>1, <2>2, <2>3, <2>4 DEF TypeOK
  <1>7. CASE RunThread("proc", "runProc", "trywait")
    <2>1. ControlType'
      BY <1>7 DEF RunThread, ControlType, MainLabel
    <2>2. FlagType'
      BY <1>7 DEF RunThread, FlagType, Thread
    <2>3. CountType'
      BY <1>7 DEF RunThread, CountType
    <2>4. DataType'
      BY <1>7 DEF RunThread, DataType
    <2> QED BY <2>1, <2>2, <2>3, <2>4 DEF TypeOK
  <1>8. CASE TryWait
    <2>1. ControlType'
      BY <1>8 DEF TryWait, ControlType, MainLabel
    <2>2. FlagType'
      BY <1>8 DEF TryWait, FlagType
    <2>3. CountType'
      BY <1>8 DEF TryWait, CountType
    <2>4. DataType'
      BY <1>8 DEF TryWait, DataType
    <2> QED BY <2>1, <2>2, <2>3, <2>4 DEF TypeOK
  <1>9. CASE CheckError
    <2>1. ControlType'
      BY <1>9, OneFrame DEF CheckError, ControlType, MainLabel
    <2>2. FlagType'
      BY <1>9 DEF CheckError, FlagType
    <2>3. CountType'
      BY <1>9 DEF CheckError, CountType
    <2>4. DataType'
      BY <1>9 DEF CheckError, DataType
    <2> QED BY <2>1, <2>2, <2>3, <2>4 DEF TypeOK
  <1>10. CASE Leave
    <2>1. ControlType'
      BY <1>10 DEF Leave, ControlType, MainLabel
    <2>2. FlagType'
      BY <1>10 DEF Leave, FlagType
    <2>3. CountType'
      BY <1>10 DEF Leave, CountType
    <2>4. DataType'
      BY <1>10 DEF Leave, DataType
    <2> QED BY <2>1, <2>2, <2>3, <2>4 DEF TypeOK
  <1> QED BY <1>1, <1>2, <1>3, <1>4, <1>5, <1>6, <1>7, <1>8, <1>9, <1>10 DEF Main

\* The topmost activation moves on, or returns.
LEMMA HoldType ==
    ASSUME frames \in Seq(Frame), frames # <<>>
    PROVE  /\ Head(frames) \in Frame /\ Head(frames).node \in Pointer
           /\ Head(frames).at \in FrameLabel
           /\ Tail(frames) \in Seq(Frame)
           /\ \A label \in FrameLabel, n \in Pointer :
                 Hold(label, n) => frames' \in Seq(Frame)
           /\ \A label \in FrameLabel : Resume(label) => frames' \in Seq(Frame)
  <1>1. Tail(frames) \in Seq(Frame) /\ Head(frames) \in Frame
    BY HeadTailProperties
  <1>2. Head(frames).node \in Pointer /\ Head(frames).at \in FrameLabel
    BY <1>1 DEF Frame
  <1>3. ASSUME NEW label \in FrameLabel, NEW n \in Pointer, Hold(label, n)
        PROVE  frames' \in Seq(Frame)
    <2>1. <<[at |-> label, node |-> n]>> \in Seq(Frame)
      BY DEF Frame
    <2> QED BY <1>1, <1>3, <2>1, ConcatProperties DEF Hold
  <1> QED BY <1>1, <1>2, <1>3 DEF Resume

LEMMA TypeExit == TypeOK /\ exitProgram => TypeOK'
  <1> SUFFICES ASSUME ControlType, FlagType, CountType, DataType, exitProgram
               PROVE  TypeOK'
    BY DEF TypeOK
  <1> USE DEF lifecycle, data
  <1>1. CASE StopThread("in", "stopIn", "stopOut")
    <2>1. ControlType'
      BY <1>1, HoldType DEF StopThread, ControlType, At, FrameLabel
    <2>2. FlagType'
      BY <1>1 DEF StopThread, FlagType, Thread
    <2>3. CountType'
      BY <1>1 DEF StopThread, CountType
    <2>4. DataType'
      BY <1>1 DEF StopThread, DataType
    <2> QED BY <2>1, <2>2, <2>3, <2>4 DEF TypeOK
  <1>2. CASE StopThread("out", "stopOut", "stopProc")
    <2>1. ControlType'
      BY <1>2, HoldType DEF StopThread, ControlType, At, FrameLabel
    <2>2. FlagType'
      BY <1>2 DEF StopThread, FlagType, Thread
    <2>3. CountType'
      BY <1>2 DEF StopThread, CountType
    <2>4. DataType'
      BY <1>2 DEF StopThread, DataType
    <2> QED BY <2>1, <2>2, <2>3, <2>4 DEF TypeOK
  <1>3. CASE StopThread("proc", "stopProc", "joinIn")
    <2>1. ControlType'
      BY <1>3, HoldType DEF StopThread, ControlType, At, FrameLabel
    <2>2. FlagType'
      BY <1>3 DEF StopThread, FlagType, Thread
    <2>3. CountType'
      BY <1>3 DEF StopThread, CountType
    <2>4. DataType'
      BY <1>3 DEF StopThread, DataType
    <2> QED BY <2>1, <2>2, <2>3, <2>4 DEF TypeOK
  <1>4. CASE Join("in", "joinIn", "joinOut")
    <2>1. ControlType'
      BY <1>4, HoldType DEF Join, ControlType, At, Thread, FrameLabel
    <2>2. FlagType'
      BY <1>4 DEF Join, FlagType
    <2>3. CountType'
      BY <1>4 DEF Join, CountType
    <2>4. DataType'
      BY <1>4 DEF Join, DataType
    <2> QED BY <2>1, <2>2, <2>3, <2>4 DEF TypeOK
  <1>5. CASE Join("out", "joinOut", "joinProc")
    <2>1. ControlType'
      BY <1>5, HoldType DEF Join, ControlType, At, Thread, FrameLabel
    <2>2. FlagType'
      BY <1>5 DEF Join, FlagType
    <2>3. CountType'
      BY <1>5 DEF Join, CountType
    <2>4. DataType'
      BY <1>5 DEF Join, DataType
    <2> QED BY <2>1, <2>2, <2>3, <2>4 DEF TypeOK
  <1>6. CASE Join("proc", "joinProc", "countOut")
    <2>1. ControlType'
      BY <1>6, HoldType DEF Join, ControlType, At, Thread, FrameLabel, DrainOut
    <2>2. FlagType'
      BY <1>6 DEF Join, FlagType
    <2>3. CountType'
      BY <1>6 DEF Join, CountType
    <2>4. DataType'
      BY <1>6 DEF Join, DataType
    <2> QED BY <2>1, <2>2, <2>3, <2>4 DEF TypeOK
  <1>t. /\ queueIn \in Seq(Pointer) /\ queueOut \in Seq(Pointer) /\ NoNode \in Pointer
        /\ \A q \in Seq(Pointer) : q # <<>> => Head(q) \in Pointer /\ Tail(q) \in Seq(Pointer)
    BY RangeTail DEF DataType, Pointer, NoNode
  <1>7. ASSUME NEW queue \in Seq(Pointer), NEW at, NEW next \in FrameLabel,
               NEW done \in FrameLabel,
               DrainCount(queue, at, next, done) \/ DrainRead(queue, at, next)
        PROVE  TypeOK'
    <2>1. ControlType'
      <3>1. frames' \in Seq(Frame)
        BY <1>7, <1>t, HoldType DEF DrainCount, DrainRead, ControlType, At
      <3> QED BY <1>7, <3>1 DEF DrainCount, DrainRead, ControlType
    <2>2. FlagType'
      BY <1>7 DEF DrainCount, DrainRead, FlagType
    <2>3. CountType'
      BY <1>7 DEF DrainCount, DrainRead, CountType
    <2>4. DataType'
      BY <1>7 DEF DrainCount, DrainRead, DataType
    <2> QED BY <2>1, <2>2, <2>3, <2>4 DEF TypeOK
  <1>8. ASSUME NEW at, NEW next \in FrameLabel, DrainTake(at, next)
        PROVE  TypeOK'
    <2>1. ControlType'
      <3>1. frames' \in Seq(Frame)
        BY <1>8, HoldType DEF DrainTake, ControlType, At
      <3> QED BY <1>8, <3>1 DEF DrainTake, ControlType
    <2>2. FlagType'
      BY <1>8 DEF DrainTake, FlagType
    <2>3. CountType'
      BY <1>8 DEF DrainTake, CountType
    <2>4. DataType'
      <3>1. \A q : q = <<>> => Range(q) = {}
        BY DEF Range
      <3>2. queueIn' \in Seq(Pointer) /\ queueOut' \in Seq(Pointer)
        BY <1>8, <1>t, <3>1 DEF DrainTake
      <3> QED BY <1>8, <3>2 DEF DrainTake, DataType
    <2> QED BY <2>1, <2>2, <2>3, <2>4 DEF TypeOK
  <1>9. ASSUME NEW at, NEW next \in FrameLabel, DrainFree(at, next)
        PROVE  TypeOK'
    <2>1. Head(frames).node \in Pointer /\ frames' \in Seq(Frame)
      BY <1>9, HoldType DEF DrainFree, ControlType, At
    <2>2. ControlType'
      BY <1>9, <2>1 DEF DrainFree, ControlType, nodeFree
    <2>3. FlagType'
      BY <1>9 DEF DrainFree, FlagType
    <2>4. CountType'
      BY <1>9 DEF DrainFree, CountType
    <2>5. DataType'
      BY <1>9, <2>1 DEF DrainFree, DataType, nodeFree, Freed
    <2> QED BY <2>2, <2>3, <2>4, <2>5 DEF TypeOK
  <1>10. CASE ReleaseAll
    <2>1. ControlType'
      BY <1>10, HoldType DEF ReleaseAll, ControlType, At, FrameLabel
    <2>2. FlagType'
      BY <1>10 DEF ReleaseAll, FlagType
    <2>3. CountType'
      BY <1>10 DEF ReleaseAll, CountType
    <2>4. DataType'
      BY <1>10 DEF ReleaseAll, DataType
    <2> QED BY <2>1, <2>2, <2>3, <2>4 DEF TypeOK
  <1>11. CASE Post
    <2>1. ControlType'
      BY <1>11, HoldType DEF Post, ControlType, At
    <2>2. FlagType'
      BY <1>11 DEF Post, FlagType
    <2>3. CountType'
      BY <1>11 DEF Post, CountType
    <2>4. DataType'
      BY <1>11 DEF Post, DataType
    <2> QED BY <2>1, <2>2, <2>3, <2>4 DEF TypeOK
  <1>l. DrainOut \cup DrainIn \cup {"release"} \subseteq FrameLabel
    BY DEF FrameLabel
  <1> QED BY <1>1, <1>2, <1>3, <1>4, <1>5, <1>6, <1>7, <1>8, <1>9, <1>10, <1>11, <1>t, <1>l
          DEF exitProgram, DrainOut, DrainIn

LEMMA TypeSignal == TypeOK /\ Signal => TypeOK'
  <1> SUFFICES ASSUME ControlType, FlagType, CountType, DataType, Signal
               PROVE  TypeOK'
    BY DEF TypeOK
  <1>1. <<Activation>> \in Seq(Frame) /\ frames \in Seq(Frame)
    BY OneFrame DEF ControlType
  <1>2. frames' \in Seq(Frame)
    BY <1>1, ConcatProperties DEF Signal
  <1>3. ControlType'
    BY <1>2 DEF Signal, ControlType
  <1>4. FlagType'
    BY DEF Signal, FlagType, data
  <1>5. CountType'
    BY DEF Signal, CountType, data
  <1>6. DataType'
    BY DEF Signal, DataType, data
  <1> QED BY <1>3, <1>4, <1>5, <1>6 DEF TypeOK

LEMMA TypeStep == TypeOK /\ [Next]_vars => TypeOK'
  <1>1. TypeOK /\ UNCHANGED vars => TypeOK'
    BY DEF TypeOK, ControlType, FlagType, CountType, DataType, vars, lifecycle
  <1> QED BY <1>1, TypeIn, TypeProc, TypeOut, TypeMain, TypeSignal, TypeExit DEF Next

\* Every variable keeps its type, in every behaviour of the daemon.
THEOREM TypeCorrect == Spec => []TypeOK
  BY TypeInit, TypeStep, PTL DEF Spec

----------------------------------------------------------------------------
(* The inductive invariant.                                                *)

\* The labels of an activation that drains the queues, or is about to release.
Draining == DrainOut \cup DrainIn \cup {"release"}

\* A thread that exitProgram joined has ended and is never created again; an
\* activation that got past the join of a thread has that thread joined.
JoinedAreGone ==
    /\ \A t \in joined : pc[t] = "exited"
    /\ main = "createProc" => \A t \in Thread : pc[t] = "none"
    /\ main \in {"createProc", "createIn"} => pc["in"] = "none"
    /\ main \in {"createProc", "createIn", "createOut"} => pc["out"] = "none"
    /\ \A i \in DOMAIN frames :
          /\ frames[i].at \in {"joinOut", "joinProc", "post"} \cup Draining => "in" \in joined
          /\ frames[i].at \in {"joinProc", "post"} \cup Draining => "out" \in joined
          /\ frames[i].at \in {"post"} \cup Draining => "proc" \in joined
    /\ released => joined = Thread

\* How far the drain got: what an activation has emptied stays empty.
Drained ==
    /\ \A i \in DOMAIN frames :
          /\ frames[i].at \in DrainIn \cup {"release"} => queueOut = <<>>
          /\ frames[i].at = "release" => queueIn = <<>>
          /\ frames[i].at = "post" => released
          /\ frames[i].at \in {"takeOut", "freeOut", "takeIn", "freeIn"}
             => frames[i].node \in {NoNode} \cup 1..received
    /\ released => queueIn = <<>> /\ queueOut = <<>>

\* What an activation in the drain holds is what it read, and nobody else's.
Exact(f) ==
    /\ f.at = "readOut" => queueOut # <<>>
    /\ f.at = "takeOut" => queueOut # <<>> /\ f.node = Head(queueOut)
    /\ f.at = "readIn"  => queueIn # <<>>
    /\ f.at = "takeIn"  => queueIn # <<>> /\ f.node = Head(queueIn)
    /\ f.at \in {"freeOut", "freeIn"}
       => /\ f.node \in 1..received
          /\ f.node \notin freed \cup Range(queueOut) \cup Range(queueIn)

ExactAt(i) == Exact(frames[i])

\* Every activation is exact that no other one, above it or come to its end, overtook.
Hands ==
    \A i \in DOMAIN frames :
        \/ released
        \/ \E j \in DOMAIN frames : j < i /\ frames[j].at \in Draining
        \/ ExactAt(i)

\* The node of the out thread until it is freed, after the send too.
OutOwned == IF pc["out"] \in {"unlock", "send", "free"} THEN {node["out"]} ELSE {}

\* ArrivalOrder, with the node that was sent and is not yet freed.
Order ==
    /\ Increasing(sent) /\ Increasing(queueOut) /\ Increasing(queueIn)
    /\ Below(Range(sent), Pending)
    /\ Below(OutOwned, Range(queueOut) \cup ProcHeld \cup Range(queueIn) \cup InHeld)
    /\ Below(Range(queueOut), ProcHeld \cup Range(queueIn) \cup InHeld)
    /\ Below(ProcHeld, Range(queueIn) \cup InHeld)
    /\ Below(Range(queueIn), InHeld)

\* Whatever is anywhere was read from the socket: NULL and Garbage are nowhere.
WasRead == Range(sent) \cup OutOwned \cup Pending \cup freed \subseteq 1..received

\* Nothing freed is in use.
Live == (OutOwned \cup Pending) \cap freed = {}

\* What a consumer saw before it took the mutex is still there.
SeenStays ==
    /\ pc["proc"] \in {"check", "lock", "take"} => queueIn # <<>>
    /\ pc["out"] \in {"check", "lock", "take"} => queueOut # <<>>

Inv ==
    /\ TypeOK /\ JoinedAreGone /\ Drained /\ Hands
    /\ Order /\ WasRead /\ Live /\ SeenStays /\ NodesUsedSafely

----------------------------------------------------------------------------
(* Threads that are gone.                                                  *)

\* What the topmost activation may become: it moves on, the others stay.
LEMMA FramesHold ==
    ASSUME frames \in Seq(Frame), frames # <<>>, NEW x \in Frame,
           frames' = <<x>> \o Tail(frames)
    PROVE  /\ frames' \in Seq(Frame) /\ DOMAIN frames' = DOMAIN frames
           /\ frames'[1] = x /\ Head(frames) = frames[1]
           /\ 1 \in DOMAIN frames /\ DOMAIN frames \subseteq Nat \ {0}
           /\ \A i \in DOMAIN frames : i # 1 => frames'[i] = frames[i]
  <1>1. /\ <<x>> \in Seq(Frame) /\ Len(<<x>>) = 1 /\ <<x>>[1] = x
        /\ Tail(frames) \in Seq(Frame) /\ Len(Tail(frames)) = Len(frames) - 1
        /\ Len(frames) \in Nat \ {0} /\ DOMAIN frames = 1..Len(frames)
        /\ Head(frames) = frames[1]
        /\ \A i \in 1..(Len(frames) - 1) : Tail(frames)[i] = frames[i + 1]
    BY HeadTailProperties, EmptySeq, LenProperties
  <1>2. /\ frames' \in Seq(Frame) /\ Len(frames') = Len(frames)
        /\ DOMAIN frames' = 1..Len(frames')
        /\ \A i \in 1..Len(frames) :
              frames'[i] = IF i <= 1 THEN <<x>>[i] ELSE Tail(frames)[i - 1]
    BY <1>1, ConcatProperties, LenProperties
  <1> QED BY <1>1, <1>2

\* The activation that runs now is frames[1]; when it returns, the next one is.
LEMMA FramesTail ==
    ASSUME frames \in Seq(Frame), frames # <<>>
    PROVE  /\ Tail(frames) \in Seq(Frame)
           /\ 1 \in DOMAIN frames /\ Head(frames) = frames[1]
           /\ \A i \in DOMAIN Tail(frames) : i + 1 \in DOMAIN frames /\ Tail(frames)[i] = frames[i + 1]
  <1>1. /\ Tail(frames) \in Seq(Frame) /\ Len(Tail(frames)) = Len(frames) - 1
        /\ Len(frames) \in Nat \ {0} /\ DOMAIN frames = 1..Len(frames)
        /\ Head(frames) = frames[1]
        /\ DOMAIN Tail(frames) = 1..(Len(frames) - 1)
        /\ \A i \in 1..(Len(frames) - 1) : Tail(frames)[i] = frames[i + 1]
    BY HeadTailProperties, EmptySeq, LenProperties
  <1> QED BY <1>1

\* A signal puts a new activation on top.
LEMMA FramesPush ==
    ASSUME frames \in Seq(Frame), frames' = <<Activation>> \o frames
    PROVE  /\ DOMAIN frames \subseteq Nat \ {0} /\ DOMAIN frames' \subseteq Nat \ {0}
           /\ \A i \in DOMAIN frames' :
                 \/ i = 1 /\ frames'[i] = Activation
                 \/ i - 1 \in DOMAIN frames /\ frames'[i] = frames[i - 1]
           /\ \A i \in DOMAIN frames : i + 1 \in DOMAIN frames' /\ frames'[i + 1] = frames[i]
  <1>1. /\ <<Activation>> \in Seq(Frame) /\ Len(<<Activation>>) = 1
        /\ <<Activation>>[1] = Activation /\ Len(frames) \in Nat
        /\ DOMAIN frames = 1..Len(frames)
    BY OneFrame, LenProperties
  <1>2. /\ DOMAIN frames' = 1..(1 + Len(frames))
        /\ \A i \in 1..(1 + Len(frames)) :
              frames'[i] = IF i <= 1 THEN <<Activation>>[i] ELSE frames[i - 1]
    BY <1>1, ConcatProperties, LenProperties
  <1> QED BY <1>1, <1>2

\* The steps of the drain.
DrainStep ==
    \/ DrainCount(queueOut, "countOut", "readOut", "countIn")
    \/ DrainRead(queueOut, "readOut", "takeOut")
    \/ DrainTake("takeOut", "freeOut") \/ DrainFree("freeOut", "countOut")
    \/ DrainCount(queueIn, "countIn", "readIn", "release")
    \/ DrainRead(queueIn, "readIn", "takeIn")
    \/ DrainTake("takeIn", "freeIn") \/ DrainFree("freeIn", "countIn")

\* They keep to the main thread, and the activation stays in the drain.
LEMMA DrainMoves ==
    ASSUME TypeOK, DrainStep
    PROVE  /\ frames # <<>> /\ Head(frames).at \in Draining
           /\ UNCHANGED <<pc, main, joined, released, node, received, sent, owner, errorThread>>
           /\ \/ UNCHANGED <<frames, freed>>
              \/ \E x \in Frame : x.at \in Draining /\ frames' = <<x>> \o Tail(frames)
  <1>1. /\ frames # <<>> /\ Head(frames).at \in Draining
        /\ UNCHANGED <<pc, main, joined, released, node, received, sent, owner, errorThread>>
    BY DEF DrainStep, DrainCount, DrainRead, DrainTake, DrainFree, At, Draining, DrainOut,
       DrainIn, data
  <1>2. /\ Head(frames).node \in Pointer /\ NoNode \in Pointer
        /\ queueOut # <<>> => Head(queueOut) \in Pointer
        /\ queueIn # <<>> => Head(queueIn) \in Pointer
    BY <1>1, HoldType, RangeTail DEF TypeOK, ControlType, DataType, Pointer, NoNode
  <1>3. \/ UNCHANGED <<frames, freed>>
        \/ \E label \in Draining, n \in Pointer : Hold(label, n)
    BY <1>2 DEF DrainStep, DrainCount, DrainRead, DrainTake, DrainFree, Resume, Draining,
       DrainOut, DrainIn, data
  <1>4. ASSUME NEW label \in Draining, NEW n \in Pointer, Hold(label, n)
        PROVE  \E x \in Frame : x.at \in Draining /\ frames' = <<x>> \o Tail(frames)
    <2>1. [at |-> label, node |-> n] \in Frame
      BY DEF Frame, FrameLabel, Draining
    <2> QED BY <1>4, <2>1 DEF Hold
  <1> QED BY <1>1, <1>3, <1>4

\* A thread moves itself alone, only after its creation and before its end, and
\* leaves the main thread alone.
Moves(t) ==
    /\ pc[t] \notin {"none", "exited"} /\ pc'[t] # "none"
    /\ \A u \in Thread \ {t} : pc'[u] = pc[u]
    /\ UNCHANGED <<main, frames, joined, released>>

LEMMA InMoves == TypeOK /\ InThread => Moves("in")
  BY DEF TypeOK, ControlType, InThread, InStart, InLoop, InCount, InRead, InLock,
     InAppend, InUnlock, CleanUp, Destroy, Goto, Moves, Thread, lifecycle

LEMMA ProcMoves == TypeOK /\ ProcThread => Moves("proc")
  BY DEF TypeOK, ControlType, ProcThread, Start, Wait, Check, ProcLock, ProcTake,
     ProcUnlock, ProcDrop, ProcAnswer, ProcAppend, Goto, Moves, Thread, lifecycle

LEMMA OutMoves == TypeOK /\ OutThread => Moves("out")
  BY DEF TypeOK, ControlType, OutThread, Start, Wait, Check, OutLock, OutTake,
     OutUnlock, OutSend, OutFree, CleanUp, Destroy, Goto, Moves, Thread, lifecycle

LEMMA JoinedThread ==
    ASSUME TypeOK, JoinedAreGone, NEW t \in Thread, Moves(t)
    PROVE  JoinedAreGone'
  BY DEF TypeOK, ControlType, JoinedAreGone, Moves, Thread

LEMMA JoinedMain == TypeOK /\ JoinedAreGone /\ Main => JoinedAreGone'
  <1> SUFFICES ASSUME TypeOK, JoinedAreGone, Main PROVE JoinedAreGone'
    OBVIOUS
  <1> USE DEF TypeOK, ControlType, JoinedAreGone, Thread
  <1>1. CASE CreateThread("proc", "createProc", "createIn")
    BY <1>1 DEF CreateThread, Goto
  <1>2. CASE CreateThread("in", "createIn", "createOut")
    BY <1>2 DEF CreateThread, Goto
  <1>3. CASE CreateThread("out", "createOut", "socket")
    BY <1>3 DEF CreateThread, Goto
  <1>4. CASE OpenSocket BY <1>4 DEF OpenSocket
  <1>5. ASSUME NEW t, NEW at, NEW next, RunThread(t, at, next),
               next \in {"runOut", "runProc", "trywait"}
        PROVE  JoinedAreGone'
    BY <1>5 DEF RunThread
  <1>6. CASE TryWait BY <1>6 DEF TryWait
  <1>7. CASE CheckError
    <2>1. \A i \in DOMAIN frames' : frames'[i].at = "stopIn" \/ frames' = frames
      BY <1>7 DEF CheckError, Activation
    <2> QED BY <1>7, <2>1 DEF CheckError, Draining, DrainOut, DrainIn
  <1>8. CASE Leave BY <1>8 DEF Leave
  <1> QED BY <1>1, <1>2, <1>3, <1>4, <1>5, <1>6, <1>7, <1>8 DEF Main

LEMMA JoinedExit == TypeOK /\ JoinedAreGone /\ exitProgram => JoinedAreGone'
  <1> SUFFICES ASSUME TypeOK, JoinedAreGone, exitProgram PROVE JoinedAreGone'
    OBVIOUS
  <1>a. frames \in Seq(Frame) /\ DrainStep \in BOOLEAN
    BY DEF TypeOK, ControlType, DrainStep, DrainCount, DrainRead, DrainTake, DrainFree
  <1>h. ASSUME frames # <<>>, NEW label \in FrameLabel, Resume(label)
        PROVE  \E x \in Frame : x.at = label /\ frames' = <<x>> \o Tail(frames)
    BY <1>a, <1>h, HoldType DEF Resume, Hold, Frame
  <1>1. ASSUME NEW t, NEW at, NEW next \in {"stopOut", "stopProc", "joinIn"},
               StopThread(t, at, next)
        PROVE  JoinedAreGone'
    <2>1. next \in FrameLabel /\ next \notin Draining
      BY DEF FrameLabel, Draining, DrainOut, DrainIn
    <2>2. PICK x \in Frame : x.at = next /\ frames' = <<x>> \o Tail(frames)
      BY <1>1, <1>h, <2>1 DEF StopThread, At
    <2>3. /\ frames'[1].at = next /\ DOMAIN frames' = DOMAIN frames
          /\ \A i \in DOMAIN frames : i # 1 => frames'[i] = frames[i]
      BY <1>1, <1>a, <2>2, FramesHold DEF StopThread, At
    <2> QED BY <1>1, <2>1, <2>3 DEF StopThread, JoinedAreGone
  <1>2. ASSUME NEW t \in Thread, NEW at, NEW next \in FrameLabel, Join(t, at, next),
               next \in {"joinOut", "joinProc", "countOut"},
               next = "joinOut" => t = "in",
               next = "joinProc" => t = "out" /\ at = "joinOut",
               next = "countOut" => t = "proc" /\ at = "joinProc"
        PROVE  JoinedAreGone'
    <2>1. CASE UNCHANGED <<frames, joined>>
      BY <1>2, <2>1 DEF Join, JoinedAreGone
    <2>2. CASE pc[t] = "exited" /\ Resume(next) /\ joined' = joined \cup {t}
      <3>1. PICK x \in Frame : x.at = next /\ frames' = <<x>> \o Tail(frames)
        BY <1>2, <1>h, <2>2 DEF Join, At
      <3>2. /\ frames'[1].at = next /\ frames[1].at = at /\ 1 \in DOMAIN frames
            /\ DOMAIN frames' = DOMAIN frames
            /\ \A i \in DOMAIN frames : i # 1 => frames'[i] = frames[i]
        BY <1>2, <1>a, <3>1, FramesHold DEF Join, At
      <3>3. "joinOut" \notin Draining /\ "joinProc" \notin Draining
        BY DEF Draining, DrainOut, DrainIn
      <3>4. \A i \in DOMAIN frames' :
               /\ frames'[i].at \in {"joinOut", "joinProc", "post"} \cup Draining => "in" \in joined'
               /\ frames'[i].at \in {"joinProc", "post"} \cup Draining => "out" \in joined'
               /\ frames'[i].at \in {"post"} \cup Draining => "proc" \in joined'
        BY <1>2, <2>2, <3>2, <3>3 DEF JoinedAreGone
      <3> QED BY <1>2, <2>2, <3>4 DEF Join, JoinedAreGone, TypeOK, ControlType, Thread
    <2> QED BY <1>2, <2>1, <2>2 DEF Join
  <1>3. CASE DrainStep \/ ReleaseAll
    <2>1. /\ frames # <<>> /\ Head(frames).at \in Draining
          /\ UNCHANGED <<pc, main, joined>>
      BY <1>3, DrainMoves DEF ReleaseAll, At, Draining
    <2>2. joined = Thread
      BY <2>1, <1>a, FramesTail DEF JoinedAreGone, TypeOK, ControlType, Thread
    <2> QED BY <2>1, <2>2 DEF JoinedAreGone, Thread
  <1>4. CASE Post
    <2>1. \A i \in DOMAIN frames' : i + 1 \in DOMAIN frames /\ frames'[i] = frames[i + 1]
      BY <1>4, <1>a, FramesTail DEF Post, At
    <2> QED BY <1>4, <2>1 DEF Post, JoinedAreGone
  <1>l. {"joinOut", "joinProc", "countOut"} \subseteq FrameLabel
    BY DEF FrameLabel, DrainOut
  <1> QED BY <1>1, <1>2, <1>3, <1>4, <1>l DEF exitProgram, Thread, DrainStep

LEMMA JoinedStep == TypeOK /\ JoinedAreGone /\ Next => JoinedAreGone'
  <1> SUFFICES ASSUME TypeOK, JoinedAreGone, Next PROVE JoinedAreGone'
    OBVIOUS
  <1>1. CASE Signal
    <2>1. frames \in Seq(Frame) /\ frames' = <<Activation>> \o frames
      BY <1>1 DEF Signal, TypeOK, ControlType
    <2>2. \A i \in DOMAIN frames' :
             \/ frames'[i].at = "stopIn"
             \/ i - 1 \in DOMAIN frames /\ frames'[i] = frames[i - 1]
      BY <2>1, FramesPush DEF Activation
    <2> QED BY <1>1, <2>2 DEF Signal, JoinedAreGone, Draining, DrainOut, DrainIn
  <1> QED BY <1>1, InMoves, ProcMoves, OutMoves, JoinedThread, JoinedMain, JoinedExit
          DEF Next, Thread

----------------------------------------------------------------------------
(* The pipeline.                                                           *)

stages == <<received, sent, freed, queueIn, queueOut, InHeld, ProcHeld, OutHeld, OutOwned>>

InOrder == Order /\ WasRead /\ Live /\ NodesUsedSafely

\* Steps that move no node.
LEMMA QuietKeeps ==
    ASSUME InOrder, UNCHANGED stages, released => released',
           fault' \in {fault, "useAfterFree", "wildFree", "badJoin", "secondRelease"}
    PROVE  InOrder'
  BY DEF InOrder, stages, Order, WasRead, Live, NodesUsedSafely, Pending

\* The in thread.
LEMMA OrderIn == TypeOK /\ InOrder /\ InThread => InOrder'
  <1> SUFFICES ASSUME TypeOK, InOrder, InThread PROVE InOrder'
    OBVIOUS
  <1>1. /\ pc \in [Thread -> Label] /\ node \in [Thread -> Pointer]
        /\ received \in Nat /\ queueIn \in Seq(Pointer)
        /\ "in" \in Thread /\ "out" \in Thread /\ "proc" \in Thread
    BY DEF TypeOK, ControlType, DataType, CountType, Thread
  <1>2. pc'["proc"] = pc["proc"] /\ pc'["out"] = pc["out"] /\ released' = released
    BY InMoves DEF Moves, Thread
  <1>3. node'["proc"] = node["proc"] /\ node'["out"] = node["out"]
    BY <1>1 DEF InThread, InStart, InLoop, InCount, InRead, InLock, InAppend, InUnlock,
       CleanUp, Destroy, Thread
  <1>4. UNCHANGED <<ProcHeld, OutHeld, OutOwned>>
    BY <1>2, <1>3 DEF ProcHeld, OutHeld, OutOwned
  <1>5. CASE InRead /\ Goto("in", "lock") /\ received' = received + 1
             /\ node' = [node EXCEPT !["in"] = received + 1]
    <2>1. InHeld = {} /\ InHeld' = {received + 1}
      BY <1>1, <1>5 DEF InRead, Goto, InHeld
    <2>2. UNCHANGED <<sent, freed, queueIn, queueOut, fault>>
      BY <1>5 DEF InRead
    <2>3. \A n \in 1..received : n < received + 1 /\ n \in 1..received'
      BY <1>1, <1>5
    <2>4. received + 1 \in 1..received' /\ received + 1 \notin 1..received
      BY <1>1, <1>5
    <2> QED BY <1>2, <1>4, <2>1, <2>2, <2>3, <2>4
            DEF InOrder, Order, WasRead, Live, NodesUsedSafely, Pending, Below
  <1>6. CASE InAppend
    <2>1. node["in"] \in Pointer
      BY <1>1
    <2>2. InHeld = {node["in"]} /\ InHeld' = {}
      BY <1>1, <1>6 DEF InAppend, Goto, InHeld
    <2>3. queueIn' = Append(queueIn, node["in"]) /\ UNCHANGED <<received, sent, freed, queueOut, fault>>
      BY <1>6 DEF InAppend
    <2>4. Range(queueIn') = Range(queueIn) \cup {node["in"]}
      BY <1>1, <2>1, <2>3, RangeAppend
    <2>5. Increasing(queueIn')
      BY <1>1, <2>1, <2>2, <2>3, IncreasingAppend DEF InOrder, Order
    <2> QED BY <1>2, <1>4, <2>2, <2>3, <2>4, <2>5
            DEF InOrder, Order, WasRead, Live, NodesUsedSafely, Pending, Below
  <1>7. ASSUME ~InAppend, ~(InRead /\ Goto("in", "lock"))
        PROVE  InOrder'
    <2>1. InHeld' = InHeld
      BY <1>1, <1>7 DEF InThread, InStart, InLoop, InCount, InRead, InLock, InUnlock,
         CleanUp, Destroy, Goto, InHeld
    <2>2. UNCHANGED <<sent, freed, queueIn, queueOut>>
      BY <1>7 DEF InThread, InStart, InLoop, InCount, InRead, InLock, InUnlock,
         CleanUp, Destroy
    <2>3. fault' \in {fault, "useAfterFree", "wildFree", "badJoin"}
      BY <1>7 DEF InThread, InStart, InLoop, InCount, InRead, InLock, InUnlock,
         CleanUp, Destroy
    <2>4. received' = received \/ received' = received + 1
      BY <1>7 DEF InThread, InStart, InLoop, InCount, InRead, InLock, InUnlock,
         CleanUp, Destroy
    <2>5. \A n \in 1..received : n \in 1..received'
      BY <1>1, <2>4
    <2> QED BY <1>2, <1>4, <2>1, <2>2, <2>3, <2>5
            DEF InOrder, Order, WasRead, Live, NodesUsedSafely, Pending
  <1>8. InRead /\ Goto("in", "lock")
        => received' = received + 1 /\ node' = [node EXCEPT !["in"] = received + 1]
    BY <1>1 DEF InRead, Goto
  <1> QED BY <1>5, <1>6, <1>7, <1>8

\* The processing thread.
LEMMA OrderProc == TypeOK /\ InOrder /\ SeenStays /\ ProcThread => InOrder'
  <1> SUFFICES ASSUME TypeOK, InOrder, SeenStays, ProcThread PROVE InOrder'
    OBVIOUS
  <1>1. /\ pc \in [Thread -> Label] /\ node \in [Thread -> Pointer]
        /\ received \in Nat /\ queueIn \in Seq(Pointer) /\ queueOut \in Seq(Pointer)
        /\ "in" \in Thread /\ "out" \in Thread /\ "proc" \in Thread
    BY DEF TypeOK, ControlType, DataType, CountType, Thread
  <1>2. pc'["in"] = pc["in"] /\ pc'["out"] = pc["out"] /\ released' = released
    BY ProcMoves DEF Moves, Thread
  <1>3. node'["in"] = node["in"] /\ node'["out"] = node["out"]
    BY <1>1 DEF ProcThread, Start, Wait, Check, ProcLock, ProcTake, ProcUnlock,
       ProcDrop, ProcAnswer, ProcAppend, Thread
  <1>4. UNCHANGED <<InHeld, OutHeld, OutOwned>>
    BY <1>2, <1>3 DEF InHeld, OutHeld, OutOwned
  <1>5. UNCHANGED <<received, sent>>
    BY DEF ProcThread, Start, Wait, Check, ProcLock, ProcTake, ProcUnlock,
       ProcDrop, ProcAnswer, ProcAppend
  <1>6. CASE ProcTake
    <2>1. queueIn # <<>>
      BY <1>6 DEF ProcTake, SeenStays
    <2>2. /\ queueIn' = Tail(queueIn)
          /\ ProcHeld = {} /\ ProcHeld' = {Head(queueIn)}
          /\ UNCHANGED <<queueOut, freed, fault>>
      BY <1>1, <1>6, <2>1 DEF ProcTake, Goto, ProcHeld
    <2>3. Range(queueIn) = {Head(queueIn)} \cup Range(Tail(queueIn))
      BY <1>1, <2>1, RangeTail
    <2>4. Increasing(queueIn') /\ Below({Head(queueIn)}, Range(queueIn'))
      BY <1>1, <2>1, <2>2, IncreasingTail DEF InOrder, Order
    <2> QED BY ZenonT(60), <1>2, <1>4, <1>5, <2>2, <2>3, <2>4
            DEF InOrder, Order, WasRead, Live, NodesUsedSafely, Pending, Below
  <1>7. CASE ProcDrop
    <2>1. /\ ProcHeld = {node["proc"]} /\ ProcHeld' = {}
          /\ UNCHANGED <<queueIn, queueOut>>
          /\ nodeFree(node["proc"])
      BY <1>1, <1>7 DEF ProcDrop, Goto, ProcHeld
    <2>2. node["proc"] \in 1..received /\ node["proc"] \notin freed
      BY <2>1 DEF InOrder, WasRead, Live, Pending
    <2>3. fault' = fault /\ freed' = freed \cup {node["proc"]}
      BY <1>1, <2>1, <2>2 DEF nodeFree, NoNode
    <2>4. \A n \in OutOwned \cup Range(queueOut) \cup Range(queueIn) \cup InHeld :
             n # node["proc"]
      <3>1. node["proc"] \in Int /\ ~(node["proc"] < node["proc"])
        BY <2>2
      <3> QED BY <2>1, <3>1 DEF InOrder, Order, Below
    <2>5. OutHeld \subseteq OutOwned
      BY DEF OutHeld, OutOwned
    <2> QED BY <1>2, <1>4, <1>5, <2>1, <2>2, <2>3, <2>4, <2>5
            DEF InOrder, Order, WasRead, Live, NodesUsedSafely, Pending, Below
  <1>8. CASE ProcAppend
    <2>1. /\ ProcHeld = {node["proc"]} /\ ProcHeld' = {} /\ node["proc"] \in Pointer
          /\ UNCHANGED <<queueIn, freed, fault>>
          /\ queueOut' = Append(queueOut, node["proc"])
      BY <1>1, <1>8 DEF ProcAppend, Goto, ProcHeld
    <2>2. Range(queueOut') = Range(queueOut) \cup {node["proc"]}
      BY <1>1, <2>1, RangeAppend
    <2>3. Below(Range(queueOut), {node["proc"]})
      BY <2>1 DEF InOrder, Order, Below
    <2>4. Increasing(queueOut')
      BY <1>1, <2>1, <2>3, IncreasingAppend DEF InOrder, Order
    <2> QED BY <1>2, <1>4, <1>5, <2>1, <2>2, <2>4
            DEF InOrder, Order, WasRead, Live, NodesUsedSafely, Pending, Below
  <1>9. ASSUME ~ProcTake, ~ProcDrop, ~ProcAppend PROVE InOrder'
    <2>1. UNCHANGED <<queueIn, queueOut, freed>>
      BY <1>9 DEF ProcThread, Start, Wait, Check, ProcLock, ProcUnlock, ProcAnswer
    <2>2. ProcHeld' \subseteq ProcHeld
      BY <1>1, <1>9 DEF ProcThread, Start, Wait, Check, ProcLock, ProcUnlock, ProcAnswer,
         Goto, ProcHeld
    <2>3. CASE ProcAnswer
      <3>1. ProcHeld = {node["proc"]}
        BY <2>3 DEF ProcAnswer, ProcHeld
      <3>2. node["proc"] \in 1..received
        BY <3>1 DEF InOrder, WasRead, Pending
      <3>3. fault' = fault
        BY <1>1, <2>3, <3>2 DEF ProcAnswer, NoNode
      <3> QED BY <1>2, <1>4, <1>5, <2>1, <2>2, <3>3
              DEF InOrder, Order, WasRead, Live, NodesUsedSafely, Pending, Below
    <2>4. CASE fault' = fault
      BY <1>2, <1>4, <1>5, <2>1, <2>2, <2>4
         DEF InOrder, Order, WasRead, Live, NodesUsedSafely, Pending, Below
    <2> QED BY <1>9, <2>3, <2>4 DEF ProcThread, Start, Wait, Check, ProcLock, ProcUnlock
  <1> QED BY <1>6, <1>7, <1>8, <1>9

\* The out thread.
LEMMA OrderOut == TypeOK /\ InOrder /\ SeenStays /\ OutThread => InOrder'
  <1> SUFFICES ASSUME TypeOK, InOrder, SeenStays, OutThread PROVE InOrder'
    OBVIOUS
  <1>1. /\ pc \in [Thread -> Label] /\ node \in [Thread -> Pointer]
        /\ received \in Nat /\ queueOut \in Seq(Pointer) /\ sent \in Seq(Pointer)
        /\ "in" \in Thread /\ "out" \in Thread /\ "proc" \in Thread
    BY DEF TypeOK, ControlType, DataType, CountType, Thread
  <1>2. pc'["in"] = pc["in"] /\ pc'["proc"] = pc["proc"] /\ released' = released
    BY OutMoves DEF Moves, Thread
  <1>3. node'["in"] = node["in"] /\ node'["proc"] = node["proc"]
    BY <1>1 DEF OutThread, Start, Wait, Check, OutLock, OutTake, OutUnlock, OutSend,
       OutFree, CleanUp, Destroy, Thread
  <1>4. UNCHANGED <<InHeld, ProcHeld>>
    BY <1>2, <1>3 DEF InHeld, ProcHeld
  <1>5. UNCHANGED <<received, queueIn>>
    BY DEF OutThread, Start, Wait, Check, OutLock, OutTake, OutUnlock, OutSend,
       OutFree, CleanUp, Destroy
  <1>6. CASE OutTake
    <2>1. queueOut # <<>>
      BY <1>6 DEF OutTake, SeenStays
    <2>2. /\ queueOut' = Tail(queueOut)
          /\ OutHeld = {} /\ OutOwned = {}
          /\ OutHeld' = {Head(queueOut)} /\ OutOwned' = {Head(queueOut)}
          /\ UNCHANGED <<sent, freed, fault>>
      BY <1>1, <1>6, <2>1 DEF OutTake, Goto, OutHeld, OutOwned
    <2>3. Range(queueOut) = {Head(queueOut)} \cup Range(Tail(queueOut))
      BY <1>1, <2>1, RangeTail
    <2>4. Increasing(queueOut') /\ Below({Head(queueOut)}, Range(queueOut'))
      BY <1>1, <2>1, <2>2, IncreasingTail DEF InOrder, Order
    <2> QED BY <1>2, <1>4, <1>5, <2>2, <2>3, <2>4
            DEF InOrder, Order, WasRead, Live, NodesUsedSafely, Pending, Below
  <1>7. CASE OutSend
    <2>1. /\ OutHeld = {node["out"]} /\ OutHeld' = {}
          /\ OutOwned = {node["out"]} /\ OutOwned' = {node["out"]}
          /\ UNCHANGED <<queueOut, freed>>
          /\ sent' \in {sent, Append(sent, node["out"])} /\ node["out"] \in Pointer
      BY <1>1, <1>7 DEF OutSend, Goto, OutHeld, OutOwned
    <2>2. node["out"] \in 1..received
      BY <2>1 DEF InOrder, WasRead
    <2>3. fault' = fault
      BY <1>1, <1>7, <2>2 DEF OutSend, NoNode
    <2>4. Below(Range(sent), {node["out"]})
      BY <2>1 DEF InOrder, Order, Pending, Below
    <2>5. Range(sent') \subseteq Range(sent) \cup {node["out"]}
      BY <1>1, <2>1, RangeAppend
    <2>6. Increasing(sent')
      BY <1>1, <2>1, <2>4, IncreasingAppend DEF InOrder, Order
    <2> QED BY <1>2, <1>4, <1>5, <2>1, <2>2, <2>3, <2>5, <2>6
            DEF InOrder, Order, WasRead, Live, NodesUsedSafely, Pending, Below
  <1>8. CASE OutFree
    <2>1. /\ OutHeld = {} /\ OutHeld' = {}
          /\ OutOwned = {node["out"]} /\ OutOwned' = {}
          /\ UNCHANGED <<queueOut, sent>>
          /\ nodeFree(node["out"])
      BY <1>1, <1>8 DEF OutFree, Goto, OutHeld, OutOwned
    <2>2. node["out"] \in 1..received /\ node["out"] \notin freed
      BY <2>1 DEF InOrder, WasRead, Live
    <2>3. fault' = fault /\ freed' = freed \cup {node["out"]}
      BY <1>1, <2>1, <2>2 DEF nodeFree, NoNode
    <2>4. \A n \in Range(queueOut) \cup ProcHeld \cup Range(queueIn) \cup InHeld :
             n # node["out"]
      <3>1. ~(node["out"] < node["out"])
        BY <2>2
      <3> QED BY <2>1, <3>1 DEF InOrder, Order, Below
    <2> QED BY <1>2, <1>4, <1>5, <2>1, <2>2, <2>3, <2>4
            DEF InOrder, Order, WasRead, Live, NodesUsedSafely, Pending, Below
  <1>9. ASSUME ~OutTake, ~OutSend, ~OutFree PROVE InOrder'
    <2>1. UNCHANGED <<queueOut, sent, freed>>
      BY <1>9 DEF OutThread, Start, Wait, Check, OutLock, OutUnlock, CleanUp, Destroy
    <2>2. fault' \in {fault, "useAfterFree", "wildFree", "badJoin"}
      BY <1>9 DEF OutThread, Start, Wait, Check, OutLock, OutUnlock, CleanUp, Destroy
    <2>3. UNCHANGED <<OutHeld, OutOwned>>
      BY <1>1, <1>9 DEF OutThread, Start, Wait, Check, OutLock, OutUnlock, CleanUp, Destroy,
         Goto, OutHeld, OutOwned
    <2> QED BY <1>2, <1>4, <1>5, <2>1, <2>2, <2>3, QuietKeeps DEF stages
  <1> QED BY <1>6, <1>7, <1>8, <1>9

\* The main thread outside exitProgram, and the arrival of a signal.
LEMMA OrderMain == TypeOK /\ JoinedAreGone /\ InOrder /\ (Main \/ Signal) => InOrder'
  <1> SUFFICES ASSUME TypeOK, JoinedAreGone, InOrder, Main \/ Signal PROVE InOrder'
    OBVIOUS
  <1>1. UNCHANGED <<received, sent, freed, queueIn, queueOut, node, fault, released>>
    BY DEF Main, Signal, CreateThread, OpenSocket, RunThread, TryWait, CheckError, Leave, data
  <1>2. CASE UNCHANGED pc
    <2>1. UNCHANGED <<InHeld, ProcHeld, OutHeld, OutOwned>>
      BY <1>1, <1>2 DEF InHeld, ProcHeld, OutHeld, OutOwned
    <2> QED BY <1>1, <2>1, QuietKeeps DEF stages
  <1>3. ASSUME NEW t \in Thread, pc[t] = "none", pc' = [pc EXCEPT ![t] = "start"]
        PROVE  InOrder'
    <2>1. pc \in [Thread -> Label]
      BY DEF TypeOK, ControlType
    <2>2. UNCHANGED <<InHeld, ProcHeld, OutHeld, OutOwned>>
      BY <1>1, <1>3, <2>1 DEF InHeld, ProcHeld, OutHeld, OutOwned, Thread
    <2> QED BY <1>1, <2>2, QuietKeeps DEF stages
  <1>4. UNCHANGED pc
        \/ \E t \in Thread : pc[t] = "none" /\ pc' = [pc EXCEPT ![t] = "start"]
    BY DEF Main, Signal, CreateThread, Goto, OpenSocket, RunThread, TryWait, CheckError,
       Leave, JoinedAreGone, Thread
  <1> QED BY <1>2, <1>3, <1>4

\* When an activation drains the queues, every thread has ended.
LEMMA DrainAlone ==
    ASSUME TypeOK, JoinedAreGone, frames # <<>>, Head(frames).at \in Draining
    PROVE  \A t \in Thread : pc[t] = "exited"
  <1>1. 1 \in DOMAIN frames /\ frames[1].at \in Draining
    BY FramesTail DEF TypeOK, ControlType
  <1> QED BY <1>1 DEF JoinedAreGone, Thread

\* The activation that runs is exact until another one has released everything.
LEMMA TopExact ==
    ASSUME TypeOK, Hands, frames # <<>>
    PROVE  released \/ Exact(Head(frames))
  <1>1. /\ 1 \in DOMAIN frames /\ Head(frames) = frames[1]
        /\ DOMAIN frames \subseteq Nat \ {0}
    BY FramesTail, LenProperties DEF TypeOK, ControlType
  <1> QED BY <1>1 DEF Hands, ExactAt

LEMMA OrderExit ==
    TypeOK /\ JoinedAreGone /\ Drained /\ Hands /\ InOrder /\ exitProgram => InOrder'
  <1> SUFFICES ASSUME TypeOK, JoinedAreGone, Drained, Hands, InOrder, exitProgram
               PROVE  InOrder'
    OBVIOUS
  <1>1. CASE DrainStep
    <2>1. /\ frames # <<>> /\ \A t \in Thread : pc[t] = "exited"
          /\ UNCHANGED <<pc, released, node, received, sent>>
      BY <1>1, DrainMoves, DrainAlone
    <2>2. /\ InHeld = {} /\ ProcHeld = {} /\ OutHeld = {} /\ OutOwned = {}
          /\ InHeld' = {} /\ ProcHeld' = {} /\ OutHeld' = {} /\ OutOwned' = {}
      BY <2>1 DEF Thread, InHeld, ProcHeld, OutHeld, OutOwned
    <2>3. /\ queueIn \in Seq(Pointer) /\ queueOut \in Seq(Pointer) /\ NoNode \notin 1..received
          /\ frames \in Seq(Frame)
      BY DEF TypeOK, ControlType, DataType, NoNode
    <2>4. CASE DrainTake("takeOut", "freeOut") \/ DrainTake("takeIn", "freeIn")
      <3>1. /\ queueOut' \in {queueOut, Tail(queueOut)} /\ queueIn' \in {queueIn, Tail(queueIn)}
            /\ queueOut = <<>> => queueOut' = queueOut
            /\ queueIn = <<>> => queueIn' = queueIn
            /\ freed' = freed /\ fault' \in {fault, "useAfterFree"}
        BY <2>4 DEF DrainTake, Range
      <3>2. /\ Range(queueOut') \subseteq Range(queueOut) /\ Increasing(queueOut')
            /\ Range(queueIn') \subseteq Range(queueIn) /\ Increasing(queueIn')
        BY <2>3, <3>1, RangeTail, IncreasingTail DEF InOrder, Order
      <3> QED BY <2>1, <2>2, <3>1, <3>2
              DEF InOrder, Order, WasRead, Live, NodesUsedSafely, Pending, Below
    <2>5. CASE DrainFree("freeOut", "countOut") \/ DrainFree("freeIn", "countIn")
      <3> DEFINE n == Head(frames).node
      <3>1. /\ UNCHANGED <<queueIn, queueOut>> /\ nodeFree(n)
            /\ Head(frames).at \in {"freeOut", "freeIn"}
        BY <2>5 DEF DrainFree, At
      <3>2. 1 \in DOMAIN frames /\ Head(frames) = frames[1]
        BY <2>1, <2>3, FramesTail
      <3>3. n \in {NoNode} \cup 1..received
        BY <3>1, <3>2 DEF Drained
      <3>4. CASE released
        <4>1. Range(queueIn) = {} /\ Range(queueOut) = {}
          BY <3>4 DEF Drained, Range
        <4>2. freed' \subseteq freed \cup 1..received
          BY <3>1, <3>3 DEF nodeFree
        <4> QED BY <2>1, <2>2, <3>1, <3>4, <4>1, <4>2
                DEF InOrder, Order, WasRead, Live, NodesUsedSafely, Pending, Below
      <3>5. CASE ~released
        <4>1. n \in 1..received /\ n \notin freed \cup Range(queueOut) \cup Range(queueIn)
          BY <2>1, <3>1, <3>5, TopExact DEF Exact, ExactAt
        <4>2. fault' = fault /\ freed' = freed \cup {n}
          BY <2>3, <3>1, <4>1 DEF nodeFree
        <4> QED BY <2>1, <2>2, <3>1, <4>1, <4>2
                DEF InOrder, Order, WasRead, Live, NodesUsedSafely, Pending, Below
      <3> QED BY <3>4, <3>5
    <2>6. CASE ~(DrainTake("takeOut", "freeOut") \/ DrainTake("takeIn", "freeIn"))
               /\ ~(DrainFree("freeOut", "countOut") \/ DrainFree("freeIn", "countIn"))
      <3>1. UNCHANGED <<freed, queueIn, queueOut>> /\ fault' \in {fault, "useAfterFree"}
        BY <1>1, <2>6 DEF DrainStep, DrainCount, DrainRead, data
      <3> QED BY <2>1, <2>2, <3>1, QuietKeeps DEF stages
    <2> QED BY <2>4, <2>5, <2>6
  <1>2. ASSUME ~DrainStep PROVE InOrder'
    <2>1. /\ UNCHANGED <<received, sent, freed, queueIn, queueOut, pc, node>>
          /\ released => released'
          /\ fault' \in {fault, "badJoin", "secondRelease"}
      BY <1>2 DEF exitProgram, DrainStep, StopThread, Join, ReleaseAll, Post, data
    <2>2. UNCHANGED <<InHeld, ProcHeld, OutHeld, OutOwned>>
      BY <2>1 DEF InHeld, ProcHeld, OutHeld, OutOwned
    <2> QED BY <2>1, <2>2, QuietKeeps DEF stages
  <1> QED BY <1>1, <1>2

----------------------------------------------------------------------------
(* The activations of exitProgram.                                         *)

\* While a thread runs, no activation is in the drain and nothing is released.
LEMMA HandsThread ==
    ASSUME TypeOK, JoinedAreGone, Drained, Hands, NEW t \in Thread, Moves(t)
    PROVE  Drained' /\ Hands'
  <1>1. ~released /\ \A i \in DOMAIN frames : frames[i].at \notin Draining \cup {"post"}
    BY DEF JoinedAreGone, Moves, Thread
  <1>2. UNCHANGED <<frames, released>>
    BY DEF Moves
  <1> QED BY <1>1, <1>2 DEF Drained, Hands, Exact, ExactAt, Draining, DrainOut, DrainIn

\* The others keep what they rely on when the activation on top becomes x.
LEMMA OthersKeep ==
    ASSUME frames \in Seq(Frame), frames # <<>>, Drained, Hands,
           NEW x \in Frame, frames' = <<x>> \o Tail(frames),
           received' = received, released => released',
           queueOut = <<>> => queueOut' = <<>>, queueIn = <<>> => queueIn' = <<>>,
           released' => queueOut' = <<>> /\ queueIn' = <<>>,
           x.at \in DrainIn \cup {"release"} => queueOut' = <<>>,
           x.at = "release" => queueIn' = <<>>,
           x.at = "post" => released',
           x.at \in {"takeOut", "freeOut", "takeIn", "freeIn"} => x.node \in {NoNode} \cup 1..received,
           \/ released' \/ x.at \in Draining
           \/ Head(frames).at \notin Draining /\ UNCHANGED <<queueIn, queueOut, freed>>,
           released' \/ Exact(x)'
    PROVE  Drained' /\ Hands'
  <1>1. /\ DOMAIN frames' = DOMAIN frames /\ 1 \in DOMAIN frames
        /\ frames'[1] = x /\ Head(frames) = frames[1] /\ DOMAIN frames \subseteq Nat \ {0}
        /\ \A i \in DOMAIN frames : i # 1 => frames'[i] = frames[i]
    BY FramesHold
  <1>2. Drained'
    BY <1>1 DEF Drained
  <1>3. ASSUME NEW i \in DOMAIN frames', ~released'
        PROVE  \/ \E j \in DOMAIN frames' : j < i /\ frames'[j].at \in Draining
               \/ ExactAt(i)'
    <2>1. CASE i = 1
      BY <1>1, <1>3, <2>1 DEF Exact, ExactAt
    <2>2. CASE i # 1 /\ x.at \in Draining
      <3>1. 1 < i
        BY <1>1, <2>2
      <3> QED BY <1>1, <2>2, <3>1
    <2>3. CASE i # 1 /\ x.at \notin Draining
      <3>1. Head(frames).at \notin Draining /\ UNCHANGED <<queueIn, queueOut, freed>> /\ ~released
        BY <1>3, <2>3
      <3>2. CASE Exact(frames[i])
        BY <1>1, <2>3, <3>1, <3>2 DEF Exact, ExactAt
      <3>3. ASSUME NEW j \in DOMAIN frames, j < i, frames[j].at \in Draining
            PROVE  \E k \in DOMAIN frames' : k < i /\ frames'[k].at \in Draining
        BY <1>1, <3>1, <3>3
      <3> QED BY <1>1, <3>1, <3>2, <3>3 DEF Hands, ExactAt
    <2> QED BY <2>1, <2>2, <2>3
  <1>4. Hands'
    BY <1>3 DEF Hands, ExactAt
  <1> QED BY <1>2, <1>4

LEMMA HandsMain == TypeOK /\ Drained /\ Hands /\ Main => Drained' /\ Hands'
  <1> SUFFICES ASSUME TypeOK, Drained, Hands, Main PROVE Drained' /\ Hands'
    OBVIOUS
  <1>1. /\ frames = <<>> /\ UNCHANGED <<released, queueIn, queueOut>>
        /\ frames' = frames \/ frames' = <<Activation>>
    BY DEF Main, CreateThread, OpenSocket, RunThread, TryWait, CheckError, Leave, data
  <1>2. \A i \in DOMAIN frames' : frames'[i].at = "stopIn"
    BY <1>1 DEF Activation
  <1> QED BY <1>1, <1>2 DEF Drained, Hands, Exact, ExactAt, Draining, DrainOut, DrainIn

LEMMA HandsSignal == TypeOK /\ Drained /\ Hands /\ Signal => Drained' /\ Hands'
  <1> SUFFICES ASSUME TypeOK, Drained, Hands, Signal PROVE Drained' /\ Hands'
    OBVIOUS
  <1>1. /\ frames \in Seq(Frame) /\ frames' = <<Activation>> \o frames
        /\ UNCHANGED <<released, queueIn, queueOut, freed, received>>
    BY DEF Signal, TypeOK, ControlType, data
  <1>2. /\ DOMAIN frames \subseteq Nat \ {0} /\ DOMAIN frames' \subseteq Nat \ {0}
        /\ \A i \in DOMAIN frames' :
              \/ frames'[i].at = "stopIn"
              \/ i - 1 \in DOMAIN frames /\ frames'[i] = frames[i - 1]
        /\ \A i \in DOMAIN frames : i + 1 \in DOMAIN frames' /\ frames'[i + 1] = frames[i]
    BY <1>1, FramesPush DEF Activation
  <1>3. Drained'
    BY <1>1, <1>2 DEF Drained, DrainIn
  <1>4. ASSUME NEW i \in DOMAIN frames', ~released'
        PROVE  \/ \E j \in DOMAIN frames' : j < i /\ frames'[j].at \in Draining
               \/ ExactAt(i)'
    <2>1. CASE frames'[i].at = "stopIn"
      BY <2>1 DEF Exact, ExactAt
    <2>2. CASE i - 1 \in DOMAIN frames /\ frames'[i] = frames[i - 1]
      <3>1. CASE Exact(frames[i - 1])
        BY <1>1, <2>2, <3>1 DEF Exact, ExactAt
      <3>2. ASSUME NEW j \in DOMAIN frames, j < i - 1, frames[j].at \in Draining
            PROVE  \E k \in DOMAIN frames' : k < i /\ frames'[k].at \in Draining
        <4>1. j + 1 \in DOMAIN frames' /\ frames'[j + 1] = frames[j] /\ j + 1 < i
          BY <1>2, <3>2
        <4> QED BY <3>2, <4>1
      <3> QED BY <1>1, <1>4, <2>2, <3>1, <3>2 DEF Hands, ExactAt
    <2> QED BY <1>2, <2>1, <2>2
  <1>5. Hands'
    BY <1>4 DEF Hands, ExactAt
  <1> QED BY <1>3, <1>5

LEMMA HandsExit ==
    TypeOK /\ JoinedAreGone /\ Drained /\ Hands /\ InOrder /\ exitProgram => Drained' /\ Hands'
  <1> SUFFICES ASSUME TypeOK, JoinedAreGone, Drained, Hands, InOrder, exitProgram
               PROVE  Drained' /\ Hands'
    OBVIOUS
  <1>t. /\ frames \in Seq(Frame) /\ queueIn \in Seq(Pointer) /\ queueOut \in Seq(Pointer)
        /\ NoNode \in Pointer /\ 1..received \subseteq Pointer
    BY DEF TypeOK, ControlType, DataType, CountType, NoNode, Pointer
  <1>f. frames # <<>>
    BY DEF exitProgram, StopThread, Join, DrainCount, DrainRead, DrainTake, DrainFree,
       ReleaseAll, Post, At
  <1>h. /\ 1 \in DOMAIN frames /\ Head(frames) = frames[1]
        /\ Head(frames) \in Frame /\ Head(frames).node \in Pointer
    BY <1>t, <1>f, FramesTail, HoldType
  <1>e. released \/ Exact(Head(frames))
    BY <1>f, TopExact
  <1>q. /\ queueOut # <<>> => /\ Head(queueOut) \in 1..received /\ Head(queueOut) \notin freed
                              /\ Head(queueOut) \notin Range(Tail(queueOut)) \cup Range(queueIn)
        /\ queueIn # <<>> => /\ Head(queueIn) \in 1..received /\ Head(queueIn) \notin freed
                             /\ Head(queueIn) \notin Range(Tail(queueIn))
    <2>1. /\ \A n \in Range(queueOut) \cup Range(queueIn) : n \in 1..received /\ n \notin freed
          /\ \A a \in Range(queueOut), b \in Range(queueIn) : a < b
      BY DEF InOrder, Order, WasRead, Live, Pending, Below
    <2>2. /\ queueOut # <<>> => /\ Head(queueOut) \in Range(queueOut)
                                /\ \A b \in Range(Tail(queueOut)) : Head(queueOut) < b
          /\ queueIn # <<>> => /\ Head(queueIn) \in Range(queueIn)
                               /\ \A b \in Range(Tail(queueIn)) : Head(queueIn) < b
      BY <1>t, RangeTail, IncreasingTail DEF InOrder, Order, Below
    <2>3. \A n \in 1..received : ~(n < n)
      OBVIOUS
    <2> QED BY <2>1, <2>2, <2>3
  <1>x. ASSUME NEW label \in FrameLabel, NEW n \in Pointer
        PROVE  [at |-> label, node |-> n] \in Frame
    BY DEF Frame
  <1>1. ASSUME NEW label \in FrameLabel, Resume(label),
               label \in {"stopOut", "stopProc", "joinIn", "joinOut", "joinProc", "countOut"},
               Head(frames).at \in {"stopIn", "stopOut", "stopProc", "joinIn", "joinOut", "joinProc"},
               UNCHANGED <<queueIn, queueOut, freed, released, received>>
        PROVE  Drained' /\ Hands'
    <2>1. PICK x \in Frame : x.at = label /\ frames' = <<x>> \o Tail(frames)
      BY <1>1, <1>h, <1>x DEF Resume, Hold
    <2>2. Exact(x)'
      BY <1>1, <2>1 DEF Exact, ExactAt
    <2>3. Head(frames).at \notin Draining /\ x.at \notin DrainIn \cup {"release", "post"}
      BY <1>1, <2>1 DEF Draining, DrainOut, DrainIn
    <2>4. x.at \notin {"takeOut", "freeOut", "takeIn", "freeIn"}
      BY <1>1, <2>1
    <2> QED BY <1>1, <1>t, <1>f, <2>1, <2>2, <2>3, <2>4, OthersKeep DEF Drained
  <1>2. CASE \/ StopThread("in", "stopIn", "stopOut") \/ StopThread("out", "stopOut", "stopProc")
             \/ StopThread("proc", "stopProc", "joinIn")
    BY <1>1, <1>2 DEF StopThread, At, data, FrameLabel
  <1>3. CASE \/ Join("in", "joinIn", "joinOut") \/ Join("out", "joinOut", "joinProc")
             \/ Join("proc", "joinProc", "countOut")
    <2>1. CASE UNCHANGED frames
      BY <1>3, <2>1 DEF Join, data, Drained, Hands, Exact, ExactAt
    <2>2. ASSUME ~UNCHANGED frames PROVE Drained' /\ Hands'
      BY <1>1, <1>3, <2>2 DEF Join, At, data, FrameLabel, DrainOut
    <2> QED BY <2>1, <2>2
  <1>4. ASSUME NEW label \in Draining, NEW n \in Pointer, Hold(label, n),
               Head(frames).at \in Draining,
               UNCHANGED <<received, released>>,
               queueOut = <<>> => queueOut' = <<>>, queueIn = <<>> => queueIn' = <<>>,
               label \in DrainIn \cup {"release"} => queueOut' = <<>>,
               label = "release" => queueIn' = <<>>,
               label \in {"takeOut", "freeOut", "takeIn", "freeIn"} => n \in {NoNode} \cup 1..received,
               released \/ Exact([at |-> label, node |-> n])'
        PROVE  Drained' /\ Hands'
    <2> DEFINE x == [at |-> label, node |-> n]
    <2>1. label \in FrameLabel /\ label # "post"
      BY DEF Draining, DrainOut, DrainIn, FrameLabel
    <2>2. x \in Frame /\ x.at = label /\ x.node = n /\ frames' = <<x>> \o Tail(frames)
      BY <1>4, <1>x, <2>1 DEF Hold
    <2>3. released' \/ Exact(x)'
      BY <1>4
    <2>4. released' => queueOut' = <<>> /\ queueIn' = <<>>
      BY <1>4 DEF Drained
    <2> HIDE DEF x
    <2> QED BY <1>4, <1>t, <1>f, <2>1, <2>2, <2>3, <2>4, OthersKeep
  <1>5. CASE DrainCount(queueOut, "countOut", "readOut", "countIn")
    <2>1. /\ Head(frames).at = "countOut"
          /\ UNCHANGED <<queueIn, queueOut, freed, released, received>>
          /\ Hold(IF queueOut # <<>> THEN "readOut" ELSE "countIn", Head(frames).node)
      BY <1>5 DEF DrainCount, At, Resume, data
    <2> QED BY <1>h, <1>4, <2>1 DEF Exact, Draining, DrainOut, DrainIn
  <1>6. CASE DrainCount(queueIn, "countIn", "readIn", "release")
    <2>1. /\ Head(frames).at = "countIn"
          /\ UNCHANGED <<queueIn, queueOut, freed, released, received>>
          /\ Hold(IF queueIn # <<>> THEN "readIn" ELSE "release", Head(frames).node)
      BY <1>6 DEF DrainCount, At, Resume, data
    <2>2. queueOut = <<>>
      BY <1>h, <2>1 DEF Drained, DrainIn
    <2> QED BY <1>h, <1>4, <2>1, <2>2 DEF Exact, Draining, DrainOut, DrainIn
  <1>7. CASE DrainRead(queueOut, "readOut", "takeOut")
    <2>1. Head(frames).at = "readOut" /\ UNCHANGED <<queueIn, queueOut, freed, released, received>>
      BY <1>7 DEF DrainRead, At, data
    <2>2. CASE UNCHANGED frames
      BY <2>1, <2>2 DEF Drained, Hands, Exact, ExactAt
    <2>3. CASE Hold("takeOut", IF queueOut = <<>> THEN NoNode ELSE Head(queueOut))
      <3> DEFINE n == IF queueOut = <<>> THEN NoNode ELSE Head(queueOut)
      <3>1. n \in Pointer /\ n \in {NoNode} \cup 1..received
        BY <1>t, <1>q
      <3>2. released \/ Exact([at |-> "takeOut", node |-> n])'
        BY <1>e, <2>1 DEF Exact, ExactAt
      <3> QED BY <1>4, <2>1, <2>3, <3>1, <3>2 DEF Draining, DrainOut, DrainIn
    <2> QED BY <1>7, <2>2, <2>3 DEF DrainRead
  <1>8. CASE DrainRead(queueIn, "readIn", "takeIn")
    <2>1. Head(frames).at = "readIn" /\ UNCHANGED <<queueIn, queueOut, freed, released, received>>
      BY <1>8 DEF DrainRead, At, data
    <2>2. CASE UNCHANGED frames
      BY <2>1, <2>2 DEF Drained, Hands, Exact, ExactAt
    <2>3. CASE Hold("takeIn", IF queueIn = <<>> THEN NoNode ELSE Head(queueIn))
      <3> DEFINE n == IF queueIn = <<>> THEN NoNode ELSE Head(queueIn)
      <3>1. n \in Pointer /\ n \in {NoNode} \cup 1..received
        BY <1>t, <1>q
      <3>2. released \/ Exact([at |-> "takeIn", node |-> n])'
        BY <1>e, <2>1 DEF Exact, ExactAt
      <3>3. queueOut = <<>>
        BY <1>h, <2>1 DEF Drained, DrainIn
      <3> QED BY <1>4, <2>1, <2>3, <3>1, <3>2, <3>3 DEF Draining, DrainOut, DrainIn
    <2> QED BY <1>8, <2>2, <2>3 DEF DrainRead
  <1>9. ASSUME NEW at \in {"takeOut", "takeIn"}, NEW next \in {"freeOut", "freeIn"},
               at = "takeOut" <=> next = "freeOut", DrainTake(at, next)
        PROVE  Drained' /\ Hands'
    <2> PICK n \in Pointer : n = Head(frames).node
      BY <1>h
    <2>1. /\ Head(frames).at = at /\ UNCHANGED <<freed, released, received>>
          /\ queueOut = <<>> => queueOut' = <<>> /\ Tail(queueOut) = <<>>
          /\ queueIn = <<>> => queueIn' = <<>> /\ Tail(queueIn) = <<>>
      BY <1>9 DEF DrainTake, At, Range
    <2>2. n \in {NoNode} \cup 1..received
      BY <1>h, <1>9, <2>1 DEF Drained
    <2>3. at = "takeIn" => queueOut = <<>> /\ queueOut' = <<>>
      BY <1>9, <1>h, <2>1 DEF Drained, DrainIn
    <2>4. CASE UNCHANGED frames
      <3>1. n \in freed
        BY <1>9, <2>4, <1>h, <1>f, <1>t, <2>1, FramesHold, <1>x DEF DrainTake, Resume, Hold, FrameLabel, DrainOut, DrainIn
      <3>2. released
        BY <1>9, <1>e, <1>q, <2>1, <3>1 DEF Exact, ExactAt
      <3> QED BY <2>1, <2>4, <3>2 DEF Drained, Hands, ExactAt
    <2>5. CASE Resume(next)
      <3>1. released \/ Exact([at |-> next, node |-> n])'
        <4> SUFFICES ASSUME ~released PROVE Exact([at |-> next, node |-> n])'
          OBVIOUS
        <4>1. CASE at = "takeOut"
          <5>1. queueOut # <<>> /\ n = Head(queueOut)
            BY <1>e, <2>1, <4>1 DEF Exact, ExactAt
          <5>2. n \in Range(queueOut)
            BY <1>t, <5>1, RangeTail
          <5>3. queueOut' = Tail(queueOut) /\ queueIn' = queueIn
            BY <1>9, <4>1, <5>2 DEF DrainTake
          <5> QED BY <1>9, <1>q, <2>1, <4>1, <5>1, <5>3 DEF Exact, ExactAt
        <4>2. CASE at = "takeIn"
          <5>1. queueIn # <<>> /\ n = Head(queueIn)
            BY <1>e, <2>1, <4>2 DEF Exact, ExactAt
          <5>2. n \in Range(queueIn)
            BY <1>t, <5>1, RangeTail
          <5>3. queueIn' = Tail(queueIn) /\ Range(queueOut') = {}
            BY <1>9, <2>3, <4>2, <5>2 DEF DrainTake, Range
          <5> QED BY <1>9, <1>q, <2>1, <4>2, <5>1, <5>3 DEF Exact, ExactAt
        <4> QED BY <4>1, <4>2
      <3>2. Hold(next, n) /\ n \in Pointer
        BY <1>h, <2>5 DEF Resume
      <3> QED BY <1>4, <1>9, <2>1, <2>2, <2>3, <3>1, <3>2 DEF Draining, DrainOut, DrainIn
    <2> QED BY <1>9, <2>4, <2>5 DEF DrainTake
  <1>10. ASSUME NEW at \in {"freeOut", "freeIn"}, NEW next \in {"countOut", "countIn"},
                at = "freeOut" <=> next = "countOut", DrainFree(at, next)
         PROVE  Drained' /\ Hands'
    <2> PICK n \in Pointer : n = Head(frames).node
      BY <1>h
    <2>1. /\ Head(frames).at = at /\ UNCHANGED <<queueIn, queueOut, released, received>>
          /\ Hold(next, n)
      BY <1>10 DEF DrainFree, At, Resume
    <2>2. at = "freeIn" => queueOut = <<>>
      BY <1>h, <2>1 DEF Drained, DrainIn
    <2>3. Exact([at |-> next, node |-> n])'
      BY DEF Exact, ExactAt
    <2> QED BY <1>h, <1>4, <1>10, <2>1, <2>2, <2>3 DEF Draining, DrainOut, DrainIn
  <1>11. CASE ReleaseAll
    <2> DEFINE x == [at |-> "post", node |-> Head(frames).node]
    <2>1. /\ Head(frames).at = "release" /\ released' /\ UNCHANGED <<queueIn, queueOut, received>>
          /\ x \in Frame /\ x.at = "post" /\ frames' = <<x>> \o Tail(frames)
      BY <1>11, <1>h, <1>x DEF ReleaseAll, At, Resume, Hold, data, FrameLabel
    <2>2. queueIn = <<>> /\ queueOut = <<>>
      BY <1>h, <2>1 DEF Drained
    <2> HIDE DEF x
    <2> QED BY <1>t, <1>f, <2>1, <2>2, OthersKeep DEF DrainIn
  <1>12. CASE Post
    <2>1. /\ Head(frames).at = "post" /\ frames' = Tail(frames)
          /\ UNCHANGED <<queueIn, queueOut, released, received>>
      BY <1>12 DEF Post, At, data
    <2>2. released
      BY <1>h, <2>1 DEF Drained
    <2>3. \A i \in DOMAIN frames' : i + 1 \in DOMAIN frames /\ frames'[i] = frames[i + 1]
      BY <1>t, <1>f, <2>1, FramesTail
    <2> QED BY <2>1, <2>2, <2>3 DEF Drained, Hands, ExactAt
  <1> QED BY <1>2, <1>3, <1>5, <1>6, <1>7, <1>8, <1>9, <1>10, <1>11, <1>12 DEF exitProgram

LEMMA HandsStep ==
    TypeOK /\ JoinedAreGone /\ Drained /\ Hands /\ InOrder /\ Next => Drained' /\ Hands'
  BY InMoves, ProcMoves, OutMoves, HandsThread, HandsMain, HandsSignal, HandsExit DEF Next, Thread

LEMMA SeenStep == TypeOK /\ JoinedAreGone /\ SeenStays /\ Next => SeenStays'
  <1> SUFFICES ASSUME TypeOK, JoinedAreGone, SeenStays, Next PROVE SeenStays'
    OBVIOUS
  <1>1. pc \in [Thread -> Label] /\ queueIn \in Seq(Pointer) /\ queueOut \in Seq(Pointer)
        /\ node \in [Thread -> Pointer] /\ node["in"] \in Pointer /\ node["proc"] \in Pointer
    BY DEF TypeOK, ControlType, DataType, Thread
  <1>2. CASE InThread
    <2>1. pc'["proc"] = pc["proc"] /\ pc'["out"] = pc["out"]
      BY <1>2, InMoves DEF Moves, Thread
    <2>2. queueIn' \in {queueIn, Append(queueIn, node["in"])} /\ queueOut' = queueOut
      BY <1>2 DEF InThread, InStart, InLoop, InCount, InRead, InLock, InAppend, InUnlock,
         CleanUp, Destroy
    <2>3. Append(queueIn, node["in"]) # <<>>
      BY <1>1, AppendProperties, EmptySeq
    <2> QED BY <2>1, <2>2, <2>3 DEF SeenStays
  <1>3. CASE ProcThread
    <2>1. pc'["out"] = pc["out"]
      BY <1>3, ProcMoves DEF Moves, Thread
    <2>2. queueOut' \in {queueOut, Append(queueOut, node["proc"])}
      BY <1>3 DEF ProcThread, Start, Wait, Check, ProcLock, ProcTake, ProcUnlock,
         ProcDrop, ProcAnswer, ProcAppend
    <2>3. Append(queueOut, node["proc"]) # <<>>
      BY <1>1, AppendProperties, EmptySeq
    <2>4. pc'["proc"] \in {"check", "lock", "take"} => queueIn' # <<>>
      BY <1>1, <1>3 DEF ProcThread, Start, Wait, Check, ProcLock, ProcTake, ProcUnlock,
         ProcDrop, ProcAnswer, ProcAppend, Goto, Thread, SeenStays
    <2> QED BY <2>1, <2>2, <2>3, <2>4 DEF SeenStays
  <1>4. CASE OutThread
    <2>1. pc'["proc"] = pc["proc"]
      BY <1>4, OutMoves DEF Moves, Thread
    <2>2. queueIn' = queueIn
      BY <1>4 DEF OutThread, Start, Wait, Check, OutLock, OutTake, OutUnlock, OutSend,
         OutFree, CleanUp, Destroy
    <2>3. pc'["out"] \in {"check", "lock", "take"} => queueOut' # <<>>
      BY <1>1, <1>4 DEF OutThread, Start, Wait, Check, OutLock, OutTake, OutUnlock,
         OutSend, OutFree, CleanUp, Destroy, Goto, Thread, SeenStays
    <2> QED BY <2>1, <2>2, <2>3 DEF SeenStays
  <1>5. CASE Main \/ Signal
    <2>1. UNCHANGED <<queueIn, queueOut>>
      BY <1>5 DEF Main, Signal, CreateThread, OpenSocket, RunThread, TryWait, CheckError,
         Leave, data
    <2>2. \A t \in Thread : pc'[t] \in {pc[t], "start"}
      BY <1>1, <1>5 DEF Main, Signal, CreateThread, Goto, OpenSocket, RunThread, TryWait,
         CheckError, Leave, data, Thread
    <2> QED BY <2>1, <2>2 DEF SeenStays, Thread
  <1>6. CASE exitProgram
    <2>1. DrainStep \in BOOLEAN
      BY DEF DrainStep, DrainCount, DrainRead, DrainTake, DrainFree
    <2>2. CASE DrainStep
      BY <2>2, DrainMoves, DrainAlone DEF SeenStays, Thread
    <2>3. CASE ~DrainStep
      BY <1>6, <2>3 DEF exitProgram, DrainStep, StopThread, Join, ReleaseAll, Post, data, SeenStays
    <2> QED BY <2>2, <2>3
  <1> QED BY <1>2, <1>3, <1>4, <1>5, <1>6 DEF Next

----------------------------------------------------------------------------
(* Theorems.                                                               *)

LEMMA InvInit == Init => Inv
  <1> SUFFICES ASSUME Init PROVE Inv
    OBVIOUS
  <1>1. TypeOK
    BY TypeInit
  <1>2. InHeld = {} /\ ProcHeld = {} /\ OutHeld = {} /\ OutOwned = {}
    BY DEF Init, Thread, InHeld, ProcHeld, OutHeld, OutOwned
  <1>3. Range(sent) = {} /\ Range(queueIn) = {} /\ Range(queueOut) = {} /\ freed = {}
    BY DEF Init, Range
  <1>4. Increasing(sent) /\ Increasing(queueIn) /\ Increasing(queueOut)
    BY DEF Init, Increasing
  <1>5. JoinedAreGone /\ SeenStays /\ Drained /\ Hands
    BY DEF Init, Thread, JoinedAreGone, SeenStays, Drained, Hands
  <1>6. NodesUsedSafely
    BY DEF Init, NodesUsedSafely
  <1> QED BY <1>1, <1>2, <1>3, <1>4, <1>5, <1>6 DEF Inv, Order, WasRead, Live, Pending, Below

LEMMA InvStep == Inv /\ [Next]_vars => Inv'
  <1> SUFFICES ASSUME Inv, [Next]_vars PROVE Inv'
    OBVIOUS
  <1>1. TypeOK /\ JoinedAreGone /\ Drained /\ Hands /\ SeenStays /\ InOrder
    BY DEF Inv, InOrder
  <1>2. CASE Next
    <2>1. TypeOK' /\ JoinedAreGone' /\ Drained' /\ Hands' /\ SeenStays'
      BY <1>1, <1>2, TypeStep, JoinedStep, HandsStep, SeenStep
    <2>2. InOrder'
      BY <1>1, <1>2, OrderIn, OrderProc, OrderOut, OrderMain, OrderExit DEF Next
    <2> QED BY <2>1, <2>2 DEF Inv, InOrder
  <1>3. CASE UNCHANGED vars
    <2>1. TypeOK'
      BY <1>1, <1>3, TypeStep
    <2>2. UNCHANGED <<stages, fault, released>>
      BY <1>3 DEF vars, lifecycle, stages, InHeld, ProcHeld, OutHeld, OutOwned
    <2>3. InOrder'
      BY <1>1, <2>2, QuietKeeps
    <2>4. JoinedAreGone' /\ SeenStays' /\ Drained' /\ Hands'
      BY <1>1, <1>3 DEF vars, lifecycle, JoinedAreGone, SeenStays, Drained, Hands, Exact, ExactAt
    <2> QED BY <2>1, <2>3, <2>4 DEF Inv, InOrder
  <1> QED BY <1>2, <1>3

LEMMA InvHolds == Spec => []Inv
  BY InvInit, InvStep, PTL DEF Spec

\* Requests never overtake one another and no node is in two places, for any number
\* of requests, signals and failures and any back-pressure threshold.
THEOREM ArrivalOrderHolds == Spec => []ArrivalOrder
  <1>1. OutHeld \subseteq OutOwned
    BY DEF OutHeld, OutOwned
  <1>2. Inv => ArrivalOrder
    BY <1>1 DEF Inv, Order, ArrivalOrder, Below
  <1> QED BY <1>2, InvHolds, PTL

\* No queue and no thread holds a node that was freed; a node is freed twice, or the NULL of
\* an empty queue used, only by an activation of exitProgram that another one overtook.
THEOREM NodeLifetimesHold == Spec => []NodeLifetimes
  <1>1. Inv => NodeLifetimes
    BY DEF Inv, Live, NoDanglingNode, NodeLifetimes
  <1> QED BY <1>1, InvHolds, PTL

\* The socket, the queues and the library go only after the three threads.
THEOREM ResourcesOutliveThreadsHolds == Spec => []ResourcesOutliveThreads
  <1>1. Inv => ResourcesOutliveThreads
    BY DEF Inv, JoinedAreGone, ResourcesOutliveThreads
  <1> QED BY <1>1, InvHolds, PTL

----------------------------------------------------------------------------
(* Refinement of RequestRelay.                                             *)

LEMMA RelayInit == Init => Relay!Init
  <1> SUFFICES ASSUME Init PROVE Relay!Init
    OBVIOUS
  <1>1. InHeld = {} /\ ProcHeld = {} /\ OutHeld = {}
    BY DEF Init, Thread, InHeld, ProcHeld, OutHeld
  <1>2. Range(queueIn) = {} /\ Range(queueOut) = {}
    BY DEF Init, Range
  <1> QED BY <1>1, <1>2 DEF Init, Pending, Relay!Init

\* Giving up requests, none of them included, is a step of RequestRelay.
LEMMA RelayGiveUp ==
    ASSUME UNCHANGED <<received, sent>>, Pending' \subseteq Pending
    PROVE  Relay!Next
  <1>1. Pending \ Pending' \in SUBSET Pending /\ Pending' = Pending \ (Pending \ Pending')
    OBVIOUS
  <1>2. Relay!GiveUp(Pending \ Pending')
    BY <1>1 DEF Relay!GiveUp
  <1> QED BY <1>1, <1>2 DEF Relay!Next

LEMMA RelayIn == Inv /\ InThread => Relay!Next
  <1> SUFFICES ASSUME Inv, InThread PROVE Relay!Next
    OBVIOUS
  <1>1. /\ pc \in [Thread -> Label] /\ node \in [Thread -> Pointer]
        /\ queueIn \in Seq(Pointer) /\ "in" \in Thread /\ node["in"] \in Pointer
    BY DEF Inv, TypeOK, ControlType, DataType, Thread
  <1>2. pc'["proc"] = pc["proc"] /\ pc'["out"] = pc["out"]
    BY InMoves DEF Moves, Thread, Inv
  <1>3. /\ node'["proc"] = node["proc"] /\ node'["out"] = node["out"]
        /\ UNCHANGED <<sent, queueOut>>
    BY <1>1 DEF InThread, InStart, InLoop, InCount, InRead, InLock, InAppend, InUnlock,
       CleanUp, Destroy, Thread
  <1>4. UNCHANGED <<ProcHeld, OutHeld>>
    BY <1>2, <1>3 DEF ProcHeld, OutHeld
  <1>5. CASE InRead
    <2>1. InHeld = {} /\ queueIn' = queueIn
      BY <1>5 DEF InRead, InHeld
    <2>2. CASE received' = received + 1
      <3>1. InHeld' \in {{}, {received + 1}}
        BY <1>1, <1>5, <2>2 DEF InRead, Goto, InHeld
      <3>2. Pending' \in {Pending, Pending \cup {received + 1}}
        BY <1>3, <1>4, <2>1, <3>1 DEF Pending
      <3>3. Relay!Take
        BY <1>3, <2>2, <3>2 DEF Relay!Take
      <3> QED BY <3>3 DEF Relay!Next
    <2>3. CASE UNCHANGED received /\ Goto("in", "loop")
      <3>1. InHeld' = {}
        BY <1>1, <2>3 DEF Goto, InHeld
      <3> QED BY <1>3, <1>4, <2>1, <2>3, <3>1, RelayGiveUp DEF Pending
    <2> QED BY <1>5, <2>2, <2>3 DEF InRead
  <1>6. CASE InAppend
    <2>1. InHeld = {node["in"]} /\ InHeld' = {} /\ received' = received
      BY <1>1, <1>6 DEF InAppend, Goto, InHeld
    <2>2. Range(queueIn') = Range(queueIn) \cup {node["in"]}
      BY <1>1, <1>6, RangeAppend DEF InAppend
    <2> QED BY <1>3, <1>4, <2>1, <2>2, RelayGiveUp DEF Pending
  <1>7. ASSUME ~InRead, ~InAppend PROVE Relay!Next
    <2>1. UNCHANGED <<received, queueIn>>
      BY <1>7 DEF InThread, InStart, InLoop, InCount, InLock, InUnlock, CleanUp, Destroy
    <2>2. InHeld' \subseteq InHeld
      BY <1>1, <1>7 DEF InThread, InStart, InLoop, InCount, InLock, InUnlock, CleanUp,
         Destroy, Goto, InHeld
    <2> QED BY <1>3, <1>4, <2>1, <2>2, RelayGiveUp DEF Pending
  <1> QED BY <1>5, <1>6, <1>7

LEMMA RelayProc == Inv /\ ProcThread => Relay!Next
  <1> SUFFICES ASSUME Inv, ProcThread PROVE Relay!Next
    OBVIOUS
  <1>1. /\ pc \in [Thread -> Label] /\ node \in [Thread -> Pointer]
        /\ queueIn \in Seq(Pointer) /\ queueOut \in Seq(Pointer)
        /\ "proc" \in Thread /\ node["proc"] \in Pointer
    BY DEF Inv, TypeOK, ControlType, DataType, Thread
  <1>2. pc'["in"] = pc["in"] /\ pc'["out"] = pc["out"]
    BY ProcMoves DEF Moves, Thread, Inv
  <1>3. /\ node'["in"] = node["in"] /\ node'["out"] = node["out"]
        /\ UNCHANGED <<sent, received>>
    BY <1>1 DEF ProcThread, Start, Wait, Check, ProcLock, ProcTake, ProcUnlock, ProcDrop,
       ProcAnswer, ProcAppend, Thread
  <1>4. UNCHANGED <<InHeld, OutHeld>>
    BY <1>2, <1>3 DEF InHeld, OutHeld
  <1>5. CASE ProcTake
    <2>1. queueIn # <<>>
      BY <1>5 DEF ProcTake, Inv, SeenStays
    <2>2. ProcHeld = {} /\ ProcHeld' = {Head(queueIn)} /\ queueOut' = queueOut
      BY <1>1, <1>5, <2>1 DEF ProcTake, Goto, ProcHeld
    <2>3. Range(queueIn) = ProcHeld' \cup Range(queueIn')
      BY <1>1, <1>5, <2>1, <2>2, RangeTail DEF ProcTake
    <2> QED BY <1>3, <1>4, <2>2, <2>3, RelayGiveUp DEF Pending
  <1>6. CASE ProcAppend
    <2>1. ProcHeld = {node["proc"]} /\ ProcHeld' = {} /\ queueIn' = queueIn
      BY <1>1, <1>6 DEF ProcAppend, Goto, ProcHeld
    <2>2. Range(queueOut') = Range(queueOut) \cup {node["proc"]}
      BY <1>1, <1>6, RangeAppend DEF ProcAppend
    <2> QED BY <1>3, <1>4, <2>1, <2>2, RelayGiveUp DEF Pending
  <1>7. ASSUME ~ProcTake, ~ProcAppend PROVE Relay!Next
    <2>1. UNCHANGED <<queueIn, queueOut>>
      BY <1>7 DEF ProcThread, Start, Wait, Check, ProcLock, ProcUnlock, ProcDrop, ProcAnswer
    <2>2. ProcHeld' \subseteq ProcHeld
      BY <1>1, <1>7 DEF ProcThread, Start, Wait, Check, ProcLock, ProcUnlock, ProcDrop,
         ProcAnswer, Goto, ProcHeld
    <2> QED BY <1>3, <1>4, <2>1, <2>2, RelayGiveUp DEF Pending
  <1> QED BY <1>5, <1>6, <1>7

LEMMA RelayOut == Inv /\ OutThread => Relay!Next
  <1> SUFFICES ASSUME Inv, OutThread PROVE Relay!Next
    OBVIOUS
  <1>1. /\ pc \in [Thread -> Label] /\ node \in [Thread -> Pointer]
        /\ queueOut \in Seq(Pointer) /\ sent \in Seq(Pointer)
        /\ "out" \in Thread /\ node["out"] \in Pointer
    BY DEF Inv, TypeOK, ControlType, DataType, Thread
  <1>2. pc'["in"] = pc["in"] /\ pc'["proc"] = pc["proc"]
    BY OutMoves DEF Moves, Thread, Inv
  <1>3. /\ node'["in"] = node["in"] /\ node'["proc"] = node["proc"]
        /\ UNCHANGED <<received, queueIn>>
    BY <1>1 DEF OutThread, Start, Wait, Check, OutLock, OutTake, OutUnlock, OutSend,
       OutFree, CleanUp, Destroy, Thread
  <1>4. UNCHANGED <<InHeld, ProcHeld>>
    BY <1>2, <1>3 DEF InHeld, ProcHeld
  <1>5. CASE OutTake
    <2>1. queueOut # <<>>
      BY <1>5 DEF OutTake, Inv, SeenStays
    <2>2. OutHeld = {} /\ OutHeld' = {Head(queueOut)} /\ sent' = sent
      BY <1>1, <1>5, <2>1 DEF OutTake, Goto, OutHeld
    <2>3. Range(queueOut) = OutHeld' \cup Range(queueOut')
      BY <1>1, <1>5, <2>1, <2>2, RangeTail DEF OutTake
    <2> QED BY <1>3, <1>4, <2>2, <2>3, RelayGiveUp DEF Pending
  <1>6. CASE OutSend
    <2>1. OutHeld = {node["out"]} /\ OutHeld' = {} /\ OutOwned = {node["out"]}
          /\ queueOut' = queueOut
      BY <1>1, <1>6 DEF OutSend, Goto, OutHeld, OutOwned
    <2>2. node["out"] \in Pending
      BY <2>1 DEF Pending
    <2>3. \A s \in Range(sent) : s < node["out"]
      BY <2>2 DEF Inv, Order, Below
    <2>4. \A n \in InHeld \cup Range(queueIn) \cup ProcHeld \cup Range(queueOut) :
             n # node["out"]
      <3>1. ~(node["out"] < node["out"])
        BY <2>1 DEF Inv, WasRead
      <3> QED BY <2>1, <3>1 DEF Inv, Order, Below
    <2>5. Pending' = Pending \ {node["out"]}
      BY <1>3, <1>4, <2>1, <2>4 DEF Pending
    <2>6. CASE sent' = sent
      BY <1>3, <2>5, <2>6, RelayGiveUp
    <2>7. CASE sent' = Append(sent, node["out"])
      <3>1. Relay!Reply(node["out"])
        BY <1>3, <2>3, <2>5, <2>7 DEF Relay!Reply, Relay!Range, Range
      <3> QED BY <2>2, <3>1 DEF Relay!Next
    <2> QED BY <1>6, <2>6, <2>7 DEF OutSend
  <1>7. ASSUME ~OutTake, ~OutSend PROVE Relay!Next
    <2>1. UNCHANGED <<queueOut, sent>>
      BY <1>7 DEF OutThread, Start, Wait, Check, OutLock, OutUnlock, OutFree, CleanUp, Destroy
    <2>2. OutHeld' \subseteq OutHeld
      BY <1>1, <1>7 DEF OutThread, Start, Wait, Check, OutLock, OutUnlock, OutFree,
         CleanUp, Destroy, Goto, OutHeld
    <2> QED BY <1>3, <1>4, <2>1, <2>2, RelayGiveUp DEF Pending
  <1> QED BY <1>5, <1>6, <1>7

LEMMA RelayRest == Inv /\ (Main \/ Signal \/ exitProgram) => Relay!Next
  <1> SUFFICES ASSUME Inv, Main \/ Signal \/ exitProgram PROVE Relay!Next
    OBVIOUS
  <1>1. UNCHANGED <<received, sent, node>>
    BY DEF Main, Signal, CreateThread, OpenSocket, RunThread, TryWait, CheckError, Leave,
       exitProgram, StopThread, Join, DrainCount, DrainRead, DrainTake, DrainFree, ReleaseAll,
       Post, data
  <1>2. pc \in [Thread -> Label]
    BY DEF Inv, TypeOK, ControlType
  <1>3. UNCHANGED pc
        \/ \E t \in Thread : pc[t] = "none" /\ pc' = [pc EXCEPT ![t] = "start"]
    BY DEF Main, Signal, CreateThread, Goto, OpenSocket, RunThread, TryWait, CheckError,
       Leave, exitProgram, StopThread, Join, DrainCount, DrainRead, DrainTake, DrainFree,
       ReleaseAll, Post, data, Inv, JoinedAreGone, Thread
  <1>4. UNCHANGED <<InHeld, ProcHeld, OutHeld>>
    BY <1>1, <1>2, <1>3 DEF InHeld, ProcHeld, OutHeld, Thread
  <1>5. CASE DrainStep
    <2>1. /\ queueOut' \in {queueOut, Tail(queueOut)} /\ queueIn' \in {queueIn, Tail(queueIn)}
          /\ queueOut = <<>> => queueOut' = queueOut
          /\ queueIn = <<>> => queueIn' = queueIn
      BY <1>5 DEF DrainStep, DrainCount, DrainRead, DrainTake, DrainFree, data, Range
    <2>2. Range(queueOut') \subseteq Range(queueOut) /\ Range(queueIn') \subseteq Range(queueIn)
      BY <2>1, RangeTail DEF Inv, TypeOK, DataType
    <2> QED BY <1>1, <1>4, <2>2, RelayGiveUp DEF Pending
  <1>6. CASE ~DrainStep
    <2>1. UNCHANGED <<queueIn, queueOut>>
      BY <1>6 DEF Main, Signal, CreateThread, OpenSocket, RunThread, TryWait, CheckError,
         Leave, exitProgram, DrainStep, StopThread, Join, ReleaseAll, Post, data
    <2> QED BY <1>1, <1>4, <2>1, RelayGiveUp DEF Pending
  <1> QED BY <1>5, <1>6

\* The daemon implements RequestRelay: whatever the interleaving, the shutdown and
\* the failures, requests are given up or answered once, in the order of arrival.
THEOREM ImplementsRelay == Spec => RelaySpec
  <1>1. Inv /\ Next => Relay!Next
    BY RelayIn, RelayProc, RelayOut, RelayRest DEF Next
  <1>2. UNCHANGED vars => UNCHANGED Relay!vars
    BY DEF vars, lifecycle, Relay!vars, Pending, InHeld, ProcHeld, OutHeld
  <1>3. Inv /\ [Next]_vars => [Relay!Next]_Relay!vars
    BY <1>1, <1>2
  <1> QED BY <1>3, RelayInit, InvHolds, PTL DEF Spec, RelaySpec, Relay!Spec

----------------------------------------------------------------------------
(* Mutexes.                                                                *)

\* Where a thread holds a mutex.
Inside == {<<"mutexIn", "in", "append">>, <<"mutexIn", "in", "unlock">>,
           <<"mutexIn", "proc", "take">>, <<"mutexIn", "proc", "unlockIn">>,
           <<"mutexOut", "proc", "append">>, <<"mutexOut", "proc", "unlockOut">>,
           <<"mutexOut", "out", "take">>, <<"mutexOut", "out", "unlock">>}

OwnersInside == \A m \in Mutex, t \in Thread : owner[m] = t => <<m, t, pc[t]>> \in Inside

LEMMA OwnersStep == Inv /\ OwnersInside /\ [Next]_vars => OwnersInside'
  <1> SUFFICES ASSUME Inv, OwnersInside, [Next]_vars PROVE OwnersInside'
    OBVIOUS
  <1> USE DEF OwnersInside, Inside, Mutex, Thread
  <1>1. pc \in [Thread -> Label] /\ owner \in [Mutex -> Thread \cup {"nobody"}]
    BY DEF Inv, TypeOK, ControlType, FlagType
  <1>2. CASE InThread
    <2>1. CASE InLock   BY <1>1, <2>1 DEF InLock, Acquire, Goto
    <2>2. CASE InUnlock BY <1>1, <2>2 DEF InUnlock, Release, Goto
    <2>3. CASE ~InLock /\ ~InUnlock
      BY <1>1, <1>2, <2>3 DEF InThread, InStart, InLoop, InCount, InRead, InAppend, CleanUp,
         Destroy, Goto
    <2> QED BY <2>1, <2>2, <2>3
  <1>3. CASE ProcThread
    <2>1. CASE ProcLock("lock", "mutexIn", "take")
      BY <1>1, <2>1 DEF ProcLock, Acquire, Goto
    <2>2. CASE ProcLock("lockOut", "mutexOut", "append")
      BY <1>1, <2>2 DEF ProcLock, Acquire, Goto
    <2>3. CASE ProcUnlock("unlockIn", "mutexIn", "work")
      BY <1>1, <2>3 DEF ProcUnlock, Release, Goto
    <2>4. CASE ProcUnlock("unlockOut", "mutexOut", "wait")
      BY <1>1, <2>4 DEF ProcUnlock, Release, Goto
    <2>5. CASE \/ Start("proc") \/ Wait("proc", queueIn, "exited") \/ Check("proc", "exited")
               \/ ProcTake \/ ProcDrop \/ ProcAnswer \/ ProcAppend
      BY <1>1, <2>5 DEF Start, Wait, Check, ProcTake, ProcDrop, ProcAnswer, ProcAppend, Goto
    <2> QED BY <1>3, <2>1, <2>2, <2>3, <2>4, <2>5 DEF ProcThread
  <1>4. CASE OutThread
    <2>1. CASE OutLock   BY <1>1, <2>1 DEF OutLock, Acquire, Goto
    <2>2. CASE OutUnlock BY <1>1, <2>2 DEF OutUnlock, Release, Goto
    <2>3. CASE ~OutLock /\ ~OutUnlock
      BY <1>1, <1>4, <2>3 DEF OutThread, Start, Wait, Check, OutTake, OutSend, OutFree,
         CleanUp, Destroy, Goto
    <2> QED BY <2>1, <2>2, <2>3
  <1>5. CASE Main \/ Signal \/ exitProgram
    <2>1. owner' = owner
      BY <1>5 DEF Main, Signal, CreateThread, OpenSocket, RunThread, TryWait, CheckError,
         Leave, exitProgram, StopThread, Join, DrainCount, DrainRead, DrainTake, DrainFree,
         ReleaseAll, Post, data
    <2>2. UNCHANGED pc
          \/ \E t \in Thread : pc[t] = "none" /\ pc' = [pc EXCEPT ![t] = "start"]
      BY <1>5 DEF Main, Signal, CreateThread, Goto, OpenSocket, RunThread, TryWait,
         CheckError, Leave, exitProgram, StopThread, Join, DrainCount, DrainRead, DrainTake,
         DrainFree, ReleaseAll, Post, Inv, JoinedAreGone, data
    <2> QED BY <1>1, <2>1, <2>2
  <1>6. CASE UNCHANGED vars
    BY <1>6 DEF vars
  <1> QED BY <1>2, <1>3, <1>4, <1>5, <1>6 DEF Next

\* A thread that ended, in the error paths too, left no mutex locked.
LEMMA NoLockLeftBehindHolds == Spec => []NoLockLeftBehind
  <1>1. Init => OwnersInside
    BY DEF Init, OwnersInside, Mutex, Thread
  <1>2. OwnersInside => NoLockLeftBehind
    BY DEF OwnersInside, Inside, NoLockLeftBehind
  <1> QED BY <1>1, <1>2, OwnersStep, InvHolds, PTL DEF Spec

----------------------------------------------------------------------------
(* Requests.                                                               *)

\* The nodes that an activation took from a queue and has not freed yet.
Taken == {frames[i].node : i \in {j \in DOMAIN frames : frames[j].at \in {"freeOut", "freeIn"}}}

\* Without an error every request read is freed or still somewhere; main() returns
\* only when no activation is left.
Accounted ==
    /\ ~errorThread => 1..received \subseteq freed \cup OutOwned \cup Pending \cup Taken
    /\ main = "returned" => frames = <<>>

LEMMA AccountedStep == Inv /\ Accounted /\ [Next]_vars => Accounted'
  <1> SUFFICES ASSUME Inv, Accounted, [Next]_vars PROVE Accounted'
    OBVIOUS
  <1>1. /\ pc \in [Thread -> Label] /\ node \in [Thread -> Pointer]
        /\ queueIn \in Seq(Pointer) /\ queueOut \in Seq(Pointer) /\ received \in Nat
        /\ frames \in Seq(Frame) /\ DOMAIN frames \subseteq Nat \ {0}
        /\ "in" \in Thread /\ "out" \in Thread /\ "proc" \in Thread
        /\ node["in"] \in Pointer /\ node["proc"] \in Pointer /\ node["out"] \in Pointer
    BY LenProperties DEF Inv, TypeOK, ControlType, DataType, CountType, Thread
  <1>2. ASSUME UNCHANGED frames PROVE Taken' = Taken
    BY <1>2 DEF Taken
  <1>3. CASE InThread
    <2>1. UNCHANGED <<main, frames, Taken>>
      BY <1>2, <1>3, InMoves DEF Inv, Moves
    <2>2. /\ pc'["proc"] = pc["proc"] /\ pc'["out"] = pc["out"]
          /\ node'["proc"] = node["proc"] /\ node'["out"] = node["out"]
          /\ UNCHANGED <<freed, queueOut>>
      BY <1>1, <1>3, InMoves DEF Inv, Moves, Thread, InThread, InStart, InLoop, InCount,
         InRead, InLock, InAppend, InUnlock, CleanUp, Destroy
    <2>3. UNCHANGED <<ProcHeld, OutHeld, OutOwned>>
      BY <2>2 DEF ProcHeld, OutHeld, OutOwned
    <2>4. CASE InRead
      <3>1. InHeld = {} /\ queueIn' = queueIn
        BY <2>4 DEF InRead, InHeld
      <3>2. CASE received' = received /\ errorThread' = errorThread
        BY <2>1, <2>2, <2>3, <3>1, <3>2 DEF Accounted, Pending
      <3>3. CASE received' = received + 1 /\ Goto("in", "lock") /\ errorThread' = errorThread
                 /\ node' = [node EXCEPT !["in"] = received + 1]
        <4>1. InHeld' = {received + 1}
          BY <1>1, <3>3 DEF Goto, InHeld
        <4>2. 1..received' = 1..received \cup {received + 1}
          BY <1>1, <3>3
        <4> QED BY <2>1, <2>2, <2>3, <3>1, <3>3, <4>1, <4>2 DEF Accounted, Pending
      <3>4. CASE errorThread'
        BY <2>1, <3>4 DEF Accounted
      <3> QED BY <2>4, <3>2, <3>3, <3>4 DEF InRead
    <2>5. CASE InAppend
      <3>1. InHeld = {node["in"]} /\ UNCHANGED <<received, errorThread>>
        BY <2>5 DEF InAppend, InHeld
      <3>2. Range(queueIn') = Range(queueIn) \cup {node["in"]}
        BY <1>1, <2>5, RangeAppend DEF InAppend
      <3> QED BY <2>1, <2>2, <2>3, <3>1, <3>2 DEF Accounted, Pending
    <2>6. CASE ~InRead /\ ~InAppend
      <3>1. UNCHANGED <<received, queueIn>> /\ (errorThread => errorThread')
        BY <1>3, <2>6 DEF InThread, InStart, InLoop, InCount, InLock, InUnlock, CleanUp, Destroy
      <3>2. InHeld \subseteq InHeld'
        BY <1>1, <1>3, <2>6 DEF InThread, InStart, InLoop, InCount, InLock, InUnlock,
           CleanUp, Destroy, Goto, InHeld
      <3> QED BY <2>1, <2>2, <2>3, <3>1, <3>2 DEF Accounted, Pending
    <2> QED BY <2>4, <2>5, <2>6
  <1>4. CASE ProcThread
    <2>1. UNCHANGED <<main, frames, Taken>>
      BY <1>2, <1>4, ProcMoves DEF Inv, Moves
    <2>2. /\ pc'["in"] = pc["in"] /\ pc'["out"] = pc["out"]
          /\ node'["in"] = node["in"] /\ node'["out"] = node["out"]
          /\ received' = received
      BY <1>1, <1>4, ProcMoves DEF Inv, Moves, Thread, ProcThread, Start, Wait, Check,
         ProcLock, ProcTake, ProcUnlock, ProcDrop, ProcAnswer, ProcAppend
    <2>3. UNCHANGED <<InHeld, OutHeld, OutOwned>>
      BY <2>2 DEF InHeld, OutHeld, OutOwned
    <2>4. errorThread => errorThread'
      BY <1>4 DEF ProcThread, Start, Wait, Check, ProcLock, ProcTake, ProcUnlock,
         ProcDrop, ProcAnswer, ProcAppend
    <2>5. CASE errorThread'
      BY <2>1, <2>5 DEF Accounted
    <2>6. CASE ~errorThread'
      <3>1. freed \cup ProcHeld \cup Range(queueIn) \cup Range(queueOut)
            \subseteq freed' \cup ProcHeld' \cup Range(queueIn') \cup Range(queueOut')
        <4>1. CASE ProcTake
          <5>1. queueIn # <<>>
            BY <4>1 DEF ProcTake, Inv, SeenStays
          <5>2. ProcHeld = {} /\ ProcHeld' = {Head(queueIn)}
            BY <1>1, <4>1, <5>1 DEF ProcTake, Goto, ProcHeld
          <5> QED BY <1>1, <4>1, <5>1, <5>2, RangeTail DEF ProcTake
        <4>2. CASE ProcDrop
          <5>1. ProcHeld = {node["proc"]} /\ node["proc"] \in 1..received
            BY <4>2 DEF ProcDrop, ProcHeld, Inv, WasRead, Pending
          <5>2. NoNode \notin 1..received
            BY <1>1 DEF NoNode
          <5> QED BY <1>1, <4>2, <5>1, <5>2 DEF ProcDrop, nodeFree
        <4>3. CASE ProcAppend
          BY <1>1, <4>3, RangeAppend DEF ProcAppend, ProcHeld
        <4>4. CASE \/ Start("proc") \/ Wait("proc", queueIn, "exited")
                   \/ Check("proc", "exited") \/ ProcAnswer
          BY <1>1, <4>4 DEF Start, Wait, Check, ProcAnswer, Goto, ProcHeld
        <4>5. CASE \/ ProcUnlock("unlockIn", "mutexIn", "work")
                   \/ ProcUnlock("unlockOut", "mutexOut", "wait")
          BY <1>1, <4>5 DEF ProcUnlock, Goto, ProcHeld
        <4>6. CASE \/ ProcLock("lock", "mutexIn", "take")
                   \/ ProcLock("lockOut", "mutexOut", "append")
          BY <1>1, <2>6, <4>6 DEF ProcLock, Goto, ProcHeld
        <4> QED BY <1>4, <4>1, <4>2, <4>3, <4>4, <4>5, <4>6 DEF ProcThread
      <3> QED BY <2>1, <2>2, <2>3, <2>4, <2>6, <3>1 DEF Accounted, Pending
    <2> QED BY <2>5, <2>6
  <1>5. CASE OutThread
    <2>1. UNCHANGED <<main, frames, Taken>>
      BY <1>2, <1>5, OutMoves DEF Inv, Moves
    <2>2. /\ pc'["in"] = pc["in"] /\ pc'["proc"] = pc["proc"]
          /\ node'["in"] = node["in"] /\ node'["proc"] = node["proc"]
          /\ UNCHANGED <<received, queueIn, errorThread>>
      BY <1>1, <1>5, OutMoves DEF Inv, Moves, Thread, OutThread, Start, Wait, Check,
         OutLock, OutTake, OutUnlock, OutSend, OutFree, CleanUp, Destroy
    <2>3. UNCHANGED <<InHeld, ProcHeld>>
      BY <2>2 DEF InHeld, ProcHeld
    <2>4. OutHeld \subseteq OutOwned
      BY DEF OutHeld, OutOwned
    <2>5. freed \cup OutOwned \cup Range(queueOut)
          \subseteq freed' \cup OutOwned' \cup Range(queueOut')
      <3>1. CASE OutTake
        <4>1. queueOut # <<>>
          BY <3>1 DEF OutTake, Inv, SeenStays
        <4>2. OutOwned = {} /\ OutOwned' = {Head(queueOut)}
          BY <1>1, <3>1, <4>1 DEF OutTake, Goto, OutOwned
        <4> QED BY <1>1, <3>1, <4>1, <4>2, RangeTail DEF OutTake
      <3>2. CASE OutFree
        <4>1. OutOwned = {node["out"]} /\ node["out"] \in 1..received
          BY <3>2 DEF OutFree, OutOwned, Inv, WasRead
        <4>2. NoNode \notin 1..received
          BY <1>1 DEF NoNode
        <4> QED BY <1>1, <3>2, <4>1, <4>2 DEF OutFree, nodeFree
      <3>3. CASE ~OutTake /\ ~OutFree
        BY <1>1, <1>5, <3>3 DEF OutThread, Start, Wait, Check, OutLock, OutUnlock, OutSend,
           CleanUp, Destroy, Goto, OutOwned
      <3> QED BY <3>1, <3>2, <3>3
    <2> QED BY <2>1, <2>2, <2>3, <2>4, <2>5 DEF Accounted, Pending
  <1>6. CASE Main \/ Signal \/ exitProgram
    <2>1. UNCHANGED <<received, node, errorThread>>
      BY <1>6 DEF Main, Signal, CreateThread, OpenSocket, RunThread, TryWait, CheckError,
         Leave, exitProgram, StopThread, Join, DrainCount, DrainRead, DrainTake, DrainFree,
         ReleaseAll, Post, data
    <2>2. UNCHANGED pc
          \/ \E t \in Thread : pc[t] = "none" /\ pc' = [pc EXCEPT ![t] = "start"]
      BY <1>6 DEF Main, Signal, CreateThread, Goto, OpenSocket, RunThread, TryWait,
         CheckError, Leave, exitProgram, StopThread, Join, DrainCount, DrainRead, DrainTake,
         DrainFree, ReleaseAll, Post, Inv, JoinedAreGone, Thread, data
    <2>3. UNCHANGED <<InHeld, ProcHeld, OutHeld, OutOwned>>
      BY <1>1, <2>1, <2>2 DEF InHeld, ProcHeld, OutHeld, OutOwned, Thread
    <2>4. main' = "returned" => frames' = <<>>
      BY <1>6 DEF Main, Signal, CreateThread, OpenSocket, RunThread, TryWait, CheckError,
         Leave, exitProgram, StopThread, Join, DrainCount, DrainRead, DrainTake, DrainFree,
         ReleaseAll, Post, data, Halted
    <2>5. ASSUME freed \cup Range(queueOut) \cup Range(queueIn) \cup Taken
                 \subseteq {NoNode} \cup freed' \cup Range(queueOut') \cup Range(queueIn') \cup Taken'
          PROVE  Accounted'
      <3>1. NoNode \notin 1..received
        BY <1>1 DEF NoNode
      <3> QED BY <2>1, <2>3, <2>4, <2>5, <3>1 DEF Accounted, Pending
    <2>6. CASE Main \/ Signal
      <3>1. UNCHANGED <<queueIn, queueOut, freed>>
        BY <2>6 DEF Main, Signal, CreateThread, OpenSocket, RunThread, TryWait,
           CheckError, Leave, data
      <3>2. Taken \subseteq Taken'
        <4>1. CASE Main
          <5>1. frames = <<>>
            BY <4>1 DEF Main
          <5> QED BY <5>1 DEF Taken
        <4>2. CASE Signal
          <5>1. \A i \in DOMAIN frames : i + 1 \in DOMAIN frames' /\ frames'[i + 1] = frames[i]
            BY <1>1, <4>2, FramesPush DEF Signal
          <5> QED BY <5>1 DEF Taken
        <4> QED BY <2>6, <4>1, <4>2
      <3> QED BY <2>5, <3>1, <3>2
    <2>7. CASE exitProgram
      <3>1. frames # <<>>
        BY <2>7 DEF exitProgram, StopThread, Join, DrainCount, DrainRead, DrainTake, DrainFree,
           ReleaseAll, Post, At
      <3>2. 1 \in DOMAIN frames /\ Head(frames) = frames[1] /\ Head(frames).node \in Pointer
        BY <1>1, <3>1, FramesTail, HoldType
      <3>3. ASSUME NEW label \in FrameLabel, NEW n \in Pointer, Hold(label, n),
                   UNCHANGED <<queueIn, queueOut, freed>>,
                   Head(frames).at \notin {"freeOut", "freeIn"}
            PROVE  Taken \subseteq Taken'
        <4>1. [at |-> label, node |-> n] \in Frame
          BY DEF Frame
        <4>2. DOMAIN frames' = DOMAIN frames /\ \A i \in DOMAIN frames : i # 1 => frames'[i] = frames[i]
          BY <1>1, <3>1, <3>3, <4>1, FramesHold DEF Hold
        <4> QED BY <3>2, <3>3, <4>2 DEF Taken
      <3>4. CASE \/ DrainTake("takeOut", "freeOut") \/ DrainTake("takeIn", "freeIn")
        <4>1. PICK next \in {"freeOut", "freeIn"}, at \in {"takeOut", "takeIn"} :
                 DrainTake(at, next) /\ (at = "takeOut" <=> next = "freeOut")
          BY <3>4
        <4>2. PICK n \in Pointer : n = Head(frames).node
          BY <3>2
        <4>3. Head(frames).at = at /\ freed' = freed
          BY <4>1 DEF DrainTake, At
        <4>4. CASE Resume(next)
          <5>1. [at |-> next, node |-> n] \in Frame /\ frames' = <<[at |-> next, node |-> n]>> \o Tail(frames)
            BY <4>2, <4>4 DEF Frame, FrameLabel, DrainOut, DrainIn, Resume, Hold
          <5>2. /\ DOMAIN frames' = DOMAIN frames /\ frames'[1] = [at |-> next, node |-> n]
                /\ \A i \in DOMAIN frames : i # 1 => frames'[i] = frames[i]
            BY <1>1, <3>1, <5>1, FramesHold
          <5>3. Taken' = Taken \cup {n}
            BY <3>2, <4>1, <4>3, <5>2 DEF Taken
          <5>4. /\ Range(queueOut) \subseteq Range(queueOut') \cup {n}
                /\ Range(queueIn) \subseteq Range(queueIn') \cup {n}
            <6>1. ASSUME NEW q \in Seq(Pointer), q # <<>>, n = Head(q) \/ n \notin Range(q)
                  PROVE  Range(q) \subseteq Range(IF n \in Range(q) THEN Tail(q) ELSE q) \cup {n}
              BY <6>1, RangeTail
            <6>2. ASSUME NEW q, q = <<>>
                  PROVE  Range(q) \subseteq Range(IF n \in Range(q) THEN Tail(q) ELSE q) \cup {n}
              BY <6>2 DEF Range
            <6>3. released \/ Exact(Head(frames))
              BY <3>1, TopExact DEF Inv
            <6>4. at = "takeOut" => queueOut = <<>> \/ n = Head(queueOut)
              BY <4>2, <4>3, <6>3 DEF Exact, Inv, Drained
            <6>5. at = "takeIn" => queueIn = <<>> \/ n = Head(queueIn)
              BY <4>2, <4>3, <6>3 DEF Exact, Inv, Drained
            <6> QED BY <1>1, <4>1, <4>2, <6>1, <6>2, <6>4, <6>5 DEF DrainTake
          <5> QED BY <2>5, <4>3, <5>3, <5>4
        <4>5. CASE UNCHANGED frames /\ n \in freed
          <5>1. Taken' = Taken
            BY <1>2, <4>5
          <5>2. n \notin Range(queueOut) \cup Range(queueIn)
            BY <4>5 DEF Inv, Live, Pending
          <5>3. UNCHANGED <<queueIn, queueOut>>
            BY <4>1, <4>2, <5>2 DEF DrainTake
          <5> QED BY <2>5, <4>3, <5>1, <5>3
        <4> QED BY <4>1, <4>2, <4>4, <4>5 DEF DrainTake
      <3>5. CASE \/ DrainFree("freeOut", "countOut") \/ DrainFree("freeIn", "countIn")
        <4>1. PICK next \in {"countOut", "countIn"} :
                 DrainFree("freeOut", next) \/ DrainFree("freeIn", next)
          BY <3>5
        <4>2. PICK n \in Pointer : n = Head(frames).node
          BY <3>2
        <4>3. /\ UNCHANGED <<queueIn, queueOut>> /\ freed' = freed \cup ({n} \ {NoNode})
              /\ Hold(next, n)
          BY <4>1, <4>2 DEF DrainFree, nodeFree, Resume
        <4>4. [at |-> next, node |-> n] \in Frame
          BY DEF Frame, FrameLabel, DrainOut, DrainIn
        <4>5. DOMAIN frames' = DOMAIN frames /\ \A i \in DOMAIN frames : i # 1 => frames'[i] = frames[i]
          BY <1>1, <3>1, <4>3, <4>4, FramesHold DEF Hold
        <4>6. Taken \subseteq Taken' \cup {n}
          BY <3>2, <4>2, <4>5 DEF Taken
        <4> QED BY <2>5, <4>3, <4>6
      <3>6. CASE Post
        <4>1. /\ Head(frames).at = "post" /\ frames' = Tail(frames)
              /\ UNCHANGED <<queueIn, queueOut, freed>>
          BY <3>6 DEF Post, At, data
        <4>2. \A i \in DOMAIN frames : i # 1 => i - 1 \in DOMAIN frames' /\ frames'[i - 1] = frames[i]
          BY <1>1, <3>1, <4>1, HeadTailProperties, EmptySeq, LenProperties
        <4>3. ASSUME NEW i \in DOMAIN frames, frames[i].at \in {"freeOut", "freeIn"}
              PROVE  frames[i].node \in Taken'
          <5>1. i # 1
            BY <3>2, <4>1, <4>3
          <5> QED BY <4>2, <4>3, <5>1 DEF Taken
        <4>4. Taken \subseteq Taken'
          BY <4>3 DEF Taken
        <4> QED BY <2>5, <4>1, <4>4
      <3>7. ASSUME ~Post, ~DrainTake("takeOut", "freeOut"), ~DrainTake("takeIn", "freeIn"),
                   ~DrainFree("freeOut", "countOut"), ~DrainFree("freeIn", "countIn")
            PROVE  Accounted'
        <4>1. UNCHANGED <<queueIn, queueOut, freed>>
          BY <2>7, <3>7 DEF exitProgram, StopThread, Join, DrainCount, DrainRead, ReleaseAll, data
        <4>2. Head(frames).at \notin {"freeOut", "freeIn"}
          BY <2>7, <3>7 DEF exitProgram, StopThread, Join, DrainCount, DrainRead, ReleaseAll, At
        <4>3. \/ UNCHANGED frames
              \/ \E label \in FrameLabel, n \in Pointer : Hold(label, n)
          <5>1. /\ NoNode \in Pointer
                /\ queueOut # <<>> => Head(queueOut) \in Pointer
                /\ queueIn # <<>> => Head(queueIn) \in Pointer
            BY <1>1, RangeTail DEF Pointer, NoNode
          <5> QED BY <2>7, <3>2, <3>7, <5>1
                  DEF exitProgram, StopThread, Join, DrainCount, DrainRead, ReleaseAll, Resume,
                      FrameLabel, DrainOut, DrainIn
        <4>4. Taken \subseteq Taken'
          BY <1>2, <3>3, <4>1, <4>2, <4>3
        <4> QED BY <2>5, <4>1, <4>4
      <3> QED BY <3>4, <3>5, <3>6, <3>7
    <2> QED BY <1>6, <2>6, <2>7
  <1>7. CASE UNCHANGED vars
    <2>1. UNCHANGED <<InHeld, ProcHeld, OutHeld, OutOwned, Taken>>
      BY <1>7 DEF vars, lifecycle, InHeld, ProcHeld, OutHeld, OutOwned, Taken
    <2> QED BY <1>7, <2>1 DEF vars, lifecycle, Accounted, Pending
  <1> QED BY <1>3, <1>4, <1>5, <1>6, <1>7 DEF Next

\* A server that ends without an error has freed every request that it read.
LEMMA NothingLeakedHolds == Spec => []NothingLeaked
  <1>1. Init => Accounted
    BY DEF Init, Accounted
  <1>2. Inv /\ Accounted => NothingLeaked
    <2> SUFFICES ASSUME Inv, Accounted, main = "returned", released, ~errorThread
                 PROVE  1..received \subseteq freed
      BY DEF NothingLeaked
    <2>1. InHeld = {} /\ ProcHeld = {} /\ OutHeld = {} /\ OutOwned = {}
      BY DEF Inv, JoinedAreGone, Thread, InHeld, ProcHeld, OutHeld, OutOwned
    <2>2. Range(queueIn) = {} /\ Range(queueOut) = {}
      BY DEF Inv, Drained, Range
    <2>3. Taken = {}
      BY DEF Accounted, Taken
    <2> QED BY <2>1, <2>2, <2>3 DEF Accounted, Pending
  <1> QED BY <1>1, <1>2, AccountedStep, InvHolds, PTL DEF Spec

\* Threads and server leave neither a locked mutex nor a request.
THEOREM NothingStaysBehind == Spec => []NothingLeftBehind
  <1>1. NoLockLeftBehind /\ NothingLeaked => NothingLeftBehind
    BY DEF NothingLeftBehind
  <1> QED BY <1>1, NoLockLeftBehindHolds, NothingLeakedHolds, PTL

====
