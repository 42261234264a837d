---- MODULE Win32Server ----
(***************************************************************************)
(* The Win32 server beside the daemon: a form with a start and a stop      *)
(* button, a thread that receives and a thread that answers, and between   *)
(* them an array of requests that nothing locks (mpDNSwin32/delphi6).      *)
(* The threads, and arrays that SetLength may move, are Delphi's; the      *)
(* query, the sockets and the memory are mpDNSlib's.                       *)
(*                                                                         *)
(* A request stands for its buffer and its address.                        *)
(***************************************************************************)
EXTENDS Integers, Sequences, Functions

CONSTANTS
    MaxRequests,    \* bound: datagrams that come
    MaxStarts       \* bound: clicks on the start button

ASSUME Win32Assumption == MaxRequests \in Nat /\ MaxStarts \in Nat

Request == 1..MaxRequests
nil     == 0        \* the pointers of a record that SetLength made

VARIABLES
    form,           \* the main thread: waits for the user, or for the in thread
    running,        \* inThread <> nil; the stop button is enabled
    isIni,
    starts,
    in, terminatedIn,       \* where the in thread is, and its Terminated
    proc, terminatedProc,   \* the same for the processing thread
    ssocket,        \* the server's socket is open
    pData,          \* the array
    lenIn, lenProc, \* len of putProcessing, and of Execute
    received,       \* datagrams so far; the last one is in the in thread's hands
    processed,      \* history: the requests that were processed
    replies,        \* history: those that were sent, in this order
    freed, lost,    \* history: freed, and cut off the array
    overlapped,     \* history: put while the processing thread was at the array
    fault

shell   == <<form, running, isIni, starts>>
inVars  == <<in, terminatedIn, lenIn>>
proVars == <<proc, terminatedProc, lenProc>>
history == <<processed, replies, freed, lost, overlapped>>
vars    == <<shell, inVars, proVars, ssocket, pData, received, history, fault>>

Init ==
    /\ form = "user" /\ running = FALSE /\ isIni = FALSE /\ starts = 0
    /\ in = "ended" /\ terminatedIn = FALSE /\ lenIn = 0
    /\ proc = "ended" /\ terminatedProc = FALSE /\ lenProc = 0
    /\ ssocket = FALSE /\ pData = <<>> /\ received = 0
    /\ processed = {} /\ replies = <<>> /\ freed = {} /\ lost = {} /\ overlapped = {}
    /\ fault = "none"

----------------------------------------------------------------------------
(* The array                                                               *)

Puts == in \in {"grow", "fill"}
Busy == proc \in {"process", "send", "free", "shrink"}

\* SetLength while the other thread uses the array: it uses what was moved away, or
\* the array stayed where it was.
MayMove(used) == fault' \in {fault, IF used THEN "moved" ELSE fault}

Resized(n) == [i \in 1..n |-> IF i \in DOMAIN pData THEN pData[i] ELSE nil]

Requests(s) == {s[i] : i \in DOMAIN s} \ {nil}

----------------------------------------------------------------------------
(* TForm1                                                                  *)

\* The in thread starts, also if the library could not be initialised.  The library
\* reads an eighth argument, the forwarder's name, from a call that passes seven.
StartButtonClick ==
    /\ form = "user" /\ ~running /\ starts < MaxStarts
    /\ isIni' \in {isIni, TRUE}
    /\ fault' \in {fault, IF isIni THEN fault ELSE "noForwarder"}
    /\ running' = TRUE /\ starts' = starts + 1
    /\ in' = "ini" /\ terminatedIn' = FALSE
    /\ UNCHANGED <<form, lenIn, proVars, ssocket, pData, received, history>>

StopButtonClick ==
    /\ form = "user" /\ running
    /\ terminatedIn' = TRUE /\ form' = "stops"
    /\ UNCHANGED <<running, isIni, starts, in, lenIn, proVars, ssocket, pData, received,
                   history, fault>>

FormDestroy ==
    /\ form = "user" /\ form' = "closes"
    /\ terminatedIn' = (running \/ terminatedIn)
    /\ UNCHANGED <<running, isIni, starts, in, lenIn, proVars, ssocket, pData, received,
                   history, fault>>

\* WaitFor returns, and the library is released.
Stopped ==
    /\ form \in {"stops", "closes"} /\ (running => in = "ended")
    /\ form' = IF form = "stops" THEN "user" ELSE "closed"
    /\ running' = FALSE /\ isIni' = FALSE
    /\ UNCHANGED <<starts, inVars, proVars, ssocket, pData, received, history, fault>>

----------------------------------------------------------------------------
(* TInputThread                                                            *)

\* The processing thread is created with an array of its own, and runs; a socket that
\* could not be opened is not noticed.
InIni ==
    /\ in = "ini" /\ in' = "read"
    /\ proc' = "look" /\ terminatedProc' = FALSE /\ pData' = <<>>
    /\ ssocket' \in BOOLEAN
    /\ UNCHANGED <<shell, terminatedIn, lenIn, lenProc, received, history, fault>>

\* readUdp, and a buffer with the datagram's length.  Without one it waits a second.
InRead ==
    /\ in = "read" /\ ~terminatedIn /\ ssocket
    /\ received < MaxRequests /\ received' = received + 1
    /\ lenIn' = Len(pData) /\ in' = "grow"
    /\ UNCHANGED <<shell, terminatedIn, proVars, ssocket, pData, history, fault>>

\* putProcessing
InGrow ==
    /\ in = "grow" /\ in' = "fill"
    /\ pData' = Resized(lenIn + 1) /\ MayMove(Busy)
    /\ UNCHANGED <<shell, terminatedIn, lenIn, proVars, ssocket, received, history>>

\* The place for the request may have been cut off.
InFill ==
    /\ in = "fill" /\ in' = "read"
    /\ overlapped' = IF Busy THEN overlapped \cup {received} ELSE overlapped
    /\ IF lenIn + 1 \in DOMAIN pData
       THEN pData' = [pData EXCEPT ![lenIn + 1] = received] /\ UNCHANGED <<lost, fault>>
       ELSE /\ lost' = lost \cup {received} /\ fault' \in {fault, "outside"}
            /\ UNCHANGED pData
    /\ UNCHANGED <<shell, terminatedIn, lenIn, proVars, ssocket, received, processed,
                   replies, freed>>

\* deini: the processing thread may go on with the socket that is closed here.
InCloses ==
    /\ in = "read" /\ terminatedIn /\ in' = "closed"
    /\ ssocket' = FALSE
    /\ UNCHANGED <<shell, terminatedIn, lenIn, proVars, pData, received, history, fault>>

\* Mutant: the processing thread is not told to end.
InTerminatedAlone ==
    /\ in = "closed" /\ in' = "waits"
    /\ UNCHANGED <<shell, terminatedIn, lenIn, proVars, ssocket, pData, received, history, fault>>

InTerminated ==
    /\ in = "closed" /\ in' = "waits"
    /\ terminatedProc' = TRUE
    /\ UNCHANGED <<shell, terminatedIn, lenIn, proc, lenProc, ssocket, pData, received, history,
                   fault>>

\* Mutant: the processing thread is not waited for.
InLeaves ==
    /\ in = "waits" /\ in' = "ended"
    /\ UNCHANGED <<shell, terminatedIn, lenIn, proVars, ssocket, pData, received, history, fault>>

InWaited ==
    /\ in = "waits" /\ proc = "ended" /\ in' = "ended"
    /\ UNCHANGED <<shell, terminatedIn, lenIn, proVars, ssocket, pData, received, history, fault>>

InThread == InIni \/ InRead \/ InGrow \/ InFill \/ InCloses \/ InTerminated \/ InWaited

----------------------------------------------------------------------------
(* TProcessingThread                                                       *)

ProcLook ==
    /\ proc = "look" /\ ~terminatedProc /\ pData # <<>>
    /\ lenProc' = Len(pData) /\ proc' = "process"
    /\ UNCHANGED <<shell, inVars, terminatedProc, ssocket, pData, received, history, fault>>

\* NULL is refused.  Without a library a query may end in the database's memory.
ProcProcess ==
    LET r == pData[lenProc] IN
    /\ proc = "process" /\ proc' = "send"
    /\ IF r = nil THEN UNCHANGED <<processed, fault>>
       ELSE /\ processed' = processed \cup {r}
            /\ fault' \in {fault, IF isIni THEN fault ELSE "noLibrary"}
    /\ UNCHANGED <<shell, inVars, terminatedProc, lenProc, ssocket, pData, received, replies, freed, lost, overlapped>>

\* A closed socket sends nothing, which is not noticed.
ProcSend ==
    LET r == pData[lenProc] IN
    /\ proc = "send" /\ proc' = "free"
    /\ replies' = IF ssocket /\ r # nil THEN Append(replies, r) ELSE replies
    /\ UNCHANGED <<shell, inVars, terminatedProc, lenProc, ssocket, pData, received, processed, freed, lost, overlapped, fault>>

ProcFree ==
    LET r == pData[lenProc] IN
    /\ proc = "free" /\ proc' = "shrink"
    /\ freed' = freed \cup ({r} \ {nil})
    /\ fault' = IF r \in freed THEN "doubleFree" ELSE fault
    /\ UNCHANGED <<shell, inVars, terminatedProc, lenProc, ssocket, pData, received, processed, replies, lost, overlapped>>

\* What was put meanwhile is cut off with the request that was answered.
Shrink(n) ==
    /\ pData' = Resized(n) /\ proc' = "look"
    /\ lost' = lost \cup (Requests(pData) \ (Requests(pData') \cup freed))
    /\ overlapped' = IF Puts THEN overlapped \cup {received} ELSE overlapped
    /\ MayMove(Puts)
    /\ UNCHANGED <<shell, inVars, terminatedProc, lenProc, ssocket, received, processed, replies, freed>>

\* Mutant: the array is emptied.
ProcShrinkAll == proc = "shrink" /\ Shrink(0)

\* Mutant: the place before is cut off only when there is one.
ProcShrinkLate == proc = "shrink" /\ Shrink(IF lenProc = 1 THEN 1 ELSE lenProc - 1)

ProcShrink == proc = "shrink" /\ Shrink(lenProc - 1)

\* The rest of the array is freed.
ProcTerminated ==
    /\ proc = "look" /\ terminatedProc /\ proc' = "ended"
    /\ freed' = freed \cup Requests(pData) /\ pData' = <<>>
    /\ fault' = IF Requests(pData) \cap freed = {} THEN fault ELSE "doubleFree"
    /\ UNCHANGED <<shell, inVars, terminatedProc, lenProc, ssocket, received, processed,
                   replies, lost, overlapped>>

ProcThread == ProcLook \/ ProcProcess \/ ProcSend \/ ProcFree \/ ProcShrink \/ ProcTerminated

----------------------------------------------------------------------------

Form == StartButtonClick \/ StopButtonClick \/ FormDestroy \/ Stopped

Next == fault = "none" /\ (Form \/ InThread \/ ProcThread)

\* Windows schedules the threads; the user need not click.
Fairness ==
    /\ WF_vars(fault = "none" /\ Stopped)
    /\ WF_vars(fault = "none" /\ InThread)
    /\ WF_vars(fault = "none" /\ ProcThread)

Spec == Init /\ [][Next]_vars /\ Fairness

----------------------------------------------------------------------------
(* Properties.                                                             *)

ControlType ==
    /\ form \in {"user", "stops", "closes", "closed"}
    /\ in \in {"ended", "ini", "read", "grow", "fill", "closed", "waits"}
    /\ proc \in {"ended", "look", "process", "send", "free", "shrink"}
    /\ fault \in {"none", "moved", "outside", "noForwarder", "noLibrary", "doubleFree"}
    /\ running \in BOOLEAN /\ isIni \in BOOLEAN /\ ssocket \in BOOLEAN
    /\ terminatedIn \in BOOLEAN /\ terminatedProc \in BOOLEAN

DataType ==
    /\ starts \in 0..MaxStarts /\ received \in 0..MaxRequests
    /\ lenIn \in Nat /\ lenProc \in Nat
    /\ pData \in Seq(Request \cup {nil}) /\ replies \in Seq(Request)

\* Every variable has its type.
TypeOK == ControlType /\ DataType

\* The threads are freed and the library is released when none of them is left to use
\* it: the form waits for the in thread, and that one for the processing thread.
StopIsComplete ==
    [][running /\ ~running' => in' = "ended" /\ proc' = "ended"]_vars

InHand   == IF Puts THEN {received} ELSE {}
Answered == IF proc = "shrink" THEN {pData[lenProc]} ELSE {}
Queued   == Requests(pData) \ (freed \cap Answered)

\* A buffer is freed once, and is in the array once before; a buffer that is not freed
\* is in the array or in the in thread's hands, unless the array was cut behind it.
BuffersFreedOnce ==
    /\ fault # "doubleFree"
    /\ fault = "none" =>
        /\ 1..received = InHand \cup Queued \cup freed \cup lost
        /\ InHand \cap (Queued \cup freed \cup lost) = {}
        /\ Queued \cap (freed \cup lost) = {} /\ freed \cap lost = {}
        /\ \A i, j \in DOMAIN pData : pData[i] = pData[j] /\ pData[i] # nil => i = j

\* A request is lost, or comes back as it was sent, only when it was put while the
\* processing thread was at the array.  The others are processed before they are sent.
OnlyOverlapsLose ==
    fault = "none" => \A r \in Request \ overlapped :
        r \notin lost /\ (r \in Range(replies) => r \in processed)

\* Requests that were received and are neither answered nor freed nor lost.
Waiting == (1..received) \ (Range(replies) \cup freed \cup lost)

Relay == INSTANCE RequestRelay WITH Ordered <- FALSE, pending <- Waiting

\* What RequestRelay promises without the order: no request is answered twice, or after
\* its buffer was freed or cut off, and none that did not come.
RelaySpec == Relay!Spec

\* A click on the stop button, or the end of the program, comes to its end.
StopEnds == form \in {"stops", "closes"} ~> form \in {"user", "closed"} \/ fault # "none"
====
