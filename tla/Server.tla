---- MODULE Server ----
(***************************************************************************)
(* The mpDNS daemon: the main thread with its signal handler, the thread   *)
(* that reads requests (in), the thread that resolves them (proc) and the  *)
(* thread that sends the replies (out), over the two queues, their mutexes *)
(* and the start/stop flags that they share.  Sources: program/main.c,     *)
(* processing.c, inThread.c, processingThread.c, outThread.c.              *)
(*                                                                         *)
(* A request is the number of its datagram in arrival order, and stands    *)
(* for its queue node.  A step is one access to shared state together with *)
(* the thread-local work around it.  What the C standard leaves undefined  *)
(* ends in a fault, or goes on: both are behaviours of the model.          *)
(***************************************************************************)
EXTENDS Integers, Sequences, FiniteSets, Functions

CONSTANTS
    HighWater,      \* the in thread waits above this queue length (100)
    MaxRequests,    \* bound: datagrams that arrive
    MaxSignals,     \* bound: termination signals that are delivered
    MaxFailures     \* bound: allocations, pthread_create and bind that fail

ASSUME ServerAssumption ==
    /\ HighWater \in Nat
    /\ MaxRequests \in Nat
    /\ MaxSignals \in Nat
    /\ MaxFailures \in Nat

Thread == {"in", "out", "proc"}
Mutex  == {"mutexIn", "mutexOut"}

NoNode  == 0        \* the NULL pointer
Garbage == -1       \* a pointer that was never initialised

VARIABLES
    pc,             \* where each thread is; "none" before pthread_create
    main,           \* where main() is
    frames,         \* activations of exitProgram() on the main thread, the running one
                    \* first: where each is, and its local variable "node"
    run,            \* runInThread, runOutThread, runProcessingThread
    errorThread,    \* a thread gave up
    owner,          \* holder of each mutex, "nobody" when it is free
    destroyed,      \* mutexes after a successful pthread_mutex_destroy
    queueIn, queueOut,
    node,           \* the local variable "node" of each thread
    walk,           \* what happens to the lists while the in thread counts them
    received,       \* datagrams read
    sent,           \* replies written to the socket
    freed,          \* nodes given to nodeFree
    joined,         \* threads that were joined
    released,       \* the end of waitForThreads ran: dnsIP freed, socket closed
    terminateMain,  \* value of the semaphore
    signals, failures,  \* counted against their bounds
    fault           \* the undefined behaviour that ended the process

lifecycle == <<main, frames, joined, released, terminateMain, signals>>
vars == <<pc, lifecycle, run, errorThread, owner, destroyed, queueIn, queueOut,
          node, walk, received, sent, freed, failures, fault>>

Halted == fault # "none" \/ main = "returned"

Init ==
    /\ pc = [t \in Thread |-> "none"]
    /\ main = "createProc"
    /\ frames = <<>>
    /\ run = [t \in Thread |-> FALSE]
    /\ errorThread = FALSE
    /\ owner = [m \in Mutex |-> "nobody"]
    /\ destroyed = {}
    /\ queueIn = <<>>
    /\ queueOut = <<>>
    /\ node = [t \in Thread |-> Garbage]
    /\ walk = "idle"
    /\ received = 0
    /\ sent = <<>>
    /\ freed = {}
    /\ joined = {}
    /\ released = FALSE
    /\ terminateMain = 0
    /\ signals = 0
    /\ failures = 0
    /\ fault = "none"

----------------------------------------------------------------------------
(* Helpers shared by the threads.                                          *)

Goto(t, label) == pc' = [pc EXCEPT ![t] = label]

\* A call for memory or for a resource succeeds or fails.
Succeeds == UNCHANGED failures
Fails    == failures < MaxFailures /\ failures' = failures + 1

\* pthread_mutex_lock by a thread whose mutex is not destroyed.
Acquire(t, m) ==
    /\ owner[m] = "nobody"
    /\ owner' = [owner EXCEPT ![m] = t]

Release(m) == owner' = [owner EXCEPT ![m] = "nobody"]

\* queueCountElements takes no lock.  A list changed under it makes the result
\* arbitrary ("torn"), a node freed under it makes the walk itself undefined.
Torn  == walk' = IF walk = "quiet" THEN "torn" ELSE walk
Freed == walk' = IF walk = "idle" THEN "idle" ELSE "freed"

nodeFree(n) ==
    /\ fault' = CASE n = NoNode -> "nullDereference"
                  [] n \in freed -> "doubleFree"
                  [] OTHER -> fault
    /\ freed' = freed \cup ({n} \ {NoNode})
    /\ Freed

----------------------------------------------------------------------------
(* inThreadStart                                                           *)

\* Leaves the spin loop on runInThread and allocates the first address.
InStart ==
    /\ pc["in"] = "start" /\ run["in"]
    /\ Goto("in", "loop")
    /\ \/ Succeeds /\ UNCHANGED <<run, errorThread>>
       \/ Fails /\ run' = [run EXCEPT !["in"] = FALSE] /\ errorThread' = TRUE
    /\ UNCHANGED <<lifecycle, owner, destroyed, queueIn, queueOut, node, walk,
                   received, sent, freed, fault>>

\* The head of the loop; the count of both queues begins.
InLoop ==
    /\ pc["in"] = "loop"
    /\ \/ run["in"] /\ Goto("in", "count") /\ walk' = "quiet"
       \/ ~run["in"] /\ Goto("in", "cleanup") /\ UNCHANGED walk
    /\ UNCHANGED <<lifecycle, run, errorThread, owner, destroyed, queueIn,
                   queueOut, node, received, sent, freed, failures, fault>>

Crowded == Len(queueIn) > HighWater \/ Len(queueOut) > HighWater

\* The back-pressure test: exact if no other thread touched a list meanwhile.
InCount ==
    /\ pc["in"] = "count"
    /\ walk' = "idle"
    /\ \/ Goto("in", "loop") /\ (Crowded \/ walk # "quiet") /\ UNCHANGED fault
       \/ Goto("in", "read") /\ (~Crowded \/ walk # "quiet") /\ UNCHANGED fault
       \/ walk = "freed" /\ fault' = "useAfterFree" /\ UNCHANGED pc
    /\ UNCHANGED <<lifecycle, run, errorThread, owner, destroyed, queueIn,
                   queueOut, node, received, sent, freed, failures>>

\* readUdp times out, or yields a datagram for which a node is built.  A node
\* left without its buffer still has a random addr, which nodeFree would free.
InRead ==
    /\ pc["in"] = "read"
    /\ \/ Goto("in", "loop") /\ Succeeds
          /\ UNCHANGED <<received, node, errorThread>>
       \/ /\ received < MaxRequests
          /\ received' = received + 1
          /\ \/ /\ Succeeds
                /\ node' = [node EXCEPT !["in"] = received + 1]
                /\ Goto("in", "lock") /\ UNCHANGED errorThread
             \/ /\ Fails
                /\ \E broken \in {NoNode, Garbage} : node' = [node EXCEPT !["in"] = broken]
                /\ Goto("in", "cleanup") /\ errorThread' = TRUE
    /\ UNCHANGED <<lifecycle, run, owner, destroyed, queueIn, queueOut, walk,
                   sent, freed, fault>>

\* mutexIn is destroyed by this thread alone, at its end: the lock cannot fail.
InLock ==
    /\ pc["in"] = "lock" /\ Acquire("in", "mutexIn")
    /\ Goto("in", "append")
    /\ UNCHANGED <<lifecycle, run, errorThread, destroyed, queueIn, queueOut, node,
                   walk, received, sent, freed, failures, fault>>

\* Mutant: the element goes to the head of the list.
InAppendAtHead ==
    /\ pc["in"] = "append"
    /\ queueIn' = <<node["in"]>> \o queueIn
    /\ Goto("in", "unlock")
    /\ UNCHANGED <<lifecycle, run, errorThread, owner, destroyed, queueOut, node,
                   walk, received, sent, freed, failures, fault>>

InAppend ==
    /\ pc["in"] = "append"
    /\ queueIn' = Append(queueIn, node["in"])
    /\ Goto("in", "unlock")
    /\ UNCHANGED <<lifecycle, run, errorThread, owner, destroyed, queueOut, node,
                   walk, received, sent, freed, failures, fault>>

\* Mutant: the address is allocated before the unlock, which a failure skips.
InUnlockLate ==
    /\ pc["in"] = "unlock"
    /\ node' = [node EXCEPT !["in"] = NoNode]
    /\ \/ Succeeds /\ Release("mutexIn") /\ Goto("in", "loop") /\ UNCHANGED errorThread
       \/ Fails /\ Goto("in", "cleanup") /\ errorThread' = TRUE /\ UNCHANGED owner
    /\ UNCHANGED <<lifecycle, run, destroyed, queueIn, queueOut, walk, received,
                   sent, freed, fault>>

\* Unlocks, forgets the node and allocates the next address.
InUnlock ==
    /\ pc["in"] = "unlock" /\ Release("mutexIn")
    /\ node' = [node EXCEPT !["in"] = NoNode]
    /\ \/ Succeeds /\ Goto("in", "loop") /\ UNCHANGED errorThread
       \/ Fails /\ Goto("in", "cleanup") /\ errorThread' = TRUE
    /\ UNCHANGED <<lifecycle, run, destroyed, queueIn, queueOut, walk, received,
                   sent, freed, fault>>

\* "if ( node != NULL ) nodeFree( node )": an uninitialised pointer may be NULL
\* by chance; if it is not, the process frees a random address.
CleanUp(t) ==
    /\ pc[t] = "cleanup"
    /\ \/ Goto(t, "destroy") /\ UNCHANGED fault
       \/ node[t] = Garbage /\ fault' = "wildFree" /\ UNCHANGED pc
    /\ UNCHANGED <<lifecycle, run, errorThread, owner, destroyed, queueIn, queueOut,
                   node, walk, received, sent, freed, failures>>

\* pthread_mutex_destroy; EBUSY on a locked mutex is ignored.  The thread ends.
Destroy(t, m) ==
    /\ pc[t] = "destroy"
    /\ destroyed' = IF owner[m] = "nobody" THEN destroyed \cup {m} ELSE destroyed
    /\ Goto(t, "exited")
    /\ UNCHANGED <<lifecycle, run, errorThread, owner, queueIn, queueOut, node, walk,
                   received, sent, freed, failures, fault>>

InThread ==
    /\ ~Halted
    /\ \/ InStart \/ InLoop \/ InCount \/ InRead \/ InLock \/ InAppend \/ InUnlock
       \/ CleanUp("in") \/ Destroy("in", "mutexIn")

----------------------------------------------------------------------------
(* processingThreadStart                                                   *)

\* A consumer leaves the spin loop on its flag.
Start(t) ==
    /\ pc[t] = "start" /\ run[t]
    /\ Goto(t, "wait")
    /\ UNCHANGED <<lifecycle, run, errorThread, owner, destroyed, queueIn, queueOut,
                   node, walk, received, sent, freed, failures, fault>>

\* Mutant: the wait for an element does not look at the flag.
WaitForever(t, queue, end) ==
    /\ pc[t] = "wait"
    /\ queue # <<>> /\ Goto(t, "check")
    /\ UNCHANGED <<lifecycle, run, errorThread, owner, destroyed, queueIn, queueOut,
                   node, walk, received, sent, freed, failures, fault>>

\* Waits, without the mutex, for an element or for the stop flag; "end" is where
\* the thread goes when stopped.  A flag once seen set is set by nobody again,
\* so the tests of the flag after this one are the one in Check.
Wait(t, queue, end) ==
    /\ pc[t] = "wait"
    /\ \/ queue # <<>> /\ Goto(t, "check")
       \/ ~run[t] /\ Goto(t, end)
    /\ UNCHANGED <<lifecycle, run, errorThread, owner, destroyed, queueIn, queueOut,
                   node, walk, received, sent, freed, failures, fault>>

Check(t, end) ==
    /\ pc[t] = "check"
    /\ Goto(t, IF run[t] THEN "lock" ELSE end)
    /\ UNCHANGED <<lifecycle, run, errorThread, owner, destroyed, queueIn, queueOut,
                   node, walk, received, sent, freed, failures, fault>>

\* The mutex may have been destroyed by the thread at its other end: the lock
\* then fails and the thread gives up with whatever it holds, or works.
ProcLock(at, m, next) ==
    /\ pc["proc"] = at
    /\ \/ Acquire("proc", m) /\ Goto("proc", next) /\ UNCHANGED errorThread
       \/ m \in destroyed /\ errorThread' = TRUE /\ Goto("proc", "exited")
          /\ UNCHANGED owner
    /\ UNCHANGED <<lifecycle, run, destroyed, queueIn, queueOut, node, walk, received,
                   sent, freed, failures, fault>>

\* queueRemoveFirstElement: NULL when the queue is empty.
ProcTake ==
    /\ pc["proc"] = "take"
    /\ node' = [node EXCEPT !["proc"] = IF queueIn = <<>> THEN NoNode ELSE Head(queueIn)]
    /\ queueIn' = IF queueIn = <<>> THEN <<>> ELSE Tail(queueIn)
    /\ Torn
    /\ Goto("proc", "unlockIn")
    /\ UNCHANGED <<lifecycle, run, errorThread, owner, destroyed, queueOut, received,
                   sent, freed, failures, fault>>

ProcUnlock(at, m, next) ==
    /\ pc["proc"] = at /\ Release(m)
    /\ Goto("proc", next)
    /\ UNCHANGED <<lifecycle, run, errorThread, destroyed, queueIn, queueOut, node,
                   walk, received, sent, freed, failures, fault>>

\* Mutant: the dropped request is freed and then queued all the same.
ProcDropNoElse ==
    /\ pc["proc"] = "work"
    /\ nodeFree(node["proc"])
    /\ Goto("proc", "lockOut")
    /\ UNCHANGED <<lifecycle, run, errorThread, owner, destroyed, queueIn, queueOut,
                   node, received, sent, failures>>

\* Mutant: the dropped request is not freed.
ProcDropLeak ==
    /\ pc["proc"] = "work"
    /\ Goto("proc", "wait")
    /\ UNCHANGED <<lifecycle, run, errorThread, owner, destroyed, queueIn, queueOut,
                   node, walk, received, sent, freed, failures, fault>>

\* processDNSquery returns -1 and the request is dropped.
ProcDrop ==
    /\ pc["proc"] = "work"
    /\ nodeFree(node["proc"])
    /\ Goto("proc", "wait")
    /\ UNCHANGED <<lifecycle, run, errorThread, owner, destroyed, queueIn, queueOut,
                   node, received, sent, failures>>

\* processDNSquery puts the reply into the node.
ProcAnswer ==
    /\ pc["proc"] = "work"
    /\ fault' = IF node["proc"] = NoNode THEN "nullDereference" ELSE fault
    /\ Goto("proc", "lockOut")
    /\ UNCHANGED <<lifecycle, run, errorThread, owner, destroyed, queueIn, queueOut,
                   node, walk, received, sent, freed, failures>>

ProcAppend ==
    /\ pc["proc"] = "append"
    /\ queueOut' = Append(queueOut, node["proc"])
    /\ Torn
    /\ Goto("proc", "unlockOut")
    /\ UNCHANGED <<lifecycle, run, errorThread, owner, destroyed, queueIn, node,
                   received, sent, freed, failures, fault>>

ProcThread ==
    /\ ~Halted
    /\ \/ Start("proc") \/ Wait("proc", queueIn, "exited") \/ Check("proc", "exited")
       \/ ProcLock("lock", "mutexIn", "take") \/ ProcTake
       \/ ProcUnlock("unlockIn", "mutexIn", "work") \/ ProcDrop \/ ProcAnswer
       \/ ProcLock("lockOut", "mutexOut", "append") \/ ProcAppend
       \/ ProcUnlock("unlockOut", "mutexOut", "wait")

----------------------------------------------------------------------------
(* outThreadStart                                                          *)

\* mutexOut is destroyed by this thread alone, at its end: the lock cannot fail.
OutLock ==
    /\ pc["out"] = "lock" /\ Acquire("out", "mutexOut")
    /\ Goto("out", "take")
    /\ UNCHANGED <<lifecycle, run, errorThread, destroyed, queueIn, queueOut, node,
                   walk, received, sent, freed, failures, fault>>

OutTake ==
    /\ pc["out"] = "take"
    /\ node' = [node EXCEPT !["out"] = IF queueOut = <<>> THEN NoNode ELSE Head(queueOut)]
    /\ queueOut' = IF queueOut = <<>> THEN <<>> ELSE Tail(queueOut)
    /\ Torn
    /\ Goto("out", "unlock")
    /\ UNCHANGED <<lifecycle, run, errorThread, owner, destroyed, queueIn, received,
                   sent, freed, failures, fault>>

OutUnlock ==
    /\ pc["out"] = "unlock" /\ Release("mutexOut")
    /\ Goto("out", "send")
    /\ UNCHANGED <<lifecycle, run, errorThread, destroyed, queueIn, queueOut, node,
                   walk, received, sent, freed, failures, fault>>

\* Mutant: a reply whose write came back short is sent again.
OutSendRetry ==
    /\ pc["out"] = "send"
    /\ fault' = IF node["out"] = NoNode THEN "nullDereference" ELSE fault
    /\ sent' = Append(sent, node["out"])
    /\ \E next \in {"send", "free"} : Goto("out", next)
    /\ UNCHANGED <<lifecycle, run, errorThread, owner, destroyed, queueIn, queueOut,
                   node, walk, received, freed, failures>>

\* writeUdp; a failed or short write is only logged.
OutSend ==
    /\ pc["out"] = "send"
    /\ fault' = IF node["out"] = NoNode THEN "nullDereference" ELSE fault
    /\ sent' \in {sent, Append(sent, node["out"])}
    /\ Goto("out", "free")
    /\ UNCHANGED <<lifecycle, run, errorThread, owner, destroyed, queueIn, queueOut,
                   node, walk, received, freed, failures>>

OutFree ==
    /\ pc["out"] = "free"
    /\ nodeFree(node["out"])
    /\ node' = [node EXCEPT !["out"] = NoNode]
    /\ Goto("out", "wait")
    /\ UNCHANGED <<lifecycle, run, errorThread, owner, destroyed, queueIn, queueOut,
                   received, sent, failures>>

OutThread ==
    /\ ~Halted
    /\ \/ Start("out") \/ Wait("out", queueOut, "cleanup") \/ Check("out", "cleanup")
       \/ OutLock \/ OutTake \/ OutUnlock \/ OutSend \/ OutFree
       \/ CleanUp("out") \/ Destroy("out", "mutexOut")

----------------------------------------------------------------------------
(* main(), from createThreads on                                           *)

data == <<owner, destroyed, queueIn, queueOut, node, walk, received, sent, freed>>

\* A new activation of exitProgram.
Activation == [at |-> "stopIn", node |-> Garbage]

\* The failure of pthread_create is a positive number, which "< 0" never sees:
\* the thread does not exist and main() goes on.
CreateThread(t, at, next) ==
    /\ main = at /\ main' = next
    /\ \/ Succeeds /\ Goto(t, "start")
       \/ Fails /\ UNCHANGED pc
    /\ UNCHANGED <<data, frames, joined, released, terminateMain, signals, run,
                   errorThread, fault>>

\* getUdpServerSocket; on its failure main() deinitialises the library and returns.
OpenSocket ==
    /\ main = "socket"
    /\ \/ Succeeds /\ main' = "runIn"
       \/ Fails /\ main' = "returned"
    /\ UNCHANGED <<data, pc, frames, joined, released, terminateMain, signals, run,
                   errorThread, fault>>

\* The three assignments of runThreads.
RunThread(t, at, next) ==
    /\ main = at /\ main' = next
    /\ run' = [run EXCEPT ![t] = TRUE]
    /\ UNCHANGED <<data, pc, frames, joined, released, terminateMain, signals,
                   errorThread, failures, fault>>

\* sem_trywait: main() returns, or sleeps for a second.
TryWait ==
    /\ main = "trywait"
    /\ \/ terminateMain > 0 /\ terminateMain' = terminateMain - 1 /\ main' = "returned"
       \/ terminateMain = 0 /\ main' = "check" /\ UNCHANGED terminateMain
    /\ UNCHANGED <<data, pc, frames, joined, released, signals, run, errorThread,
                   failures, fault>>

\* After the sleep: the error of a thread makes main() call exitProgram itself.
CheckError ==
    /\ main = "check"
    /\ \/ errorThread /\ frames' = <<Activation>> /\ main' = "leave"
       \/ ~errorThread /\ main' = "trywait" /\ UNCHANGED frames
    /\ UNCHANGED <<data, pc, joined, released, terminateMain, signals, run,
                   errorThread, failures, fault>>

Leave ==
    /\ main = "leave" /\ main' = "returned"
    /\ UNCHANGED <<data, pc, frames, joined, released, terminateMain, signals, run,
                   errorThread, failures, fault>>

Main ==
    /\ ~Halted /\ frames = <<>>
    /\ \/ CreateThread("proc", "createProc", "createIn")
       \/ CreateThread("in", "createIn", "createOut")
       \/ CreateThread("out", "createOut", "socket")
       \/ OpenSocket
       \/ RunThread("in", "runIn", "runOut") \/ RunThread("out", "runOut", "runProc")
       \/ RunThread("proc", "runProc", "trywait")
       \/ TryWait \/ CheckError \/ Leave

----------------------------------------------------------------------------
(* exitProgram, as a handler or called by main()                           *)

\* A termination signal interrupts main(), or a handler of another signal.
Signal ==
    /\ ~Halted
    /\ signals < MaxSignals /\ signals' = signals + 1
    /\ frames' = <<Activation>> \o frames
    /\ UNCHANGED <<data, pc, main, joined, released, terminateMain, run, errorThread,
                   failures, fault>>

At(label)      == frames # <<>> /\ Head(frames).at = label
Hold(label, n) == frames' = <<[at |-> label, node |-> n]>> \o Tail(frames)
Resume(label)  == Hold(label, Head(frames).node)

\* The three assignments of stopThreads.
StopThread(t, at, next) ==
    /\ At(at) /\ Resume(next)
    /\ run' = [run EXCEPT ![t] = FALSE]
    /\ UNCHANGED <<data, pc, main, joined, released, terminateMain, signals,
                   errorThread, failures, fault>>

\* Mutant: the threads are not waited for.
JoinNoWait(t, at, next) ==
    /\ At(at) /\ Resume(next)
    /\ joined' = joined \cup {t}
    /\ UNCHANGED <<data, pc, main, released, terminateMain, signals, run, errorThread,
                   failures, fault>>

\* pthread_join of a thread that never was, or that was joined before, is undefined.
Join(t, at, next) ==
    /\ At(at)
    /\ \/ /\ pc[t] = "exited" /\ Resume(next)
          /\ joined' = joined \cup {t} /\ UNCHANGED fault
       \/ /\ pc[t] = "none" \/ t \in joined
          /\ fault' = "badJoin" /\ UNCHANGED <<frames, joined>>
    /\ UNCHANGED <<data, pc, main, released, terminateMain, signals, run, errorThread,
                   failures>>

\* waitForThreads drains a queue: counts its elements, takes the first, frees it,
\* and so on until the count is 0.  An activation that interrupts this one runs to
\* its end, and drains the queue itself, before this one goes on.
DrainCount(queue, at, read, done) ==
    /\ At(at) /\ Resume(IF queue # <<>> THEN read ELSE done)
    /\ UNCHANGED <<data, pc, main, joined, released, terminateMain, signals, run,
                   errorThread, failures, fault>>

\* "tempNode = queue->first"; if the queue was drained since, the count may have
\* walked over freed nodes.
DrainRead(queue, at, take) ==
    /\ At(at)
    /\ \/ Hold(take, IF queue = <<>> THEN NoNode ELSE Head(queue)) /\ UNCHANGED fault
       \/ queue = <<>> /\ fault' = "useAfterFree" /\ UNCHANGED frames
    /\ UNCHANGED <<data, pc, main, joined, released, terminateMain, signals, run,
                   errorThread, failures>>

\* "queue->first = tempNode->next".  A node that was freed since the read is no
\* longer in the queue: the access is undefined, and if the process survives it
\* the next step frees that node again.
DrainTake(at, next) ==
    LET n          == Head(frames).node
        Rest(queue) == IF n \in Range(queue) THEN Tail(queue) ELSE queue IN
    /\ At(at)
    /\ \/ Resume(next) /\ UNCHANGED fault
       \/ n \in freed /\ fault' = "useAfterFree" /\ UNCHANGED frames
    /\ queueOut' = IF at = "takeOut" THEN Rest(queueOut) ELSE queueOut
    /\ queueIn'  = IF at = "takeIn" THEN Rest(queueIn) ELSE queueIn
    /\ UNCHANGED <<owner, destroyed, node, walk, received, sent, freed, pc, main, joined,
                   released, terminateMain, signals, run, errorThread, failures>>

DrainFree(at, next) ==
    /\ At(at) /\ Resume(next)
    /\ nodeFree(Head(frames).node)
    /\ UNCHANGED <<owner, destroyed, queueIn, queueOut, node, received, sent, pc, main,
                   joined, released, terminateMain, signals, run, errorThread, failures>>

\* The end of waitForThreads: dnsIP, which keeps its value, and the socket.
ReleaseAll ==
    /\ At("release") /\ Resume("post")
    /\ fault' = IF released THEN "secondRelease" ELSE fault
    /\ released' = TRUE
    /\ UNCHANGED <<data, pc, main, joined, terminateMain, signals, run, errorThread,
                   failures>>

\* deIniDNSlib, fclose and sem_post; the activation returns.
Post ==
    /\ At("post") /\ frames' = Tail(frames)
    /\ terminateMain' = terminateMain + 1
    /\ UNCHANGED <<data, pc, main, joined, released, signals, run, errorThread,
                   failures, fault>>

exitProgram ==
    /\ ~Halted
    /\ \/ StopThread("in", "stopIn", "stopOut") \/ StopThread("out", "stopOut", "stopProc")
       \/ StopThread("proc", "stopProc", "joinIn")
       \/ Join("in", "joinIn", "joinOut") \/ Join("out", "joinOut", "joinProc")
       \/ Join("proc", "joinProc", "countOut")
       \/ DrainCount(queueOut, "countOut", "readOut", "countIn")
       \/ DrainRead(queueOut, "readOut", "takeOut")
       \/ DrainTake("takeOut", "freeOut") \/ DrainFree("freeOut", "countOut")
       \/ DrainCount(queueIn, "countIn", "readIn", "release")
       \/ DrainRead(queueIn, "readIn", "takeIn")
       \/ DrainTake("takeIn", "freeIn") \/ DrainFree("freeIn", "countIn")
       \/ ReleaseAll \/ Post

----------------------------------------------------------------------------

Next == InThread \/ ProcThread \/ OutThread \/ Main \/ Signal \/ exitProgram

Spec == Init /\ [][Next]_vars

\* The kernel schedules every thread; no datagram, signal or failure has to happen.
Fairness ==
    /\ WF_vars(InThread) /\ WF_vars(ProcThread) /\ WF_vars(OutThread)
    /\ WF_vars(Main) /\ WF_vars(exitProgram)

FairSpec == Spec /\ Fairness

----------------------------------------------------------------------------
(* Properties.                                                             *)

Increasing(s) == \A i, j \in DOMAIN s : i < j => s[i] < s[j]
Below(S, T)   == \A a \in S, b \in T : a < b

\* The live nodes that each thread holds in its variable "node".
InHeld   == IF pc["in"] \in {"lock", "append"} THEN {node["in"]} ELSE {}
ProcHeld == IF pc["proc"] \in {"unlockIn", "work", "lockOut", "append"}
            THEN {node["proc"]} ELSE {}
OutHeld  == IF pc["out"] \in {"unlock", "send"} THEN {node["out"]} ELSE {}

\* The accepted requests that were neither answered nor given up.
Pending == InHeld \cup Range(queueIn) \cup ProcHeld \cup Range(queueOut) \cup OutHeld

Pointer == Nat \cup {Garbage}

Label == {"none", "start", "loop", "count", "read", "lock", "append", "unlock", "wait",
          "check", "take", "unlockIn", "work", "lockOut", "unlockOut", "send", "free",
          "cleanup", "destroy", "exited"}

MainLabel == {"createProc", "createIn", "createOut", "socket", "runIn", "runOut",
              "runProc", "trywait", "check", "leave", "returned"}

DrainOut == {"countOut", "readOut", "takeOut", "freeOut"}
DrainIn  == {"countIn", "readIn", "takeIn", "freeIn"}

FrameLabel == {"stopIn", "stopOut", "stopProc", "joinIn", "joinOut", "joinProc",
               "release", "post"} \cup DrainOut \cup DrainIn

Frame == [at : FrameLabel, node : Pointer]

ControlType ==
    /\ pc \in [Thread -> Label] /\ main \in MainLabel /\ frames \in Seq(Frame)
    /\ joined \subseteq Thread
    /\ fault \in {"none", "nullDereference", "doubleFree", "useAfterFree", "wildFree",
                  "badJoin", "secondRelease"}

FlagType ==
    /\ run \in [Thread -> BOOLEAN] /\ errorThread \in BOOLEAN /\ released \in BOOLEAN
    /\ owner \in [Mutex -> Thread \cup {"nobody"}] /\ destroyed \subseteq Mutex

CountType ==
    received \in Nat /\ terminateMain \in Nat /\ signals \in Nat /\ failures \in Nat

DataType ==
    /\ queueIn \in Seq(Pointer) /\ queueOut \in Seq(Pointer) /\ sent \in Seq(Pointer)
    /\ node \in [Thread -> Pointer] /\ freed \subseteq Pointer
    /\ walk \in {"idle", "quiet", "torn", "freed"}

\* Every variable has its type.
TypeOK == ControlType /\ FlagType /\ CountType /\ DataType

\* Requests travel in the order of their arrival: replies never overtake one
\* another, and no node is in two places of the pipeline (two queues, two
\* threads, or one twice), however the three threads interleave.
ArrivalOrder ==
    /\ Increasing(sent) /\ Increasing(queueOut) /\ Increasing(queueIn)
    /\ Below(Range(sent), Pending)
    /\ Below(OutHeld, Range(queueOut) \cup ProcHeld \cup Range(queueIn) \cup InHeld)
    /\ Below(Range(queueOut), ProcHeld \cup Range(queueIn) \cup InHeld)
    /\ Below(ProcHeld, Range(queueIn) \cup InHeld)
    /\ Below(Range(queueIn), InHeld)

NoDanglingNode  == Pending \cap freed = {}
NodesUsedSafely == fault \in {"nullDereference", "doubleFree"} => released

\* A node given to nodeFree is in no queue and in no thread's hands; none is freed twice
\* and the NULL of an empty queue is never used, though no thread tests for it after its
\* unlocked look at the queue, unless an activation of exitProgram that interrupted the
\* drain of another one had drained and released everything before.
NodeLifetimes == NoDanglingNode /\ NodesUsedSafely

NoLockLeftBehind == \A m \in Mutex, t \in Thread : pc[t] = "exited" => owner[m] # t
NothingLeaked ==
    main = "returned" /\ released /\ ~errorThread => 1..received \subseteq freed

\* A thread that ended, on an error path too, left no mutex locked behind it ("die
\* Threads laufen nur aus wenn alle nicht gesperrt sind", processing.c), and a server
\* that ends without an error freed the node of every request it read.
NothingLeftBehind == NoLockLeftBehind /\ NothingLeaked

\* waitForThreads and deIniDNSlib take the socket, the queues and the library away
\* only when no thread can use them any more, whichever activation does it.
ResourcesOutliveThreads == released => \A t \in Thread : pc[t] = "exited"

Stopping == frames # <<>> \/ errorThread \/ Halted

\* An accepted request is answered or dropped, and its node freed, unless the
\* server is being stopped or one of its threads could not be created.
RequestsLeave ==
    \A r \in 1..MaxRequests :
        r \in Pending ~> (r \in freed \/ Stopping \/ \E t \in Thread : pc[t] = "none")

\* Once every thread has seen its start flag, a termination signal, or the error
\* of a thread, does end the process.
ShutdownCompletes ==
    (frames # <<>> /\ \A t \in Thread : pc[t] \notin {"none", "start"}) ~> Halted

\* What exitProgram is documented to be, "Zur sauberen Beendigung des Programms."
\* (main.c:216): however early it runs, the program ends.
ExitEndsProgram == frames # <<>> ~> Halted

Relay == INSTANCE RequestRelay WITH Ordered <- TRUE, pending <- Pending, replies <- sent

\* The daemon with its threads, races and shutdown does what RequestRelay promises.
RelaySpec == Relay!Spec
====
