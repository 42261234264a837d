---- MODULE Queue ----
(***************************************************************************)
(* The lists of the daemon with their pointers: queue.c, and the way the   *)
(* three threads use it.  Writers hold the list's mutex; the in thread     *)
(* counts the elements, and the consumers look at the first one, without.  *)
(* An action is therefore at most one write to a pointer that such a       *)
(* reader may see, with the lock or unlock next to it.  Server has         *)
(* sequences in their place, and the failures that end a thread.           *)
(***************************************************************************)
EXTENDS Integers, Sequences, FiniteSets, Functions

CONSTANTS
    Node,       \* addresses that malloc may return for a Node
    NODE_EMPTY, \* NULL
    HighWater   \* length at which the in thread waits (100)

ASSUME QueueAssumption ==
    /\ NODE_EMPTY \notin Node
    /\ HighWater \in Nat

List     == {"queueIn", "queueOut"}
Thread   == {"in", "processing", "out"}
Consumer == {"processing", "out"}
Producer == {"in", "processing"}
Source   == [t \in Consumer |-> IF t = "out" THEN "queueOut" ELSE "queueIn"]
Target   == [t \in Producer |-> IF t = "in" THEN "queueIn" ELSE "queueOut"]
Writer   == [q \in List |-> IF q = "queueIn" THEN "in" ELSE "processing"]

VARIABLES
    first, last,    \* queueIn and queueOut
    next,           \* the Nodes' pointers
    live,           \* Nodes that are allocated
    pc,             \* where each thread is
    node,           \* the Node in each thread's hands, if any
    owner,          \* mutexIn and mutexOut, by the list that they protect
    counted, walk, c,   \* queueCountElements: the list, node and c
    items,          \* history: what is in each list, in order
    length          \* history: the list's length when its count began

lists  == <<first, last, next, live, node, owner, items>>
count  == <<counted, walk, c, length>>
vars   == <<lists, count, pc>>

Init ==
    /\ first = [q \in List |-> NODE_EMPTY] /\ last = first
    /\ next = [n \in Node |-> NODE_EMPTY]
    /\ live = {}
    /\ pc = [t \in Thread |-> IF t = "in" THEN "loop" ELSE "look"]
    /\ node = [t \in Thread |-> NODE_EMPTY]
    /\ owner = [q \in List |-> "nobody"]
    /\ counted = "queueIn" /\ walk = NODE_EMPTY /\ c = 0 /\ length = 0
    /\ items = [q \in List |-> <<>>]

Goto(t, label) == pc' = [pc EXCEPT ![t] = label]
Hold(t, n)     == node' = [node EXCEPT ![t] = n]

----------------------------------------------------------------------------
(* queueCountElements, by the in thread                                    *)

\* Mutant: c is not reset.
CountOn(q) ==
    /\ counted' = q /\ walk' = first[q] /\ c' = c
    /\ length' = Len(items[q])

Count(q) ==
    /\ counted' = q /\ walk' = first[q] /\ c' = 0
    /\ length' = Len(items[q])

InLoop ==
    /\ pc["in"] = "loop" /\ Goto("in", "count")
    /\ Count("queueIn")
    /\ UNCHANGED lists

\* Mutant: the walk stays where it is.
CountStuck ==
    /\ pc["in"] = "count" /\ walk \in live
    /\ c' = 1 /\ UNCHANGED <<walk, counted, length, pc, lists>>

CountNext ==
    /\ pc["in"] = "count" /\ walk \in live
    /\ c' = c + 1 /\ walk' = next[walk]
    /\ UNCHANGED <<counted, length, pc, lists>>

\* The in thread waits while a list is longer than HighWater.
CountEnd ==
    /\ pc["in"] = "count" /\ walk = NODE_EMPTY
    /\ IF c > HighWater \/ counted = "queueOut"
       THEN /\ Goto("in", IF c > HighWater THEN "loop" ELSE "read")
            /\ UNCHANGED count
       ELSE Count("queueOut") /\ UNCHANGED pc
    /\ UNCHANGED lists

\* The Node under the walk was freed: the process ends, which needs no step here,
\* or the count has any result.
CountFreed ==
    /\ pc["in"] = "count" /\ walk \in Node \ live
    /\ \E label \in {"loop", "read"} : Goto("in", label)
    /\ walk' = NODE_EMPTY /\ c' = 0
    /\ UNCHANGED <<counted, length, lists>>

----------------------------------------------------------------------------
(* nodeNew, nodeFree                                                       *)

\* A datagram is read, or none.
InRead ==
    /\ pc["in"] = "read"
    /\ \/ Goto("in", "loop") /\ UNCHANGED lists
       \/ \E n \in Node \ live :
            /\ live' = live \cup {n}
            /\ next' = [next EXCEPT ![n] = NODE_EMPTY]
            /\ Hold("in", n) /\ Goto("in", "append")
            /\ UNCHANGED <<first, last, owner, items>>
    /\ UNCHANGED count

\* The processing thread drops a request, the out thread is done with one.
nodeFree(t) ==
    /\ pc[t] = "taken"
    /\ live' = live \ {node[t]}
    /\ Hold(t, NODE_EMPTY) /\ Goto(t, "look")
    /\ UNCHANGED <<first, last, next, owner, items, count>>

ProcAnswer ==
    /\ pc["processing"] = "taken" /\ Goto("processing", "append")
    /\ UNCHANGED <<lists, count>>

----------------------------------------------------------------------------
(* queueAppend, under the target's mutex                                   *)

\* Mutant: the Node keeps the pointer it had in the list it comes from.
AppendUncleared(t) ==
    LET q == Target[t] IN
    /\ pc[t] = "append" /\ owner[q] = "nobody"
    /\ owner' = [owner EXCEPT ![q] = t]
    /\ Goto(t, IF first[q] = NODE_EMPTY THEN "setFirst" ELSE "link")
    /\ UNCHANGED <<first, last, next, live, node, items, count>>

AppendClear(t) ==
    LET q == Target[t] IN
    /\ pc[t] = "append" /\ owner[q] = "nobody"
    /\ owner' = [owner EXCEPT ![q] = t]
    /\ next' = [next EXCEPT ![node[t]] = NODE_EMPTY]
    /\ Goto(t, IF first[q] = NODE_EMPTY THEN "setFirst" ELSE "link")
    /\ UNCHANGED <<first, last, live, node, items, count>>

\* The Node is in the list from the write on by which it is reached.
AppendLink(t) ==
    LET q == Target[t] IN
    /\ \/ /\ pc[t] = "setFirst"
          /\ first' = [first EXCEPT ![q] = node[t]] /\ UNCHANGED next
       \/ /\ pc[t] = "link"
          /\ next' = [next EXCEPT ![last[q]] = node[t]] /\ UNCHANGED first
    /\ items' = [items EXCEPT ![q] = Append(@, node[t])]
    /\ Goto(t, "setLast")
    /\ UNCHANGED <<last, live, node, owner, count>>

AppendLast(t) ==
    LET q == Target[t] IN
    /\ pc[t] = "setLast"
    /\ last' = [last EXCEPT ![q] = node[t]]
    /\ owner' = [owner EXCEPT ![q] = "nobody"]
    /\ Hold(t, NODE_EMPTY) /\ Goto(t, IF t = "in" THEN "loop" ELSE "look")
    /\ UNCHANGED <<first, next, live, items, count>>

queueAppend(t) == AppendClear(t) \/ AppendLink(t) \/ AppendLast(t)

----------------------------------------------------------------------------
(* The consumers: a look without the mutex, and queueRemoveFirstElement    *)

\* Mutant: both consumers look at queueIn.
LookIn(t) ==
    /\ pc[t] = "look" /\ first["queueIn"] # NODE_EMPTY
    /\ Goto(t, "remove")
    /\ UNCHANGED <<lists, count>>

Look(t) ==
    /\ pc[t] = "look" /\ first[Source[t]] # NODE_EMPTY
    /\ Goto(t, "remove")
    /\ UNCHANGED <<lists, count>>

\* Mutant: without the mutex.
RemoveUnlocked(t) ==
    LET q == Source[t]  n == first[q] IN
    /\ pc[t] = "remove"
    /\ first' = [first EXCEPT ![q] = IF n = NODE_EMPTY THEN n ELSE next[n]]
    /\ items' = [items EXCEPT ![q] = IF @ = <<>> THEN @ ELSE Tail(@)]
    /\ Hold(t, n) /\ Goto(t, "taken")
    /\ UNCHANGED <<last, next, live, owner, count>>

\* From an empty list NULL is returned, which the caller passes on unseen.
queueRemoveFirstElement(t) ==
    LET q == Source[t]  n == first[q] IN
    /\ pc[t] = "remove" /\ owner[q] = "nobody"
    /\ first' = [first EXCEPT ![q] = IF n = NODE_EMPTY THEN n ELSE next[n]]
    /\ last' = [last EXCEPT ![q] = IF n = NODE_EMPTY THEN n ELSE @]
    /\ items' = [items EXCEPT ![q] = IF @ = <<>> THEN @ ELSE Tail(@)]
    /\ Hold(t, n) /\ Goto(t, "taken")
    /\ UNCHANGED <<next, live, owner, count>>

----------------------------------------------------------------------------
(* The end: each thread leaves its loop, and waitForThreads frees what is  *)
(* left, queueOut first.                                                   *)

Stop(t) ==
    /\ pc[t] \in {"loop", "look"} /\ Goto(t, "stopped")
    /\ UNCHANGED <<lists, count>>

waitForThreads(q) ==
    LET n == first[q] IN
    /\ \A t \in Thread : pc[t] = "stopped"
    /\ q = "queueIn" => first["queueOut"] = NODE_EMPTY
    /\ n # NODE_EMPTY
    /\ first' = [first EXCEPT ![q] = next[n]]
    /\ live' = live \ {n}
    /\ items' = [items EXCEPT ![q] = IF @ = <<>> THEN @ ELSE Tail(@)]
    /\ UNCHANGED <<last, next, node, owner, count, pc>>

----------------------------------------------------------------------------

InCount    == InLoop \/ CountNext \/ CountEnd \/ CountFreed
InThread   == InCount \/ InRead \/ queueAppend("in")
Consume(t) == Look(t) \/ queueRemoveFirstElement(t) \/ nodeFree(t)
ProcThread == Consume("processing") \/ ProcAnswer \/ queueAppend("processing")

Next ==
    \/ InThread \/ ProcThread \/ Consume("out")
    \/ \E t \in Thread : Stop(t)
    \/ \E q \in List : waitForThreads(q)

\* The in thread is scheduled for ever.
Spec == Init /\ [][Next]_vars /\ WF_vars(InThread)

----------------------------------------------------------------------------
(* Properties.                                                             *)

Appends(t) == pc[t] \in {"setFirst", "link", "setLast"}

InLabel   == {"loop", "count", "read", "append", "setFirst", "link", "setLast", "stopped"}
ProcLabel == {"look", "remove", "taken", "append", "setFirst", "link", "setLast", "stopped"}
OutLabel  == {"look", "remove", "taken", "stopped"}

\* Every variable has its type, and a mutex is locked by the thread that is between
\* the two ends of its queueAppend.
TypeOK ==
    /\ first \in [List -> Node \cup {NODE_EMPTY}]
    /\ last \in [List -> Node \cup {NODE_EMPTY}]
    /\ next \in [Node -> Node \cup {NODE_EMPTY}]
    /\ live \subseteq Node
    /\ pc \in [Thread -> InLabel \cup ProcLabel \cup OutLabel]
    /\ pc["in"] \in InLabel /\ pc["processing"] \in ProcLabel /\ pc["out"] \in OutLabel
    /\ node \in [Thread -> Node \cup {NODE_EMPTY}]
    /\ owner = [q \in List |-> IF Appends(Writer[q]) THEN Writer[q] ELSE "nobody"]
    /\ counted \in List /\ walk \in Node \cup {NODE_EMPTY} /\ c \in Nat /\ length \in Nat
    /\ items \in [List -> Seq(Node)]

Reached(q, s) ==
    /\ first[q] = IF s = <<>> THEN NODE_EMPTY ELSE s[1]
    /\ \A i \in 1..Len(s) : next[s[i]] = IF i = Len(s) THEN NODE_EMPTY ELSE s[i + 1]

ListIsItems == \A q \in List : Reached(q, items[q])
LastIsTheEnd ==
    \A q \in List :
        owner[q] = "nobody" /\ items[q] # <<>> => last[q] = items[q][Len(items[q])]

\* What is reached from first, at any moment and without the mutex, is exactly what
\* was appended and not yet removed, in that order; and last is its end whenever an
\* appender may use it, though queueRemoveFirstElement does not maintain it and it
\* dangles while the list is empty.
ListsHoldItems == ListIsItems /\ LastIsTheEnd

InUse(t) == pc[t] \in {"taken", "append", "setFirst", "link"}
Held     == {node[t] : t \in {t \in Thread : InUse(t)}}

\* A Node is in one list or in one thread's hands, once, and then only is it
\* allocated: a Node that goes from queueIn to queueOut, or is freed, is in neither.
NodesInOnePlace ==
    /\ \A q \in List : \A i, j \in 1..Len(items[q]) :
            items[q][i] = items[q][j] => i = j
    /\ Range(items["queueIn"]) \cap Range(items["queueOut"]) = {}
    /\ \A t \in Thread : InUse(t) => \A q \in List : node[t] \notin Range(items[q])
    /\ \A t, u \in Thread : InUse(t) /\ InUse(u) /\ node[t] = node[u] => t = u
    /\ live = Range(items["queueIn"]) \cup Range(items["queueOut"]) \cup Held

\* What a consumer saw without the mutex is there when it has it, so that it is
\* never handed NULL.
LookStays == \A t \in Consumer : pc[t] = "remove" => first[Source[t]] # NODE_EMPTY

\* "return = Anzahl Elemente in Queue" (queue.c:94) is an upper bound at least: a
\* count of queueIn, though it may go astray into queueOut behind a Node that was
\* moved there, is never more than the list held when it began.
CountIsBounded == counted = "queueIn" => c <= length

\* A count ends, whatever the others do to the list meanwhile.
CountEnds == pc["in"] = "count" ~> pc["in"] # "count"
====
