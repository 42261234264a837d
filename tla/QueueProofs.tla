---- MODULE QueueProofs ----
(***************************************************************************)
(* Proofs about the lists of Queue, for any number of Nodes: what is       *)
(* reached from first is what was appended, and a Node is in one place.    *)
(***************************************************************************)
EXTENDS Queue, TLAPS

----------------------------------------------------------------------------
(* Sequences.                                                              *)

Distinct(s) == \A i, j \in 1..Len(s) : s[i] = s[j] => i = j

\* What Append does to the elements of a sequence.
LEMMA AppendFacts ==
    ASSUME NEW S, NEW s \in Seq(S), NEW n \in S
    PROVE  /\ Append(s, n) \in Seq(S) /\ Append(s, n) # <<>>
           /\ Len(Append(s, n)) = Len(s) + 1
           /\ \A i \in 1..Len(s) : Append(s, n)[i] = s[i]
           /\ Append(s, n)[Len(s) + 1] = n
           /\ Range(Append(s, n)) = Range(s) \cup {n}
<1>1. /\ Append(s, n) \in Seq(S) /\ Len(Append(s, n)) = Len(s) + 1
      /\ \A i \in 1..Len(s) : Append(s, n)[i] = s[i]
      /\ Append(s, n)[Len(s) + 1] = n /\ Len(s) \in Nat
      OBVIOUS
<1>2. Append(s, n) # <<>>
      BY <1>1
<1>3. DOMAIN Append(s, n) = 1..(Len(s) + 1) /\ DOMAIN s = 1..Len(s)
      BY <1>1
<1>4. Range(Append(s, n)) = Range(s) \cup {n}
      BY <1>1, <1>3 DEF Range
<1> QED BY <1>1, <1>2, <1>4

\* What Tail does to the elements of a sequence.
LEMMA TailFacts ==
    ASSUME NEW S, NEW s \in Seq(S), s # <<>>
    PROVE  /\ Tail(s) \in Seq(S) /\ Len(Tail(s)) = Len(s) - 1 /\ Len(s) \in Nat \ {0}
           /\ \A i \in 1..(Len(s) - 1) : Tail(s)[i] = s[i + 1]
           /\ s[1] \in S /\ s[1] \in Range(s)
           /\ Distinct(s) => Distinct(Tail(s)) /\ Range(Tail(s)) = Range(s) \ {s[1]}
<1>1. /\ Tail(s) \in Seq(S) /\ Len(Tail(s)) = Len(s) - 1 /\ Len(s) \in Nat \ {0}
      /\ \A i \in 1..(Len(s) - 1) : Tail(s)[i] = s[i + 1]
      OBVIOUS
<1>2. DOMAIN Tail(s) = 1..(Len(s) - 1) /\ DOMAIN s = 1..Len(s)
      BY <1>1
<1>3. s[1] \in S /\ s[1] \in Range(s)
      BY <1>1, <1>2 DEF Range
<1>4. ASSUME Distinct(s) PROVE Distinct(Tail(s))
      BY <1>1, <1>4 DEF Distinct
<1>5. ASSUME Distinct(s) PROVE Range(Tail(s)) = Range(s) \ {s[1]}
  <2>1. Range(Tail(s)) = {s[i + 1] : i \in 1..(Len(s) - 1)}
        BY <1>1, <1>2 DEF Range
  <2>2. Range(s) = {s[i] : i \in 1..Len(s)}
        BY <1>2 DEF Range
  <2>3. ASSUME NEW x \in Range(Tail(s)) PROVE x \in Range(s) \ {s[1]}
    <3>1. PICK i \in 1..(Len(s) - 1) : x = s[i + 1]
          BY <2>1, <2>3
    <3>2. i + 1 \in 1..Len(s) /\ i + 1 # 1 /\ 1 \in 1..Len(s)
          BY <1>1, <3>1
    <3> QED BY <2>2, <3>1, <3>2, <1>5 DEF Distinct
  <2>4. ASSUME NEW x \in Range(s), x # s[1] PROVE x \in Range(Tail(s))
    <3>1. PICK i \in 1..Len(s) : x = s[i]
          BY <2>2, <2>4
    <3>2. i - 1 \in 1..(Len(s) - 1) /\ (i - 1) + 1 = i
          BY <1>1, <2>4, <3>1
    <3> QED BY <2>1, <3>1, <3>2
  <2> QED BY <2>3, <2>4
<1> QED BY <1>1, <1>3, <1>4, <1>5

----------------------------------------------------------------------------
(* The inductive invariant.                                                *)

End(s) == s[Len(s)]

\* Who uses a Node has one.
HandsFull == \A t \in Thread : InUse(t) \/ pc[t] = "setLast" => node[t] \in Node

\* A Node that is about to be linked ends the list, and which write links it is
\* still decided as it was found.
Cleared ==
    \A t \in Producer : pc[t] \in {"setFirst", "link"} =>
        /\ next[node[t]] = NODE_EMPTY
        /\ pc[t] = "setFirst" => items[Target[t]] = <<>>
        /\ pc[t] = "link" => items[Target[t]] # <<>>

\* Between its link and the write of last a Node is the last one.
Linked ==
    \A t \in Producer : pc[t] = "setLast" =>
        items[Target[t]] # <<>> /\ End(items[Target[t]]) = node[t]

LastKnown ==
    \A q \in List : items[q] # <<>> /\ pc[Writer[q]] # "setLast" =>
        last[q] = End(items[q])

LookKnown == \A t \in Consumer : pc[t] = "remove" => items[Source[t]] # <<>>

Lists == ListIsItems /\ LastKnown
Hands == HandsFull /\ Cleared /\ Linked /\ LookKnown
Inv   == TypeOK /\ Lists /\ Hands /\ NodesInOnePlace
----------------------------------------------------------------------------
(* Steps.                                                                  *)

LEMMA Names ==
    /\ \A t \in Consumer : t \in Thread /\ Source[t] \in List
    /\ \A t, u \in Consumer : Source[t] = Source[u] => t = u
    /\ \A t \in Producer : t \in Thread /\ Target[t] \in List /\ Writer[Target[t]] = t
    /\ \A q \in List : Writer[q] \in Producer /\ Target[Writer[q]] = q
    /\ \A t \in Thread : t # "nobody"
BY DEF Consumer, Producer, Thread, List, Source, Target, Writer

\* A step of thread t that uses no Node before or after, or keeps the one it has.
Moves(t, label) ==
    /\ pc' = [pc EXCEPT ![t] = label]
    /\ \/ pc[t] = "taken" /\ label = "append"
       \/ pc[t] = "look" /\ label = "remove" /\ t \in Consumer
          /\ first[Source[t]] # NODE_EMPTY
       \/ pc[t] \in {"loop", "count", "read", "look"}
          /\ label \in {"loop", "count", "read", "stopped"}

\* The in thread counts, a consumer looks, a request is answered, a thread stops: no
\* list changes, and no Node changes hands.
LEMMA QuietStep ==
    ASSUME Inv, InLoop \/ CountNext \/ CountEnd \/ CountFreed \/ ProcAnswer
                \/ (\E t \in Consumer : Look(t)) \/ (\E t \in Thread : Stop(t))
    PROVE  Inv'
<1> USE QueueAssumption, Names
<1>1. UNCHANGED lists
      BY DEF InLoop, CountNext, CountEnd, CountFreed, ProcAnswer, Look, Stop
<1>2. PICK t \in Thread, label \in InLabel \cup ProcLabel \cup OutLabel : Moves(t, label)
  <2> SUFFICES \E t \in Thread : \E label \in InLabel \cup ProcLabel \cup OutLabel :
                  Moves(t, label)
      OBVIOUS
  <2>1. "in" \in Thread /\ "processing" \in Thread
        /\ {"loop", "count", "read", "stopped", "append", "remove"}
           \subseteq InLabel \cup ProcLabel \cup OutLabel
        BY DEF Thread, InLabel, ProcLabel, OutLabel
  <2>2. CASE InLoop
        BY <2>1, <2>2 DEF InLoop, Goto, Moves
  <2>3. CASE CountNext
    <3>1. Moves("in", "count")
          BY <2>3 DEF CountNext, Moves, Inv, TypeOK
    <3> QED BY <2>1, <3>1
  <2>4. CASE CountEnd
    <3>1. Moves("in", "count") \/ Moves("in", "loop") \/ Moves("in", "read")
          BY <2>4 DEF CountEnd, Goto, Moves, Inv, TypeOK
    <3> QED BY <2>1, <3>1
  <2>5. CASE CountFreed
    <3>1. Moves("in", "loop") \/ Moves("in", "read")
          BY <2>5 DEF CountFreed, Goto, Moves, Inv, TypeOK
    <3> QED BY <2>1, <3>1
  <2>6. CASE ProcAnswer
        BY <2>1, <2>6 DEF ProcAnswer, Goto, Moves
  <2>7. CASE \E u \in Consumer : Look(u)
        BY <2>1, <2>7 DEF Look, Goto, Moves
  <2>8. CASE \E u \in Thread : Stop(u)
        BY <2>1, <2>8 DEF Stop, Goto, Moves
  <2> QED BY <2>2, <2>3, <2>4, <2>5, <2>6, <2>7, <2>8
<1>3. \A u \in Thread : InUse(u)' = InUse(u)
      BY <1>2 DEF Moves, InUse, Inv, TypeOK
<1>4. \A u \in Thread : (pc[u] \in {"setFirst", "link", "setLast"} \/
                         pc'[u] \in {"setFirst", "link", "setLast"}) => pc'[u] = pc[u]
      BY <1>2 DEF Moves, Inv, TypeOK
<1>5. TypeOK'
  <2>1. pc' \in [Thread -> InLabel \cup ProcLabel \cup OutLabel]
        BY <1>2 DEF Moves, Inv, TypeOK
  <2>2. pc'["in"] \in InLabel /\ pc'["processing"] \in ProcLabel /\ pc'["out"] \in OutLabel
    <3>1. CASE InLoop
          BY <3>1 DEF InLoop, Goto, Thread, InLabel, Inv, TypeOK
    <3>2. CASE CountNext \/ CountEnd \/ CountFreed
          BY <3>2 DEF CountNext, CountEnd, CountFreed, Goto, Thread, InLabel, Inv, TypeOK
    <3>3. CASE ProcAnswer
          BY <3>3 DEF ProcAnswer, Goto, Thread, ProcLabel, Inv, TypeOK
    <3>4. CASE \E u \in Consumer : Look(u)
          BY <3>4 DEF Look, Goto, Thread, Consumer, ProcLabel, OutLabel, Inv, TypeOK
    <3>5. CASE \E u \in Thread : Stop(u)
          BY <3>5 DEF Stop, Goto, Thread, InLabel, ProcLabel, OutLabel, Inv, TypeOK
    <3> QED BY <3>1, <3>2, <3>3, <3>4, <3>5
  <2>3. owner' = [q \in List |-> IF Appends(Writer[q])' THEN Writer[q] ELSE "nobody"]
        BY <1>1, <1>4 DEF Inv, TypeOK, Appends, lists
  <2>4. /\ counted' \in List /\ walk' \in Node \cup {NODE_EMPTY}
        /\ c' \in Nat /\ length' \in Nat
    <3>1. \A q \in List : Len(items[q]) \in Nat /\ first[q] \in Node \cup {NODE_EMPTY}
          BY DEF Inv, TypeOK
    <3>2. "queueIn" \in List /\ "queueOut" \in List
          BY DEF List
    <3>3. CASE InLoop
          BY <3>1, <3>2, <3>3 DEF InLoop, Count
    <3>4. CASE CountNext
          BY <3>4 DEF CountNext, Inv, TypeOK
    <3>5. CASE CountEnd
          BY <3>1, <3>2, <3>5 DEF CountEnd, Count, count, Inv, TypeOK
    <3>6. CASE CountFreed
          BY <3>6 DEF CountFreed, Inv, TypeOK
    <3>7. CASE ProcAnswer \/ (\E u \in Consumer : Look(u)) \/ (\E u \in Thread : Stop(u))
          BY <3>7 DEF ProcAnswer, Look, Stop, count, Inv, TypeOK
    <3> QED BY <3>3, <3>4, <3>5, <3>6, <3>7
  <2> QED BY <1>1, <2>1, <2>2, <2>3, <2>4 DEF Inv, TypeOK, lists
<1>6. Lists'
      BY <1>1, <1>4 DEF Inv, Lists, ListIsItems, Reached, LastKnown, lists
<1>7. Hands'
  <2>1. HandsFull' /\ Cleared' /\ Linked'
        BY <1>1, <1>3, <1>4 DEF Inv, Hands, HandsFull, Cleared, Linked, lists
  <2>2. LookKnown'
    <3>1. \A q \in List : items[q] = <<>> => first[q] = NODE_EMPTY
          BY DEF Inv, Lists, ListIsItems, Reached
    <3> QED BY <1>1, <1>2, <3>1 DEF Moves, Inv, Hands, LookKnown, TypeOK, lists
  <2> QED BY <2>1, <2>2 DEF Hands
<1>8. NodesInOnePlace'
      BY <1>1, <1>3 DEF Inv, NodesInOnePlace, Held, lists
<1> QED BY <1>5, <1>6, <1>7, <1>8 DEF Inv

\* A datagram is read: the Node for it is not in use anywhere.
LEMMA ReadStep ==
    ASSUME Inv, InRead
    PROVE  Inv'
<1> USE QueueAssumption, Names
<1>1. pc["in"] = "read" /\ "in" \in Thread /\ UNCHANGED count
      BY DEF InRead, Thread
<1>2. CASE Goto("in", "loop") /\ UNCHANGED lists
  <2>1. Moves("in", "loop")
        BY <1>1, <1>2 DEF Goto, Moves
  <2>2. /\ \A u \in Thread : InUse(u)' = InUse(u)
        /\ \A u \in Thread : (pc[u] \in {"setFirst", "link", "setLast", "remove"} \/
              pc'[u] \in {"setFirst", "link", "setLast", "remove"}) => pc'[u] = pc[u]
        BY <1>1, <2>1 DEF Moves, InUse, Inv, TypeOK
  <2>3. TypeOK'
    <3>1. owner' = [q \in List |-> IF Appends(Writer[q])' THEN Writer[q] ELSE "nobody"]
          BY <1>2, <2>2 DEF Inv, TypeOK, Appends, lists
    <3>2. /\ pc' \in [Thread -> InLabel \cup ProcLabel \cup OutLabel]
          /\ pc'["in"] \in InLabel /\ pc'["processing"] \in ProcLabel /\ pc'["out"] \in OutLabel
          BY <1>1, <1>2 DEF Goto, Thread, InLabel, ProcLabel, OutLabel, Inv, TypeOK
    <3> QED BY <1>1, <1>2, <3>1, <3>2 DEF Inv, TypeOK, lists, count
  <2>4. Lists' /\ Hands'
        BY <1>2, <2>2 DEF Inv, Lists, ListIsItems, Reached, LastKnown, Hands, HandsFull,
                          Cleared, Linked, LookKnown, lists
  <2>5. NodesInOnePlace'
        BY <1>2, <2>2 DEF Inv, NodesInOnePlace, Held, lists
  <2> QED BY <2>3, <2>4, <2>5 DEF Inv
<1>3. CASE \E n \in Node \ live :
            /\ live' = live \cup {n}
            /\ next' = [next EXCEPT ![n] = NODE_EMPTY]
            /\ Hold("in", n) /\ Goto("in", "append")
            /\ UNCHANGED <<first, last, owner, items>>
  <2> PICK n \in Node \ live :
            /\ live' = live \cup {n}
            /\ next' = [next EXCEPT ![n] = NODE_EMPTY]
            /\ Hold("in", n) /\ Goto("in", "append")
            /\ UNCHANGED <<first, last, owner, items>>
      BY <1>3
  <2>1. /\ \A q \in List : n \notin Range(items[q])
        /\ \A t \in Thread : InUse(t) => node[t] # n
        BY DEF Inv, NodesInOnePlace, Held, List
  <2>2. /\ pc'["in"] = "append" /\ node'["in"] = n /\ InUse("in")' /\ ~InUse("in")
        /\ \A u \in Thread \ {"in"} : pc'[u] = pc[u] /\ node'[u] = node[u] /\ InUse(u)' = InUse(u)
        BY <1>1 DEF Goto, Hold, InUse, Inv, TypeOK
  <2>3. TypeOK'
    <3>1. owner' = [q \in List |-> IF Appends(Writer[q])' THEN Writer[q] ELSE "nobody"]
          BY <1>1, <2>2 DEF Inv, TypeOK, Appends
    <3>2. /\ pc' \in [Thread -> InLabel \cup ProcLabel \cup OutLabel]
          /\ pc'["in"] \in InLabel /\ pc'["processing"] \in ProcLabel /\ pc'["out"] \in OutLabel
          BY <1>1 DEF Goto, Thread, InLabel, ProcLabel, OutLabel, Inv, TypeOK
    <3>3. node' \in [Thread -> Node \cup {NODE_EMPTY}]
          /\ next' \in [Node -> Node \cup {NODE_EMPTY}] /\ live' \subseteq Node
          BY DEF Hold, Inv, TypeOK
    <3> QED BY <1>1, <3>1, <3>2, <3>3 DEF Inv, TypeOK, count
  <2>4. Lists'
    <3>1. \A q \in List : \A i \in 1..Len(items[q]) : items[q][i] # n /\ items[q][i] \in Node
          BY <2>1 DEF Inv, TypeOK, Range
    <3>2. ListIsItems'
          BY <3>1 DEF Inv, TypeOK, Lists, ListIsItems, Reached
    <3>3. LastKnown'
          BY <1>1, <2>2 DEF Inv, Lists, LastKnown
    <3> QED BY <3>2, <3>3 DEF Lists
  <2>5. Hands'
    <3>1. HandsFull'
          BY <2>2 DEF Inv, Hands, HandsFull
    <3>2. Cleared'
          BY <2>1, <2>2 DEF Inv, TypeOK, Hands, HandsFull, Cleared, InUse
    <3>3. Linked' /\ LookKnown'
          BY <2>2 DEF Inv, Hands, Linked, LookKnown, Consumer
    <3> QED BY <3>1, <3>2, <3>3 DEF Hands
  <2>6. NodesInOnePlace'
    <3>1. Held' = Held \cup {n}
          BY <1>1, <2>2 DEF Held
    <3>2. \A t, u \in Thread : InUse(t)' /\ InUse(u)' /\ node'[t] = node'[u] => t = u
          BY <2>1, <2>2 DEF Inv, NodesInOnePlace
    <3>3. \A t \in Thread : InUse(t)' => \A q \in List : node'[t] \notin Range(items'[q])
          BY <2>1, <2>2 DEF Inv, NodesInOnePlace
    <3> QED BY <3>1, <3>2, <3>3 DEF Inv, NodesInOnePlace
  <2> QED BY <2>3, <2>4, <2>5, <2>6 DEF Inv
<1> QED BY <1>2, <1>3 DEF InRead

\* A Node is freed by the thread that has taken it.
LEMMA FreeStep ==
    ASSUME Inv, NEW t \in Consumer, nodeFree(t)
    PROVE  Inv'
<1> USE QueueAssumption, Names
<1>1. /\ t \in Thread /\ pc[t] = "taken" /\ InUse(t)
      /\ UNCHANGED <<first, last, next, owner, items>> /\ UNCHANGED count
      BY DEF nodeFree, InUse, count
<1>2. /\ pc'[t] = "look" /\ ~InUse(t)'
      /\ \A u \in Thread \ {t} : pc'[u] = pc[u] /\ node'[u] = node[u] /\ InUse(u)' = InUse(u)
      BY <1>1 DEF nodeFree, Goto, Hold, InUse, Inv, TypeOK
<1>3. TypeOK'
  <2>1. owner' = [q \in List |-> IF Appends(Writer[q])' THEN Writer[q] ELSE "nobody"]
        BY <1>1, <1>2 DEF Inv, TypeOK, Appends
  <2>2. /\ pc' \in [Thread -> InLabel \cup ProcLabel \cup OutLabel]
        /\ pc'["in"] \in InLabel /\ pc'["processing"] \in ProcLabel /\ pc'["out"] \in OutLabel
        BY <1>1 DEF nodeFree, Goto, Thread, Consumer, InLabel, ProcLabel, OutLabel, Inv, TypeOK
  <2>3. node' \in [Thread -> Node \cup {NODE_EMPTY}] /\ live' \subseteq Node
        BY DEF nodeFree, Hold, Inv, TypeOK
  <2> QED BY <1>1, <2>1, <2>2, <2>3 DEF Inv, TypeOK, count
<1>4. Lists'
      BY <1>1, <1>2 DEF Inv, Lists, ListIsItems, Reached, LastKnown
<1>5. Hands'
      BY <1>1, <1>2 DEF Inv, Hands, HandsFull, Cleared, Linked, LookKnown
<1>6. NodesInOnePlace'
  <2>1. \A u \in Thread \ {t} : InUse(u) => node[u] # node[t]
        BY <1>1 DEF Inv, NodesInOnePlace
  <2>2. Held' = Held \ {node[t]}
        BY <1>1, <1>2, <2>1 DEF Held
  <2>3. live' = Range(items["queueIn"]) \cup Range(items["queueOut"]) \cup Held'
        BY <1>1, <2>2 DEF nodeFree, Inv, NodesInOnePlace, List
  <2>4. \A u, v \in Thread : InUse(u)' /\ InUse(v)' /\ node'[u] = node'[v] => u = v
        BY <1>2 DEF Inv, NodesInOnePlace
  <2>5. \A u \in Thread : InUse(u)' => \A q \in List : node'[u] \notin Range(items'[q])
        BY <1>1, <1>2 DEF Inv, NodesInOnePlace
  <2> QED BY <1>1, <2>3, <2>4, <2>5 DEF Inv, NodesInOnePlace
<1> QED BY <1>3, <1>4, <1>5, <1>6 DEF Inv

\* The mutex is taken and the Node's old pointer cleared.
LEMMA ClearStep ==
    ASSUME Inv, NEW t \in Producer, AppendClear(t)
    PROVE  Inv'
<1> USE QueueAssumption, Names
<1> DEFINE q == Target[t]  n == node[t]
<1>1. /\ t \in Thread /\ q \in List /\ pc[t] = "append" /\ InUse(t) /\ n \in Node
      /\ UNCHANGED <<first, last, live, node, items>> /\ UNCHANGED count
      BY DEF AppendClear, InUse, count, Inv, Hands, HandsFull
<1>2. /\ pc'[t] = IF first[q] = NODE_EMPTY THEN "setFirst" ELSE "link"
      /\ next' = [next EXCEPT ![n] = NODE_EMPTY] /\ owner' = [owner EXCEPT ![q] = t]
      /\ \A u \in Thread \ {t} : pc'[u] = pc[u]
      BY <1>1 DEF AppendClear, Goto, Inv, TypeOK
<1>3. \A u \in Thread : InUse(u)' = InUse(u)
      BY <1>1, <1>2 DEF InUse
<1>4. /\ \A p \in List : n \notin Range(items[p])
      /\ \A u \in Thread \ {t} : InUse(u) => node[u] # n
      BY <1>1 DEF Inv, NodesInOnePlace
<1>5. \A p \in List : items[p] \in Seq(Node)
      BY DEF Inv, TypeOK
<1>6. TypeOK'
  <2>1. owner' = [p \in List |-> IF Appends(Writer[p])' THEN Writer[p] ELSE "nobody"]
    <3>1. owner = [p \in List |-> IF Appends(Writer[p]) THEN Writer[p] ELSE "nobody"]
          BY DEF Inv, TypeOK
    <3>2. Appends(t)' /\ \A p \in List \ {q} : Appends(Writer[p])' = Appends(Writer[p])
          BY <1>1, <1>2 DEF Appends
    <3>3. \A p \in List : owner'[p] = IF Appends(Writer[p])' THEN Writer[p] ELSE "nobody"
          BY <1>1, <1>2, <3>1, <3>2
    <3> QED BY <1>2, <3>1, <3>3
  <2>2. /\ pc' \in [Thread -> InLabel \cup ProcLabel \cup OutLabel]
        /\ pc'["in"] \in InLabel /\ pc'["processing"] \in ProcLabel /\ pc'["out"] \in OutLabel
        BY <1>1 DEF AppendClear, Goto, Thread, Producer, InLabel, ProcLabel, OutLabel, Inv, TypeOK
  <2>3. next' \in [Node -> Node \cup {NODE_EMPTY}]
        BY <1>2 DEF Inv, TypeOK
  <2> QED BY <1>1, <2>1, <2>2, <2>3 DEF Inv, TypeOK, count
<1>7. Lists'
  <2>1. \A p \in List : \A i \in 1..Len(items[p]) : items[p][i] # n /\ items[p][i] \in Node
        BY <1>4, <1>5 DEF Range
  <2>2. ListIsItems'
        BY <1>1, <1>2, <2>1 DEF Inv, TypeOK, Lists, ListIsItems, Reached
  <2>3. LastKnown'
        BY <1>1, <1>2 DEF Inv, Lists, LastKnown
  <2> QED BY <2>2, <2>3 DEF Lists
<1>8. Hands'
  <2>1. HandsFull' /\ Linked' /\ LookKnown'
        BY <1>1, <1>2, <1>3 DEF Inv, Hands, HandsFull, Linked, LookKnown
  <2>2. first[q] = NODE_EMPTY <=> items[q] = <<>>
    <3>1. items[q] # <<>> => items[q][1] \in Node
          BY <1>1, <1>5
    <3> QED BY <1>1, <3>1 DEF Inv, Lists, ListIsItems, Reached
  <2>3. ASSUME NEW u \in Producer, pc'[u] \in {"setFirst", "link"}
        PROVE  /\ next'[node'[u]] = NODE_EMPTY
               /\ pc'[u] = "setFirst" => items'[Target[u]] = <<>>
               /\ pc'[u] = "link" => items'[Target[u]] # <<>>
    <3>1. CASE u = t
          BY <1>1, <1>2, <2>2, <3>1 DEF Inv, TypeOK
    <3>2. CASE u # t
          BY <1>1, <1>2, <1>4, <2>3, <3>2 DEF Inv, TypeOK, Hands, HandsFull, Cleared, InUse
    <3> QED BY <3>1, <3>2
  <2> QED BY <2>1, <2>3 DEF Hands, Cleared
<1>9. NodesInOnePlace'
      BY <1>1, <1>3 DEF Inv, NodesInOnePlace, Held
<1> QED BY <1>6, <1>7, <1>8, <1>9 DEF Inv

\* The write by which a Node gets into the list.
LEMMA LinkStep ==
    ASSUME Inv, NEW t \in Producer, AppendLink(t)
    PROVE  Inv'
<1> USE QueueAssumption, Names
<1> DEFINE q == Target[t]  n == node[t]  s == items[q]
<1>1. /\ t \in Thread /\ q \in List /\ pc[t] \in {"setFirst", "link"} /\ InUse(t) /\ n \in Node
      /\ s \in Seq(Node) /\ Writer[q] = t
      /\ UNCHANGED <<last, live, node, owner>> /\ UNCHANGED count
      BY DEF AppendLink, InUse, count, Inv, TypeOK, Hands, HandsFull
<1>2. /\ pc'[t] = "setLast" /\ ~InUse(t)'
      /\ items' = [items EXCEPT ![q] = Append(s, n)]
      /\ \A u \in Thread \ {t} : pc'[u] = pc[u] /\ InUse(u)' = InUse(u)
      BY <1>1 DEF AppendLink, Goto, InUse, Inv, TypeOK
<1>3. /\ \A p \in List : n \notin Range(items[p])
      /\ \A u \in Thread \ {t} : InUse(u) => node[u] # n
      /\ next[n] = NODE_EMPTY
      BY <1>1 DEF Inv, NodesInOnePlace, Hands, Cleared
<1>4. /\ Append(s, n) \in Seq(Node) /\ Append(s, n) # <<>>
      /\ Len(Append(s, n)) = Len(s) + 1 /\ Len(s) \in Nat
      /\ \A i \in 1..Len(s) : Append(s, n)[i] = s[i] /\ s[i] \in Node /\ s[i] # n
      /\ Append(s, n)[Len(s) + 1] = n
      /\ Range(Append(s, n)) = Range(s) \cup {n}
  <2>1. \A i \in 1..Len(s) : s[i] \in Range(s) /\ s[i] \in Node /\ Len(s) \in Nat
        BY <1>1 DEF Range
  <2> QED BY <1>1, <1>3, <2>1, AppendFacts
<1>5. /\ items'[q] = Append(s, n)
      /\ \A p \in List \ {q} : items'[p] = items[p]
      BY <1>1, <1>2 DEF Inv, TypeOK
<1>6. \/ /\ s = <<>> /\ first' = [first EXCEPT ![q] = n] /\ next' = next
      \/ /\ s # <<>> /\ Len(s) \in 1..Len(s) /\ last[q] = s[Len(s)] /\ last[q] \in Node
         /\ next' = [next EXCEPT ![last[q]] = n] /\ first' = first
  <2>1. CASE pc[t] = "setFirst"
        BY <1>1, <2>1 DEF AppendLink, Inv, Hands, Cleared
  <2>2. CASE pc[t] = "link"
    <3>1. s # <<>> /\ last[q] = s[Len(s)]
          BY <1>1, <2>2 DEF Inv, Hands, Cleared, Lists, LastKnown, End
    <3>2. Len(s) \in 1..Len(s)
          BY <1>1, <3>1
    <3> QED BY <1>4, <2>2, <3>1, <3>2 DEF AppendLink
  <2> QED BY <1>1, <2>1, <2>2
<1>7. TypeOK'
  <2>1. owner' = [p \in List |-> IF Appends(Writer[p])' THEN Writer[p] ELSE "nobody"]
        BY <1>1, <1>2 DEF Inv, TypeOK, Appends
  <2>2. /\ pc' \in [Thread -> InLabel \cup ProcLabel \cup OutLabel]
        /\ pc'["in"] \in InLabel /\ pc'["processing"] \in ProcLabel /\ pc'["out"] \in OutLabel
        BY <1>1 DEF AppendLink, Goto, Thread, Producer, InLabel, ProcLabel, OutLabel, Inv, TypeOK
  <2>3. /\ next' \in [Node -> Node \cup {NODE_EMPTY}]
        /\ first' \in [List -> Node \cup {NODE_EMPTY}]
        BY ZenonT(60), <1>1, <1>6 DEF Inv, TypeOK
  <2>4. items' \in [List -> Seq(Node)]
        BY <1>2, <1>4 DEF Inv, TypeOK
  <2> QED BY <1>1, <2>1, <2>2, <2>3, <2>4 DEF Inv, TypeOK, count
<1>8. Lists'
  <2>1. Reached(q, items[q])'
    <3>1. first'[q] = Append(s, n)[1]
          BY SMTT(30), <1>1, <1>4, <1>6 DEF Inv, TypeOK, Lists, ListIsItems, Reached
    <3>2. ASSUME NEW i \in 1..(Len(s) + 1)
          PROVE  next'[Append(s, n)[i]] =
                    IF i = Len(s) + 1 THEN NODE_EMPTY ELSE Append(s, n)[i + 1]
      <4>1. CASE i = Len(s) + 1
            BY <1>1, <1>3, <1>4, <1>6, <4>1 DEF Inv, TypeOK
      <4>2. CASE i # Len(s) + 1
        <5>1. i \in 1..Len(s) /\ next[s[i]] = IF i = Len(s) THEN NODE_EMPTY ELSE s[i + 1]
          <6>1. i \in 1..Len(s)
                BY <1>4, <4>2
          <6>2. Reached(q, s)
                BY <1>1 DEF Inv, Lists, ListIsItems
          <6> QED BY <6>1, <6>2 DEF Reached
        <5>2. s # <<>>
              BY <1>1, <5>1
        <5>3. CASE i = Len(s)
              BY <1>4, <1>6, <5>1, <5>2, <5>3 DEF Inv, TypeOK
        <5>4. CASE i # Len(s)
          <6>1. i + 1 \in 1..Len(s) /\ Append(s, n)[i + 1] = s[i + 1] /\ Append(s, n)[i] = s[i]
                BY <1>4, <5>1, <5>4
          <6>2. s[i] # last[q]
                BY <1>1, <1>6, <5>1, <5>2, <5>4 DEF Inv, NodesInOnePlace
          <6> QED BY <1>4, <1>6, <5>1, <5>2, <5>4, <6>1, <6>2 DEF Inv, TypeOK
        <5> QED BY <5>3, <5>4
      <4> QED BY <4>1, <4>2
    <3>3. items'[q] = Append(s, n)
          BY <1>5
    <3>4. Len(items'[q]) = Len(s) + 1 /\ items'[q] # <<>> /\ first'[q] = items'[q][1]
          BY <1>4, <3>1, <3>3
    <3>5. \A i \in 1..Len(items'[q]) :
             next'[items'[q][i]] = IF i = Len(items'[q]) THEN NODE_EMPTY ELSE items'[q][i + 1]
          BY <3>2, <3>3, <3>4
    <3> QED BY <3>4, <3>5 DEF Reached
  <2>2. ASSUME NEW p \in List \ {q} PROVE Reached(p, items[p])'
    <3>1. Reached(p, items[p])
          BY DEF Inv, Lists, ListIsItems
    <3>2. items'[p] = items[p] /\ first'[p] = first[p]
          BY <1>5, <1>6 DEF Inv, TypeOK
    <3>3. \A i \in 1..Len(items[p]) : next'[items[p][i]] = next[items[p][i]]
      <4>1. \A i \in 1..Len(items[p]) : items[p][i] \in Range(items[p]) /\ items[p][i] \in Node
            BY DEF Range, Inv, TypeOK
      <4>2. s # <<>> => s[Len(s)] \in Range(s)
            BY <1>1, <1>6 DEF Range
      <4>3. Range(s) \cap Range(items[p]) = {}
            BY <1>1 DEF Inv, NodesInOnePlace, List
      <4> QED BY <1>6, <4>1, <4>2, <4>3 DEF Inv, TypeOK
    <3> QED BY <3>1, <3>2, <3>3 DEF Reached
  <2>3. ListIsItems'
        BY <1>1, <2>1, <2>2 DEF ListIsItems
  <2>4. LastKnown'
        BY <1>1, <1>2, <1>5 DEF Inv, Lists, LastKnown
  <2> QED BY <2>3, <2>4 DEF Lists
<1>9. Hands'
  <2>1. HandsFull'
        BY <1>1, <1>2 DEF Inv, Hands, HandsFull
  <2>2. \A u \in Producer \ {t} : pc[u] \in {"setFirst", "link"} => next'[node[u]] = next[node[u]]
    <3>1. s # <<>> => s[Len(s)] \in Range(s)
          BY <1>1, <1>6 DEF Range
    <3>2. \A u \in Thread : InUse(u) => node[u] \notin Range(s) /\ node[u] \in Node
          BY <1>1 DEF Inv, NodesInOnePlace, Hands, HandsFull
    <3> QED BY <1>6, <3>1, <3>2 DEF Inv, TypeOK, InUse
  <2>3. \A u \in Producer \ {t} : Target[u] \in List \ {q}
        OBVIOUS
  <2>4. Cleared'
        BY <1>1, <1>2, <1>5, <2>2, <2>3 DEF Inv, Hands, Cleared
  <2>5. Linked'
    <3>1. \A u \in Producer \ {t} : pc'[u] = "setLast" =>
              items'[Target[u]] # <<>> /\ End(items'[Target[u]]) = node'[u]
          BY <1>1, <1>2, <1>5, <2>3 DEF Inv, Hands, Linked
    <3>2. items'[q] # <<>> /\ End(items'[q]) = node'[t]
          BY <1>1, <1>4, <1>5 DEF End
    <3> QED BY <3>1, <3>2 DEF Linked
  <2>6. LookKnown'
        BY <1>2, <1>4, <1>5 DEF Inv, Hands, LookKnown
  <2> QED BY <2>1, <2>4, <2>5, <2>6 DEF Hands
<1>10. NodesInOnePlace'
  <2>1. \A p \in List : Distinct(items'[p])
    <3>1. \A p \in List : Distinct(items[p])
          BY DEF Distinct, Inv, NodesInOnePlace
    <3>2. ASSUME NEW i \in 1..(Len(s) + 1), NEW j \in 1..(Len(s) + 1),
                 Append(s, n)[i] = Append(s, n)[j]
          PROVE  i = j
      <4>1. \A k \in 1..(Len(s) + 1) : k \in 1..Len(s) \/ k = Len(s) + 1
            BY <1>4
      <4>2. Distinct(s)
            BY <1>1, <3>1
      <4> QED BY SMTT(30), <1>4, <3>2, <4>1, <4>2 DEF Distinct
    <3>3. Distinct(Append(s, n))
          BY <1>4, <3>2 DEF Distinct
    <3> QED BY <1>5, <3>1, <3>3
  <2> DEFINE In == Range(items["queueIn"])  Out == Range(items["queueOut"])
  <2>7. n \notin In /\ n \notin Out /\ In \cap Out = {}
        BY <1>3 DEF List, Inv, NodesInOnePlace
  <2>8. \/ Range(items'["queueIn"]) = In \cup {n} /\ Range(items'["queueOut"]) = Out
        \/ Range(items'["queueIn"]) = In /\ Range(items'["queueOut"]) = Out \cup {n}
    <3>1. CASE q = "queueIn"
          BY <1>4, <1>5, <3>1 DEF List
    <3>2. CASE q = "queueOut"
          BY <1>4, <1>5, <3>2 DEF List
    <3> QED BY <1>1, <3>1, <3>2 DEF List
  <2>2. Range(items'["queueIn"]) \cap Range(items'["queueOut"]) = {}
        BY <2>7, <2>8
  <2>3. \A u \in Thread : InUse(u)' => \A p \in List : node'[u] \notin Range(items'[p])
        BY <1>1, <1>2, <1>3, <1>4, <1>5 DEF Inv, NodesInOnePlace
  <2>4. \A u, v \in Thread : InUse(u)' /\ InUse(v)' /\ node'[u] = node'[v] => u = v
        BY <1>1, <1>2 DEF Inv, NodesInOnePlace
  <2>5. Held' = Held \ {n}
        BY <1>1, <1>2, <1>3 DEF Held
  <2>6. live' = Range(items'["queueIn"]) \cup Range(items'["queueOut"]) \cup Held'
    <3>1. n \in Held
          BY <1>1 DEF Held
    <3>2. Range(items'["queueIn"]) \cup Range(items'["queueOut"])
            = Range(items["queueIn"]) \cup Range(items["queueOut"]) \cup {n}
          BY <2>8
    <3> QED BY <1>1, <2>5, <3>1, <3>2 DEF Inv, NodesInOnePlace
  <2> QED BY <2>1, <2>2, <2>3, <2>4, <2>6 DEF NodesInOnePlace, Distinct
<1> QED BY <1>7, <1>8, <1>9, <1>10 DEF Inv

\* last is written, and the mutex given back.
LEMMA LastStep ==
    ASSUME Inv, NEW t \in Producer, AppendLast(t)
    PROVE  Inv'
<1> USE QueueAssumption, Names
<1> DEFINE q == Target[t]
<1>1. /\ t \in Thread /\ q \in List /\ pc[t] = "setLast" /\ Writer[q] = t /\ ~InUse(t)
      /\ UNCHANGED <<first, next, live, items>> /\ UNCHANGED count
      BY DEF AppendLast, InUse, count
<1>2. /\ pc'[t] = (IF t = "in" THEN "loop" ELSE "look") /\ ~InUse(t)'
      /\ last' = [last EXCEPT ![q] = node[t]] /\ owner' = [owner EXCEPT ![q] = "nobody"]
      /\ \A u \in Thread \ {t} : pc'[u] = pc[u] /\ node'[u] = node[u] /\ InUse(u)' = InUse(u)
      BY <1>1 DEF AppendLast, Goto, Hold, InUse, Inv, TypeOK
<1>3. TypeOK'
  <2>1. owner' = [p \in List |-> IF Appends(Writer[p])' THEN Writer[p] ELSE "nobody"]
    <3>1. owner = [p \in List |-> IF Appends(Writer[p]) THEN Writer[p] ELSE "nobody"]
          BY DEF Inv, TypeOK
    <3>2. ~Appends(t)' /\ \A p \in List \ {q} : Appends(Writer[p])' = Appends(Writer[p])
          BY <1>1, <1>2 DEF Appends
    <3>3. \A p \in List : owner'[p] = IF Appends(Writer[p])' THEN Writer[p] ELSE "nobody"
          BY <1>1, <1>2, <3>1, <3>2
    <3> QED BY <1>2, <3>1, <3>3
  <2>2. /\ pc' \in [Thread -> InLabel \cup ProcLabel \cup OutLabel]
        /\ pc'["in"] \in InLabel /\ pc'["processing"] \in ProcLabel /\ pc'["out"] \in OutLabel
        BY <1>1 DEF AppendLast, Goto, Thread, Producer, InLabel, ProcLabel, OutLabel, Inv, TypeOK
  <2>3. /\ node' \in [Thread -> Node \cup {NODE_EMPTY}]
        /\ last' \in [List -> Node \cup {NODE_EMPTY}]
        BY <1>1 DEF AppendLast, Hold, Inv, TypeOK
  <2> QED BY <1>1, <2>1, <2>2, <2>3 DEF Inv, TypeOK, count
<1>4. Lists'
  <2>1. ListIsItems'
        BY <1>1 DEF Inv, Lists, ListIsItems, Reached
  <2>2. last'[q] = End(items[q])
        BY <1>1, <1>2 DEF Inv, TypeOK, Hands, Linked
  <2>3. \A p \in List \ {q} : last'[p] = last[p] /\ pc'[Writer[p]] = pc[Writer[p]]
        BY <1>1, <1>2 DEF Inv, TypeOK
  <2>4. LastKnown'
        BY <1>1, <2>2, <2>3 DEF Inv, Lists, LastKnown
  <2> QED BY <2>1, <2>4 DEF Lists
<1>5. Hands'
      BY <1>1, <1>2 DEF Inv, Hands, HandsFull, Cleared, Linked, LookKnown
<1>6. NodesInOnePlace'
  <2>1. Held' = Held
        BY <1>1, <1>2 DEF Held
  <2>2. \A u, v \in Thread : InUse(u)' /\ InUse(v)' /\ node'[u] = node'[v] => u = v
        BY <1>1, <1>2 DEF Inv, NodesInOnePlace
  <2>3. \A u \in Thread : InUse(u)' => \A p \in List : node'[u] \notin Range(items'[p])
        BY <1>1, <1>2 DEF Inv, NodesInOnePlace
  <2> QED BY <1>1, <2>1, <2>2, <2>3 DEF Inv, NodesInOnePlace
<1> QED BY <1>3, <1>4, <1>5, <1>6 DEF Inv

\* What taking the first Node off does to a list, for queueRemoveFirstElement and
\* waitForThreads.
LEMMA FirstOff ==
    ASSUME Inv, NEW q \in List, items[q] # <<>>,
           first' = [first EXCEPT ![q] = next[first[q]]],
           items' = [items EXCEPT ![q] = Tail(@)], next' = next
    PROVE  /\ first[q] = items[q][1] /\ first[q] \in Node /\ first[q] \in Range(items[q])
           /\ Range(items'[q]) = Range(items[q]) \ {first[q]}
           /\ items'[q] # <<>> => End(items'[q]) = End(items[q])
           /\ next[first[q]] = NODE_EMPTY <=> items'[q] = <<>>
           /\ \A p \in List \ {q} : items'[p] = items[p]
           /\ \A p \in List : Distinct(items'[p])
           /\ first' \in [List -> Node \cup {NODE_EMPTY}]
           /\ items' \in [List -> Seq(Node)]
           /\ ListIsItems'
<1> USE QueueAssumption
<1> DEFINE s == items[q]
<1>1. /\ s \in Seq(Node) /\ items'[q] = Tail(s)
      /\ \A p \in List \ {q} : items'[p] = items[p] /\ first'[p] = first[p]
      /\ \A p \in List : Distinct(items[p])
      /\ Reached(q, s)
      BY DEF Inv, TypeOK, NodesInOnePlace, Distinct, Lists, ListIsItems
<1>2. /\ Tail(s) \in Seq(Node) /\ Len(Tail(s)) = Len(s) - 1 /\ Len(s) \in Nat \ {0}
      /\ \A i \in 1..(Len(s) - 1) : Tail(s)[i] = s[i + 1]
      /\ s[1] \in Node /\ s[1] \in Range(s)
      /\ Distinct(Tail(s)) /\ Range(Tail(s)) = Range(s) \ {s[1]}
      BY <1>1, TailFacts
<1>3. first[q] = s[1] /\ first'[q] = next[s[1]]
      BY <1>1 DEF Reached, Inv, TypeOK
<1>4. Tail(s) = <<>> <=> Len(s) = 1
  <2>1. \A u \in Seq(Node) : u = <<>> <=> Len(u) = 0
        OBVIOUS
  <2>2. Tail(s) = <<>> <=> Len(Tail(s)) = 0
        BY <1>2, <2>1
  <2> QED BY <1>2, <2>2
<1>5. next[s[1]] = IF Len(s) = 1 THEN NODE_EMPTY ELSE s[2]
  <2>1. 1 \in 1..Len(s) /\ 1 + 1 = 2
        BY <1>2
  <2>2. next[s[1]] = IF 1 = Len(s) THEN NODE_EMPTY ELSE s[1 + 1]
        BY <1>1, <2>1 DEF Reached
  <2> QED BY <2>1, <2>2
<1>6. Len(s) # 1 => s[2] = Tail(s)[1] /\ s[2] \in Node /\ Tail(s)[Len(s) - 1] = s[Len(s)]
  <2>1. Len(s) # 1 => 1 \in 1..(Len(s) - 1) /\ Len(s) - 1 \in 1..(Len(s) - 1) /\ 2 \in 1..Len(s)
    <3> HIDE DEF s
    <3> QED BY <1>2
  <2>2. Len(s) # 1 => Tail(s)[1] = s[1 + 1] /\ Tail(s)[Len(s) - 1] = s[(Len(s) - 1) + 1]
        BY <1>2, <2>1
  <2>3. 1 + 1 = 2 /\ (Len(s) - 1) + 1 = Len(s)
        BY <1>2
  <2>4. \A i \in 1..Len(s) : s[i] \in Node
        BY <1>1
  <2> QED BY <2>1, <2>2, <2>3, <2>4
<1>7. Reached(q, items[q])'
  <2>1. first'[q] = IF Tail(s) = <<>> THEN NODE_EMPTY ELSE Tail(s)[1]
        BY <1>3, <1>4, <1>5, <1>6
  <2>2. ASSUME NEW i \in 1..(Len(s) - 1)
        PROVE  next[Tail(s)[i]] = IF i = Len(s) - 1 THEN NODE_EMPTY ELSE Tail(s)[i + 1]
    <3>1. i + 1 \in 1..Len(s) /\ Tail(s)[i] = s[i + 1]
          BY <1>2
    <3>2. next[s[i + 1]] = IF i + 1 = Len(s) THEN NODE_EMPTY ELSE s[(i + 1) + 1]
          BY <1>1, <3>1 DEF Reached
    <3>3. i # Len(s) - 1 => i + 1 \in 1..(Len(s) - 1)
          BY <1>2
    <3> QED BY <1>2, <3>1, <3>2, <3>3
  <2> QED BY <1>1, <1>2, <2>1, <2>2 DEF Reached
<1>8. \A p \in List \ {q} : Reached(p, items[p])'
      BY <1>1 DEF Inv, Lists, ListIsItems, Reached
<1>9. ListIsItems'
      BY <1>7, <1>8 DEF ListIsItems
<1>10. Tail(s) # <<>> => End(items'[q]) = End(s)
      BY <1>1, <1>2, <1>4, <1>6 DEF End
<1>11. \A p \in List : Distinct(items'[p])
      BY <1>1, <1>2
<1>12. next[first[q]] = NODE_EMPTY <=> items'[q] = <<>>
      BY ZenonT(60), <1>1, <1>3, <1>4, <1>5, <1>6
<1>13. /\ first' \in [List -> Node \cup {NODE_EMPTY}] /\ items' \in [List -> Seq(Node)]
      BY <1>1, <1>2, <1>3 DEF Inv, TypeOK
<1> QED BY <1>1, <1>2, <1>3, <1>9, <1>10, <1>11, <1>12, <1>13

\* A consumer takes the first Node.
LEMMA RemoveStep ==
    ASSUME Inv, NEW t \in Consumer, queueRemoveFirstElement(t)
    PROVE  Inv'
<1> USE QueueAssumption, Names
<1> DEFINE q == Source[t]  n == first[q]
<1>1. /\ t \in Thread /\ q \in List /\ pc[t] = "remove" /\ ~InUse(t) /\ owner[q] = "nobody"
      /\ items[q] # <<>> /\ items[q] \in Seq(Node)
      /\ UNCHANGED <<next, live, owner>> /\ UNCHANGED count
      BY DEF queueRemoveFirstElement, InUse, count, Inv, TypeOK, Hands, LookKnown
<1>2. n # NODE_EMPTY
  <2>1. n = items[q][1]
        BY <1>1 DEF Inv, Lists, ListIsItems, Reached
  <2> QED BY <1>1, <2>1, TailFacts
<1>3. /\ first' = [first EXCEPT ![q] = next[n]]
      /\ items' = [items EXCEPT ![q] = Tail(@)] /\ last' = last
      BY <1>1, <1>2 DEF queueRemoveFirstElement, Inv, TypeOK
<1>4. /\ n \in Node /\ n \in Range(items[q])
      /\ Range(items'[q]) = Range(items[q]) \ {n}
      /\ items'[q] # <<>> => End(items'[q]) = End(items[q])
      /\ \A p \in List \ {q} : items'[p] = items[p]
      /\ \A p \in List : Distinct(items'[p])
      /\ first' \in [List -> Node \cup {NODE_EMPTY}] /\ items' \in [List -> Seq(Node)]
      /\ ListIsItems'
      BY <1>1, <1>3, FirstOff
<1>5. /\ pc'[t] = "taken" /\ InUse(t)' /\ node'[t] = n
      /\ \A u \in Thread \ {t} : pc'[u] = pc[u] /\ node'[u] = node[u] /\ InUse(u)' = InUse(u)
      BY <1>1 DEF queueRemoveFirstElement, Goto, Hold, InUse, Inv, TypeOK
<1>6. ~Appends(Writer[q]) /\ Writer[q] # t
      BY <1>1 DEF Inv, TypeOK, Appends, Source, Writer, Consumer, List
<1>7. TypeOK'
  <2>1. owner' = [p \in List |-> IF Appends(Writer[p])' THEN Writer[p] ELSE "nobody"]
        BY <1>1, <1>5 DEF Inv, TypeOK, Appends
  <2>2. /\ pc' \in [Thread -> InLabel \cup ProcLabel \cup OutLabel]
        /\ pc'["in"] \in InLabel /\ pc'["processing"] \in ProcLabel /\ pc'["out"] \in OutLabel
        BY <1>1 DEF queueRemoveFirstElement, Goto, Thread, Consumer, InLabel, ProcLabel, OutLabel,
                    Inv, TypeOK
  <2>3. node' \in [Thread -> Node \cup {NODE_EMPTY}]
        BY <1>4 DEF queueRemoveFirstElement, Hold, Inv, TypeOK
  <2> QED BY <1>1, <1>3, <1>4, <2>1, <2>2, <2>3 DEF Inv, TypeOK, count
<1>8. Lists'
      BY <1>1, <1>3, <1>4, <1>5, <1>6 DEF Inv, Lists, LastKnown, Appends
<1>9. Hands'
  <2>1. HandsFull'
        BY <1>4, <1>5 DEF Inv, Hands, HandsFull
  <2>2. \A u \in Producer : pc[u] \in {"setFirst", "link", "setLast"} => Target[u] # q
        BY <1>6 DEF Appends
  <2>3. \A u \in Producer : pc'[u] \in {"setFirst", "link", "setLast"} =>
            u # t /\ pc'[u] = pc[u] /\ node'[u] = node[u] /\ items'[Target[u]] = items[Target[u]]
        BY <1>4, <1>5, <2>2
  <2>4. Cleared' /\ Linked'
        BY <1>1, <2>3 DEF Inv, Hands, Cleared, Linked
  <2>5. LookKnown'
    <3>1. \A u \in Consumer \ {t} : Source[u] \in List \ {q}
          OBVIOUS
    <3> QED BY <1>4, <1>5, <3>1 DEF Inv, Hands, LookKnown
  <2> QED BY <2>1, <2>4, <2>5 DEF Hands
<1>10. NodesInOnePlace'
  <2> DEFINE In == Range(items["queueIn"])  Out == Range(items["queueOut"])
  <2>1. In \cap Out = {} /\ live = In \cup Out \cup Held
        BY DEF Inv, NodesInOnePlace
  <2>2. \/ n \in In /\ Range(items'["queueIn"]) = In \ {n} /\ Range(items'["queueOut"]) = Out
        \/ n \in Out /\ Range(items'["queueIn"]) = In /\ Range(items'["queueOut"]) = Out \ {n}
    <3>1. CASE q = "queueIn"
          BY <1>4, <3>1 DEF List
    <3>2. CASE q = "queueOut"
          BY <1>4, <3>2 DEF List
    <3> QED BY <1>1, <3>1, <3>2 DEF List
  <2>3. Held' = Held \cup {n}
        BY <1>1, <1>5 DEF Held
  <2>4. live' = Range(items'["queueIn"]) \cup Range(items'["queueOut"]) \cup Held'
        BY <1>1, <2>1, <2>2, <2>3
  <2>5. \A p \in List : n \notin Range(items'[p]) /\ Range(items'[p]) \subseteq Range(items[p])
    <3>1. n \notin Range(items'["queueIn"]) /\ n \notin Range(items'["queueOut"])
          BY <2>1, <2>2
    <3> QED BY <1>4, <3>1 DEF List
  <2>6. \A u \in Thread : InUse(u)' => \A p \in List : node'[u] \notin Range(items'[p])
        BY <1>5, <2>5 DEF Inv, NodesInOnePlace
  <2>7. \A u \in Thread \ {t} : InUse(u) => node[u] # n
        BY <1>1, <1>4 DEF Inv, NodesInOnePlace
  <2>8. \A u, v \in Thread : InUse(u)' /\ InUse(v)' /\ node'[u] = node'[v] => u = v
        BY <1>5, <2>7 DEF Inv, NodesInOnePlace
  <2>9. Range(items'["queueIn"]) \cap Range(items'["queueOut"]) = {}
        BY <2>1, <2>2
  <2> QED BY <1>4, <2>4, <2>6, <2>8, <2>9 DEF NodesInOnePlace, Distinct
<1> QED BY <1>7, <1>8, <1>9, <1>10 DEF Inv

\* A list is freed when all threads have ended.
LEMMA FreeListStep ==
    ASSUME Inv, NEW q \in List, waitForThreads(q)
    PROVE  Inv'
<1> USE QueueAssumption, Names
<1> DEFINE n == first[q]
<1>1. /\ \A t \in Thread : pc[t] = "stopped" /\ ~InUse(t)
      /\ n # NODE_EMPTY /\ items[q] \in Seq(Node)
      /\ UNCHANGED <<next, node, owner, pc>> /\ UNCHANGED count
      BY DEF waitForThreads, InUse, count, Inv, TypeOK
<1>2. items[q] # <<>>
      BY <1>1 DEF Inv, Lists, ListIsItems, Reached
<1>3. /\ first' = [first EXCEPT ![q] = next[n]]
      /\ items' = [items EXCEPT ![q] = Tail(@)] /\ live' = live \ {n}
      /\ last' = last
      BY <1>1, <1>2 DEF waitForThreads, Inv, TypeOK
<1>4. /\ n \in Node /\ n \in Range(items[q])
      /\ Range(items'[q]) = Range(items[q]) \ {n}
      /\ items'[q] # <<>> => End(items'[q]) = End(items[q])
      /\ \A p \in List \ {q} : items'[p] = items[p]
      /\ \A p \in List : Distinct(items'[p])
      /\ first' \in [List -> Node \cup {NODE_EMPTY}] /\ items' \in [List -> Seq(Node)]
      /\ ListIsItems'
      BY <1>1, <1>2, <1>3, FirstOff
<1>5. \A t \in Thread : pc'[t] = "stopped" /\ ~InUse(t)'
      BY <1>1 DEF InUse
<1>6. TypeOK'
  <2>1. owner' = [p \in List |-> IF Appends(Writer[p])' THEN Writer[p] ELSE "nobody"]
        BY <1>1 DEF Inv, TypeOK, Appends
  <2>2. last' \in [List -> Node \cup {NODE_EMPTY}] /\ live' \subseteq Node
        BY <1>3 DEF Inv, TypeOK
  <2> QED BY <1>1, <1>4, <2>1, <2>2 DEF Inv, TypeOK, count
<1>7. Lists'
  <2>1. \A p \in List : last[p] = End(items[p]) \/ items[p] = <<>>
        BY <1>1 DEF Inv, Lists, LastKnown
  <2>2. items'[q] # <<>> => last'[q] = End(items'[q])
        BY <1>2, <1>3, <1>4, <2>1 DEF Inv, TypeOK
  <2>3. \A p \in List \ {q} : last'[p] = last[p]
        BY <1>3 DEF Inv, TypeOK
  <2> QED BY <1>4, <2>1, <2>2, <2>3 DEF Lists, LastKnown
<1>8. Hands'
      BY <1>5 DEF Hands, HandsFull, Cleared, Linked, LookKnown
<1>9. NodesInOnePlace'
  <2> DEFINE In == Range(items["queueIn"])  Out == Range(items["queueOut"])
  <2>1. In \cap Out = {} /\ live = In \cup Out
        BY <1>1 DEF Inv, NodesInOnePlace, Held
  <2>2. \/ n \in In /\ Range(items'["queueIn"]) = In \ {n} /\ Range(items'["queueOut"]) = Out
        \/ n \in Out /\ Range(items'["queueIn"]) = In /\ Range(items'["queueOut"]) = Out \ {n}
    <3>1. CASE q = "queueIn"
          BY <1>4, <3>1 DEF List
    <3>2. CASE q = "queueOut"
          BY <1>4, <3>2 DEF List
    <3> QED BY <3>1, <3>2 DEF List
  <2>3. Held' = {}
        BY <1>5 DEF Held
  <2>4. /\ live' = Range(items'["queueIn"]) \cup Range(items'["queueOut"]) \cup Held'
        /\ Range(items'["queueIn"]) \cap Range(items'["queueOut"]) = {}
        BY <1>3, <2>1, <2>2, <2>3
  <2> QED BY <1>4, <1>5, <2>4 DEF NodesInOnePlace, Distinct
<1> QED BY <1>6, <1>7, <1>8, <1>9 DEF Inv

----------------------------------------------------------------------------
(* Theorems.                                                               *)

LEMMA Initial == Init => Inv
<1> SUFFICES ASSUME Init PROVE Inv
    OBVIOUS
<1> USE QueueAssumption, Names DEF Init
<1>1. \A t \in Thread : pc[t] \in {"loop", "look"} /\ ~InUse(t) /\ ~Appends(t)
      BY DEF InUse, Appends
<1>2. \A q \in List : items[q] = <<>> /\ Len(items[q]) = 0 /\ Range(items[q]) = {}
      BY DEF Range
<1>3. TypeOK
  <2>1. owner = [q \in List |-> IF Appends(Writer[q]) THEN Writer[q] ELSE "nobody"]
        BY <1>1
  <2>2. /\ pc \in [Thread -> InLabel \cup ProcLabel \cup OutLabel]
        /\ pc["in"] \in InLabel /\ pc["processing"] \in ProcLabel /\ pc["out"] \in OutLabel
        BY DEF Thread, InLabel, ProcLabel, OutLabel
  <2>3. counted \in List /\ items \in [List -> Seq(Node)]
        BY DEF List
  <2> QED BY <2>1, <2>2, <2>3 DEF TypeOK
<1>4. Lists
      BY <1>2 DEF Lists, ListIsItems, LastKnown, Reached
<1>5. Hands
      BY <1>1 DEF Hands, HandsFull, Cleared, Linked, LookKnown
<1>6. Held = {}
      BY <1>1 DEF Held
<1>7. NodesInOnePlace
      BY <1>1, <1>2, <1>6 DEF NodesInOnePlace, List
<1> QED BY <1>3, <1>4, <1>5, <1>7 DEF Inv

LEMMA Step == Inv /\ [Next]_vars => Inv'
<1> SUFFICES ASSUME Inv, [Next]_vars PROVE Inv'
    OBVIOUS
<1>1. CASE InLoop \/ CountNext \/ CountEnd \/ CountFreed \/ ProcAnswer
              \/ (\E t \in Consumer : Look(t)) \/ (\E t \in Thread : Stop(t))
      BY <1>1, QuietStep
<1>2. CASE InRead
      BY <1>2, ReadStep
<1>3. CASE \E t \in Consumer : nodeFree(t)
      BY <1>3, FreeStep
<1>4. CASE \E t \in Producer : queueAppend(t)
      BY <1>4, ClearStep, LinkStep, LastStep DEF queueAppend
<1>5. CASE \E t \in Consumer : queueRemoveFirstElement(t)
      BY <1>5, RemoveStep
<1>6. CASE \E q \in List : waitForThreads(q)
      BY <1>6, FreeListStep
<1>7. CASE UNCHANGED vars
  <2>1. UNCHANGED lists /\ UNCHANGED count /\ UNCHANGED pc
        BY <1>7 DEF vars
  <2>2. TypeOK' /\ Lists'
        BY <2>1 DEF lists, count, Inv, TypeOK, Appends, Lists, ListIsItems, Reached, LastKnown
  <2>3. Hands' /\ NodesInOnePlace'
        BY <2>1 DEF lists, Inv, Hands, HandsFull, Cleared, Linked, LookKnown, NodesInOnePlace,
                    Held, InUse
  <2> QED BY <2>2, <2>3 DEF Inv
<1> QED BY <1>1, <1>2, <1>3, <1>4, <1>5, <1>6, <1>7
        DEF Next, InThread, InCount, ProcThread, Consume, Producer, Consumer

LEMMA QueueInvariant == Spec => []Inv
BY Initial, Step, PTL DEF Spec

----------------------------------------------------------------------------
(* What queueCountElements counts.                                         *)

\* A Node that was taken still points to the list it was taken from, or nowhere.
HandNext ==
    \A t \in Consumer : pc[t] \in {"taken", "append"} =>
        next[node[t]] \in {first[Source[t]], NODE_EMPTY}

LenIn   == Len(items["queueIn"])
LenOut  == Len(items["queueOut"])
Carried == IF InUse("processing") THEN 1 ELSE 0

\* Where the walk may be, and what it can still count: the rest of the list it is in,
\* and what may yet be appended to that list while the in thread appends nothing.
AtIn   == \E p \in 1..LenIn :
            walk = items["queueIn"][p] /\ c + LenIn - p + 1 <= length
AtProc == InUse("processing") /\ walk = node["processing"] /\ c + 1 + LenIn <= length
AtOut  == \E p \in 1..LenOut :
            walk = items["queueOut"][p] /\ c + LenOut - p + 1 + Carried + LenIn <= length
AtDone == /\ pc["out"] = "taken" /\ walk = node["out"]
          /\ c + 1 + LenOut + Carried + LenIn <= length

Ahead  == walk \notin live \/ AtIn \/ AtProc \/ AtOut \/ AtDone
Walked == counted = "queueIn" => c <= length /\ (pc["in"] = "count" => Ahead)

CountInv == Inv /\ HandNext /\ Walked

LEMMA Numbers ==
    ASSUME Inv
    PROVE  /\ LenIn \in Nat /\ LenOut \in Nat /\ Carried \in {0, 1} /\ c \in Nat /\ length \in Nat
           /\ items["queueIn"] \in Seq(Node) /\ items["queueOut"] \in Seq(Node)
<1>1. items["queueIn"] \in Seq(Node) /\ items["queueOut"] \in Seq(Node)
      BY DEF Inv, TypeOK, List
<1>2. c \in Nat /\ length \in Nat
      BY DEF Inv, TypeOK
<1> QED BY <1>1, <1>2 DEF LenIn, LenOut, Carried

\* The first element of a list, and what follows an element.
LEMMA Successor ==
    ASSUME Inv, NEW q \in List
    PROVE  /\ first[q] = NODE_EMPTY \/ (1 \in 1..Len(items[q]) /\ first[q] = items[q][1])
           /\ \A p \in 1..Len(items[q]) :
                 \/ next[items[q][p]] = NODE_EMPTY
                 \/ p + 1 \in 1..Len(items[q]) /\ next[items[q][p]] = items[q][p + 1]
<1>1. Reached(q, items[q]) /\ items[q] \in Seq(Node)
      BY DEF Inv, Lists, ListIsItems, TypeOK
<1>2. items[q] # <<>> => 1 \in 1..Len(items[q])
      BY <1>1
<1>3. first[q] = NODE_EMPTY \/ (1 \in 1..Len(items[q]) /\ first[q] = items[q][1])
      BY <1>1, <1>2 DEF Reached
<1>4. ASSUME NEW p \in 1..Len(items[q]), p # Len(items[q])
      PROVE  p + 1 \in 1..Len(items[q])
      BY <1>1, <1>4
<1> QED BY <1>1, <1>3, <1>4 DEF Reached

\* One more Node is counted.
LEMMA WalkOn ==
    ASSUME Inv, HandNext, Walked, CountNext
    PROVE  Walked'
<1> SUFFICES ASSUME counted' = "queueIn"
             PROVE  c' <= length' /\ Ahead'
    BY DEF Walked
<1> USE QueueAssumption
<1>1. /\ counted = "queueIn" /\ pc["in"] = "count" /\ walk \in live
      /\ c' = c + 1 /\ walk' = next[walk] /\ length' = length
      /\ UNCHANGED lists /\ UNCHANGED pc
      BY DEF CountNext
<1>2. /\ LenIn' = LenIn /\ LenOut' = LenOut /\ Carried' = Carried
      /\ items' = items /\ node' = node /\ live' = live
      BY <1>1 DEF lists, LenIn, LenOut, Carried, InUse
<1>3. NODE_EMPTY \notin live'
      BY <1>2 DEF Inv, TypeOK
<1>4. walk' = NODE_EMPTY => Ahead'
      BY <1>3 DEF Ahead
<1>5. "queueIn" \in List /\ "queueOut" \in List
      BY DEF List
<1>6. AtIn \/ AtProc \/ AtOut \/ AtDone
      BY <1>1 DEF Walked, Ahead
<1>7. CASE AtIn
  <2>1. PICK p \in 1..LenIn : walk = items["queueIn"][p] /\ c + LenIn - p + 1 <= length
        BY <1>7 DEF AtIn
  <2>2. \/ walk' = NODE_EMPTY
        \/ p + 1 \in 1..LenIn /\ walk' = items["queueIn"][p + 1]
        BY <1>1, <1>5, <2>1, Successor DEF LenIn
  <2>3. c + 1 <= length /\ (c + 1) + LenIn - (p + 1) + 1 <= length
        BY <2>1, Numbers
  <2>4. p + 1 \in 1..LenIn /\ walk' = items["queueIn"][p + 1] => AtIn'
        BY <1>1, <1>2, <2>3 DEF AtIn
  <2> QED BY <1>1, <1>4, <2>2, <2>3, <2>4 DEF Ahead
<1>8. CASE AtProc
  <2>1. walk' \in {first["queueIn"], NODE_EMPTY}
    <3>1. CASE pc["processing"] \in {"taken", "append"}
      <4>1. "processing" \in Consumer /\ Source["processing"] = "queueIn"
            BY DEF Consumer, Source
      <4> QED BY <1>1, <1>8, <3>1, <4>1 DEF AtProc, HandNext
    <3>2. CASE pc["processing"] \in {"setFirst", "link"}
      <4>1. "processing" \in Producer
            BY DEF Producer
      <4> QED BY <1>1, <1>8, <3>2, <4>1 DEF AtProc, Inv, Hands, Cleared
    <3> QED BY <1>8, <3>1, <3>2 DEF AtProc, InUse
  <2>2. walk' = NODE_EMPTY \/ (1 \in 1..LenIn /\ walk' = items["queueIn"][1])
        BY <1>5, <2>1, Successor DEF LenIn
  <2>3. c + 1 <= length /\ (c + 1) + LenIn - 1 + 1 <= length
        BY <1>8, Numbers DEF AtProc
  <2>4. 1 \in 1..LenIn /\ walk' = items["queueIn"][1] => AtIn'
        BY <1>1, <1>2, <2>3 DEF AtIn
  <2> QED BY <1>1, <1>4, <2>2, <2>3, <2>4 DEF Ahead
<1>9. CASE AtOut
  <2>1. PICK p \in 1..LenOut : /\ walk = items["queueOut"][p]
                               /\ c + LenOut - p + 1 + Carried + LenIn <= length
        BY <1>9 DEF AtOut
  <2>2. \/ walk' = NODE_EMPTY
        \/ p + 1 \in 1..LenOut /\ walk' = items["queueOut"][p + 1]
        BY <1>1, <1>5, <2>1, Successor DEF LenOut
  <2>3. c + 1 <= length /\ (c + 1) + LenOut - (p + 1) + 1 + Carried + LenIn <= length
        BY SMTT(30), <2>1, Numbers
  <2>4. p + 1 \in 1..LenOut /\ walk' = items["queueOut"][p + 1] => AtOut'
        BY <1>1, <1>2, <2>3 DEF AtOut
  <2> QED BY <1>1, <1>4, <2>2, <2>3, <2>4 DEF Ahead
<1>10. CASE AtDone
  <2>1. "out" \in Consumer /\ Source["out"] = "queueOut"
        BY DEF Consumer, Source
  <2>2. walk' \in {first["queueOut"], NODE_EMPTY}
        BY <1>1, <1>10, <2>1 DEF AtDone, HandNext
  <2>3. walk' = NODE_EMPTY \/ (1 \in 1..LenOut /\ walk' = items["queueOut"][1])
        BY <1>5, <2>2, Successor DEF LenOut
  <2>4. c + 1 <= length /\ (c + 1) + LenOut - 1 + 1 + Carried + LenIn <= length
        BY <1>10, Numbers DEF AtDone
  <2>5. 1 \in 1..LenOut /\ walk' = items["queueOut"][1] => AtOut'
        BY <1>1, <1>2, <2>4 DEF AtOut
  <2> QED BY <1>1, <1>4, <2>3, <2>4, <2>5 DEF Ahead
<1> QED BY <1>6, <1>7, <1>8, <1>9, <1>10

\* A list's first Node is taken, and the walk keeps its place, wherever that is.
LEMMA WalkTaken ==
    ASSUME Inv, NEW t \in Consumer, queueRemoveFirstElement(t), Ahead
    PROVE  Ahead'
<1> USE QueueAssumption
<1> DEFINE q == Source[t]  s == items[q]  n == first[q]
<1>1. /\ t \in Thread /\ q \in List /\ pc[t] = "remove" /\ ~InUse(t)
      /\ s # <<>> /\ s \in Seq(Node) /\ items[q] = s
      /\ UNCHANGED <<live, walk, c, length>>
      BY Names DEF queueRemoveFirstElement, InUse, count, Inv, TypeOK, Hands, LookKnown
<1>2. /\ Len(Tail(s)) = Len(s) - 1 /\ Len(s) \in Nat \ {0}
      /\ \A i \in 1..(Len(s) - 1) : Tail(s)[i] = s[i + 1]
      BY <1>1, TailFacts
<1>3. n = s[1]
      BY <1>1 DEF Inv, Lists, ListIsItems, Reached
<1>4. /\ items'[q] = Tail(s) /\ \A p \in List \ {q} : items'[p] = items[p]
      BY <1>1 DEF queueRemoveFirstElement, Inv, TypeOK
<1>5. /\ pc'[t] = "taken" /\ InUse(t)' /\ node'[t] = n
      /\ \A u \in Thread \ {t} : pc'[u] = pc[u] /\ node'[u] = node[u] /\ InUse(u)' = InUse(u)
      BY <1>1 DEF queueRemoveFirstElement, Goto, Hold, InUse, Inv, TypeOK
<1>6. ASSUME NEW p \in 1..Len(s) PROVE p = 1 \/ (p - 1 \in 1..(Len(s) - 1) /\ Tail(s)[p - 1] = s[p])
  <2>1. p # 1 => p - 1 \in 1..(Len(s) - 1) /\ (p - 1) + 1 = p
    <3> HIDE DEF s
    <3> QED BY <1>2
  <2> QED BY <1>2, <2>1
<1>7. "in" \in Thread /\ "processing" \in Thread /\ "out" \in Thread
      BY DEF Thread
<1>8. CASE t = "processing"
  <2>1. q = "queueIn" /\ "queueOut" \in List \ {q} /\ Carried = 0 /\ Carried' = 1
        BY <1>1, <1>5, <1>8 DEF Source, Carried, List, Consumer
  <2>2. /\ LenIn' = LenIn - 1 /\ LenIn = Len(s) /\ LenOut' = LenOut
        /\ items'["queueOut"] = items["queueOut"] /\ items'["queueIn"] = Tail(s)
        BY <1>2, <1>4, <2>1 DEF LenIn, LenOut
  <2>3. CASE walk \notin live
        BY <1>1, <2>3 DEF Ahead
  <2>4. CASE AtIn
    <3>1. PICK p \in 1..LenIn : walk = s[p] /\ c + LenIn - p + 1 <= length
          BY <2>1, <2>4 DEF AtIn
    <3>2. CASE p = 1
      <4>1. c + 1 + (LenIn - 1) <= length
            BY <3>1, <3>2, Numbers
      <4>2. AtProc'
            BY <1>1, <1>3, <1>5, <1>8, <2>2, <3>1, <3>2, <4>1 DEF AtProc
      <4> QED BY <4>2 DEF Ahead
    <3>3. CASE p # 1
      <4>1. p - 1 \in 1..LenIn' /\ walk' = items'["queueIn"][p - 1]
            BY <1>1, <1>6, <2>2, <3>1, <3>3
      <4>2. c + (LenIn - 1) - (p - 1) + 1 <= length
            BY <3>1, Numbers
      <4>3. AtIn'
            BY <1>1, <2>2, <4>1, <4>2 DEF AtIn
      <4> QED BY <4>3 DEF Ahead
    <3> QED BY <3>2, <3>3
  <2>5. CASE AtProc
        BY <1>1, <1>8, <2>5 DEF AtProc
  <2>6. CASE AtOut
    <3>1. PICK p \in 1..LenOut : /\ walk = items["queueOut"][p]
                                 /\ c + LenOut - p + 1 + Carried + LenIn <= length
          BY <2>6 DEF AtOut
    <3>2. c + LenOut - p + 1 + 1 + (LenIn - 1) <= length
          BY <2>1, <3>1, Numbers
    <3>3. AtOut'
          BY <1>1, <2>1, <2>2, <3>1, <3>2 DEF AtOut
    <3> QED BY <3>3 DEF Ahead
  <2>7. CASE AtDone
    <3>1. c + 1 + LenOut + 1 + (LenIn - 1) <= length
          BY <2>1, <2>7, Numbers DEF AtDone
    <3>2. AtDone'
          BY <1>1, <1>5, <1>7, <1>8, <2>1, <2>2, <2>7, <3>1 DEF AtDone
    <3> QED BY <3>2 DEF Ahead
  <2> QED BY <2>3, <2>4, <2>5, <2>6, <2>7 DEF Ahead
<1>9. CASE t = "out"
  <2>1. q = "queueOut" /\ "queueIn" \in List \ {q} /\ Carried' = Carried
        BY <1>1, <1>5, <1>7, <1>9 DEF Source, Carried, List, Consumer
  <2>2. /\ LenOut' = LenOut - 1 /\ LenOut = Len(s) /\ LenIn' = LenIn
        /\ items'["queueIn"] = items["queueIn"] /\ items'["queueOut"] = Tail(s)
        BY <1>2, <1>4, <2>1 DEF LenIn, LenOut
  <2>3. CASE walk \notin live
        BY <1>1, <2>3 DEF Ahead
  <2>4. CASE AtIn
    <3>1. AtIn'
          BY <1>1, <2>2, <2>4 DEF AtIn
    <3> QED BY <3>1 DEF Ahead
  <2>5. CASE AtProc
    <3>1. AtProc'
          BY <1>1, <1>5, <1>7, <1>9, <2>2, <2>5 DEF AtProc
    <3> QED BY <3>1 DEF Ahead
  <2>6. CASE AtOut
    <3>1. PICK p \in 1..LenOut : walk = s[p] /\ c + LenOut - p + 1 + Carried + LenIn <= length
          BY <2>1, <2>6 DEF AtOut
    <3>2. CASE p = 1
      <4>1. c + 1 + (LenOut - 1) + Carried + LenIn <= length
            BY <3>1, <3>2, Numbers
      <4>2. AtDone'
            BY <1>1, <1>3, <1>5, <1>9, <2>1, <2>2, <3>1, <3>2, <4>1 DEF AtDone
      <4> QED BY <4>2 DEF Ahead
    <3>3. CASE p # 1
      <4>1. p - 1 \in 1..LenOut' /\ walk' = items'["queueOut"][p - 1]
            BY <1>1, <1>6, <2>2, <3>1, <3>3
      <4>2. c + (LenOut - 1) - (p - 1) + 1 + Carried + LenIn <= length
            BY <3>1, Numbers
      <4>3. AtOut'
            BY <1>1, <2>1, <2>2, <4>1, <4>2 DEF AtOut
      <4> QED BY <4>3 DEF Ahead
    <3> QED BY <3>2, <3>3
  <2>7. CASE AtDone
        BY <1>1, <1>9, <2>7 DEF AtDone
  <2> QED BY <2>3, <2>4, <2>5, <2>6, <2>7 DEF Ahead
<1> QED BY <1>8, <1>9 DEF Consumer

\* The processing thread appends what it carries behind the walk.
LEMMA WalkLinked ==
    ASSUME Inv, AppendLink("processing"), Ahead
    PROVE  Ahead'
<1> USE QueueAssumption
<1> DEFINE s == items["queueOut"]  n == node["processing"]
<1>1. /\ "processing" \in Thread /\ "processing" \in Producer /\ "out" \in Thread
      /\ Target["processing"] = "queueOut" /\ "queueOut" \in List /\ "queueIn" \in List
      BY DEF Thread, Producer, Target, List
<1>2. /\ InUse("processing") /\ n \in Node /\ s \in Seq(Node)
      /\ UNCHANGED <<live, walk, c, length, node>>
      BY <1>1 DEF AppendLink, InUse, count, Inv, TypeOK, Hands, HandsFull
<1>3. /\ items'["queueOut"] = Append(s, n) /\ items'["queueIn"] = items["queueIn"]
      /\ ~InUse("processing")' /\ pc'["out"] = pc["out"]
      BY <1>1 DEF AppendLink, Goto, InUse, Inv, TypeOK
<1>4. /\ Len(Append(s, n)) = Len(s) + 1 /\ Len(s) \in Nat
      /\ \A i \in 1..Len(s) : Append(s, n)[i] = s[i]
      /\ Append(s, n)[Len(s) + 1] = n
      BY <1>2, AppendFacts
<1>5. /\ LenOut' = LenOut + 1 /\ LenOut = Len(s) /\ LenIn' = LenIn /\ Carried = 1 /\ Carried' = 0
      BY <1>2, <1>3, <1>4 DEF LenIn, LenOut, Carried
<1>6. CASE walk \notin live
      BY <1>2, <1>6 DEF Ahead
<1>7. CASE AtIn
  <2>1. AtIn'
        BY <1>2, <1>3, <1>5, <1>7 DEF AtIn
  <2> QED BY <2>1 DEF Ahead
<1>8. CASE AtProc
  <2>1. LenOut + 1 \in 1..(LenOut + 1) /\ c + (LenOut + 1) - (LenOut + 1) + 1 + 0 + LenIn <= length
    <3>1. c + 1 + LenIn <= length
          BY <1>8 DEF AtProc
    <3>2. LenIn \in Nat /\ LenOut \in Nat /\ c \in Nat /\ length \in Nat
          BY Numbers
    <3> QED BY <3>1, <3>2
  <2>2. walk' = items'["queueOut"][LenOut + 1]
        BY <1>2, <1>3, <1>4, <1>5, <1>8 DEF AtProc
  <2>3. AtOut'
        BY <1>2, <1>5, <2>1, <2>2 DEF AtOut
  <2> QED BY <2>3 DEF Ahead
<1>9. CASE AtOut
  <2>1. PICK p \in 1..LenOut : walk = s[p] /\ c + LenOut - p + 1 + Carried + LenIn <= length
        BY <1>9 DEF AtOut
  <2>2. p \in 1..(LenOut + 1) /\ c + (LenOut + 1) - p + 1 + 0 + LenIn <= length
        BY SMTT(30), <1>5, <2>1, Numbers
  <2>3. walk' = items'["queueOut"][p]
        BY <1>2, <1>3, <1>4, <1>5, <2>1
  <2>4. AtOut'
        BY <1>2, <1>5, <2>2, <2>3 DEF AtOut
  <2> QED BY <2>4 DEF Ahead
<1>10. CASE AtDone
  <2>1. c + 1 + (LenOut + 1) + 0 + LenIn <= length
        BY <1>5, <1>10, Numbers DEF AtDone
  <2>2. AtDone'
        BY <1>2, <1>3, <1>5, <1>10, <2>1 DEF AtDone
  <2> QED BY <2>2 DEF Ahead
<1> QED BY <1>6, <1>7, <1>8, <1>9, <1>10 DEF Ahead

\* The Node under the walk is freed, or another one.
LEMMA WalkFreed ==
    ASSUME Inv, NEW t \in Consumer, nodeFree(t), Ahead
    PROVE  Ahead'
<1>1. /\ t \in Thread /\ pc[t] = "taken" /\ InUse(t) /\ "out" \in Thread /\ "processing" \in Thread
      /\ UNCHANGED <<items, walk, c, length>> /\ live' = live \ {node[t]}
      BY Names DEF nodeFree, InUse, count, Thread
<1>2. /\ pc'[t] = "look" /\ ~InUse(t)'
      /\ \A u \in Thread \ {t} : pc'[u] = pc[u] /\ node'[u] = node[u] /\ InUse(u)' = InUse(u)
      BY <1>1 DEF nodeFree, Goto, Hold, InUse, Inv, TypeOK
<1>3. /\ LenIn' = LenIn /\ LenOut' = LenOut /\ Carried' \in {0, 1} /\ Carried' <= Carried
      BY <1>1, <1>2 DEF LenIn, LenOut, Carried
<1>4. CASE walk \notin live \/ walk = node[t]
      BY <1>1, <1>4 DEF Ahead
<1>5. CASE AtIn
  <2>1. AtIn'
        BY <1>1, <1>3, <1>5 DEF AtIn
  <2> QED BY <2>1 DEF Ahead
<1>6. CASE AtProc /\ walk # node[t]
  <2>1. AtProc'
        BY <1>1, <1>2, <1>3, <1>6 DEF AtProc
  <2> QED BY <2>1 DEF Ahead
<1>7. CASE AtOut
  <2>1. PICK p \in 1..LenOut : /\ walk = items["queueOut"][p]
                               /\ c + LenOut - p + 1 + Carried + LenIn <= length
        BY <1>7 DEF AtOut
  <2>2. c + LenOut - p + 1 + Carried' + LenIn <= length
        BY <1>3, <2>1, Numbers
  <2>3. AtOut'
        BY <1>1, <1>3, <2>1, <2>2 DEF AtOut
  <2> QED BY <2>3 DEF Ahead
<1>8. CASE AtDone /\ walk # node[t]
  <2>1. c + 1 + LenOut + Carried' + LenIn <= length
        BY <1>3, <1>8, Numbers DEF AtDone
  <2>2. AtDone'
        BY <1>1, <1>2, <1>3, <1>8, <2>1 DEF AtDone
  <2> QED BY <2>2 DEF Ahead
<1> QED BY <1>4, <1>5, <1>6, <1>7, <1>8 DEF Ahead

\* No list changes, and what is carried stays so.
LEMMA WalkQuiet ==
    ASSUME Inv, Ahead, UNCHANGED <<items, live, walk, c, length>>,
           InUse("processing")' = InUse("processing"),
           InUse("processing") => node'["processing"] = node["processing"],
           pc["out"] = "taken" => pc'["out"] = "taken" /\ node'["out"] = node["out"]
    PROVE  Ahead'
<1>1. LenIn' = LenIn /\ LenOut' = LenOut /\ Carried' = Carried
      BY DEF LenIn, LenOut, Carried
<1> QED BY <1>1 DEF Ahead, AtIn, AtProc, AtOut, AtDone

\* A step that writes next, or moves a Node, keeps HandNext.
LEMMA HandNextStep ==
    ASSUME Inv, HandNext, [Next]_vars
    PROVE  HandNext'
<1> SUFFICES ASSUME NEW u \in Consumer, pc'[u] \in {"taken", "append"}
             PROVE  next'[node'[u]] \in {first'[Source[u]], NODE_EMPTY}
    BY DEF HandNext
<1> USE QueueAssumption, Names
<1>1. /\ u \in Thread /\ Source[u] \in List
      /\ pc[u] \in {"taken", "append"} => /\ InUse(u) /\ node[u] \in Node /\ node[u] \in live
                                         /\ next[node[u]] \in {first[Source[u]], NODE_EMPTY}
      BY DEF HandNext, InUse, Inv, Hands, HandsFull, NodesInOnePlace, Held
<1>2. CASE UNCHANGED <<first, next, node>> /\ pc[u] \in {"taken", "append"}
      BY <1>1, <1>2
<1>3. CASE InRead
  <2>1. pc[u] \in {"taken", "append"} /\ node'[u] = node[u] /\ first' = first /\ u # "in"
        BY <1>1, <1>3 DEF InRead, Goto, Hold, Consumer, lists, Inv, TypeOK
  <2>2. next'[node[u]] = next[node[u]]
        BY <1>1, <1>3, <2>1 DEF InRead, lists, Inv, TypeOK
  <2> QED BY <1>1, <2>1, <2>2
<1>4. CASE \E t \in Consumer : nodeFree(t)
  <2> PICK t \in Consumer : nodeFree(t)
      BY <1>4
  <2>1. /\ u # t /\ pc'[u] = pc[u] /\ node'[u] = node[u] /\ UNCHANGED <<first, next>>
        BY <1>1 DEF nodeFree, Goto, Hold, Inv, TypeOK
  <2> QED BY <1>1, <2>1
<1>5. CASE \E t \in Producer : AppendClear(t)
  <2> PICK t \in Producer : AppendClear(t)
      BY <1>5
  <2>1. /\ u # t /\ pc'[u] = pc[u] /\ UNCHANGED <<node, first>> /\ InUse(t)
        /\ next' = [next EXCEPT ![node[t]] = NODE_EMPTY] /\ t \in Thread
        BY <1>1 DEF AppendClear, Goto, InUse, Inv, TypeOK
  <2>2. node[u] # node[t]
        BY <1>1, <2>1 DEF Inv, NodesInOnePlace
  <2> QED BY <1>1, <2>1, <2>2 DEF Inv, TypeOK
<1>6. CASE \E t \in Producer : AppendLink(t)
  <2> PICK t \in Producer : AppendLink(t)
      BY <1>6
  <2>1. /\ u # t /\ pc'[u] = pc[u] /\ node' = node /\ t \in Thread /\ Target[t] \in List
        BY <1>1 DEF AppendLink, Goto, Inv, TypeOK
  <2>2. CASE pc[t] = "setFirst"
    <3>1. first[Target[t]] = NODE_EMPTY
          BY <2>1, <2>2 DEF Inv, Hands, Cleared, Lists, ListIsItems, Reached
    <3>2. next' = next /\ first' = [first EXCEPT ![Target[t]] = node[t]]
          BY <2>2 DEF AppendLink
    <3> QED BY <1>1, <2>1, <3>1, <3>2 DEF Inv, TypeOK
  <2>3. CASE pc[t] = "link"
    <3> DEFINE s == items[Target[t]]
    <3>1. s # <<>> /\ s \in Seq(Node) /\ last[Target[t]] = s[Len(s)]
          BY <2>1, <2>3 DEF Inv, TypeOK, Hands, Cleared, Lists, LastKnown, End
    <3>2. s[Len(s)] \in Range(s)
      <4>1. Len(s) \in 1..Len(s) /\ DOMAIN s = 1..Len(s)
            BY <3>1
      <4> QED BY <4>1 DEF Range
    <3>3. node[u] # last[Target[t]]
          BY <1>1, <2>1, <3>1, <3>2 DEF Inv, NodesInOnePlace
    <3>4. first' = first /\ next' = [next EXCEPT ![last[Target[t]]] = node[t]]
          BY <2>3 DEF AppendLink
    <3> QED BY <1>1, <2>1, <3>3, <3>4 DEF Inv, TypeOK
  <2> QED BY <2>2, <2>3 DEF AppendLink
<1>7. CASE \E t \in Producer : AppendLast(t)
  <2> PICK t \in Producer : AppendLast(t)
      BY <1>7
  <2>1. /\ u # t /\ pc'[u] = pc[u] /\ node'[u] = node[u] /\ UNCHANGED <<first, next>>
        BY <1>1 DEF AppendLast, Goto, Hold, Inv, TypeOK
  <2> QED BY <1>1, <2>1
<1>8. CASE \E t \in Consumer : queueRemoveFirstElement(t)
  <2> PICK t \in Consumer : queueRemoveFirstElement(t)
      BY <1>8
  <2> DEFINE q == Source[t]  n == first[q]
  <2>1. /\ q \in List /\ next' = next
        /\ first' = [first EXCEPT ![q] = IF n = NODE_EMPTY THEN n ELSE next[n]]
        /\ node' = [node EXCEPT ![t] = n] /\ pc' = [pc EXCEPT ![t] = "taken"]
        BY DEF queueRemoveFirstElement, Goto, Hold
  <2>2. n # NODE_EMPTY
    <3>1. items[q] # <<>> /\ items[q] \in Seq(Node)
          BY <2>1 DEF queueRemoveFirstElement, Inv, TypeOK, Hands, LookKnown
    <3>2. n = items[q][1]
          BY <2>1, <3>1 DEF Inv, Lists, ListIsItems, Reached
    <3> QED BY <3>1, <3>2, TailFacts
  <2>3. CASE u = t
        BY <1>1, <2>1, <2>2, <2>3 DEF Inv, TypeOK
  <2>4. CASE u # t
    <3>1. Source[u] # q
          BY <2>4
    <3>2. first'[Source[u]] = first[Source[u]] /\ node'[u] = node[u] /\ pc'[u] = pc[u]
          BY <1>1, <2>1, <2>4, <3>1 DEF Inv, TypeOK
    <3> QED BY <1>1, <2>1, <3>2
  <2> QED BY <2>3, <2>4
<1>9. CASE \E q \in List : waitForThreads(q)
      BY <1>1, <1>9 DEF waitForThreads
<1>10. CASE InLoop \/ CountNext \/ CountEnd \/ CountFreed \/ ProcAnswer
              \/ (\E t \in Consumer : Look(t)) \/ (\E t \in Thread : Stop(t)) \/ UNCHANGED vars
  <2>1. UNCHANGED lists
        BY <1>10 DEF InLoop, CountNext, CountEnd, CountFreed, ProcAnswer, Look, Stop, vars
  <2>2. pc[u] \in {"taken", "append"}
    <3>1. CASE InLoop \/ CountNext \/ CountEnd \/ CountFreed
          BY <1>1, <3>1 DEF InLoop, CountNext, CountEnd, CountFreed, Goto, Consumer, Inv, TypeOK
    <3>2. CASE ProcAnswer
          BY <1>1, <3>2 DEF ProcAnswer, Goto, Inv, TypeOK
    <3>3. CASE \E t \in Consumer : Look(t)
          BY <1>1, <3>3 DEF Look, Goto, Inv, TypeOK
    <3>4. CASE \E t \in Thread : Stop(t)
          BY <1>1, <3>4 DEF Stop, Goto, Inv, TypeOK
    <3>5. CASE UNCHANGED vars
          BY <3>5 DEF vars
    <3> QED BY <1>10, <3>1, <3>2, <3>3, <3>4, <3>5
  <2> QED BY <1>2, <2>1, <2>2 DEF lists
<1> QED BY <1>3, <1>4, <1>5, <1>6, <1>7, <1>8, <1>9, <1>10
        DEF Next, InThread, InCount, ProcThread, Consume, queueAppend, Producer, Consumer

LEMMA WalkStep ==
    ASSUME Inv, HandNext, Walked, [Next]_vars
    PROVE  Walked'
<1> USE QueueAssumption, Names
<1>1. CASE UNCHANGED <<counted, c, length>> /\ pc'["in"] # "count"
      BY <1>1, Numbers DEF Walked
<1>2. CASE CountNext
      BY <1>2, WalkOn
<1>3. ASSUME NEW q \in List, Count(q), UNCHANGED lists
      PROVE  Walked'
  <2> SUFFICES ASSUME q = "queueIn"
               PROVE  c' <= length' /\ Ahead'
      BY <1>3 DEF Walked, Count
  <2>1. /\ c' = 0 /\ length' = LenIn /\ walk' = first["queueIn"] /\ LenIn' = LenIn
        /\ items' = items /\ live' = live
        BY <1>3 DEF Count, LenIn, lists
  <2>2. first["queueIn"] = NODE_EMPTY \/ (1 \in 1..LenIn /\ first["queueIn"] = items["queueIn"][1])
        BY Successor DEF LenIn
  <2>3. 0 <= LenIn /\ 0 + LenIn - 1 + 1 <= LenIn
        BY Numbers
  <2>4. NODE_EMPTY \notin live'
        BY <2>1 DEF Inv, TypeOK
  <2>5. 1 \in 1..LenIn /\ first["queueIn"] = items["queueIn"][1] => AtIn'
        BY <2>1, <2>3 DEF AtIn
  <2> QED BY <2>1, <2>2, <2>3, <2>4, <2>5 DEF Ahead
<1>4. CASE InLoop
      BY <1>3, <1>4 DEF InLoop, List
<1>5. CASE CountEnd
  <2>1. CASE UNCHANGED count /\ (Goto("in", "loop") \/ Goto("in", "read"))
        BY <1>1, <2>1 DEF count, Goto, Thread, Inv, TypeOK
  <2>2. CASE Count("queueOut")
        BY <1>3, <1>5, <2>2 DEF CountEnd, List
  <2> QED BY <1>5, <2>1, <2>2 DEF CountEnd
<1>6. CASE CountFreed
  <2>1. pc'["in"] # "count" /\ c' = 0 /\ length' = length
        BY <1>6 DEF CountFreed, Goto, Thread, Inv, TypeOK
  <2> QED BY <2>1, Numbers DEF Walked
<1>7. CASE InRead \/ queueAppend("in") \/ Stop("in") \/ (\E q \in List : waitForThreads(q))
  <2>1. pc["in"] # "count" /\ UNCHANGED count
        BY <1>7 DEF InRead, queueAppend, AppendClear, AppendLink, AppendLast, Stop, waitForThreads,
                    Thread
  <2>2. pc'["in"] # "count"
        BY <1>7, <2>1 DEF InRead, queueAppend, AppendClear, AppendLink, AppendLast, Stop,
                    waitForThreads, Goto, Thread, Inv, TypeOK
  <2> QED BY <1>1, <2>1, <2>2 DEF count
<1>8. ASSUME UNCHANGED count, pc'["in"] = pc["in"], Ahead => Ahead'
      PROVE  Walked'
      BY <1>8 DEF count, Walked
<1>9. "in" \in Thread /\ "processing" \in Thread /\ "out" \in Thread
      BY DEF Thread
<1>10. CASE (\E t \in Consumer : queueRemoveFirstElement(t)) \/ (\E t \in Consumer : nodeFree(t))
            \/ AppendLink("processing")
  <2>1. UNCHANGED count /\ pc'["in"] = pc["in"]
    <3>1. CASE \E t \in Consumer : queueRemoveFirstElement(t)
          BY <1>9, <3>1 DEF queueRemoveFirstElement, Goto, Consumer, Inv, TypeOK
    <3>2. CASE \E t \in Consumer : nodeFree(t)
          BY <1>9, <3>2 DEF nodeFree, Goto, Consumer, Inv, TypeOK
    <3>3. CASE AppendLink("processing")
          BY <1>9, <3>3 DEF AppendLink, Goto, Inv, TypeOK
    <3> QED BY <1>10, <3>1, <3>2, <3>3
  <2> QED BY <1>8, <1>10, <2>1, WalkTaken, WalkFreed, WalkLinked
<1>11. CASE ProcAnswer \/ (\E t \in Consumer : Look(t)) \/ (\E t \in Thread \ {"in"} : Stop(t))
            \/ AppendClear("processing") \/ AppendLast("processing") \/ UNCHANGED vars
  <2>1. UNCHANGED count /\ UNCHANGED <<items, live>>
        BY <1>11 DEF ProcAnswer, Look, Stop, AppendClear, AppendLast, vars, lists
  <2>2. /\ pc'["in"] = pc["in"]
        /\ InUse("processing")' = InUse("processing")
        /\ InUse("processing") => node'["processing"] = node["processing"]
        /\ pc["out"] = "taken" => pc'["out"] = "taken" /\ node'["out"] = node["out"]
    <3>1. CASE ProcAnswer
          BY <1>9, <3>1 DEF ProcAnswer, Goto, InUse, lists, Inv, TypeOK
    <3>2. CASE \E t \in Consumer : Look(t)
          BY <1>9, <3>2 DEF Look, Goto, InUse, lists, Consumer, Inv, TypeOK
    <3>3. CASE \E t \in Thread \ {"in"} : Stop(t)
          BY <1>9, <3>3 DEF Stop, Goto, InUse, lists, Inv, TypeOK
    <3>4. CASE AppendClear("processing")
          BY <1>9, <3>4 DEF AppendClear, Goto, InUse, Inv, TypeOK
    <3>5. CASE AppendLast("processing")
          BY <1>9, <3>5 DEF AppendLast, Goto, Hold, InUse, Inv, TypeOK
    <3>6. CASE UNCHANGED vars
          BY <3>6 DEF vars, lists, InUse
    <3> QED BY <1>11, <3>1, <3>2, <3>3, <3>4, <3>5, <3>6
  <2>3. Ahead => Ahead'
        BY <2>1, <2>2, WalkQuiet DEF count
  <2> QED BY <1>8, <2>1, <2>2, <2>3
<1> QED BY <1>2, <1>4, <1>5, <1>6, <1>7, <1>10, <1>11
        DEF Next, InThread, InCount, ProcThread, Consume, queueAppend, Consumer

----------------------------------------------------------------------------
\* The variables keep their types, and a mutex is locked exactly by the thread that is
\* inside its queueAppend.
THEOREM QueueTypeCorrect == Spec => []TypeOK
<1>1. Inv => TypeOK
      BY DEF Inv
<1> QED BY <1>1, QueueInvariant, PTL

\* The list reached from first is the sequence of what was appended and not yet
\* removed, for any number of Nodes and at every write: readers without the lock see
\* no other.  Outside of queueAppend last is the end of a list that is not empty.
THEOREM ListsAreSequences == Spec => []ListsHoldItems
<1>1. Inv => ListIsItems
      BY DEF Inv, Lists
<1>2. Inv => LastIsTheEnd
  <2> SUFFICES ASSUME Inv, NEW q \in List, owner[q] = "nobody", items[q] # <<>>
               PROVE  last[q] = items[q][Len(items[q])]
      BY DEF LastIsTheEnd
  <2>1. pc[Writer[q]] # "setLast"
        BY Names DEF Inv, TypeOK, Appends
  <2> QED BY <2>1 DEF Inv, Lists, LastKnown, End
<1>3. Inv => ListsHoldItems
      BY <1>1, <1>2 DEF ListsHoldItems
<1> QED BY <1>3, QueueInvariant, PTL

\* No Node is in two lists, twice in one, or in a list and in a thread's hands, and the
\* allocated Nodes are those that are somewhere: none is lost, none freed too early.
THEOREM NodesStayInOnePlace == Spec => []NodesInOnePlace
<1>1. Inv => NodesInOnePlace
      BY DEF Inv
<1> QED BY <1>1, QueueInvariant, PTL

\* A consumer that saw an element without the mutex takes one.
THEOREM LooksAreRight == Spec => []LookStays
<1>1. Inv => LookStays
  <2> SUFFICES ASSUME Inv, NEW t \in Consumer, pc[t] = "remove"
               PROVE  first[Source[t]] # NODE_EMPTY
      BY DEF LookStays
  <2>1. /\ items[Source[t]] # <<>> /\ items[Source[t]] \in Seq(Node) /\ Source[t] \in List
        BY Names DEF Inv, TypeOK, Hands, LookKnown
  <2>2. first[Source[t]] = items[Source[t]][1]
        BY <2>1 DEF Inv, Lists, ListIsItems, Reached
  <2> QED BY <2>1, <2>2, TailFacts, QueueAssumption
<1> QED BY <1>1, QueueInvariant, PTL

\* What is counted of queueIn is never more than it held when the count began, though
\* the walk goes without the mutex over Nodes that are moved to queueOut behind its
\* back: for any number of Nodes, appended, moved and freed in any order meanwhile.
THEOREM CountsAreBounded == Spec => []CountIsBounded
<1>1. Init => CountInv
  <2>1. Init => HandNext
        BY DEF Init, HandNext, Consumer, Thread
  <2>2. Init => Walked
        BY DEF Init, Walked, Thread
  <2> QED BY <2>1, <2>2, Initial DEF CountInv
<1>2. CountInv /\ [Next]_vars => CountInv'
      BY Step, HandNextStep, WalkStep DEF CountInv
<1>3. CountInv => CountIsBounded
      BY DEF CountInv, Walked, CountIsBounded
<1> QED BY <1>1, <1>2, <1>3, PTL DEF Spec
====
