---- MODULE RequestRelay ----
(***************************************************************************)
(* What the mpDNS servers promise to their clients, without threads,       *)
(* queues and locks: datagrams are numbered in the order in which they are *)
(* read from the socket, every accepted request is forgotten exactly once, *)
(* with at most one reply.  The daemon's replies leave in the order of     *)
(* arrival, those of the Win32 server in any order.                        *)
(***************************************************************************)
EXTENDS Integers, Sequences, Functions

CONSTANT Ordered    \* replies leave in the order of arrival

VARIABLES
    received,   \* number of datagrams read so far; the last one has this number
    pending,    \* accepted requests that are neither answered nor given up
    replies     \* the requests answered, in the order the replies were sent

vars == <<received, pending, replies>>

Init ==
    /\ received = 0
    /\ pending = {}
    /\ replies = <<>>

\* A datagram is read, and accepted or refused.
Take ==
    /\ received' = received + 1
    /\ \/ pending' = pending \cup {received + 1}
       \/ pending' = pending
    /\ UNCHANGED replies

\* A pending request is answered; in order, it arrived after all that were answered.
Reply(r) ==
    /\ Ordered => \A s \in Range(replies) : s < r
    /\ replies' = Append(replies, r)
    /\ pending' = pending \ {r}
    /\ UNCHANGED received

\* Requests are given up: no answer, a failed send, or the end of the server.
GiveUp(lost) ==
    /\ pending' = pending \ lost
    /\ UNCHANGED <<received, replies>>

Next ==
    \/ Take
    \/ \E r \in pending : Reply(r)
    \/ \E lost \in SUBSET pending : GiveUp(lost)

Spec == Init /\ [][Next]_vars
====
