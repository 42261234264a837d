---- MODULE Resolver ----
(***************************************************************************)
(* DnsQuery together with the forwarder and the network between them:      *)
(* every question has a socket of its own, whose port the system chooses,  *)
(* and the answer to it may come in time, late, or never.  Sources:        *)
(* askForwarder in mpDNSlib/src/dns/dns.c and mpDNSlib/src/net/udp.c; the  *)
(* system and the network are modelled from their use there.               *)
(*                                                                         *)
(* askForwarder compares neither the sender nor the id of what it reads    *)
(* with the question: that it gets the answer to its own question depends  *)
(* on the ports alone.                                                     *)
(***************************************************************************)
EXTENDS DnsQuery

CONSTANTS
    Port,           \* the ports that the system gives to the sockets
    NoPort

ASSUME ResolverAssumption == NoPort \notin Port

VARIABLES
    port,       \* the port of askForwarder's socket
    sent,       \* the question went to the forwarder
    held,       \* the ports of the sockets that were left open
    answers,    \* the forwarder's answers on their way: the port and the question
    got         \* the question whose answer was sent to the client

network      == <<port, sent, held, answers, got>>
resolverVars == <<vars, network>>

ResolverInit ==
    Init /\ port = NoPort /\ sent = FALSE /\ held = {} /\ answers = {} /\ got = 0

----------------------------------------------------------------------------
(* askForwarder and udp.c                                                  *)

Forwarding == pc = "forward" /\ fault = "none"

\* The system binds a new socket to a port that no socket has.
OpenSocket ==
    /\ Forwarding /\ port = NoPort /\ sockets < MaxSockets
    /\ \E p \in Port \ held : port' = p
    /\ UNCHANGED <<vars, sent, held, answers, got>>

\* No descriptor is left, and the write to socket -1 fails.
NoSocket ==
    /\ port = NoPort /\ sockets = MaxSockets
    /\ ForwarderFails
    /\ UNCHANGED network

\* Mutant: the socket is not closed after an answer either.
CloseNever == held' = held \cup {port} /\ port' = NoPort /\ sent' = FALSE

CloseSocket == port' = NoPort /\ sent' = FALSE /\ UNCHANGED held

\* Mutant: the socket is closed when no answer comes.
CloseAlways == port' = NoPort /\ sent' = FALSE /\ UNCHANGED held

\* Whatever else fails, the socket stays open.
LeaveSocket == held' = held \cup {port} /\ port' = NoPort /\ sent' = FALSE

WriteFails ==
    /\ port # NoPort /\ ~sent
    /\ ForwarderFails /\ LeaveSocket
    /\ UNCHANGED <<answers, got>>

writeUdp ==
    /\ Forwarding /\ port # NoPort /\ ~sent /\ sent' = TRUE
    /\ answers' = answers \cup {[to |-> port, question |-> queries]}
    /\ UNCHANGED <<vars, port, held, got>>

\* select() sees an answer at the port, the first that came.
readUdp ==
    /\ port # NoPort /\ sent
    /\ \E a \in answers :
        /\ a.to = port /\ answers' = answers \ {a} /\ got' = a.question
        /\ \/ ForwarderAnswers /\ CloseSocket
           \/ ForwarderAnswerLost /\ LeaveSocket

\* It sees none for five seconds; the answer may still be on its way.
Timeout ==
    /\ port # NoPort /\ sent
    /\ ForwarderFails /\ LeaveSocket
    /\ UNCHANGED <<answers, got>>

\* The question or its answer is lost, the forwarder sends none, or the answer comes to
\* a port without a socket, or with one that nobody reads.
Lose ==
    /\ \E a \in answers : answers' = answers \ {a}
    /\ UNCHANGED <<vars, port, sent, held, got>>

AskForwarder == NoSocket \/ WriteFails \/ readUdp \/ Timeout

----------------------------------------------------------------------------

\* The steps of processDNSquery that DnsQuery has in full.
Local ==
    /\ fault = "none" /\ pc # "forward"
    /\ Advance \/ \E d \in Datagram : Call(d)
    /\ UNCHANGED network

ResolverAdvance ==
    \/ OpenSocket \/ writeUdp
    \/ fault = "none" /\ (NoSocket \/ WriteFails \/ Timeout)
    \/ pc # "forward" /\ Advance /\ UNCHANGED network

ResolverNext ==
    \/ Local \/ Lose
    \/ OpenSocket \/ writeUdp
    \/ fault = "none" /\ AskForwarder

ResolverSpec == ResolverInit /\ [][ResolverNext]_resolverVars

\* The thread runs, and select() ends the wait; no answer has to come.
FairResolver == ResolverSpec /\ WF_resolverVars(ResolverAdvance)

----------------------------------------------------------------------------
(* Properties.                                                             *)

\* What the client gets from the forwarder is the answer to its own question, however
\* late the answers to earlier questions come.  It is the socket left open after a
\* timeout that keeps a late answer's port from being given to a later question.
AnswersMatch == reply = "forwarded" => got = queries

\* A descriptor is lost only with a question that stays without an answer, and one at
\* most with each: a forwarder that answers can be asked for ever.
OnlyFailuresLeaveSockets ==
    [][held' # held => (coded'.rcode = "NAME_ERROR" /\ reply' = "local") \/ fault' # "none"]_resolverVars
====
