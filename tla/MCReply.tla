---- MODULE MCReply ----
(* Instances of Reply for TLC: results of up to three rows, questions with each of   *)
(* the flags, a SOA memory that one of the rows does not fit into, and owner names   *)
(* that fill their place in a record, and that are one byte too long for it.         *)
EXTENDS Reply

a == 97
b == 98

short == [name |-> <<a>>, host |-> <<b, Dot, a>>, mail |-> <<b>>,
          address |-> <<192, 168, 0, 1>>, ttl |-> 70000, preference |-> 10,
          number |-> <<1, 256, 65536, 16777216, 300>>]
long  == [name |-> <<a, b, Dot, b>>, host |-> <<a>>, mail |-> <<b, Dot, a>>,
          address |-> <<10, 0, 255, 2>>, ttl |-> 0, preference |-> 65535,
          number |-> <<5, 4, 3, 2, 1>>]
wide  == [short EXCEPT !.name = [i \in 1..18 |-> IF i % 6 = 0 /\ i < 18 THEN Dot ELSE b]]

MCRow    == {short, long, wide}
MCResult == UNION {[1..n -> {short, long}] : n \in 0..3} \cup {<<wide>>, <<long, wide>>}

MCRequest ==
    {<<1, 2, flags, reserved, 0, 1, 0, 0, 0, 0, 0, extra>> \o <<1, a, 0, 0, 1, 0, 1>> :
        flags \in {0, 1}, reserved \in {0, 16, 32}, extra \in {0, 1}}
====
