---- MODULE MCNames ----
(* Instances of Names for TLC: names over two letters with labels of one and two  *)
(* characters, and every table of one or two zones, nested and unrelated ones.     *)
EXTENDS Names

a == 97
b == 98

MCName == {Root, <<a>>, <<b>>, <<a, b>>, <<b, Dot, a>>, <<a, b, Dot, a>>,
           <<a, Dot, b, Dot, a>>, <<b, Dot, b, a, Dot, b>>}

MCZoneTable ==
    LET Z == MCName \ {Root} IN {<<x>> : x \in Z} \cup (Z \X Z)
====
