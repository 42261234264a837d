---- MODULE MCQueue ----
(* Instances of Queue for TLC: Nodes are interchangeable addresses. *)
EXTENDS Queue, TLC

CONSTANTS n1, n2, n3

====
