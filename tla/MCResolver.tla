---- MODULE MCResolver ----
(* A small instance of Resolver for TLC: two ports for two sockets. *)
EXTENDS Resolver
====
