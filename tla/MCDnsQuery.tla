---- MODULE MCDnsQuery ----
(***************************************************************************)
(* Small instances of DnsQuery for TLC; the bounds are in the .cfg files.  *)
(***************************************************************************)
EXTENDS DnsQuery
====
