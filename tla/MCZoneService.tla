---- MODULE MCZoneService ----
(* An instance of ZoneService for TLC, with the tables of MCZoneAdmin. *)
EXTENDS ZoneService, MCZoneAdmin
====
