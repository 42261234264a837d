---- MODULE MCZoneAdmin ----
(* Instances of ZoneAdmin for TLC.  Two of the three zone names share a table, for *)
(* checkDomainName, whose "." matches any character, takes them both.             *)
EXTENDS ZoneAdmin, TLC

CONSTANTS a1, a2, ab_dot_cd, ab_under_cd, ef

MCTableOf == [n \in Name |-> IF n = ef THEN "ef_RR" ELSE "ab_cd_RR"]

\* The requests are alike, and so are the two names of one table.
Swap(x, y) == {(x :> x @@ y :> y), (x :> y @@ y :> x)}
Alike == {f @@ g : f \in Swap(a1, a2), g \in Swap(ab_dot_cd, ab_under_cd)}
====
