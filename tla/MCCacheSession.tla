--------------------------- MODULE MCCacheSession ---------------------------
(* Two preparations, each in a process of its own and with any recipe.  All *)
(* recipes publish the same marker, so that only the identity beside it     *)
(* tells them apart: r1 and r2 differ in their commands, and r2 requires no *)
(* entry; r3 has no command, no required entry and no artifact.             *)
EXTENDS CacheSession

MCHomeOf == [s \in Sessions |-> IF s = "s2" THEN "p2" ELSE "p1"]
MCMarkerOf == [r \in Recipes |-> "m"]
MCArtifactOf == [r \in Recipes |-> IF r = "r3" THEN None ELSE "a"]
MCStepsOf == [r \in Recipes |-> CASE r = "r1" -> 2 [] r = "r2" -> 1 [] r = "r3" -> 0]
=============================================================================
