----------------------------- MODULE MCInstall -----------------------------
(* Install for TLC: two calls in one process and one in another.            *)
EXTENDS Install, TLC

CONSTANTS c1, c2, c3, p1, p2

MCCalls == {c1, c2, c3}
MCProcs == {p1, p2}
Home(c) == IF c = c3 THEN p2 ELSE p1
HomeSymmetry == Permutations({c1, c2})
=============================================================================
