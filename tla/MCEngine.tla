------------------------------ MODULE MCEngine ------------------------------
(* Engine for TLC: two tunings of one toolchain setting, with one worker and  *)
(* with two; two toolchains that a resolution may answer; and a provider that *)
(* is replaced by a build whose contract this router cannot bind to and whose *)
(* harness has another command and speaks another protocol.                   *)
EXTENDS Engine

CONSTANTS c1, c2, a1, a2, k, t1, t2, b1, b2

MCCallers == {c1, c2}
MCAsks == {a1, a2}
MCKeys == {k}
MCKeyOf == [a \in MCAsks |-> k]
MCWorkersOf == [a \in MCAsks |-> IF a = a1 THEN 1 ELSE 2]
MCTools == {t1, t2}
MCBuilds == {b1, b2}
MCShape == [b \in MCBuilds |-> IF b = b1 THEN 1 ELSE 2]
MCProtocol == [b \in MCBuilds |-> IF b = b1 THEN 1 ELSE 2]
MCBindable == {b1}
MCPools == 1..2
=============================================================================
