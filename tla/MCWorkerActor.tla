--------------------------- MODULE MCWorkerActor ---------------------------
(* WorkerActor for TLC: two request bodies, so that an operation number can *)
(* be repeated with its own body or with another.                           *)
EXTENDS WorkerActor

CONSTANTS b1, b2

MCBodies == {b1, b2}
=============================================================================
