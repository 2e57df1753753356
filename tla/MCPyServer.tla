----------------------------- MODULE MCPyServer -----------------------------
(* PyServer for TLC: one identity for each server and child there can be.   *)
EXTENDS PyServer

CONSTANTS c1, c2

MCCallers == {c1, c2}
MCServers == 1..2
MCChildren == 1..2
=============================================================================
