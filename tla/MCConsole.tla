------------------------------ MODULE MCConsole ------------------------------
(* Instances of Console for TLC.                                            *)
EXTENDS Console

CONSTANTS d1, d2, v1, v2
=============================================================================
