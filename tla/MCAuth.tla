------------------------------- MODULE MCAuth -------------------------------
(* Small instances of Auth for TLC.                                        *)
EXTENDS Auth

CONSTANTS t1, t2, c1, c2
=============================================================================
