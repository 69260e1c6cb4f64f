---------------------------- MODULE MCTransport ----------------------------
(* Small instances of Transport for TLC.                                   *)
EXTENDS Transport, TLC

CONSTANTS t1, t2

Symmetry == Permutations({t1, t2})
=============================================================================
