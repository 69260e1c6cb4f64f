----------------------------- MODULE MCSockets -----------------------------
(* Small instances of Sockets for TLC.                                     *)
EXTENDS Sockets

CONSTANTS h1, h2

Symmetry == Permutations({h1, h2})
=============================================================================
