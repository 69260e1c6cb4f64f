----------------------------- MODULE MCFdEvent -----------------------------
(* Small instances of FdEvent for TLC.                                     *)
EXTENDS FdEvent

CONSTANTS f1, f2, d1, d2

DescriptorSymmetry == Permutations({d1, d2})
=============================================================================
