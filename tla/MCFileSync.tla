----------------------------- MODULE MCFileSync -----------------------------
(* Small instances of FileSync for TLC.                                    *)
EXTENDS FileSync

CONSTANTS s1, s2, p1, p2

Symmetry == Permutations({s1, s2})
=============================================================================
