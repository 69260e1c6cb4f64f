--------------------------- MODULE MCDescriptors ---------------------------
(* A small instance of Descriptors for TLC.                                *)
EXTENDS Descriptors

CONSTANTS a, b, c
=============================================================================
