------------------------------- MODULE MCUsb -------------------------------
(* Small instances of Usb for TLC.                                         *)
EXTENDS Usb
=============================================================================
