--------------------------- MODULE MCCedrusFormat ---------------------------
(* Instances of CedrusFormat for TLC. *)
EXTENDS CedrusFormat, TLC

CONSTANTS b1, b2
=============================================================================
