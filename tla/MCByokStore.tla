---------------------------- MODULE MCByokStore ----------------------------
(***************************************************************************)
(* A small instance of ByokStore: one text besides the blank one, two      *)
(* generated blocks.                                                       *)
(***************************************************************************)
EXTENDS ByokStore

CONSTANTS blank, text, b1, b2
=============================================================================
