----------------------------- MODULE MCToolCall -----------------------------
(***************************************************************************)
(* An instance of ToolCall for TLC.  Calls share nothing, so one is enough *)
(* and the clock may run over its whole length.                            *)
(***************************************************************************)
EXTENDS ToolCall

CONSTANT c1
=============================================================================
