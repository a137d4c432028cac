----------------------------- MODULE MCFlowDemo -----------------------------
(***************************************************************************)
(* An instance of FlowDemo for TLC: two flows one after the other or       *)
(* overlapping, with two logins or reloads between them.                   *)
(***************************************************************************)
EXTENDS FlowDemo
=============================================================================
