------------------------------ MODULE MCPatcher ------------------------------
(* Patcher with a short channel: the bounds are in the configurations.       *)
EXTENDS Patcher
=============================================================================
