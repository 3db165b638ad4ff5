------------------------------ MODULE MCPacing ------------------------------
(* One job and its observers, for TLC. *)
EXTENDS Pacing
=============================================================================
