------------------------------- MODULE MCPies -------------------------------
(* An instance of Pies for TLC: Mario waits where the pies come from. *)
EXTENDS Pies
=============================================================================
