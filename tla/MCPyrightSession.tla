-------------------------- MODULE MCPyrightSession --------------------------
(* Instances of PyrightSession for TLC. *)
EXTENDS PyrightSession

CONSTANTS r1, a1
=============================================================================
