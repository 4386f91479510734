--------------------------- MODULE MCLspTransport ---------------------------
(* Instances of LspTransport for TLC. *)
EXTENDS LspTransport

CONSTANTS q1, q2
=============================================================================
