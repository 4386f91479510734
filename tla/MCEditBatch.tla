----------------------------- MODULE MCEditBatch -----------------------------
(* Instances of EditBatch for TLC. *)
EXTENDS EditBatch, TLC

CONSTANTS b1, b2, t1, e1
=============================================================================
