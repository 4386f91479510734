---------------------------- MODULE MCRopeHistory ----------------------------
(* Instances of RopeHistory for TLC. *)
EXTENDS RopeHistory, TLC

CONSTANTS a, b

FileSymmetry == Permutations(Files)
=============================================================================
