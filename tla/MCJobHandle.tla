---------------------------- MODULE MCJobHandle -----------------------------
(* Instances of JobHandle small enough for TLC. *)
EXTENDS JobHandle

CONSTANTS w1, w2, p1
=============================================================================
