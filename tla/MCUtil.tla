------------------------------- MODULE MCUtil -------------------------------
(* An instance of Util small enough for TLC. *)
EXTENDS Util

CONSTANTS v1, v2, s1, s2, t1, t2, t3, p1, p2, c1, c2
=============================================================================
