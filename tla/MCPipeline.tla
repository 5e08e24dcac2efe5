----------------------------- MODULE MCPipeline ----------------------------
(* Instances of Pipeline small enough for TLC: the blocks of each file.    *)
EXTENDS Pipeline

CONSTANTS c1, c2, i1, i2

TwoAndOne == <<2, 1>>
OneTwoOne == <<1, 2, 1>>
=============================================================================
