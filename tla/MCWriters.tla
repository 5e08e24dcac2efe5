----------------------------- MODULE MCWriters ------------------------------
(* Instances of Writers for TLC: sizes at, below and above a limit of      *)
(* 200, which a second file's offset reaches too, and names of one and of  *)
(* two bytes.                                                              *)
EXTENDS Writers

MCFiles == [name : {"a"}, len : {1}, csize : {0, 168, 169, 199, 200}, usize : {0, 199, 200}]
             \cup [name : {"bb"}, len : {2}, csize : {0, 7}, usize : {7}]
=============================================================================
