------------------------------ MODULE MCBridge ------------------------------
(* Instances of Bridge for TLC; the cfg files give the calls.              *)
EXTENDS Bridge
=============================================================================
