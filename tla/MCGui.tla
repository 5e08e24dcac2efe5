------------------------------- MODULE MCGui --------------------------------
(* Instances of Gui for TLC; the cfg files give the calls and the hosts.   *)
EXTENDS Gui
=============================================================================
