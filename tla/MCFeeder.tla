------------------------------ MODULE MCFeeder ------------------------------
(* Feeder for TLC: its constants are given in the cfg files. *)
EXTENDS Feeder
=============================================================================
