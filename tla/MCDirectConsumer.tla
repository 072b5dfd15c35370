-------------------------- MODULE MCDirectConsumer --------------------------
(* DirectConsumer for TLC: its constants are given in the cfg files. *)
EXTENDS DirectConsumer

CONSTANTS f1, f2
=============================================================================
