----------------------------- MODULE MCNotifier -----------------------------
(* Notifier for TLC: its constants are given in the cfg file. *)
EXTENDS Notifier
=============================================================================
