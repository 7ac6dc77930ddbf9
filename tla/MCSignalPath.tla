---------------------------- MODULE MCSignalPath ----------------------------
(* SignalPath for TLC: the cfg files give its constants plain values. *)
EXTENDS SignalPath
=============================================================================
