-------------------------- MODULE MCConfigdStartup --------------------------
(* Start-up with small times.                                              *)
EXTENDS ConfigdStartup
=============================================================================
