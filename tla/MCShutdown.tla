----------------------------- MODULE MCShutdown -----------------------------
(* Instances of the shutdown command for TLC.                              *)
EXTENDS Shutdown
=============================================================================
