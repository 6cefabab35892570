------------------------------- MODULE MCCleanup -------------------------------
(* Instances of Cleanup for TLC. *)
EXTENDS Cleanup, TLC

CONSTANTS k1, k2, k3
===============================================================================
