----------------------------- MODULE MCMaintenance -----------------------------
(* Instances of MaintenanceHistory for TLC. *)
EXTENDS MaintenanceHistory, TLC

CONSTANTS o1, p1, m1, m2, c1, h1

OneHandle == [m \in Manuals |-> h1]
===============================================================================
