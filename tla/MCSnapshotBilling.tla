-------------------------- MODULE MCSnapshotBilling --------------------------
(* Instances of SnapshotBilling for TLC.                                   *)
EXTENDS SnapshotBilling, TLC

CONSTANTS a, b, r1, r2, nobody
=============================================================================
