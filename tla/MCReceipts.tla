----------------------------- MODULE MCReceipts -----------------------------
(* An instance of Receipts: a delivery e whose attestation may come late,  *)
(* so that its bond is returned or slashed.                                *)
EXTENDS Receipts

CONSTANT e

BothWorkers == {Listener, Watch}
=============================================================================
