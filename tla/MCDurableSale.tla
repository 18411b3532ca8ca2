---------------------------- MODULE MCDurableSale ---------------------------
(* Instances of DurableSale for TLC.                                       *)
EXTENDS DurableSale
=============================================================================
