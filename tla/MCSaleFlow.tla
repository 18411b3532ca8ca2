----------------------------- MODULE MCSaleFlow -----------------------------
(* Instances of SaleFlow for TLC.                                          *)
EXTENDS SaleRefinement, TLC

AllFaults == Fault
AllActors == Actor
NoFaults  == {}
Symmetry  == Permutations(Tx)
=============================================================================
