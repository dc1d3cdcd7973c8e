------------------------- MODULE MCControllerNetmgr -------------------------
(* Instances of ControllerNetmgr for TLC.                                  *)
EXTENDS ControllerNetmgr, TLC

Symmetry == Permutations(Keys)
=============================================================================
