---------------------- MODULE MCWireGuardProfileModel -----------------------
(* Instances of WireGuardProfileModel for TLC.                             *)
EXTENDS WireGuardProfileModel, TLC

Symmetry == Permutations(Ids) \cup Permutations(Names)
=============================================================================
