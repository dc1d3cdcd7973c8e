---------------------------- MODULE MCController ----------------------------
(* Instances of Controller for TLC: the open controller, any backend.      *)
EXTENDS Controller, TLC

Symmetry == Permutations(Keys)
=============================================================================
