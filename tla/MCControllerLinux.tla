-------------------------- MODULE MCControllerLinux --------------------------
(* Instances of ControllerLinux for TLC.                                   *)
EXTENDS ControllerLinux
=============================================================================
