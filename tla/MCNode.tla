------------------------------ MODULE MCNode ------------------------------
(* NodeBoot for TLC. *)
EXTENDS NodeBoot, TLC
============================================================================
