----------------------------- MODULE MCMachine -----------------------------
(* MachineController for TLC. *)
EXTENDS MachineController, TLC

\* Machines start alike; identifiers are already handed out in order.
MachineSymmetry == Permutations(Machines)
============================================================================
