---------------------------- MODULE MachineTypes ----------------------------
(***************************************************************************)
(* The identifiers the modules of the machine side share.                  *)
(***************************************************************************)
EXTENDS ProviderTypes

CONSTANTS
    Machines,    \* the WaldurMachine objects
    SecretIds    \* AppRole secret_ids; their number bounds the ids generated

ASSUME IdAssumption == OrderIds \subseteq Nat /\ SecretIds \subseteq Nat
ASSUME NilAssumption == Nil \notin Machines \cup OrderIds \cup SecretIds
=============================================================================
