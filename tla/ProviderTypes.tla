--------------------------- MODULE ProviderTypes ---------------------------
(***************************************************************************)
(* The identifiers that all modules of the provider share.                 *)
(***************************************************************************)
EXTENDS Naturals

CONSTANTS
    OrderIds,    \* order UUIDs; their number bounds the orders ever accepted
    Nil          \* an absent field
============================================================================
