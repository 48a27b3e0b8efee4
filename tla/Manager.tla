------------------------------ MODULE Manager ------------------------------
(***************************************************************************)
(* What the two controllers of the manager have in common: how their       *)
(* caches and patches behave, how Waldur answers, and what may fail.       *)
(***************************************************************************)
EXTENDS ProviderTypes

CONSTANTS
    ReTerminate,     \* does Waldur accept an order to terminate a terminated resource?
    ReadOwnWrites,   \* does a reconciliation see what earlier ones wrote?
    Faults,          \* the kinds of fault that may happen
    MaxFaults        \* how many of them, in one behaviour

AllFaults == {"call", "panic", "write", "crash", "lost", "reject", "order", "vm"}

ASSUME ReTerminateAssumption == ReTerminate \in BOOLEAN

VARIABLE faults      \* faults that may still happen

\* One fault of kind k happens.
Fault(k) == k \in Faults /\ faults > 0 /\ faults' = faults - 1

\* What a merge patch makes of one field: a field that differs from the
\* snapshot overwrites the server's, any other is left alone.
Merged(old, new, server) == IF new = old THEN server ELSE new
============================================================================
