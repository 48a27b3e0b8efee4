----------------------------- MODULE MCProvider -----------------------------
(* Provider for TLC, and the tenant limits its datacenters are ordered with. *)
EXTENDS Provider, TenantLimits

\* All machines are in one datacenter.
OnePlace == [m \in Machines |-> CHOOSE k \in TenantKeys : TRUE]

OwnProjects == [k \in TenantKeys |-> k]

\* What spec.datacenters may be.
Full == {Offerings}
Singles == {{o} : o \in Offerings}

TwoFlavors == [f \in {"small", "large"} |->
                  IF f = "small" THEN [cores |-> 2, ram |-> 4096]
                                 ELSE [cores |-> 8, ram |-> 16384]]

\* A behaviour has one mishap, an edit or a fault; a tear-down is explored with
\* faults, not with edits.
OneMishap == /\ edits + faults >= MaxEdits + MaxFaults - 1
             /\ (\E c \in Clusters : torn[c]) => edits = MaxEdits

\* When createTenant comes to order a tenant, whatever node groups its
\* datacenter has, the limits of the order are what the platform's nodes and
\* each node of the spec need together, disks included, and no more.
LimitsCoverNodes == cPc = "order" => AlwaysExact
=============================================================================
