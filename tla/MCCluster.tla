----------------------------- MODULE MCCluster -----------------------------
(* ClusterController for TLC. *)
EXTENDS ClusterController, TLC

\* Every datacenter has a project of its own.
OwnProjects == [k \in TenantKeys |-> k]

\* All datacenters have the same customer and name, and so share a project.
OneProject == [k \in TenantKeys |-> "project"]

\* What spec.datacenters may be.
Full == {Offerings}
AnyDatacenters == SUBSET Offerings \ {{}}
Singles == {{o} : o \in Offerings}

\* A behaviour has an edit of the datacenters or faults, not both; which
\* datacenter a cluster begins with does not matter.
ProgressInit == ClusterInit /\ \A c \in Clusters : cApi[c].dcs = {CHOOSE o \in Offerings : TRUE}

ProgressNext == ClusterNext /\ (edits' = MaxEdits \/ faults' = MaxFaults)

ProgressSpec == ProgressInit /\ [][ProgressNext]_cVars /\ ClusterFairness

ClusterSymmetry == Permutations(Clusters)
OfferingSymmetry == Permutations(Offerings)
============================================================================
