---------------------------- MODULE TenantLimits ----------------------------
(***************************************************************************)
(* calculateLimits: the quota the cluster controller orders with a tenant, *)
(* from the node groups of its datacenter.  Disk sizes are in GB, limits   *)
(* in MB; a disk size of 0 is an absent one.                               *)
(***************************************************************************)
EXTENDS Naturals, SequencesExt, FiniteSetsExt

CONSTANTS
    Flavors,     \* flavor name -> its cores and ram, as Waldur lists them
    MaxCount,    \* node groups of up to that many nodes
    MaxGroups    \* datacenters of up to that many node groups

ASSUME FlavorAssumption ==
    \A f \in DOMAIN Flavors : Flavors[f].cores \in Nat /\ Flavors[f].ram \in Nat
ASSUME SizeAssumption == MaxCount \in Nat \ {0} /\ MaxGroups \in Nat \ {0}

Controller == [cores |-> 4, ram |-> 8 * 1024]
LoadBalancer == [cores |-> 2, ram |-> 4 * 1024]
systemDiskMB == 20 * 1024

\* NodeGroupSpec, with the smallest disks the CRD admits.
NodeGroups == [flavor : DOMAIN Flavors, count : 1..MaxCount,
               dataDisk : {0, 10}, vsanDisk : {0, 100}]

\* The platform's own nodes: three controllers and a load balancer.
PlatformLimits ==
    [cores |-> 3 * Controller.cores + LoadBalancer.cores,
     ram |-> 3 * Controller.ram + LoadBalancer.ram,
     storage |-> (3 + 1) * systemDiskMB]

AddGroupDataOnce(l, ng) ==
    [cores |-> l.cores + ng.count * Flavors[ng.flavor].cores,
     ram |-> l.ram + ng.count * Flavors[ng.flavor].ram,
     storage |-> l.storage + ng.count * systemDiskMB + ng.dataDisk * 1024
                   + ng.count * ng.vsanDisk * 1024]

\* One round of the loop over dc.NodeGroups.
AddGroup(l, ng) ==
    [cores |-> l.cores + ng.count * Flavors[ng.flavor].cores,
     ram |-> l.ram + ng.count * Flavors[ng.flavor].ram,
     storage |-> l.storage + ng.count * systemDiskMB + ng.count * ng.dataDisk * 1024
                   + ng.count * ng.vsanDisk * 1024]

calculateLimits(nodeGroups) == FoldLeft(AddGroup, PlatformLimits, nodeGroups)

----------------------------------------------------------------------------
(* Reference: add up what every single node needs. *)

\* The k-th node of the i-th group.
Nodes(nodeGroups) ==
    {<<i, k>> \in (DOMAIN nodeGroups) \X (1..MaxCount) : k <= nodeGroups[i].count}

Total(nodeGroups, Need(_)) ==
    MapThenSumSet(LAMBDA n : Need(nodeGroups[n[1]]), Nodes(nodeGroups))

\* What calculateLimits orders for ngs has room for each node the spec asks for,
\* its disks included, beside the platform's own, and for no more.
Exact(ngs) ==
    LET l == calculateLimits(ngs) IN
    /\ l.cores = 14 + Total(ngs, LAMBDA g : Flavors[g.flavor].cores)
    /\ l.ram = 28 * 1024 + Total(ngs, LAMBDA g : Flavors[g.flavor].ram)
    /\ l.storage = 1024 * (80 + Total(ngs, LAMBDA g : 20 + g.dataDisk + g.vsanDisk))

AlwaysExact == \A ngs \in SeqOf(NodeGroups, MaxGroups) : Exact(ngs)
=============================================================================
