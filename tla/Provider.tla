------------------------------ MODULE Provider ------------------------------
(***************************************************************************)
(* The two controllers in one manager.  They never call each other; each   *)
(* reads what the other has published, from the shared informer cache:     *)
(*                                                                         *)
(*   - createVM takes tenant and project of its datacenter from the status *)
(*     of the WaldurCluster its reconciliation has read;                   *)
(*   - reconcileControlPlaneEndpoint takes the address of a control-plane  *)
(*     WaldurMachine, whose events also queue the cluster.                 *)
(*                                                                         *)
(* Cluster API, around them, provides bootstrap data once the cluster is   *)
(* provisioned and deletes the WaldurCluster once the machines are gone.   *)
(***************************************************************************)
EXTENDS MachineController, ClusterController

CONSTANT
    Place     \* the cluster and the datacenter each machine is placed in

ASSUME PlaceAssumption == Place \in [Machines -> TenantKeys] /\ MaxCP = 3

VARIABLE
    torn      \* has the user deleted the Cluster API Cluster?

machineSide == <<waldur, vault, api, cache, queued, worker, world>>
clusterSide == <<market, projects, store, cWorker, edits>>
systemVars == <<machineSide, clusterSide, cp, faults, torn>>

MachinesOf(c) == {m \in Machines : Place[m][1] = c}

----------------------------------------------------------------------------
(* What each controller sees of the other *)

TenantUsableWhenKnown(m) ==
    LET c == cCache[Place[m][1]]
        t == c.st.tenants[Place[m][2]] IN
    c.exists /\ t.present /\ t.known

\* buildOrderPayload's demands on the tenant in the WaldurCluster's status.
TenantUsable(m) ==
    LET c == cCache[Place[m][1]]
        t == c.st.tenants[Place[m][2]] IN
    c.exists /\ t.present /\ t.mrs = "OK" /\ t.known

\* The machines that reconcileControlPlaneEndpoint may pick, a deleted one too:
\* Machines are the control-plane ones.  It looks at the first of them only,
\* and the listing leaves open which one that is.
Listed(c) == {m \in MachinesOf(c) : /\ cache[m].exists
                                    /\ cache[m].st.state = "OK"
                                    /\ cache[m].st.uuid # Nil}

firstCP(c) == CHOOSE m \in Listed(c) : TRUE

\* Its stage, in ClusterController's CPStages.
ControlPlane ==
    [c \in Clusters |-> CASE Listed(c) = {} -> 1
                        [] Listed(c) # {} /\ resources[cache[firstCP(c)].st.uuid].core = "none" -> 2
                        [] OTHER -> 3]

\* The machine side moves: of the cluster side only the view of the control
\* plane can change.
ClusterLooksOn == cp' = ControlPlane' /\ UNCHANGED <<clusterSide, torn>>

MachineLooksOn == UNCHANGED <<machineSide, torn>>

SystemInit ==
    /\ Init /\ ClusterInit
    /\ labelled = [m \in Machines |-> TRUE]
    /\ torn = [c \in Clusters |-> FALSE]

----------------------------------------------------------------------------
(* The machine controller *)

\* The worker reads the WaldurCluster as it begins: tenantReady is looked up
\* anew before every reconciliation that may order a VM.
Look(m) ==
    /\ pc = "idle"
    /\ tenantReady # TenantUsable(m)
    /\ tenantReady' = TenantUsable(m)
    /\ UNCHANGED <<waldur, vault, api, cache, queued, worker, boot, labelled, templateOK, faults>>
    /\ ClusterLooksOn

ReconcileMachine(m) ==
    /\ Reconcile(m)
    /\ pc' = "createVM" => tenantReady = TenantUsable(m)
    /\ ClusterLooksOn

MachineStep == Step /\ ClusterLooksOn

\* A watch event of a machine also queues its cluster (waldurMachineToCluster).
WatchMachine(m) ==
    /\ CacheSync(m)
    /\ cp' = ControlPlane'
    /\ cQueue' = [cQueue EXCEPT ![Place[m][1]] = TRUE]
    /\ UNCHANGED <<market, projects, cApi, cCache, cWorker, edits, torn>>

----------------------------------------------------------------------------
(* The cluster controller *)

ReconcileCluster(c) == ClusterReconcile(c) /\ MachineLooksOn

WalkCluster == ClusterStep /\ MachineLooksOn

WatchCluster(c) == ClusterCacheSync(c) /\ MachineLooksOn

----------------------------------------------------------------------------
(* Everybody else *)

SystemMarketplace ==
    \/ Marketplace /\ ClusterLooksOn
    \/ ClusterMarketplace /\ MachineLooksOn

\* The manager restarts, and both of its controllers with it.
ManagerCrash == Crash /\ cp' = ControlPlane' /\ ClusterCrash /\ UNCHANGED torn

AdoptMachine(m) == SetOwnerRef(m) /\ ClusterLooksOn

AdoptCluster(c) == ClusterSetOwnerRef(c) /\ MachineLooksOn

\* The bootstrap provider waits for the infrastructure of the cluster.
Bootstrap(m) ==
    /\ cApi[Place[m][1]].st.prov
    /\ BootstrapReady(m)
    /\ ClusterLooksOn

DeleteMachine(m) == UserDelete(m) /\ ClusterLooksOn

EditCluster(c) == EditDatacenters(c) /\ MachineLooksOn

\* The user deletes the Cluster API Cluster.
TearDown(c) ==
    /\ ~torn[c]
    /\ torn' = [torn EXCEPT ![c] = TRUE]
    /\ UNCHANGED <<machineSide, clusterSide, cp, faults>>

\* Cluster API deletes the infrastructure after the machines.
DeleteCluster(c) ==
    /\ torn[c]
    /\ \A m \in MachinesOf(c) : ~api[m].exists
    /\ ClusterUserDelete(c)
    /\ MachineLooksOn

\* What Cluster API does of itself.
ClusterAPI ==
    \/ \E m \in Machines :
          AdoptMachine(m) \/ Bootstrap(m) \/ (torn[Place[m][1]] /\ DeleteMachine(m))
    \/ \E c \in Clusters : AdoptCluster(c) \/ DeleteCluster(c)

----------------------------------------------------------------------------
(* The specification *)

SystemNext ==
    \/ \E m \in Machines :
          Look(m) \/ ReconcileMachine(m) \/ WatchMachine(m) \/ DeleteMachine(m)
    \/ MachineStep
    \/ \E c \in Clusters :
          ReconcileCluster(c) \/ WatchCluster(c) \/ TearDown(c) \/ EditCluster(c)
    \/ WalkCluster
    \/ ClusterAPI
    \/ SystemMarketplace
    \/ ManagerCrash

SystemSpec == SystemInit /\ [][SystemNext]_systemVars

\* As in the two components, with one reconciliation of each kind to choose;
\* Cluster API, in addition, carries a deletion through: machines first, then
\* the infrastructure.  What it owes is done once, so it is one fair actor.
SystemFairness ==
    /\ WF_systemVars(MachineStep) /\ WF_systemVars(WalkCluster)
    /\ WF_systemVars(\E m \in Machines : Look(m) \/ ReconcileMachine(m))
    /\ WF_systemVars(\E c \in Clusters : ReconcileCluster(c))
    /\ WF_systemVars(\E m \in Machines : WatchMachine(m))
    /\ WF_systemVars(\E c \in Clusters : WatchCluster(c))
    /\ WF_systemVars(ClusterAPI)
    /\ WF_waldur(WaldurProgress)
    /\ WF_market(Waldur!WaldurProgress)

SystemFairSpec == SystemSpec /\ SystemFairness

----------------------------------------------------------------------------
(* Properties *)

\* No VM loses the tenant it lives in: the termination of a tenant is ordered
\* only when Waldur holds no VM of the machines placed in it any more, although
\* each controller knows only its own objects and sees the other's late.
TenantOutlivesVMs ==
    \A r, q \in OrderIds :
        Live(r) /\ tResources[q].owner = Place[resources[r].owner]
            => tResources[q].state \notin {"Terminating", "Terminated"}

\* Waldur holds neither a VM nor a tenant of cluster c.
Empty(c) ==
    \A r \in OrderIds : /\ Live(r) => resources[r].owner \notin MachinesOf(c)
                        /\ Waldur!Live(r) => tResources[r].owner[1] # c

\* A cluster whose object is gone, at whatever point it was deleted, has left
\* nothing at Waldur: machines before infrastructure, the finalizers of both
\* kinds, and the walk that terminates the tenants.
NothingLeftBehind == \A c \in Clusters : ~cApi[c].exists => Empty(c)

\* A VM is ordered only in a tenant that is finished at Waldur, whatever the
\* cluster's status has said before and however late the machine controller
\* read it.
OrderedInFinishedTenant ==
    [][\A id \in OrderIds :
         orders[id].type = "none" /\ orders'[id].type = "Create"
            => LET k == Place[resources'[id].owner]
                   t == cApi[k[1]].st.tenants[k[2]] IN
               t.present /\ tResources[t.res].state = "OK"]_systemVars

Failed(o) == o.state \in {"Erred", "Canceled"}

\* From an empty Waldur to a cluster with an endpoint: tenant, readiness,
\* bootstrap data, VM and address each wait for the one before, over both
\* controllers, and none waits for good.
EndpointComesUp ==
    \A c \in Clusters :
        <>(\/ cApi[c].endpoint \/ torn[c]
           \/ \A m \in MachinesOf(c) : api[m].deleting \/ ~api[m].exists
           \/ \E o \in OrderIds : Failed(orders[o]) \/ Failed(tOrders[o]))

\* A cluster that is torn down, at whatever point, ends with no object, no VM
\* and no tenant.  (The project of a tenant whose order failed may be left.)
TornDown ==
    \A c \in Clusters :
        torn[c] ~> /\ ~cApi[c].exists /\ \A m \in MachinesOf(c) : ~api[m].exists
                   /\ Empty(c)
=============================================================================
