------------------------- MODULE ClusterController -------------------------
(***************************************************************************)
(* WaldurClusterReconciler: one worker that gives every datacenter of a    *)
(* WaldurCluster an OpenStack tenant, publishes the cluster's readiness    *)
(* and its control-plane endpoint, and takes tenants and projects down     *)
(* again when the cluster is deleted.                                      *)
(*                                                                         *)
(* A reconciliation walks over the datacenters (or tenants) one by one,    *)
(* calling Waldur for each, and patches the status once, after the walk:   *)
(* whatever ends the walk early loses all of its results.                  *)
(***************************************************************************)
EXTENDS Manager, FiniteSets

CONSTANTS
    Clusters,       \* the WaldurCluster objects
    Offerings,      \* offering slugs; a datacenter is identified by its own
    ProjectOf,      \* <<cluster, offering>> -> "<customer slug>_<datacenter name>"
    Spec0,          \* the datacenters a cluster may be created with
    OrderScopes,    \* the scope a tenant may have when its order is answered
    MaxEdits,       \* how often spec.datacenters is edited
    MaxCP           \* how far the control plane comes up, see CPStages

TenantKeys == Clusters \X Offerings
Projects == {ProjectOf[k] : k \in TenantKeys}

CPStages == <<"none", "OK", "hasIP">>

ASSUME SpecAssumption == Spec0 \subseteq SUBSET Offerings
ASSUME KeyAssumption == Nil \notin OrderIds \cup TenantKeys
ASSUME BoundAssumption == /\ Faults \subseteq AllFaults
                          /\ MaxFaults \in Nat
                          /\ MaxEdits \in Nat
                          /\ MaxCP \in 1..3
                          /\ OrderScopes \subseteq {"none", "CREATING"}
                          /\ ReadOwnWrites \in BOOLEAN

VARIABLES
    tOrders, tResources,  \* the Waldur marketplace: tenants
    projects,     \* the Waldur projects that exist
    cApi,         \* the WaldurCluster objects in the API server
    cCache,       \* the informer's copy of them
    cQueue,       \* the workqueue
    cPc,          \* where the worker is
    cCur,         \* the cluster it is reconciling
    cObj,         \* its in-memory object
    cBase,        \* the status snapshot its patch is computed against
    todo,         \* the datacenters, tenants or projects left in the walk
    dc,           \* the datacenter createTenant works for
    allDone,      \* reconcileDelete: no tenant is left to terminate
    cp,           \* the stage a control-plane machine of the cluster is in
    edits         \* edits that may still happen

\* The marketplace once more, with tenants in the place of VMs.
Waldur == INSTANCE WaldurMarketplace WITH
    Machines <- TenantKeys, SecretIds <- {}, orders <- tOrders, resources <- tResources

market == <<tOrders, tResources>>
cWorker == <<cPc, cCur, cObj, cBase, todo, dc, allDone>>
store == <<cApi, cCache, cQueue>>
cVars == <<tOrders, tResources, projects, cApi, cCache, cQueue, cPc, cCur, cObj, cBase,
           todo, dc, allDone, cp, faults, edits>>

----------------------------------------------------------------------------
(* Objects *)

\* OpenStackTenant.  mrs is MarketplaceResourceState, known tells whether the
\* tenant's own UUID is recorded, and the Order pointer is flattened.  The
\* marketplace resource and the project slug are recorded from the start.
Tenant == [present : BOOLEAN,
           res : OrderIds \cup {Nil},
           ord : OrderIds \cup {Nil},
           ordType : {"none", "Create", "Terminate"},
           ordState : Waldur!OrderStates \cup {"none"},
           mrs : {"none", "Creating", "OK", "Erred", "Terminating", "Terminated"},
           state : {"none", "CREATING", "OK", "ERRED"},
           known : BOOLEAN]

NoTenant == [present |-> FALSE, res |-> Nil, ord |-> Nil, ordType |-> "none",
             ordState |-> "none", mrs |-> "none", state |-> "none", known |-> FALSE]

\* WaldurClusterStatus: the tenant map, the reason of the Ready condition and
\* Initialization.Provisioned.
ClusterStatus == [tenants : [Offerings -> Tenant],
                  ready : {"none", "Provisioning", "ProvisioningFailed", "Provisioned"},
                  prov : BOOLEAN]

ClusterNoStatus == [tenants |-> [o \in Offerings |-> NoTenant], ready |-> "none", prov |-> FALSE]

\* A WaldurCluster; endpoint tells whether ControlPlaneEndpoint.Host is set.
ClusterObject == [exists : BOOLEAN, deleting : BOOLEAN, fin : BOOLEAN, owner : BOOLEAN,
                  dcs : SUBSET Offerings, endpoint : BOOLEAN, st : ClusterStatus]

ClusterNewObject(dcs) == [exists |-> TRUE, deleting |-> FALSE, fin |-> FALSE, owner |-> FALSE,
                          dcs |-> dcs, endpoint |-> FALSE, st |-> ClusterNoStatus]

ClusterPCs == {"idle", "tenants", "order", "endpoint",
               "terminate", "deleteProjects"}

ClusterTypeOK ==
    /\ Waldur!WaldurTypeOK
    /\ projects \subseteq Projects
    /\ cApi \in [Clusters -> ClusterObject]
    /\ cCache \in [Clusters -> ClusterObject]
    /\ cQueue \in [Clusters -> BOOLEAN]
    /\ cPc \in ClusterPCs
    /\ cCur \in Clusters \cup {Nil}
    /\ cPc # "idle" => cCur \in Clusters
    /\ cObj \in ClusterObject
    /\ cBase \in ClusterStatus
    /\ todo \subseteq Offerings
    /\ dc \in Offerings \cup {Nil}
    /\ allDone \in BOOLEAN
    /\ cp \in [Clusters -> 1..MaxCP]
    /\ faults \in 0..MaxFaults
    /\ edits \in 0..MaxEdits

ClusterInit ==
    /\ Waldur!WaldurInit
    /\ projects = {}
    /\ cApi \in [Clusters -> {ClusterNewObject(dcs) : dcs \in Spec0}]
    /\ cCache = cApi
    /\ cQueue = [c \in Clusters |-> TRUE]
    /\ cPc = "idle" /\ cCur = Nil /\ cObj = ClusterNewObject({}) /\ cBase = ClusterNoStatus
    /\ todo = {} /\ dc = Nil /\ allDone = FALSE
    /\ cp = [c \in Clusters |-> 1]
    /\ faults = MaxFaults
    /\ edits = MaxEdits

----------------------------------------------------------------------------
(* The API server and the informer *)

MergeTenant(old, new, server) ==
    [present |-> Merged(old.present, new.present, server.present),
     res |-> Merged(old.res, new.res, server.res),
     ord |-> Merged(old.ord, new.ord, server.ord),
     ordType |-> Merged(old.ordType, new.ordType, server.ordType),
     ordState |-> Merged(old.ordState, new.ordState, server.ordState),
     mrs |-> Merged(old.mrs, new.mrs, server.mrs),
     state |-> Merged(old.state, new.state, server.state),
     known |-> Merged(old.known, new.known, server.known)]

\* client.MergeFrom(base) without an optimistic lock, map keys merged too.
ClusterMergePatch(old, new, server) ==
    [tenants |-> [o \in Offerings |->
                     MergeTenant(old.tenants[o], new.tenants[o], server.tenants[o])],
     ready |-> Merged(old.ready, new.ready, server.ready),
     prov |-> Merged(old.prov, new.prov, server.prov)]

\* The cache shows every write the controller itself has made.
ClusterFresh(c) == /\ cCache[c].st = cApi[c].st
                   /\ cCache[c].fin = cApi[c].fin
                   /\ cCache[c].endpoint = cApi[c].endpoint

UpdateUnlocked(c, read) == cApi[c].exists

\* r.Update is refused unless the object is still the one that was read.
ClusterUpdateAccepted(c, read) == cApi[c].exists /\ cApi[c] = read

\* What r.Update writes: spec and metadata, not the status.
Updated(c, new) == [cApi[c] EXCEPT !.fin = new.fin, !.owner = new.owner,
                                   !.dcs = new.dcs, !.endpoint = new.endpoint]

ClusterCacheSync(c) ==
    /\ cCache[c] # cApi[c]
    /\ cCache' = [cCache EXCEPT ![c] = cApi[c]]
    /\ cQueue' = [cQueue EXCEPT ![c] = TRUE]
    /\ UNCHANGED <<market, projects, cApi, cWorker, cp, faults, edits>>

----------------------------------------------------------------------------
(* Reconcile: the branches that end at once *)

ClusterTake(c) == /\ cPc = "idle"
                  /\ cQueue[c]
                  /\ ReadOwnWrites => ClusterFresh(c)

\* A result without RequeueAfter.
ClusterSettle(c) ==
    /\ cQueue' = [cQueue EXCEPT ![c] = FALSE]
    /\ UNCHANGED <<market, projects, cCache, cWorker, cp, faults, edits>>

\* The worker starts a walk over the offerings in walk.
ClusterBegin(c, at, walk) ==
    /\ cPc' = at /\ cCur' = c /\ cObj' = cCache[c] /\ cBase' = cCache[c].st
    /\ todo' = walk /\ dc' = Nil /\ allDone' = TRUE
    /\ cQueue' = [cQueue EXCEPT ![c] = FALSE]
    /\ UNCHANGED <<market, projects, cApi, cCache, cp, faults, edits>>

ClusterGoIdle ==
    /\ cPc' = "idle" /\ cCur' = Nil /\ cObj' = ClusterNewObject({}) /\ cBase' = ClusterNoStatus
    /\ todo' = {} /\ dc' = Nil /\ allDone' = FALSE

\* The worker is done with cCur; due says whether the object is queued again.
ClusterReturn(due) ==
    /\ ClusterGoIdle
    /\ cQueue' = [cQueue EXCEPT ![cCur] = @ \/ due]

ClusterReconcileGone(c) ==
    /\ ClusterTake(c)
    /\ ~cCache[c].exists
    /\ ClusterSettle(c)
    /\ UNCHANGED cApi

ClusterAddFinalizer(c) ==
    /\ ClusterTake(c)
    /\ cCache[c].exists /\ ~cCache[c].deleting /\ ~cCache[c].fin
    /\ ClusterUpdateAccepted(c, cCache[c])
    /\ cApi' = [cApi EXCEPT ![c] = Updated(c, [cCache[c] EXCEPT !.fin = TRUE])]
    /\ ClusterSettle(c)

ClusterAdmittedEarly(c) == cCache[c].exists /\ ~cCache[c].deleting

ClusterAdmitted(c) == cCache[c].exists /\ ~cCache[c].deleting /\ cCache[c].fin

\* Waiting for the ownerReference: its arrival is a watch event.
ClusterReconcileWait(c) ==
    /\ ClusterTake(c)
    /\ ClusterAdmitted(c)
    /\ ~cCache[c].owner
    /\ ClusterSettle(c)
    /\ UNCHANGED cApi

BeginReconcile(c) ==
    /\ ClusterTake(c)
    /\ ClusterAdmitted(c)
    /\ cCache[c].owner
    /\ ClusterBegin(c, "tenants", cCache[c].dcs)

----------------------------------------------------------------------------
(* Reconcile: the walk over the datacenters *)

\* Leave datacenter o behind, with tenant t for it.
Walked(o, t) ==
    /\ cObj' = [cObj EXCEPT !.st.tenants[o] = t]
    /\ todo' = todo \ {o}
    /\ UNCHANGED <<cQueue, cCur, cBase>>

\* refreshTenant reads the order unless that is over, then the resource, then
\* the tenant if there is one.
RefreshedOrder(t) ==
    IF t.ord # Nil /\ ~Waldur!isOrderTerminal(t.ordState)
    THEN [t EXCEPT !.ordState = tOrders[t.ord].state] ELSE t

RefreshedResource(t) == [t EXCEPT !.mrs = tResources[t.res].state]

RefreshedTenantOfResource(t) ==
    IF tResources[t.res].core = "none" THEN t
    ELSE [t EXCEPT !.state = tResources[t.res].state, !.known = TRUE]

RefreshedTenant(t) ==
    IF tResources[t.res].core = "none" THEN t
    ELSE [t EXCEPT !.state = tResources[t.res].core, !.known = TRUE]

refreshTenant(t) == RefreshedTenant(RefreshedResource(RefreshedOrder(t)))

\* What a call that fails on the way leaves of it.
PartlyRefreshed(t) == {t, RefreshedOrder(t), RefreshedResource(RefreshedOrder(t))}

RefreshTenant(o) ==
    /\ cPc = "tenants" /\ o \in todo
    /\ cObj.st.tenants[o].present
    /\ Walked(o, refreshTenant(cObj.st.tenants[o]))
    /\ UNCHANGED <<market, projects, cApi, cCache, cPc, dc, allDone, cp, faults, edits>>

\* A call of refreshTenant fails; the error is logged and the walk goes on.
ClusterRefreshFails(o) ==
    LET t == cObj.st.tenants[o] IN
    /\ cPc = "tenants" /\ o \in todo
    /\ t.present
    /\ Fault("call")
    /\ \E u \in PartlyRefreshed(t) : Walked(o, u)
    /\ UNCHANGED <<market, projects, cApi, cCache, cPc, dc, allDone, cp, edits>>

GetOrCreateProjectCached(o) ==
    LET p == ProjectOf[<<cCur, o>>] IN
    /\ cPc = "tenants" /\ o \in todo
    /\ ~cObj.st.tenants[o].present
    /\ projects' = IF \E k \in TenantKeys : ProjectOf[k] = p /\ cApi[k[1]].st.tenants[k[2]].present
                   THEN projects ELSE projects \cup {p}
    /\ cPc' = "order" /\ dc' = o
    /\ UNCHANGED <<market, store, cCur, cObj, cBase, todo, allDone, cp, faults, edits>>

\* createTenant for a datacenter without tenant: getCustomer, then
\* getOrCreateProject.
GetOrCreateProject(o) ==
    /\ cPc = "tenants" /\ o \in todo
    /\ ~cObj.st.tenants[o].present
    /\ projects' = projects \cup {ProjectOf[<<cCur, o>>]}
    /\ cPc' = "order" /\ dc' = o
    /\ UNCHANGED <<market, store, cCur, cObj, cBase, todo, allDone, cp, faults, edits>>

\* createTenant fails before there is a project: the customer or the projects
\* cannot be read.
NoProject(o) ==
    /\ cPc = "tenants" /\ o \in todo
    /\ ~cObj.st.tenants[o].present
    /\ Fault("call")
    /\ todo' = todo \ {o}
    /\ UNCHANGED <<market, projects, store, cPc, cCur, cObj, cBase, dc, allDone, cp, edits>>

\* createTenant failed: log, and go on with the next datacenter.
ClusterCreateFails ==
    /\ cPc' = "tenants" /\ dc' = Nil /\ todo' = todo \ {dc}
    /\ UNCHANGED <<cQueue, cCur, cObj, cBase>>

\* A read fails before the order, or Waldur refuses it.  The project stays.
CreateTenantFails ==
    /\ cPc = "order"
    /\ Fault("call") \/ Fault("reject")
    /\ ClusterCreateFails
    /\ UNCHANGED <<market, projects, cApi, cCache, allDone, cp, edits>>

CreatedTenantUnrecorded(id, core) == NoTenant

\* The order's answer may name the tenant already; it is then read at once, and
\* its UUID recorded.
CreatedTenant(id, core) ==
    [NoTenant EXCEPT !.present = TRUE, !.res = id, !.ord = id, !.ordType = "Create",
                     !.ordState = "PendingProvider", !.state = "CREATING",
                     !.known = (core # "none")]

\* Waldur accepts the order of a tenant for dc.
AcceptTenant(id, core) == Waldur!AcceptCreation(id, <<cCur, dc>>, Nil, core)

CreateTenant ==
    /\ cPc = "order"
    /\ \E id \in OrderIds, core \in OrderScopes :
          /\ AcceptTenant(id, core)
          /\ Walked(dc, CreatedTenant(id, core))
    /\ cPc' = "tenants" /\ dc' = Nil
    /\ UNCHANGED <<projects, cApi, cCache, allDone, cp, faults, edits>>

\* Waldur accepts the order, but the answer is lost or the tenant it names
\* cannot be read: createTenant returns an error and forgets the order.
CreateTenantLost ==
    /\ cPc = "order"
    /\ Fault("lost")
    /\ \E id \in OrderIds, core \in OrderScopes : AcceptTenant(id, core)
    /\ ClusterCreateFails
    /\ UNCHANGED <<projects, cApi, cCache, allDone, cp, edits>>

\* The read of the tenant that the answer names is not a 200: its nil body is
\* dereferenced, and the panic takes the order and the whole walk with it.
CreateTenantPanics ==
    /\ cPc = "order"
    /\ Fault("lost")
    /\ \E id \in OrderIds, core \in OrderScopes \ {"none"} : AcceptTenant(id, core)
    /\ ClusterReturn(TRUE)
    /\ UNCHANGED <<projects, cApi, cCache, cp, edits>>

----------------------------------------------------------------------------
(* Reconcile: readiness and endpoint *)

Present(st) == {o \in Offerings : st.tenants[o].present}

anyTenantPending(st) ==
    \E o \in Present(st) : st.tenants[o].state \notin {"OK", "ERRED"}

anyTenantErred(st) == \E o \in Present(st) : st.tenants[o].state = "ERRED"

ReadyReasonUncounted(st, dcs) ==
    CASE anyTenantPending(st) -> "Provisioning"
      [] anyTenantErred(st) -> "ProvisioningFailed"
      [] OTHER -> "Provisioned"

\* The switch of setReadyCondition: it counts the tenants against the
\* datacenters, then looks at every tenant in the map.
ReadyReason(st, dcs) ==
    CASE Cardinality(Present(st)) < Cardinality(dcs) -> "Provisioning"
      [] anyTenantPending(st) -> "Provisioning"
      [] anyTenantErred(st) -> "ProvisioningFailed"
      [] OTHER -> "Provisioned"

setReadyCondition(st, dcs) ==
    LET reason == ReadyReason(st, dcs) IN
    [st EXCEPT !.ready = reason, !.prov = (reason = "Provisioned")]

PatchStatusReturningWhenReady ==
    LET st == ClusterMergePatch(cBase, setReadyCondition(cObj.st, cObj.dcs), cApi[cCur].st) IN
    /\ cPc = "tenants" /\ todo = {}
    /\ cApi[cCur].exists
    /\ cApi' = [cApi EXCEPT ![cCur].st = st]
    /\ IF st.prov
       THEN ClusterReturn(FALSE)
       ELSE /\ cObj' = [cApi[cCur] EXCEPT !.st = st]
            /\ cPc' = "endpoint"
            /\ UNCHANGED <<cQueue, cCur, cBase, todo, dc, allDone>>
    /\ UNCHANGED <<market, projects, cCache, cp, faults, edits>>

\* The walk is over: publish.  The answer becomes the in-memory object.
ClusterPatchStatus ==
    LET st == ClusterMergePatch(cBase, setReadyCondition(cObj.st, cObj.dcs), cApi[cCur].st) IN
    /\ cPc = "tenants" /\ todo = {}
    /\ cApi[cCur].exists
    /\ cApi' = [cApi EXCEPT ![cCur].st = st]
    /\ cObj' = [cApi[cCur] EXCEPT !.st = st]
    /\ cPc' = "endpoint"
    /\ UNCHANGED <<market, projects, cCache, cQueue, cCur, cBase, todo, dc, allDone, cp, faults, edits>>

NoEndpointSettled ==
    /\ cPc = "endpoint"
    /\ cObj.endpoint \/ CPStages[cp[cCur]] # "hasIP"
    /\ ClusterReturn(FALSE)
    /\ UNCHANGED <<market, projects, cApi, cCache, cp, faults, edits>>

\* reconcileControlPlaneEndpoint has nothing to do, or not yet.
NoEndpoint ==
    /\ cPc = "endpoint"
    /\ cObj.endpoint \/ CPStages[cp[cCur]] # "hasIP"
    /\ ClusterReturn(TRUE)
    /\ UNCHANGED <<market, projects, cApi, cCache, cp, faults, edits>>

SetEndpoint ==
    /\ cPc = "endpoint"
    /\ ~cObj.endpoint /\ CPStages[cp[cCur]] = "hasIP"
    /\ ClusterUpdateAccepted(cCur, cObj)
    /\ cApi' = [cApi EXCEPT ![cCur] = Updated(cCur, [cObj EXCEPT !.endpoint = TRUE])]
    /\ ClusterReturn(TRUE)
    /\ UNCHANGED <<market, projects, cCache, cp, faults, edits>>

\* The object changed since the patch: the error is only logged.
EndpointConflict ==
    /\ cPc = "endpoint"
    /\ ~cObj.endpoint /\ CPStages[cp[cCur]] = "hasIP"
    /\ ~ClusterUpdateAccepted(cCur, cObj)
    /\ ClusterReturn(TRUE)
    /\ UNCHANGED <<market, projects, cApi, cCache, cp, faults, edits>>

\* The control-plane machine's resource or instance cannot be read, or the
\* Update fails: likewise.
EndpointFails ==
    /\ cPc = "endpoint"
    /\ ~cObj.endpoint /\ CPStages[cp[cCur]] # "none"
    /\ \E k \in {"call", "write"} :
          Fault(k) /\ (k = "write" => CPStages[cp[cCur]] = "hasIP")
    /\ ClusterReturn(TRUE)
    /\ UNCHANGED <<market, projects, cApi, cCache, cp, edits>>

----------------------------------------------------------------------------
(* reconcileDelete *)

BeginDelete(c) ==
    /\ ClusterTake(c)
    /\ cCache[c].exists /\ cCache[c].deleting
    /\ ClusterBegin(c, "terminate", Present(cCache[c].st))

ClusterTerminationInFlight(t) ==
    t.ord # Nil /\ t.ordType = "Terminate" /\ ~Waldur!isOrderTerminal(t.ordState)

ClusterTerminationOver(t) ==
    t.ord # Nil /\ t.ordType = "Terminate" /\ Waldur!isOrderTerminal(t.ordState)

ClusterTerminationDone(t) ==
    t.ord # Nil /\ t.ordType = "Terminate" /\ t.ordState = "Done"

PollTermination(o) ==
    LET t == cObj.st.tenants[o] IN
    /\ cPc = "terminate" /\ o \in todo
    /\ ClusterTerminationInFlight(t)
    /\ \/ Walked(o, refreshTenant(t)) /\ UNCHANGED faults
       \/ Fault("call") /\ \E u \in PartlyRefreshed(t) : Walked(o, u)
    /\ allDone' = FALSE
    /\ UNCHANGED <<market, projects, cApi, cCache, cPc, dc, cp, edits>>

SkipTerminated(o) ==
    /\ cPc = "terminate" /\ o \in todo
    /\ ClusterTerminationDone(cObj.st.tenants[o])
    /\ Walked(o, cObj.st.tenants[o])
    /\ UNCHANGED <<market, projects, cApi, cCache, cPc, dc, allDone, cp, faults, edits>>

ClusterMustTerminateOnce(t) == t.ordType # "Terminate"

ClusterMustTerminate(t) == ~ClusterTerminationInFlight(t) /\ ~ClusterTerminationDone(t)

TerminatingTenant(t, id) ==
    [t EXCEPT !.ord = id, !.ordType = "Terminate", !.ordState = "PendingProvider"]

ClusterSubmitTermination(o) ==
    LET t == cObj.st.tenants[o] IN
    /\ cPc = "terminate" /\ o \in todo
    /\ ClusterMustTerminate(t)
    /\ \E id \in OrderIds : /\ Waldur!AcceptTermination(id, t.res)
                            /\ Walked(o, TerminatingTenant(t, id))
    /\ allDone' = FALSE
    /\ UNCHANGED <<projects, cApi, cCache, cPc, dc, cp, faults, edits>>

\* Waldur refuses, the call fails, or the answer to an accepted order is lost:
\* the tenant stays as it was and the cluster is retried.
TerminationFails(o) ==
    LET t == cObj.st.tenants[o] IN
    /\ cPc = "terminate" /\ o \in todo
    /\ ClusterMustTerminate(t)
    /\ \/ ~Waldur!CanTerminate(t.res) /\ UNCHANGED <<market, faults>>
       \/ Fault("call") /\ UNCHANGED market
       \/ Fault("lost") /\ \E id \in OrderIds : Waldur!AcceptTermination(id, t.res)
    /\ Walked(o, t)
    /\ allDone' = FALSE
    /\ UNCHANGED <<projects, cApi, cCache, cPc, dc, cp, edits>>

\* Publish the walk's results; with every tenant terminated, go on to the
\* projects, otherwise come back in 15 s.
PatchDelete ==
    LET st == ClusterMergePatch(cBase, cObj.st, cApi[cCur].st) IN
    /\ cPc = "terminate" /\ todo = {}
    /\ cApi[cCur].exists
    /\ cApi' = [cApi EXCEPT ![cCur].st = st]
    /\ IF allDone
       THEN /\ cPc' = "deleteProjects"
            /\ cObj' = [cApi[cCur] EXCEPT !.st = st]
            /\ todo' = Present(cObj.st)
            /\ UNCHANGED <<cQueue, cCur, cBase, dc, allDone>>
       ELSE ClusterReturn(TRUE)
    /\ UNCHANGED <<market, projects, cCache, cp, faults, edits>>

\* Waldur may refuse to destroy a project with live resources (external).
ProjectEmpty(p) ==
    \A r \in OrderIds : Waldur!Live(r) => ProjectOf[tResources[r].owner] # p

DeleteProjectMissed(o) ==
    /\ cPc = "deleteProjects" /\ o \in todo
    /\ todo' = todo \ {o}
    /\ UNCHANGED <<market, projects, store, cPc, cCur, cObj, cBase, dc, allDone, cp, faults, edits>>

\* Destroyed now, or gone already.
DeleteProject(o) ==
    LET p == ProjectOf[<<cCur, o>>] IN
    /\ cPc = "deleteProjects" /\ o \in todo
    /\ projects' = projects \ {p}
    /\ todo' = todo \ {o}
    /\ UNCHANGED <<market, store, cPc, cCur, cObj, cBase, dc, allDone, cp, faults, edits>>

\* Any error ends the reconciliation, to be retried from the start.
DeleteProjectFails(o) ==
    LET p == ProjectOf[<<cCur, o>>] IN
    /\ cPc = "deleteProjects" /\ o \in todo
    /\ \/ p \in projects /\ ~ProjectEmpty(p) /\ UNCHANGED faults
       \/ Fault("call")
    /\ ClusterReturn(TRUE)
    /\ UNCHANGED <<market, projects, cApi, cCache, cp, edits>>

ClusterRelease ==
    /\ cPc = "deleteProjects" /\ todo = {}
    /\ ClusterUpdateAccepted(cCur, cObj)
    /\ cApi' = [cApi EXCEPT ![cCur] =
                  [Updated(cCur, [cObj EXCEPT !.fin = FALSE]) EXCEPT !.exists = FALSE]]
    /\ ClusterReturn(FALSE)
    /\ UNCHANGED <<market, projects, cCache, cp, faults, edits>>

\* The Update is refused or lost: start over.
ReleaseFails ==
    /\ cPc = "deleteProjects" /\ todo = {}
    /\ (~ClusterUpdateAccepted(cCur, cObj) /\ UNCHANGED faults) \/ Fault("write")
    /\ ClusterReturn(TRUE)
    /\ UNCHANGED <<market, projects, cApi, cCache, cp, edits>>

----------------------------------------------------------------------------
(* Ends a reconciliation early *)

\* The nil JSON200 of an answer other than 200 is dereferenced: by
\* refreshOrder, refreshTenant, getOrCreateProject, getOffering,
\* reconcileControlPlaneEndpoint or deleteProject.  The panic ends the walk.
ClusterAnswerPanics ==
    /\ \/ cPc \in {"tenants", "deleteProjects"} /\ todo # {}
       \/ cPc = "order"
       \/ cPc = "endpoint" /\ ~cObj.endpoint /\ CPStages[cp[cCur]] # "none"
       \/ cPc = "terminate" /\ \E o \in todo : ClusterTerminationInFlight(cObj.st.tenants[o])
    /\ Fault("panic")
    /\ ClusterReturn(TRUE)
    /\ UNCHANGED <<market, projects, cApi, cCache, cp, edits>>

\* The status patch fails: the error requeues the object.
ClusterWriteFails ==
    /\ cPc \in {"tenants", "terminate"} /\ todo = {}
    /\ Fault("write")
    /\ ClusterReturn(TRUE)
    /\ UNCHANGED <<market, projects, cApi, cCache, cp, edits>>

\* The informer lists all objects afresh: machines too, whatever stage the
\* controller had seen them in before.
ClusterCrash ==
    /\ Fault("crash")
    /\ ClusterGoIdle
    /\ cCache' = cApi
    /\ cQueue' = [c \in Clusters |-> TRUE]
    /\ cp' \in [Clusters -> 1..MaxCP]
    /\ UNCHANGED <<market, projects, cApi, edits>>

----------------------------------------------------------------------------
(* Everybody else *)

ClusterUserDelete(c) ==
    /\ cApi[c].exists /\ ~cApi[c].deleting
    /\ cApi' = IF cApi[c].fin THEN [cApi EXCEPT ![c].deleting = TRUE]
                              ELSE [cApi EXCEPT ![c].exists = FALSE]
    /\ UNCHANGED <<market, projects, cCache, cQueue, cWorker, cp, faults, edits>>

\* The user edits spec.datacenters, for which the CRD has no immutability rule.
EditDatacenters(c) ==
    /\ cApi[c].exists
    /\ edits > 0 /\ edits' = edits - 1
    /\ \E dcs \in Spec0 \ {cApi[c].dcs} : cApi' = [cApi EXCEPT ![c].dcs = dcs]
    /\ UNCHANGED <<market, projects, cCache, cQueue, cWorker, cp, faults>>

ClusterSetOwnerRef(c) ==
    /\ cApi[c].exists /\ ~cApi[c].deleting /\ ~cApi[c].owner
    /\ cApi' = [cApi EXCEPT ![c].owner = TRUE]
    /\ UNCHANGED <<market, projects, cCache, cQueue, cWorker, cp, faults, edits>>

\* A control-plane WaldurMachine of the cluster reaches OK, and that event of
\* the machine queues the cluster (waldurMachineToCluster). Later its instance
\* has an address: Waldur tells nobody, only polling finds out.
ControlPlaneUp(c) ==
    /\ cp[c] < MaxCP
    /\ cp' = [cp EXCEPT ![c] = @ + 1]
    /\ cQueue' = [cQueue EXCEPT ![c] = @ \/ cp[c] = 1]
    /\ UNCHANGED <<market, projects, cApi, cCache, cWorker, faults, edits>>

ClusterMarketplace ==
    /\ \/ Waldur!WaldurProgress /\ UNCHANGED faults
       \/ Fault("order") /\ \E o \in OrderIds : Waldur!FailOrder(o)
       \/ Fault("vm") /\ \E r \in OrderIds : Waldur!InstanceChange(r)
    /\ UNCHANGED <<projects, store, cWorker, cp, edits>>

----------------------------------------------------------------------------
(* The specification *)

ClusterReconcile(c) ==
    \/ ClusterReconcileGone(c) \/ ClusterAddFinalizer(c) \/ ClusterReconcileWait(c)
    \/ BeginReconcile(c) \/ BeginDelete(c)

ClusterStep ==
    \/ \E o \in Offerings :
          \/ RefreshTenant(o) \/ ClusterRefreshFails(o)
          \/ GetOrCreateProject(o) \/ NoProject(o)
          \/ PollTermination(o) \/ SkipTerminated(o) \/ ClusterSubmitTermination(o)
          \/ TerminationFails(o) \/ DeleteProject(o) \/ DeleteProjectFails(o)
    \/ CreateTenantFails \/ CreateTenant \/ CreateTenantLost \/ CreateTenantPanics
    \/ ClusterPatchStatus \/ EndpointFails \/ NoEndpoint \/ SetEndpoint \/ EndpointConflict
    \/ PatchDelete \/ ClusterRelease \/ ReleaseFails
    \/ ClusterAnswerPanics \/ ClusterWriteFails

ClusterEnvironment(c) ==
    \/ ClusterUserDelete(c) \/ EditDatacenters(c) \/ ClusterSetOwnerRef(c) \/ ControlPlaneUp(c)

ClusterNext ==
    \/ \E c \in Clusters : ClusterReconcile(c) \/ ClusterCacheSync(c) \/ ClusterEnvironment(c)
    \/ ClusterStep
    \/ ClusterMarketplace
    \/ ClusterCrash

ClusterSpec == ClusterInit /\ [][ClusterNext]_cVars

\* As for the machine controller: the worker, the FIFO workqueue, the watch,
\* Waldur and the owner reference make progress; users, control-plane machines
\* and faults owe nothing.
ClusterFairness ==
    /\ WF_cVars(ClusterStep)
    /\ \A c \in Clusters : /\ SF_cVars(ClusterReconcile(c))
                           /\ WF_cVars(ClusterCacheSync(c))
                           /\ WF_cVars(ClusterSetOwnerRef(c))
    /\ Waldur!WaldurFairness

ClusterFairSpec == ClusterSpec /\ ClusterFairness

----------------------------------------------------------------------------
(* Safety *)

\* A cluster object leaves the API server only when every tenant it records
\* has been terminated: allDone, the finalizer and the locked Update together,
\* through failed and lost orders, failed patches, panics and restarts.
ClusterReleasedOnlyWhenTerminated ==
    \A c \in Clusters, o \in Offerings :
        LET t == cApi[c].st.tenants[o] IN
        ~cApi[c].exists /\ t.present => tResources[t.res].state = "Terminated"

\* A reconciliation under way works on an object that exists and is held by
\* the finalizer.
ClusterInFlightExists == cPc # "idle" => cApi[cCur].exists /\ cApi[cCur].fin

\* Every tenant Waldur holds is known: recorded in the status of its cluster,
\* which exists, or in the hands of the walk that will record it.
NoOrphanTenant ==
    \A r \in OrderIds : Waldur!Live(r) =>
        LET c == tResources[r].owner[1]
            o == tResources[r].owner[2] IN
        /\ cApi[c].exists
        /\ \/ cApi[c].st.tenants[o].present /\ cApi[c].st.tenants[o].res = r
           \/ cCur = c /\ cObj.st.tenants[o].present /\ cObj.st.tenants[o].res = r

\* A cluster that has come to destroying its projects holds no live tenant,
\* recorded or not: it waits for other clusters only, and of two that are
\* deleted together one never waits.
WaitsForOthersOnly ==
    cPc = "deleteProjects" =>
        \A r \in OrderIds : Waldur!Live(r) => tResources[r].owner[1] # cCur

\* When a cluster is gone its projects are gone too, unless another cluster
\* keeps one in use.
NoProjectLeft ==
    \A p \in projects : \E k \in TenantKeys : ProjectOf[k] = p /\ cApi[k[1]].exists

----------------------------------------------------------------------------
(* Action properties *)

\* "All tenants are ready": the status that says so holds an OK tenant for
\* every datacenter of the spec the reconciliation read.
AllTenantsReady ==
    [][\A c \in Clusters :
         (cCur = c /\ cPc = "tenants" /\ cPc' = "endpoint"
            /\ cApi'[c].st.ready = "Provisioned")
            => \A o \in cObj.dcs : cApi'[c].st.tenants[o].state = "OK"]_cVars

\* A tenant is ordered in a project that exists, although clusters with the same
\* customer and datacenter name share one and the first to go destroys it.
TenantOrderedInProject ==
    [][\A id \in OrderIds :
         tOrders[id].type = "none" /\ tOrders'[id].type = "Create"
            => ProjectOf[tResources'[id].owner] \in projects]_cVars

\* The controller's full-object Updates never undo what others wrote meanwhile:
\* only an edit changes spec.datacenters, and the owner reference and the
\* endpoint stay once they are set.
EditsSurvive ==
    [][\A c \in Clusters :
         /\ cApi'[c].dcs # cApi[c].dcs => edits' # edits
         /\ cApi[c].owner => cApi'[c].owner
         /\ cApi[c].endpoint => cApi'[c].endpoint]_cVars

----------------------------------------------------------------------------
(* Refinement *)

TenantLifecycle == INSTANCE ManagedResource WITH
    Keys <- TenantKeys,
    Ids <- OrderIds,
    present <- {k \in TenantKeys : cApi[k[1]].exists},
    doomed <- {k \in TenantKeys : cApi[k[1]].deleting},
    bought <- [k \in TenantKeys |-> {r \in OrderIds : tResources[r].owner = k}],
    gone <- {r \in OrderIds : tResources[r].state = "Terminated"}

\* A datacenter and its tenant keep the promise of ManagedResource as long as
\* no fault hides an accepted order: no walk orders a second tenant for it, one
\* that is edited out of the spec keeps its tenant, and the cluster stays until
\* its deletion has terminated all of them.
ManagedTenant == TenantLifecycle!Spec

----------------------------------------------------------------------------
(* Liveness, under ClusterFairSpec *)

\* Another cluster has a live tenant in a project of c.
ProjectInUse(c) ==
    \E r \in OrderIds : /\ Waldur!Live(r)
                        /\ tResources[r].owner[1] # c
                        /\ ProjectOf[tResources[r].owner] \in {ProjectOf[<<c, o>>] : o \in Offerings}

\* A cluster the user deletes goes away, the tenant of an edited-out datacenter
\* too, unless Waldur refuses to destroy a project that another cluster uses
\* for good.
ClusterDeletionCompletes ==
    \A c \in Clusters :
        []<>(~cApi[c].deleting \/ ~cApi[c].exists \/ ProjectInUse(c))

\* While every tenant of its datacenters is up at Waldur a cluster becomes
\* Ready, and becomes so again after a tenant has failed and recovered; a
\* datacenter whose tenant order was refused is no excuse, it is ordered again.
\* The tenant of a datacenter that was edited out is still counted, and never
\* refreshed: where it was not up, the cluster stays Provisioning.
ReadyWhenTenantsUp ==
    \A c \in Clusters :
        []<>(\/ cApi[c].st.ready = "Provisioned" \/ cApi[c].deleting \/ ~cApi[c].exists
             \/ \E o \in cApi[c].dcs :
                   LET t == cApi[c].st.tenants[o] IN
                   t.present /\ tResources[t.res].core # "OK"
             \/ \E o \in Present(cApi[c].st) \ cApi[c].dcs :
                   cApi[c].st.tenants[o].state # "OK")

\* An address of a control-plane machine, of which no event tells, ends up in
\* the spec, although the Update that writes it is refused when the user edits
\* the datacenters after the status patch of the same reconciliation.
EndpointPublished ==
    \A c \in Clusters :
        (CPStages[cp[c]] = "hasIP" /\ cApi[c].owner)
            ~> cApi[c].endpoint \/ cApi[c].deleting \/ ~cApi[c].exists
============================================================================
