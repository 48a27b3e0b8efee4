--------------------------- MODULE ProviderProofs ---------------------------
(***************************************************************************)
(* Theorems about Provider: what the two controllers guarantee together,   *)
(* for any machines, clusters and datacenters, any placement, any edits    *)
(* and any number of faults.  What each controller has proved of itself    *)
(* carries over: a step of one leaves the invariants of the other alone.   *)
(***************************************************************************)
EXTENDS Provider, MachineRefinementProofs, ClusterProofs

----------------------------------------------------------------------------
(* The steps of the system *)

\* The places of the worker from the read of the WaldurCluster to the order.
Ordering == {"createVM", "secretID", "submit"}

\* What a step of the cluster side may change of the machine side, and the
\* other way round.
MachineRests ==
    /\ UNCHANGED <<waldur, vault, api, cache, queued, worker, boot, labelled, templateOK>>
    /\ tenantReady' \in BOOLEAN
    /\ faults' \in 0..MaxFaults

ClusterRests ==
    /\ UNCHANGED <<market, projects, cApi, cCache, cWorker, edits>>
    /\ cp' \in [Clusters -> 1..MaxCP]
    /\ cQueue' \in [Clusters -> BOOLEAN]
    /\ faults' \in 0..MaxFaults

\* The machine controller works on a tenant it has just looked up, or goes on
\* with the one it has.
LooksUp ==
    /\ tenantReady' = tenantReady
    /\ pc' \in Ordering =>
          \/ cur' \in Machines /\ tenantReady = TenantUsable(cur')
          \/ cur' = cur /\ pc \in Ordering

LEMMA ControlPlaneType ==
    /\ ControlPlane \in [Clusters -> 1..MaxCP]
    /\ ControlPlane' \in [Clusters -> 1..MaxCP]
BY PlaceAssumption DEF ControlPlane

LEMMA PlaceType ==
    ASSUME NEW m \in Machines
    PROVE  /\ Place[m][1] \in Clusters /\ Place[m][2] \in Offerings
           /\ Place[m] = <<Place[m][1], Place[m][2]>>
BY PlaceAssumption DEF TenantKeys

LEMMA ReconcileLooksUp ==
    ASSUME NEW m \in Machines, ReconcileMachine(m)
    PROVE  LooksUp
<1>1. tenantReady' = tenantReady
  BY DEF ReconcileMachine, Reconcile, ReconcileGone, AddFinalizer, ReconcileWait, BeginCreate,
         BeginRefresh, DeleteNeverProvisioned, DeletePoll, DeleteDone, BeginTerminate, Release,
         Settle, Begin, world
<1>2. CASE BeginCreate(m)
  <2>1. pc' = "createVM" /\ cur' = m
    BY <1>2 DEF BeginCreate, Begin
  <2> QED
    BY <1>1, <2>1 DEF ReconcileMachine, LooksUp
<1>3. CASE BeginRefresh(m) \/ DeletePoll(m) \/ BeginTerminate(m)
  <2>1. pc' \notin Ordering
    BY <1>3 DEF BeginRefresh, DeletePoll, BeginTerminate, Begin, RefreshAt, Ordering
  <2> QED
    BY <1>1, <2>1 DEF LooksUp
<1>4. CASE \/ ReconcileGone(m) \/ AddFinalizer(m) \/ ReconcileWait(m)
           \/ DeleteNeverProvisioned(m) \/ DeleteDone(m)
  <2>1. pc' = "idle"
    BY <1>4 DEF ReconcileGone, AddFinalizer, ReconcileWait, DeleteNeverProvisioned, DeleteDone,
                Release, Settle, Take, worker
  <2> QED
    BY <1>1, <2>1 DEF LooksUp, Ordering
<1> QED
  BY <1>2, <1>3, <1>4 DEF ReconcileMachine, Reconcile

LEMMA StepLooksUp ==
    ASSUME Step
    PROVE  LooksUp
<1>1. tenantReady' = tenantReady
  BY DEF Step, WaitBootstrap, PassVerbatim, StripFails, StoreToken, RancherPath, NewSecretID,
         MergeFails, PayloadNotReady, CreateCallFails, VaultAnswerLost, SubmitAccepted,
         SubmitRejected, SubmitLost, RefreshOrder, RefreshInstance, RefreshFails, AnswerPanics,
         PatchProviderID, PatchStatus, WriteFails, StopVM, SubmitTermination,
         TerminationRefused, TerminationLost, TerminateCallFails, world
<1>2. CASE PassVerbatim \/ StoreToken \/ RancherPath \/ NewSecretID
  BY <1>1, <1>2 DEF PassVerbatim, StoreToken, RancherPath, NewSecretID, Goto, LooksUp, Ordering
<1>3. CASE \/ StripFails \/ MergeFails \/ PayloadNotReady \/ CreateCallFails \/ VaultAnswerLost
           \/ SubmitAccepted \/ SubmitRejected \/ SubmitLost
           \/ RefreshOrder \/ PatchProviderID \/ SubmitTermination
  <2>1. pc' \notin Ordering
    BY <1>3 DEF StripFails, MergeFails, PayloadNotReady, CreateCallFails, VaultAnswerLost,
                SubmitAccepted, SubmitRejected, SubmitLost, RefreshOrder, PatchProviderID,
                SubmitTermination, CreateFails, Goto, Ordering
  <2> QED
    BY <1>1, <2>1 DEF LooksUp
<1>4. CASE RefreshInstance \/ RefreshFails
  <2>1. pc' \notin Ordering
    BY <1>4 DEF RefreshInstance, RefreshFails, AfterRefresh, Goto, Ordering
  <2> QED
    BY <1>1, <2>1 DEF LooksUp
<1>5. CASE \/ WaitBootstrap \/ AnswerPanics \/ PatchStatus \/ WriteFails \/ StopVM
           \/ TerminationRefused \/ TerminationLost \/ TerminateCallFails
  <2>1. pc' = "idle"
    BY <1>5 DEF WaitBootstrap, AnswerPanics, PatchStatus, WriteFails, StopVM,
                TerminationRefused, TerminationLost, TerminateCallFails, Return, GoIdle
  <2> QED
    BY <1>1, <2>1 DEF LooksUp, Ordering
<1> QED
  BY <1>2, <1>3, <1>4, <1>5 DEF Step

\* A step of the machine controller, or of somebody who acts on machines.
MachineMoves == [Next]_vars /\ LooksUp /\ ClusterRests

\* The object is there, and not about to go.
Stands(x) == x.exists /\ ~x.deleting

\* A step of the cluster controller, or of somebody who acts on clusters; the
\* infrastructure is deleted only after its machines.
ClusterMoves ==
    /\ [ClusterNext]_cVars
    /\ MachineRests /\ tenantReady' = tenantReady
    /\ \A m \in Machines :
          Stands(cApi[Place[m][1]]) /\ ~Stands(cApi'[Place[m][1]]) => ~api[m].exists

\* Looking up the tenant before a reconciliation begins.
Looks == pc = "idle" /\ MachineRests /\ ClusterRests

\* Only the deletion of the object itself makes it go.
LEMMA FallingSteps ==
    ASSUME ClusterTypeInv, HeldInv, [ClusterNext]_cVars, NEW c \in Clusters,
           Stands(cApi[c]), ~Stands(cApi'[c])
    PROVE  ClusterUserDelete(c) /\ UNCHANGED <<cPc, cCache, cQueue, edits>>
<1> USE DEF Stands
<1> cApi \in [Clusters -> ClusterObject]
  BY DEF ClusterTypeInv, ClusterTypeOK
<1>1. CASE ClusterPatchStatus \/ PatchDelete
  <2>1. PICK st \in ClusterStatus : cApi' = [cApi EXCEPT ![cCur] = [cApi[cCur] EXCEPT !.st = st]]
    BY <1>1, PatchType
  <2> QED
    BY <2>1 DEF ClusterObject
<1>2. CASE \/ cApi' = [cApi EXCEPT ![cCur] = [cApi[cCur] EXCEPT !.endpoint = TRUE]]
           \/ UNCHANGED cApi
  BY <1>2 DEF ClusterObject
<1>3. CASE /\ ClusterRelease
           /\ cApi' = [cApi EXCEPT ![cCur] = [cApi[cCur] EXCEPT !.fin = FALSE, !.exists = FALSE]]
  BY <1>3 DEF ClusterRelease, HeldInv, FlightHeld, ClusterObject
<1>4. ASSUME NEW d \in Clusters,
             \/ cApi' = [cApi EXCEPT ![d] = [cApi[d] EXCEPT !.fin = TRUE]]
             \/ EditDatacenters(d) \/ ClusterSetOwnerRef(d)
      PROVE  FALSE
  BY <1>4 DEF EditDatacenters, ClusterSetOwnerRef, ClusterObject
<1>5. ASSUME NEW d \in Clusters, ClusterUserDelete(d)
      PROVE  c = d
  BY <1>5 DEF ClusterUserDelete, ClusterObject
<1>6. \E d \in Clusters : ClusterUserDelete(d)
  BY <1>1, <1>2, <1>3, <1>4, ObjectSteps
<1> QED
  BY <1>5, <1>6 DEF ClusterUserDelete, cWorker

LEMMA MachineSteps ==
    ASSUME TypeInv, ClusterTypeInv,
           \/ \E m \in Machines :
                 \/ ReconcileMachine(m) \/ WatchMachine(m) \/ DeleteMachine(m)
                 \/ AdoptMachine(m) \/ Bootstrap(m)
           \/ MachineStep \/ (Marketplace /\ ClusterLooksOn)
    PROVE  MachineMoves
<1>1. faults' \in 0..MaxFaults
  <2>1. [Next]_vars
    BY DEF ReconcileMachine, WatchMachine, DeleteMachine, AdoptMachine, Bootstrap, MachineStep,
           Next, Environment
  <2> QED
    BY <2>1, TypeStep DEF TypeInv, TypeOK
<1>2. ASSUME NEW m \in Machines, WatchMachine(m)
      PROVE  MachineMoves
  <2>1. ClusterRests
    BY <1>1, <1>2, ControlPlaneType, PlaceType
    DEF WatchMachine, ClusterRests, ClusterTypeInv, ClusterTypeOK
  <2>2. LooksUp
    BY <1>2 DEF WatchMachine, CacheSync, worker, world, LooksUp
  <2> QED
    BY <1>2, <2>1, <2>2 DEF WatchMachine, MachineMoves, Next
<1>3. ASSUME ClusterLooksOn
      PROVE  ClusterRests
  BY <1>1, <1>3, ControlPlaneType
  DEF ClusterLooksOn, ClusterRests, clusterSide, store, ClusterTypeInv, ClusterTypeOK
<1>4. ASSUME NEW m \in Machines, ReconcileMachine(m)
      PROVE  MachineMoves
  BY <1>3, <1>4, ReconcileLooksUp DEF ReconcileMachine, MachineMoves, Next
<1>5. ASSUME NEW m \in Machines, DeleteMachine(m) \/ AdoptMachine(m) \/ Bootstrap(m)
      PROVE  MachineMoves
  <2>1. LooksUp
    BY <1>5 DEF DeleteMachine, AdoptMachine, Bootstrap, UserDelete, SetOwnerRef, BootstrapReady,
                worker, world, LooksUp
  <2> QED
    BY <1>3, <1>5, <2>1
    DEF DeleteMachine, AdoptMachine, Bootstrap, MachineMoves, Next, Environment
<1>6. CASE MachineStep
  BY <1>3, <1>6, StepLooksUp DEF MachineStep, MachineMoves, Next
<1>7. CASE Marketplace /\ ClusterLooksOn
  <2>1. LooksUp
    BY <1>7 DEF Marketplace, worker, world, LooksUp
  <2> QED
    BY <1>3, <1>7, <2>1 DEF MachineMoves, Next
<1> QED
  BY <1>2, <1>4, <1>5, <1>6, <1>7

\* A step of the worker writes the object only as it ends a walk.
LEMMA StepWrites ==
    ASSUME ClusterStep
    PROVE  cApi' = cApi \/ cPc' # cPc
<1>1. CASE ClusterPatchStatus
  BY <1>1 DEF ClusterPatchStatus, ClusterReturn, ClusterGoIdle
<1>2. CASE PatchDelete
  BY <1>2 DEF PatchDelete, ClusterReturn, ClusterGoIdle
<1>3. CASE SetEndpoint \/ ClusterRelease
  BY <1>3 DEF SetEndpoint, ClusterRelease, ClusterReturn, ClusterGoIdle
<1>4. CASE \E o \in Offerings :
              \/ RefreshTenant(o) \/ ClusterRefreshFails(o)
              \/ GetOrCreateProject(o) \/ NoProject(o)
              \/ PollTermination(o) \/ SkipTerminated(o) \/ ClusterSubmitTermination(o)
              \/ TerminationFails(o) \/ DeleteProject(o) \/ DeleteProjectFails(o)
  BY <1>4 DEF RefreshTenant, ClusterRefreshFails, GetOrCreateProject, NoProject, PollTermination,
              SkipTerminated, ClusterSubmitTermination, TerminationFails, DeleteProject,
              DeleteProjectFails, store
<1>5. CASE \/ CreateTenantFails \/ CreateTenant \/ CreateTenantLost \/ CreateTenantPanics
           \/ EndpointFails \/ NoEndpoint \/ EndpointConflict
           \/ ReleaseFails \/ ClusterAnswerPanics \/ ClusterWriteFails
  BY <1>5 DEF CreateTenantFails, CreateTenant, CreateTenantLost, CreateTenantPanics, EndpointFails, NoEndpoint,
              EndpointConflict, ReleaseFails, ClusterAnswerPanics, ClusterWriteFails
<1> QED
  BY <1>1, <1>2, <1>3, <1>4, <1>5 DEF ClusterStep

LEMMA ClusterSteps ==
    ASSUME TypeInv, ClusterTypeInv, HeldInv,
           \/ \E c \in Clusters :
                 \/ ReconcileCluster(c) \/ WatchCluster(c) \/ TearDown(c) \/ EditCluster(c)
                 \/ AdoptCluster(c) \/ DeleteCluster(c)
           \/ WalkCluster \/ (ClusterMarketplace /\ MachineLooksOn)
    PROVE  ClusterMoves
<1>1. [ClusterNext]_cVars
  BY DEF ReconcileCluster, WatchCluster, TearDown, EditCluster, AdoptCluster, DeleteCluster,
         WalkCluster, ClusterNext, ClusterEnvironment, clusterSide, market, store, cWorker, cVars
<1>2. UNCHANGED machineSide
  BY DEF ReconcileCluster, WatchCluster, TearDown, EditCluster, AdoptCluster, DeleteCluster,
         WalkCluster, MachineLooksOn
<1>3. faults' \in 0..MaxFaults
  BY <1>1, ClusterTypeStep DEF ClusterTypeInv, ClusterTypeOK
<1>4. MachineRests /\ tenantReady' = tenantReady
  BY <1>2, <1>3 DEF MachineRests, machineSide, world, TypeInv, TypeOK
<1>5. ASSUME NEW m \in Machines,
             Stands(cApi[Place[m][1]]), ~Stands(cApi'[Place[m][1]])
      PROVE  ~api[m].exists
  <2> DEFINE d == Place[m][1]
  <2>1. /\ d \in Clusters /\ ClusterUserDelete(d)
        /\ UNCHANGED <<cPc, cCache, cQueue, edits>> /\ cApi' # cApi
    BY <1>1, <1>5, FallingSteps, PlaceType
  <2>2. ASSUME NEW c \in Clusters, DeleteCluster(c)
        PROVE  c = d
    BY <2>1, <2>2, <1>5 DEF DeleteCluster, ClusterUserDelete, ClusterTypeInv, ClusterTypeOK,
                            ClusterObject, Stands
  <2>3. ASSUME NEW c \in Clusters, ClusterReconcile(c)
        PROVE  FALSE
    <3>1. cQueue[c]
      BY <2>3 DEF ClusterReconcile, ClusterReconcileGone, ClusterAddFinalizer, ClusterReconcileWait,
                  BeginReconcile, BeginDelete, ClusterTake
    <3>2. cQueue' = [cQueue EXCEPT ![c] = FALSE]
      BY <2>3 DEF ClusterReconcile, ClusterReconcileGone, ClusterAddFinalizer, ClusterReconcileWait,
                  BeginReconcile, BeginDelete, ClusterSettle, ClusterBegin
    <3> QED
      BY <2>1, <3>1, <3>2 DEF ClusterTypeInv, ClusterTypeOK
  <2>4. ASSUME NEW c \in Clusters, ClusterCacheSync(c) \/ TearDown(c) \/ EditDatacenters(c)
        PROVE  FALSE
    BY <2>1, <2>4 DEF ClusterCacheSync, TearDown, EditDatacenters, clusterSide, store,
                      ClusterTypeInv, ClusterTypeOK
  <2>5. ASSUME NEW c \in Clusters, ClusterSetOwnerRef(c)
        PROVE  FALSE
    BY <1>5, <2>1, <2>5
    DEF ClusterSetOwnerRef, ClusterTypeInv, ClusterTypeOK, ClusterObject, Stands
  <2>6. ~ClusterStep
    BY <2>1, StepWrites
  <2>7. ~ClusterMarketplace
    BY <2>1 DEF ClusterMarketplace, store
  <2>8. DeleteCluster(d)
    BY <2>2, <2>3, <2>4, <2>5, <2>6, <2>7
    DEF ReconcileCluster, WatchCluster, EditCluster, AdoptCluster, WalkCluster
  <2> QED
    BY <2>8 DEF DeleteCluster, MachinesOf
<1> QED
  BY <1>1, <1>4, <1>5 DEF ClusterMoves

\* Every step of the system is a step of one side, of both (a restart of the
\* manager), or of none (the look-up).
LEMMA SystemSteps ==
    ASSUME TypeInv, ClusterTypeInv, HeldInv, [SystemNext]_systemVars
    PROVE  MachineMoves \/ ClusterMoves \/ (Crash /\ ClusterCrash) \/ Looks
<1>1. CASE UNCHANGED systemVars
  <2>1. UNCHANGED vars
    BY <1>1 DEF systemVars, machineSide, waldur, vault, worker, world, vars
  <2>2. LooksUp
    BY <2>1 DEF vars, LooksUp
  <2>3. ClusterRests
    BY <1>1 DEF systemVars, clusterSide, store, ClusterRests, ClusterTypeInv, ClusterTypeOK
  <2> QED
    BY <2>1, <2>2, <2>3 DEF MachineMoves
<1>2. ASSUME NEW m \in Machines, Look(m)
      PROVE  Looks
  <2>1. tenantReady' \in BOOLEAN
    BY <1>2 DEF Look, TenantUsable
  <2> QED
    BY <1>2, <2>1, ControlPlaneType
    DEF Look, Looks, MachineRests, ClusterRests, ClusterLooksOn, clusterSide, store,
        ClusterTypeInv, ClusterTypeOK
<1>3. CASE SystemMarketplace
  BY <1>3, MachineSteps, ClusterSteps DEF SystemMarketplace
<1>4. CASE ClusterAPI
  BY <1>4, MachineSteps, ClusterSteps DEF ClusterAPI
<1>5. CASE ManagerCrash
  BY <1>5 DEF ManagerCrash
<1> QED
  BY <1>1, <1>2, <1>3, <1>4, <1>5, MachineSteps, ClusterSteps DEF SystemNext

----------------------------------------------------------------------------
(* Each side keeps its invariant while the other moves *)

LEMMA MachineFrame ==
    ASSUME MachineInv, MachineRests
    PROVE  MachineInv'
<1> USE DEF MachineInv
<1>1. TypeInv'
  BY DEF MachineRests, TypeInv, TypeOK, WorkerOK, WaldurTypeOK, VaultTypeOK, waldur, vault, worker
<1>2. FinalizerInv'
  BY FinalizerQuiet DEF MachineRests, worker
<1>3. OrdersInv' /\ Stable
  BY WaldurIdle DEF MachineRests, ReleaseInv
<1>4. ReleaseInv'
  BY <1>3, ReleaseGoesOn DEF MachineRests, worker
<1>5. OwnersKept
  BY DEF OwnersKept, MachineRests, waldur
<1>6. InHand'
  BY <1>5, HandKept DEF MachineRests
<1>7. TrackInv'
  BY <1>5, <1>6, TrackQuiet DEF MachineRests, TrackInv, Recorded
<1> QED
  BY <1>1, <1>2, <1>4, <1>7

LEMMA KnownFrame ==
    ASSUME KnownInv, MachineRests
    PROVE  KnownInv'
BY DEF KnownInv, Known, MachineRests, waldur, worker

LEMMA ClusterFrame ==
    ASSUME ClusterInv, ClusterRests
    PROVE  ClusterInv'
<1> USE DEF ClusterInv
<1>1. ClusterTypeInv'
  BY DEF ClusterRests, ClusterTypeInv, ClusterTypeOK, Waldur!WaldurTypeOK, StoreShape, WalkShape,
         market, cWorker
<1>2. HeldInv'
  BY DEF ClusterRests, HeldInv, ObjectHeld, FlightHeld, cWorker
<1>3. ClusterReleaseInv'
  BY DEF ClusterRests, ClusterReleaseInv, MarketInv, DoneSoFar, market, cWorker
<1> QED
  BY <1>1, <1>2, <1>3

LEMMA DoomedFrame ==
    ASSUME DoomedInv, ClusterRests
    PROVE  DoomedInv'
BY DEF DoomedInv, ClusterRests, market

----------------------------------------------------------------------------
(* What the cluster side guarantees the machine side *)

\* A termination of tenant r has been ordered.
Ending(r) == \E i \in OrderIds : tOrders[i].type = "Terminate" /\ tOrders[i].res = r

\* A finished tenant stays OK until its termination is ordered, and none goes
\* down by itself.
FinishedInv ==
    \A r \in OrderIds :
        /\ tOrders[r].type = "Create" /\ tOrders[r].state = "Done"
              => tResources[r].state = "OK" \/ Ending(r)
        /\ tResources[r].state \in {"Terminating", "Terminated"} => Ending(r)

\* What the cache shows of a cluster is true of Waldur, and still recorded.
SeenInv ==
    \A c \in Clusters :
        /\ BookedStatus(c, cCache[c].st, tOrders, tResources)
        /\ \A o \in Offerings, r \in OrderIds :
              ClusterRecorded(cCache[c].st, o, r) => ClusterRecorded(cApi[c].st, o, r)

LEMMA FinishedInit == ClusterInit => FinishedInv
BY DEF ClusterInit, Waldur!WaldurInit, FinishedInv

LEMMA EndingStays ==
    ASSUME ClusterStable, NEW r \in OrderIds, Ending(r)
    PROVE  Ending(r)'
BY DEF ClusterStable, Ending

LEMMA FinishedFrame ==
    ASSUME FinishedInv, ClusterRests
    PROVE  FinishedInv'
BY DEF FinishedInv, Ending, ClusterRests, market

LEMMA SeenInit == ClusterInit => SeenInv
<1> SUFFICES ASSUME ClusterInit PROVE SeenInv
  OBVIOUS
<1>1. cCache = cApi
  BY DEF ClusterInit
<1>2. \A c \in Clusters : BookedStatus(c, cApi[c].st, tOrders, tResources)
  BY ClusterReleaseInit DEF ClusterReleaseInv
<1> QED
  BY <1>1, <1>2 DEF SeenInv

LEMMA SeenFrame ==
    ASSUME SeenInv, ClusterRests
    PROVE  SeenInv'
BY DEF SeenInv, ClusterRests, market

LEMMA SeenNext ==
    ASSUME ReadOwnWrites, ClusterInv, SeenInv, [ClusterNext]_cVars
    PROVE  SeenInv'
<1> SUFFICES ASSUME NEW c \in Clusters
             PROVE  /\ BookedStatus(c, cCache'[c].st, tOrders', tResources')
                    /\ \A o \in Offerings, r \in OrderIds :
                          ClusterRecorded(cCache'[c].st, o, r) => ClusterRecorded(cApi'[c].st, o, r)
  BY DEF SeenInv
<1>1. ClusterStable
  BY MarketNext DEF ClusterInv, ClusterReleaseInv
<1>2. /\ cApi[c].st \in ClusterStatus /\ WholeStatus(cApi[c].st)
      /\ cCache[c].st \in ClusterStatus /\ WholeStatus(cCache[c].st)
  BY DEF ClusterInv, ClusterTypeInv, ClusterTypeOK, StoreShape, ClusterObject
<1>3. /\ BookedStatus(c, cApi[c].st, tOrders', tResources')
      /\ BookedStatus(c, cCache[c].st, tOrders', tResources')
  BY <1>1, <1>2, BookedStable DEF SeenInv, ClusterInv, ClusterReleaseInv
<1>4. cCache'[c] \in {cCache[c], cApi[c]}
  BY CacheSteps DEF ClusterInv
<1>5. BookedStatus(c, cCache'[c].st, tOrders', tResources')
  BY <1>3, <1>4
<1>6. ASSUME NEW o \in Offerings, NEW r \in OrderIds, ClusterRecorded(cCache'[c].st, o, r)
      PROVE  ClusterRecorded(cApi'[c].st, o, r)
  <2>1. ClusterRecorded(cApi[c].st, o, r)
    BY <1>4, <1>6 DEF SeenInv
  <2> QED
    BY <2>1, RecordedStays
<1> QED
  BY <1>5, <1>6


\* Waldur's own steps: a tenant becomes OK as its order is done, and is taken
\* down only by an order to do so.
LEMMA FinishedProgress ==
    ASSUME Waldur!WaldurTypeOK, MarketInv, FinishedInv, ClusterStable,
           NEW o \in OrderIds, Progress(o)
    PROVE  FinishedInv'
<1> SUFFICES ASSUME NEW r \in OrderIds
             PROVE  /\ tOrders'[r].type = "Create" /\ tOrders'[r].state = "Done"
                          => tResources'[r].state = "OK" \/ Ending(r)'
                    /\ tResources'[r].state \in {"Terminating", "Terminated"} => Ending(r)'
  BY DEF FinishedInv
<1> USE DEF Waldur!WaldurTypeOK, Waldur!Order, Waldur!Resource
<1>1. Ending(r) => Ending(r)'
  BY EndingStays
<1>2. CASE Waldur!StartOrder(o)
  <2>1. tResources'[r].state = tResources[r].state
    BY <1>2 DEF Waldur!StartOrder
  <2>2. tOrders'[r].state = "Done" => tOrders'[r] = tOrders[r]
    BY <1>2 DEF Waldur!StartOrder
  <2> QED
    BY <1>1, <2>1, <2>2 DEF FinishedInv
<1>3. CASE Waldur!InstanceUp(o) \/ Waldur!InstanceStopped(o) \/ Waldur!InstanceChange(o)
  <2>0. tOrders' = tOrders
    BY <1>3 DEF Waldur!InstanceUp, Waldur!InstanceStopped, Waldur!InstanceChange
  <2>1. tResources'[r].state = tResources[r].state
    <3>1. CASE Waldur!InstanceUp(o)
      BY <3>1 DEF Waldur!InstanceUp
    <3>2. CASE Waldur!InstanceStopped(o)
      BY <3>2 DEF Waldur!InstanceStopped
    <3>3. CASE Waldur!InstanceChange(o)
      <4>1. PICK v, w :
              tResources' = [tResources EXCEPT ![o] = [@ EXCEPT !.core = v, !.run = w]]
        BY <3>3, Zenon DEF Waldur!InstanceChange
      <4> QED
        BY <4>1
    <3> QED
      BY <1>3, <3>1, <3>2, <3>3
  <2> QED
    BY <1>1, <2>0, <2>1 DEF FinishedInv
<1>4. CASE Waldur!FinishCreation(o)
  <2>1. r = o => tResources'[r].state = "OK"
    BY <1>4 DEF Waldur!FinishCreation
  <2>2. r # o => tResources'[r] = tResources[r] /\ tOrders'[r] = tOrders[r]
    BY <1>4 DEF Waldur!FinishCreation
  <2> QED
    BY <1>1, <2>1, <2>2 DEF FinishedInv
<1>5. CASE Waldur!FinishTermination(o)
  <2>1. tOrders[o].type = "Terminate" /\ tOrders[o].res \in OrderIds
    BY <1>5 DEF Waldur!FinishTermination, MarketInv
  <2>2. tOrders'[r].type = "Create" => tOrders'[r] = tOrders[r]
    BY <1>5, <2>1 DEF Waldur!FinishTermination
  <2>3. r # tOrders[o].res => tResources'[r] = tResources[r]
    BY <1>5 DEF Waldur!FinishTermination
  <2>4. r = tOrders[o].res => Ending(r)
    BY <2>1 DEF Ending
  <2> QED
    BY <1>1, <2>2, <2>3, <2>4 DEF FinishedInv
<1>6. CASE Waldur!FailOrder(o)
  <2>1. tOrders[o].type \in {"Create", "Terminate"} /\ tOrders[o].res \in OrderIds
    BY <1>6 DEF Waldur!FailOrder, MarketInv
  <2>2. tOrders'[r].state = "Done" => r # o /\ tOrders'[r] = tOrders[r]
    BY <1>6 DEF Waldur!FailOrder
  <2>3. r # tOrders[o].res => tResources'[r] = tResources[r]
    BY <1>6, <2>1 DEF Waldur!FailOrder
  <2>4. \/ tResources'[r] = tResources[r]
        \/ tResources'[r].state = "Erred"
    BY <1>6, <2>1 DEF Waldur!FailOrder, Waldur!Erred
  <2>5. CASE tOrders[o].type = "Create"
    <3>1. tOrders[o].res = o
      BY <2>5 DEF MarketInv
    <3> QED
      BY <1>1, <2>2, <2>3, <2>4, <3>1 DEF FinishedInv
  <2>6. CASE tOrders[o].type = "Terminate"
    <3>1. r = tOrders[o].res => Ending(r)
      BY <2>6 DEF Ending
    <3> QED
      BY <1>1, <2>2, <2>3, <3>1 DEF FinishedInv
  <2> QED
    BY <2>1, <2>5, <2>6
<1> QED
  BY <1>2, <1>3, <1>4, <1>5, <1>6 DEF Progress

LEMMA FinishedNext ==
    ASSUME ClusterInv, FinishedInv, [ClusterNext]_cVars
    PROVE  FinishedInv'
<1>1. ClusterStable
  BY MarketNext DEF ClusterInv, ClusterReleaseInv
<1>2. Waldur!WaldurTypeOK /\ MarketInv
  BY DEF ClusterInv, ClusterTypeInv, ClusterTypeOK, ClusterReleaseInv
<1>3. CASE UNCHANGED market
  BY <1>3 DEF FinishedInv, Ending, market
<1>4. CASE \E o \in OrderIds : Progress(o)
  BY <1>1, <1>2, <1>4, FinishedProgress
<1>5. ASSUME NEW id \in OrderIds, NEW core \in OrderScopes, AcceptTenant(id, core)
      PROVE  FinishedInv'
  <2> SUFFICES ASSUME NEW r \in OrderIds
               PROVE  /\ tOrders'[r].type = "Create" /\ tOrders'[r].state = "Done"
                            => tResources'[r].state = "OK" \/ Ending(r)'
                      /\ tResources'[r].state \in {"Terminating", "Terminated"} => Ending(r)'
    BY DEF FinishedInv
  <2>1. Ending(r) => Ending(r)'
    BY <1>1, EndingStays
  <2>2. \/ tOrders'[r] = tOrders[r] /\ tResources'[r] = tResources[r]
        \/ tOrders'[r].state = "PendingProvider" /\ tResources'[r].state = "Creating"
    BY <1>2, <1>5 DEF AcceptTenant, Waldur!AcceptCreation, Waldur!WaldurTypeOK
  <2> QED
    BY <2>1, <2>2 DEF FinishedInv
<1>6. ASSUME NEW o \in Offerings, ClusterSubmitTermination(o) \/ TerminationFails(o),
             NEW id \in OrderIds, Waldur!AcceptTermination(id, cObj.st.tenants[o].res)
      PROVE  FinishedInv'
  <2>1. PICK q \in OrderIds : q = cObj.st.tenants[o].res
    BY <1>6 DEF ClusterSubmitTermination, TerminationFails, ClusterInv, ClusterTypeInv, WalkShape,
                Present, WholeStatus, Whole
  <2>2. /\ tOrders' = [tOrders EXCEPT ![id] =
              [type |-> "Terminate", state |-> "PendingProvider", res |-> q]]
        /\ \A r \in OrderIds : r # q => tResources'[r] = tResources[r]
    BY <1>2, <1>6, <2>1 DEF Waldur!AcceptTermination, Waldur!WaldurTypeOK
  <2>3. Ending(q)'
    BY <1>2, <2>2 DEF Ending, Waldur!WaldurTypeOK
  <2> SUFFICES ASSUME NEW r \in OrderIds
               PROVE  /\ tOrders'[r].type = "Create" /\ tOrders'[r].state = "Done"
                            => tResources'[r].state = "OK" \/ Ending(r)'
                      /\ tResources'[r].state \in {"Terminating", "Terminated"} => Ending(r)'
    BY DEF FinishedInv
  <2>4. Ending(r) => Ending(r)'
    BY <1>1, EndingStays
  <2>5. tOrders'[r].type = "Create" => tOrders'[r] = tOrders[r]
    BY <1>2, <2>2 DEF Waldur!WaldurTypeOK
  <2>6. CASE r = q
    BY <2>3, <2>6
  <2>7. CASE r # q
    BY <2>2, <2>4, <2>5, <2>7 DEF FinishedInv
  <2> QED
    BY <2>6, <2>7
<1> QED
  BY <1>3, <1>4, <1>5, <1>6, MarketSteps DEF ClusterInv


----------------------------------------------------------------------------
(* Machines and the tenants they are placed in *)

\* The tenant machine m is placed in is recorded, and its order is done.
FinishedTenant(m) ==
    \E r \in OrderIds :
        /\ ClusterRecorded(cApi[Place[m][1]].st, Place[m][2], r)
        /\ tOrders[r].type = "Create" /\ tOrders[r].state = "Done"

\* No cluster goes before its machines, and a machine whose VM is about to be
\* ordered has a finished tenant to go to.
PlacedInv ==
    /\ \A m \in Machines : api[m].exists => Stands(cApi[Place[m][1]])
    /\ tenantReady /\ pc \in Ordering => FinishedTenant(cur)

LEMMA PlacedInit == SystemInit => PlacedInv
<1> SUFFICES ASSUME SystemInit PROVE PlacedInv
  OBVIOUS
<1>1. \A c \in Clusters : Stands(cApi[c])
  BY DEF SystemInit, ClusterInit, ClusterNewObject, Stands
<1>2. pc \notin Ordering
  BY DEF SystemInit, Init, Ordering
<1> QED
  BY <1>1, <1>2, PlaceType DEF PlacedInv

\* What the machine controller reads of a usable tenant, however late, is so.
LEMMA UsableFinished ==
    ASSUME ClusterInv, SeenInv, NEW m \in Machines, TenantUsable(m)
    PROVE  FinishedTenant(m)
<1> DEFINE c == Place[m][1]
           o == Place[m][2]
           t == cCache[c].st.tenants[o]
<1>1. c \in Clusters /\ o \in Offerings
  BY PlaceType
<1>2. t.present /\ t.mrs = "OK"
  BY DEF TenantUsable
<1>3. t.res \in OrderIds
  BY <1>1, <1>2 DEF ClusterInv, ClusterTypeInv, StoreShape, WholeStatus, Whole
<1>4. tOrders[t.res].type = "Create" /\ tOrders[t.res].state = "Done"
  BY <1>1, <1>2 DEF SeenInv, BookedStatus, Booked
<1>5. ClusterRecorded(cApi[c].st, o, t.res)
  <2>1. ClusterRecorded(cCache[c].st, o, t.res)
    BY <1>2 DEF ClusterRecorded
  <2> HIDE DEF c, o, t
  <2> QED
    BY <1>1, <1>3, <2>1 DEF SeenInv
<1> QED
  BY <1>3, <1>4, <1>5 DEF FinishedTenant

LEMMA FinishedStays ==
    ASSUME ClusterInv, [ClusterNext]_cVars \/ ClusterRests, NEW m \in Machines, FinishedTenant(m)
    PROVE  FinishedTenant(m)'
<1>1. CASE ClusterRests
  BY <1>1 DEF ClusterRests, market, FinishedTenant
<1>2. CASE [ClusterNext]_cVars
  <2>1. ClusterStable
    BY <1>2, MarketNext DEF ClusterInv, ClusterReleaseInv
  <2>2. PICK r \in OrderIds : /\ ClusterRecorded(cApi[Place[m][1]].st, Place[m][2], r)
                              /\ tOrders[r].type = "Create" /\ tOrders[r].state = "Done"
    BY DEF FinishedTenant
  <2>3. ClusterRecorded(cApi'[Place[m][1]].st, Place[m][2], r)
    BY <1>2, <2>2, RecordedStays, PlaceType
  <2>4. tOrders'[r].type = "Create" /\ tOrders'[r].state = "Done"
    BY <2>1, <2>2 DEF ClusterStable, Waldur!isOrderTerminal
  <2> QED
    BY <2>3, <2>4 DEF FinishedTenant
<1> QED
  BY <1>1, <1>2

LEMMA ExistedBefore ==
    ASSUME MachineInv, [Next]_vars, NEW m \in Machines, api'[m].exists
    PROVE  api[m].exists
<1> USE DEF MachineInv
<1>1. ASSUME NEW n \in Machines,
             DeleteNeverProvisioned(n) \/ DeleteDone(n) \/ UserDelete(n)
      PROVE  api[m].exists
  <2>1. CASE n # m
    BY <1>1, <2>1, RemovalKeeps
  <2>2. CASE n = m
    BY <1>1, <2>2 DEF DeleteNeverProvisioned, DeleteDone, UserDelete, Release, UpdateAccepted
  <2> QED
    BY <2>1, <2>2
<1> QED
  BY <1>1, ApiStep, StatusWritten, ProviderIDWritten

LEMMA PlacedNext ==
    ASSUME MachineInv, ClusterInv, SeenInv, PlacedInv,
           MachineMoves \/ ClusterMoves \/ (Crash /\ ClusterCrash) \/ Looks
    PROVE  PlacedInv'
<1>1. CASE MachineMoves
  <2>1. ASSUME NEW m \in Machines, api'[m].exists
        PROVE  Stands(cApi'[Place[m][1]])
    BY <1>1, <2>1, ExistedBefore DEF MachineMoves, ClusterRests, PlacedInv
  <2>2. ASSUME tenantReady', pc' \in Ordering
        PROVE  FinishedTenant(cur)'
    <3>1. CASE cur' \in Machines /\ tenantReady = TenantUsable(cur')
      <4>1. PICK m \in Machines : m = cur' /\ TenantUsable(m)
        BY <1>1, <2>2, <3>1 DEF MachineMoves, LooksUp
      <4>2. FinishedTenant(m)'
        BY <1>1, <4>1, UsableFinished, FinishedStays DEF MachineMoves
      <4> QED
        BY <4>1, <4>2 DEF FinishedTenant
    <3>2. CASE cur' = cur /\ pc \in Ordering
      <4>1. PICK m \in Machines : m = cur /\ FinishedTenant(m)
        BY <1>1, <2>2, <3>2
        DEF MachineMoves, LooksUp, PlacedInv, MachineInv, TypeInv, TypeOK, Ordering
      <4>2. FinishedTenant(m)'
        BY <1>1, <4>1, FinishedStays DEF MachineMoves
      <4> QED
        BY <3>2, <4>1, <4>2 DEF FinishedTenant
    <3> QED
      BY <1>1, <2>2, <3>1, <3>2 DEF MachineMoves, LooksUp
  <2> QED
    BY <2>1, <2>2 DEF PlacedInv
<1>2. CASE ClusterMoves
  <2>0. UNCHANGED <<api, pc, cur, tenantReady>>
    BY <1>2 DEF ClusterMoves, MachineRests, worker
  <2>1. ASSUME NEW m \in Machines, api'[m].exists
        PROVE  Stands(cApi'[Place[m][1]])
    BY <1>2, <2>0, <2>1 DEF ClusterMoves, PlacedInv
  <2>2. ASSUME tenantReady', pc' \in Ordering
        PROVE  FinishedTenant(cur)'
    <3>1. PICK m \in Machines : m = cur /\ FinishedTenant(m)
      BY <2>0, <2>2 DEF PlacedInv, MachineInv, TypeInv, TypeOK, Ordering
    <3>2. FinishedTenant(m)'
      BY <1>2, <3>1, FinishedStays DEF ClusterMoves
    <3> QED
      BY <2>0, <3>1, <3>2 DEF FinishedTenant
  <2> QED
    BY <2>1, <2>2 DEF PlacedInv
<1>3. CASE Crash /\ ClusterCrash
  BY <1>3 DEF Crash, GoIdle, ClusterCrash, PlacedInv, Ordering
<1>4. CASE Looks
  BY <1>4 DEF Looks, MachineRests, ClusterRests, worker, PlacedInv, Ordering
<1> QED
  BY <1>1, <1>2, <1>3, <1>4

----------------------------------------------------------------------------
(* The invariant of the system *)

SystemInv ==
    MachineInv /\ ClusterInv /\ DoomedInv /\ FinishedInv /\ SeenInv /\ PlacedInv

LEMMA SystemInductive ==
    ASSUME ReadOwnWrites
    PROVE  /\ SystemInit => SystemInv
           /\ SystemInv /\ [SystemNext]_systemVars => SystemInv'
<1>1. SystemInit => SystemInv
  <2>1. SystemInit => MachineInv
    BY TypeInit, FinalizerInit, ReleaseInit, TrackInit DEF SystemInit, MachineInv
  <2> QED
    BY <2>1, ClusterInductive, ClusterKnownInit, FinishedInit, SeenInit, PlacedInit
    DEF SystemInit, SystemInv
<1>2. ASSUME SystemInv, [SystemNext]_systemVars
      PROVE  SystemInv'
  <2> USE DEF SystemInv
  <2>1. MachineMoves \/ ClusterMoves \/ (Crash /\ ClusterCrash) \/ Looks
    BY <1>2, SystemSteps DEF MachineInv, ClusterInv
  <2>2. [Next]_vars \/ MachineRests
    BY <2>1 DEF MachineMoves, ClusterMoves, Looks, Next
  <2>3. [ClusterNext]_cVars \/ ClusterRests
    BY <2>1 DEF MachineMoves, ClusterMoves, Looks, ClusterNext
  <2>4. MachineInv'
    BY <1>2, <2>2, MachineFrame, TypeStep, FinalizerNext, ReleaseNext, TrackNext DEF MachineInv
  <2>5. ClusterInv'
    BY <1>2, <2>3, ClusterFrame, ClusterInductive
  <2>6. DoomedInv' /\ FinishedInv' /\ SeenInv'
    BY <1>2, <2>3, DoomedFrame, DoomedNext, FinishedFrame, FinishedNext, SeenFrame, SeenNext
  <2>7. PlacedInv'
    BY <1>2, <2>1, PlacedNext
  <2> QED
    BY <2>4, <2>5, <2>6, <2>7
<1> QED
  BY <1>1, <1>2


----------------------------------------------------------------------------
(* The theorems *)

\* Each controller keeps, beside the other and through any fault, what it
\* promises alone: it works on objects that exist, releases a machine or a
\* cluster only when the VM or the tenants recorded on it are terminated, and
\* publishes a VM's readiness and provider ID truly.
THEOREM ComponentsSafe ==
    ASSUME ReadOwnWrites
    PROVE  SystemSpec => []/\ InFlightExists /\ ReleasedOnlyWhenTerminated
                           /\ ProviderIDMatchesTracked /\ ReadyConsistent
                           /\ ClusterInFlightExists /\ ClusterReleasedOnlyWhenTerminated
<1>1. SystemInv => /\ InFlightExists /\ ReleasedOnlyWhenTerminated
                   /\ ProviderIDMatchesTracked /\ ReadyConsistent
  BY DEF SystemInv, MachineInv, FinalizerInv, ReleaseInv, TrackInv, Recorded, StatusSound,
         ProviderIDMatchesTracked
<1>2. SystemInv => ClusterInFlightExists /\ ClusterReleasedOnlyWhenTerminated
  BY ReleaseGives DEF SystemInv, ClusterInv, HeldInv, FlightHeld, ClusterInFlightExists
<1> QED
  BY <1>1, <1>2, SystemInductive, PTL DEF SystemSpec

\* While no fault hides an accepted VM order, no VM loses the tenant it lives
\* in: a VM belongs to a machine that exists, its cluster is not deleted before
\* the machine is gone, and only a cluster that is deleted has the termination
\* of a tenant ordered.
THEOREM TenantOutlives ==
    ASSUME ReadOwnWrites, NothingHidden
    PROVE  SystemSpec => []TenantOutlivesVMs
<1>1. SystemInit => KnownInv
  BY KnownInit DEF SystemInit
<1>2. ASSUME SystemInv, KnownInv, [SystemNext]_systemVars
      PROVE  KnownInv'
  <2>1. [Next]_vars \/ MachineRests
    BY <1>2, SystemSteps
    DEF SystemInv, MachineInv, ClusterInv, MachineMoves, ClusterMoves, Looks, Next
  <2> QED
    BY <1>2, <2>1, KnownNext, KnownFrame DEF SystemInv
<1>3. ASSUME SystemInv, KnownInv
      PROVE  TenantOutlivesVMs
  <2> SUFFICES ASSUME NEW r \in OrderIds, NEW q \in OrderIds, Live(r),
                      tResources[q].owner = Place[resources[r].owner],
                      tResources[q].state \in {"Terminating", "Terminated"}
               PROVE  FALSE
    BY DEF TenantOutlivesVMs
  <2>1. PICK m \in Machines : m = resources[r].owner
    BY <1>3, KnownOwner DEF KnownInv, Live, SystemInv, MachineInv
  <2>2. api[m].exists
    BY <1>3, <2>1, KnownNoOrphan DEF SystemInv, NoOrphan
  <2>3. PICK i \in OrderIds : tOrders[i].type = "Terminate" /\ tOrders[i].res = q
    BY <1>3 DEF SystemInv, FinishedInv, Ending
  <2>4. PICK c \in Clusters, o \in Offerings : Place[m] = <<c, o>> /\ Place[m][1] = c
    BY PlaceType
  <2>5. cApi[c].deleting
    BY <1>3, <2>1, <2>3, <2>4 DEF SystemInv, DoomedInv
  <2> QED
    BY <1>3, <2>2, <2>4, <2>5 DEF SystemInv, PlacedInv, Stands
<1> QED
  BY <1>1, <1>2, <1>3, SystemInductive, PTL DEF SystemSpec

LEMMA NewCreation ==
    ASSUME TypeInv, [Next]_vars, NEW o \in OrderIds,
           orders[o].type = "none", orders'[o].type = "Create"
    PROVE  pc = "submit" /\ tenantReady /\ resources'[o].owner = cur
<1>0. orders \in [OrderIds -> Order] /\ resources \in [OrderIds -> Resource]
  BY DEF TypeInv, TypeOK, WaldurTypeOK
<1>1. CASE Marketplace
  BY <1>1, ProgressMakesNoOrder DEF Marketplace, WaldurProgress, OrderProgress
<1>2. CASE SubmitAccepted \/ SubmitLost
  <2>1. PICK p \in OrderIds : AcceptCreation(p, cur, sid, "none")
    BY <1>2 DEF SubmitAccepted, SubmitLost
  <2>2. p = o
    BY <1>0, <2>1 DEF AcceptCreation
  <2>3. resources'[o].owner = cur
    BY <1>0, <2>1, <2>2 DEF AcceptCreation
  <2> QED
    BY <1>2, <2>3 DEF SubmitAccepted, SubmitLost
<1>3. CASE SubmitTermination \/ TerminationLost
  BY <1>0, <1>3 DEF SubmitTermination, TerminationLost, AcceptTermination
<1>4. CASE UNCHANGED waldur \/ StopVM
  BY <1>4 DEF StopVM, waldur
<1> QED
  BY <1>1, <1>2, <1>3, <1>4, WaldurActs

\* Through any fault, a VM is ordered only in a tenant that is finished at
\* Waldur and recorded by its cluster: the order of a tenant that was seen as
\* OK, however long ago, is done; it is terminated only once its cluster is
\* deleted, and that waits for the machine.
THEOREM OrderedFinished ==
    ASSUME ReadOwnWrites
    PROVE  SystemSpec => OrderedInFinishedTenant
<1>1. ASSUME SystemInv, [SystemNext]_systemVars, NEW id \in OrderIds,
             orders[id].type = "none", orders'[id].type = "Create"
      PROVE  LET k == Place[resources'[id].owner]
                 t == cApi[k[1]].st.tenants[k[2]] IN
             t.present /\ tResources[t.res].state = "OK"
  <2>1. [Next]_vars
    <3>1. MachineMoves \/ ClusterMoves \/ (Crash /\ ClusterCrash) \/ Looks
      BY <1>1, SystemSteps DEF SystemInv, MachineInv, ClusterInv
    <3>2. orders' # orders
      BY <1>1
    <3> QED
      BY <3>1, <3>2 DEF MachineMoves, ClusterMoves, Looks, MachineRests, waldur, Next
  <2>2. pc = "submit" /\ tenantReady /\ resources'[id].owner = cur
    BY <1>1, <2>1, NewCreation DEF SystemInv, MachineInv
  <2>3. cur \in Machines /\ api[cur].exists
    BY <1>1, <2>2 DEF SystemInv, MachineInv, TypeInv, TypeOK, FinalizerInv, InFlightExists
  <2>4. PICK c \in Clusters, o \in Offerings :
             Place[cur] = <<c, o>> /\ Place[cur][1] = c /\ Place[cur][2] = o
    BY <2>3, PlaceType
  <2>5. PICK r \in OrderIds : /\ ClusterRecorded(cApi[c].st, o, r)
                              /\ tOrders[r].type = "Create" /\ tOrders[r].state = "Done"
    BY <1>1, <2>2, <2>4 DEF SystemInv, PlacedInv, FinishedTenant, Ordering
  <2>6. tResources[r].owner = <<c, o>>
    BY <1>1, <2>4, <2>5
    DEF SystemInv, ClusterInv, ClusterReleaseInv, BookedStatus, Booked, ClusterRecorded
  <2>7. ~cApi[c].deleting
    BY <1>1, <2>3, <2>4 DEF SystemInv, PlacedInv, Stands
  <2>8. ~Ending(r)
    BY <1>1, <2>4, <2>6, <2>7 DEF SystemInv, DoomedInv, Ending
  <2>9. tResources[r].state = "OK"
    BY <1>1, <2>5, <2>8 DEF SystemInv, FinishedInv
  <2> QED
    BY <2>2, <2>4, <2>5, <2>9 DEF ClusterRecorded
<1>2. SystemInv /\ [SystemNext]_systemVars =>
        \A id \in OrderIds :
            orders[id].type = "none" /\ orders'[id].type = "Create"
                => LET k == Place[resources'[id].owner]
                       t == cApi[k[1]].st.tenants[k[2]] IN
                   t.present /\ tResources[t.res].state = "OK"
  BY <1>1
<1> QED
  BY <1>2, SystemInductive, PTL DEF SystemSpec, OrderedInFinishedTenant


\* The invariants of KnownInv and ClusterKnownInv hold of the system as well.
LEMMA KnownTogether ==
    ASSUME WalksComplete, SystemInv, KnownInv, ClusterKnownInv, [SystemNext]_systemVars
    PROVE  KnownInv' /\ ClusterKnownInv'
<1>1. MachineMoves \/ ClusterMoves \/ (Crash /\ ClusterCrash) \/ Looks
  BY SystemSteps DEF SystemInv, MachineInv, ClusterInv
<1>2. [Next]_vars \/ MachineRests
  BY <1>1 DEF MachineMoves, ClusterMoves, Looks, Next
<1>3. [ClusterNext]_cVars \/ ClusterRests
  BY <1>1 DEF MachineMoves, ClusterMoves, Looks, ClusterNext
<1>4. NothingHidden
  BY DEF WalksComplete, NothingHidden
<1>5. KnownInv'
  BY <1>2, <1>4, KnownNext, KnownFrame DEF SystemInv
<1>6. CASE ClusterRests
  BY <1>5, <1>6 DEF ClusterKnownInv, ClusterInHand, ClusterRests, market, cWorker
<1>7. CASE [ClusterNext]_cVars
  BY <1>5, <1>7, ClusterKnownNext DEF SystemInv
<1> QED
  BY <1>3, <1>6, <1>7

\* While every walk over the tenants completes, a cluster that is gone has left
\* neither VM nor tenant: a live one of either kind has an object that exists,
\* and the cluster's outlives those of its machines.
THEOREM ClusterGoneClean ==
    ASSUME ReadOwnWrites, WalksComplete
    PROVE  SystemSpec => []NothingLeftBehind
<1>1. SystemInit => KnownInv /\ ClusterKnownInv
  BY KnownInit, ClusterKnownInit DEF SystemInit
<1>2. SystemInv /\ KnownInv /\ ClusterKnownInv /\ [SystemNext]_systemVars
        => KnownInv' /\ ClusterKnownInv'
  BY KnownTogether
<1>3. ASSUME SystemInv, KnownInv, ClusterKnownInv
      PROVE  NothingLeftBehind
  <2> SUFFICES ASSUME NEW c \in Clusters, ~cApi[c].exists, NEW r \in OrderIds
               PROVE  /\ Live(r) => resources[r].owner \notin MachinesOf(c)
                      /\ Waldur!Live(r) => tResources[r].owner[1] # c
    BY DEF NothingLeftBehind, Empty
  <2>1. ASSUME Live(r), resources[r].owner \in MachinesOf(c)
        PROVE  FALSE
    <3>1. api[resources[r].owner].exists
      BY <1>3, <2>1, KnownNoOrphan DEF SystemInv, NoOrphan
    <3> QED
      BY <1>3, <2>1, <3>1 DEF SystemInv, PlacedInv, Stands, MachinesOf
  <2>2. ASSUME Waldur!Live(r), tResources[r].owner[1] = c
        PROVE  FALSE
    BY <1>3, <2>2, KnownGives DEF SystemInv, NoOrphanTenant
  <2> QED
    BY <2>1, <2>2
<1> QED
  BY <1>1, <1>2, <1>3, SystemInductive, PTL DEF SystemSpec

\* While every walk over the tenants completes, both controllers together still
\* keep the promise each makes alone: a machine and its VM, a datacenter and
\* its tenant are a ManagedResource, whatever the other controller, Cluster API
\* and a user's edits do in between.
THEOREM PromisesKept ==
    ASSUME ReadOwnWrites, WalksComplete
    PROVE  SystemSpec => ManagedVM /\ ManagedTenant
<1>1. SystemInit => /\ KnownInv /\ ClusterKnownInv
                    /\ Lifecycle!Init /\ TenantLifecycle!Init
  BY KnownInit, ClusterKnownInit, LifecycleInit, ClusterLifecycleInit DEF SystemInit
<1>2. SystemInv /\ KnownInv /\ ClusterKnownInv /\ [SystemNext]_systemVars
        => KnownInv' /\ ClusterKnownInv'
  BY KnownTogether
<1>3. SystemInv => ReleasedOnlyWhenTerminated
  BY DEF SystemInv, MachineInv, ReleaseInv
<1>4. ASSUME SystemInv, KnownInv, ClusterKnownInv, [SystemNext]_systemVars,
             ReleasedOnlyWhenTerminated'
      PROVE  /\ [Lifecycle!Next]_(Lifecycle!vars)
             /\ [TenantLifecycle!Next]_(TenantLifecycle!vars)
  <2>1. MachineMoves \/ ClusterMoves \/ (Crash /\ ClusterCrash) \/ Looks
    BY <1>4, SystemSteps DEF SystemInv, MachineInv, ClusterInv
  <2>2. [Next]_vars \/ MachineRests
    BY <2>1 DEF MachineMoves, ClusterMoves, Looks, Next
  <2>3. [ClusterNext]_cVars \/ ClusterRests
    BY <2>1 DEF MachineMoves, ClusterMoves, Looks, ClusterNext
  <2>4. MachineRests => UNCHANGED Lifecycle!vars
    BY DEF MachineRests, waldur, Lifecycle!vars
  <2>5. ClusterRests => UNCHANGED TenantLifecycle!vars
    BY DEF ClusterRests, market, TenantLifecycle!vars
  <2>6. [Lifecycle!Next]_(Lifecycle!vars)
    BY <1>4, <2>2, <2>4, LifecycleStep DEF SystemInv, WalksComplete, NothingHidden
  <2>7. [TenantLifecycle!Next]_(TenantLifecycle!vars)
    BY <1>4, <2>3, <2>5, ClusterLifecycleStep DEF SystemInv
  <2> QED
    BY <2>6, <2>7
<1> QED
  BY <1>1, <1>2, <1>3, <1>4, SystemInductive, PTL
     DEF SystemSpec, ManagedVM, ManagedTenant, Lifecycle!Spec, TenantLifecycle!Spec


=============================================================================
