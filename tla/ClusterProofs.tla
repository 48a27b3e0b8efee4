--------------------------- MODULE ClusterProofs ---------------------------
(***************************************************************************)
(* Theorems about ClusterController, for any clusters, datacenters, shared *)
(* projects, orders and faults.                                            *)
(***************************************************************************)
EXTENDS ClusterController, TLAPS

----------------------------------------------------------------------------
(* Type correctness *)

\* A recorded tenant names its marketplace resource, from the start.
Whole(t) == IF t.present THEN t.res \in OrderIds ELSE t.res = Nil

WholeStatus(st) == \A o \in Offerings : Whole(st.tenants[o])

\* A walk keeps the tenants it finds and may add some.
Extends(st, old) ==
    \A o \in Offerings :
        \/ /\ st.tenants[o].present = old.tenants[o].present
           /\ st.tenants[o].res = old.tenants[o].res
        \/ ~old.tenants[o].present /\ st.tenants[o].present

\* What the type invariant needs to be inductive: a step that looks up a
\* resource has the identifier of one, and a merge patch, which merges the
\* fields of a tenant one by one, cannot mix two tenants.
StoreShape == \A c \in Clusters : WholeStatus(cApi[c].st) /\ WholeStatus(cCache[c].st)

WalkShape ==
    /\ WholeStatus(cObj.st) /\ WholeStatus(cBase)
    /\ cPc \in {"tenants", "order", "terminate"} => Extends(cObj.st, cBase)
    /\ cPc = "terminate" => todo \subseteq Present(cObj.st)
    /\ cPc = "order" => /\ dc \in todo /\ ~cObj.st.tenants[dc].present
                        /\ ProjectOf[<<cCur, dc>>] \in projects

ClusterTypeInv == ClusterTypeOK /\ StoreShape /\ WalkShape

\* The parts of ClusterTypeOK.
StoreOK == /\ cApi \in [Clusters -> ClusterObject]
           /\ cCache \in [Clusters -> ClusterObject]
           /\ cQueue \in [Clusters -> BOOLEAN]

ClusterWorkerOK == /\ cPc \in ClusterPCs
                   /\ cCur \in Clusters \cup {Nil}
                   /\ cPc # "idle" => cCur \in Clusters
                   /\ cObj \in ClusterObject
                   /\ cBase \in ClusterStatus
                   /\ todo \subseteq Offerings
                   /\ dc \in Offerings \cup {Nil}
                   /\ allDone \in BOOLEAN

RestOK == /\ projects \subseteq Projects
          /\ cp \in [Clusters -> 1..MaxCP]
          /\ faults \in 0..MaxFaults
          /\ edits \in 0..MaxEdits

Parts == Waldur!WaldurTypeOK /\ StoreOK /\ ClusterWorkerOK /\ RestOK

LEMMA TypeParts == (ClusterTypeOK <=> Parts) /\ (ClusterTypeOK' <=> Parts')
BY DEF ClusterTypeOK, Parts, StoreOK, ClusterWorkerOK, RestOK

LEMMA NoTenantType == NoTenant \in Tenant /\ Whole(NoTenant)
BY DEF NoTenant, Tenant, Whole

LEMMA NoStatusType == ClusterNoStatus \in ClusterStatus /\ WholeStatus(ClusterNoStatus)
BY NoTenantType DEF ClusterNoStatus, ClusterStatus, WholeStatus

LEMMA ClusterNewObjectType ==
    ASSUME NEW dcs \in SUBSET Offerings
    PROVE  ClusterNewObject(dcs) \in ClusterObject /\ ClusterNewObject(dcs).st = ClusterNoStatus
BY NoStatusType DEF ClusterNewObject, ClusterObject

\* Field updates of an object in the API server.
LEMMA ClusterFieldType ==
    ASSUME NEW x \in ClusterObject
    PROVE  /\ \A b \in BOOLEAN :
              /\ [x EXCEPT !.exists = b] \in ClusterObject /\ [x EXCEPT !.exists = b].st = x.st
              /\ [x EXCEPT !.deleting = b] \in ClusterObject /\ [x EXCEPT !.deleting = b].st = x.st
              /\ [x EXCEPT !.owner = b] \in ClusterObject /\ [x EXCEPT !.owner = b].st = x.st
              /\ [x EXCEPT !.fin = b] \in ClusterObject /\ [x EXCEPT !.fin = b].st = x.st
              /\ [x EXCEPT !.endpoint = b] \in ClusterObject /\ [x EXCEPT !.endpoint = b].st = x.st
           /\ \A d \in SUBSET Offerings :
              [x EXCEPT !.dcs = d] \in ClusterObject /\ [x EXCEPT !.dcs = d].st = x.st
           /\ \A st \in ClusterStatus :
              [x EXCEPT !.st = st] \in ClusterObject /\ [x EXCEPT !.st = st].st = st
BY DEF ClusterObject

LEMMA UpdatedType ==
    ASSUME StoreOK, NEW c \in Clusters, NEW new \in ClusterObject
    PROVE  Updated(c, new) \in ClusterObject /\ Updated(c, new).st = cApi[c].st
BY DEF Updated, StoreOK, ClusterObject

\* Writing an object, or its status.
LEMMA ClusterWriteType ==
    ASSUME StoreOK, StoreShape, NEW c \in Clusters, NEW x \in ClusterObject, WholeStatus(x.st),
           cApi' = [cApi EXCEPT ![c] = x], cCache' = cCache
    PROVE  cApi' \in [Clusters -> ClusterObject] /\ StoreShape'
<1>1. cApi' \in [Clusters -> ClusterObject]
  BY DEF StoreOK
<1>2. \A d \in Clusters : cApi'[d] = IF d = c THEN x ELSE cApi[d]
  BY DEF StoreOK
<1>3. \A d \in Clusters : WholeStatus(cApi'[d].st) /\ WholeStatus(cCache'[d].st)
  BY <1>2 DEF StoreShape
<1>4. QED
  BY <1>1, <1>3 DEF StoreShape

LEMMA ClusterFaultType ==
    ASSUME RestOK, (\E k : Fault(k)) \/ UNCHANGED faults
    PROVE  faults' \in 0..MaxFaults
BY BoundAssumption DEF RestOK, Fault

LEMMA IdleType ==
    ASSUME ClusterGoIdle
    PROVE  ClusterWorkerOK' /\ WalkShape'
BY ClusterNewObjectType, NoStatusType DEF ClusterGoIdle, ClusterWorkerOK, WalkShape, ClusterPCs

LEMMA ClusterTypeInit == ClusterInit => ClusterTypeInv
<1> SUFFICES ASSUME ClusterInit PROVE ClusterTypeInv
  OBVIOUS
<1>1. Waldur!WaldurTypeOK
  BY DEF ClusterInit, Waldur!WaldurInit, Waldur!WaldurTypeOK, Waldur!Order, Waldur!Resource,
     Waldur!OrderStates
<1>2. ClusterWorkerOK /\ WalkShape
  BY ClusterNewObjectType, NoStatusType DEF ClusterInit, ClusterWorkerOK, WalkShape, ClusterPCs
<1>3. \A dcs \in Spec0 : ClusterNewObject(dcs) \in ClusterObject /\ ClusterNewObject(dcs).st = ClusterNoStatus
  BY SpecAssumption, ClusterNewObjectType
<1>4. StoreOK /\ StoreShape
  <2>1. \A c \in Clusters : cApi[c] \in {ClusterNewObject(dcs) : dcs \in Spec0}
    BY DEF ClusterInit
  <2>2. \A c \in Clusters : cApi[c] \in ClusterObject /\ cApi[c].st = ClusterNoStatus
    BY <1>3, <2>1
  <2>3. cApi \in [Clusters -> ClusterObject]
    BY <2>2 DEF ClusterInit
  <2>4. QED
    BY <2>2, <2>3, NoStatusType DEF ClusterInit, StoreOK, StoreShape
<1>5. RestOK
  BY BoundAssumption DEF ClusterInit, RestOK
<1>6. QED
  BY <1>1, <1>2, <1>4, <1>5, TypeParts DEF ClusterTypeInv, Parts

\* A step after which the worker is idle.
LEMMA ClusterReturnType ==
    ASSUME ClusterTypeInv, Waldur!WaldurTypeOK', RestOK', NEW due \in BOOLEAN, ClusterReturn(due),
           cApi' \in [Clusters -> ClusterObject], StoreShape', cCache' = cCache
    PROVE  ClusterTypeInv'
<1>1. ClusterWorkerOK' /\ WalkShape'
  BY IdleType DEF ClusterReturn
<1>2. StoreOK'
  BY TypeParts DEF ClusterReturn, ClusterTypeInv, Parts, StoreOK
<1>3. QED
  BY <1>1, <1>2, TypeParts DEF ClusterTypeInv, Parts

\* Waldur's side: what it accepts, and its own steps.
Progress(o) ==
    \/ Waldur!StartOrder(o) \/ Waldur!InstanceUp(o) \/ Waldur!InstanceStopped(o)
    \/ Waldur!FinishCreation(o) \/ Waldur!FinishTermination(o)
    \/ Waldur!FailOrder(o) \/ Waldur!InstanceChange(o)

LEMMA ClusterResourceFieldType ==
    ASSUME NEW x \in Waldur!Resource
    PROVE  /\ [x EXCEPT !.state = "Terminating"] \in Waldur!Resource
           /\ [x EXCEPT !.state = "OK"] \in Waldur!Resource
           /\ [x EXCEPT !.core = "CREATING"] \in Waldur!Resource
           /\ [x EXCEPT !.run = "SHUTOFF"] \in Waldur!Resource
           /\ [x EXCEPT !.state = "Terminated", !.core = "none", !.run = "none"] \in Waldur!Resource
           /\ [x EXCEPT !.core = "OK", !.run = "ACTIVE"] \in Waldur!Resource
           /\ [x EXCEPT !.core = "ERRED", !.run = "ERROR"] \in Waldur!Resource
           /\ Waldur!Erred(x) \in Waldur!Resource
BY DEF Waldur!Resource, Waldur!Erred

LEMMA CreationType ==
    ASSUME Waldur!WaldurTypeOK, NEW id \in OrderIds, NEW k \in TenantKeys,
           NEW core \in OrderScopes, Waldur!AcceptCreation(id, k, Nil, core)
    PROVE  Waldur!WaldurTypeOK'
BY BoundAssumption
   DEF Waldur!AcceptCreation, Waldur!WaldurTypeOK, Waldur!Order, Waldur!Resource, Waldur!OrderStates

LEMMA TerminationType ==
    ASSUME Waldur!WaldurTypeOK, NEW id \in OrderIds, NEW r \in OrderIds, Waldur!AcceptTermination(id, r)
    PROVE  Waldur!WaldurTypeOK'
<1>1. tOrders' \in [OrderIds -> Waldur!Order]
  BY DEF Waldur!AcceptTermination, Waldur!WaldurTypeOK, Waldur!Order, Waldur!OrderStates
<1>2. tResources' \in [OrderIds -> Waldur!Resource]
  BY ClusterResourceFieldType DEF Waldur!AcceptTermination, Waldur!WaldurTypeOK
<1>3. QED
  BY <1>1, <1>2 DEF Waldur!WaldurTypeOK

LEMMA ProgressType ==
    ASSUME Waldur!WaldurTypeOK, NEW o \in OrderIds, Progress(o)
    PROVE  Waldur!WaldurTypeOK'
<1>1. tOrders' \in [OrderIds -> Waldur!Order]
  <2>1. tOrders' = tOrders \/ \E s \in Waldur!OrderStates : tOrders' = [tOrders EXCEPT ![o].state = s]
    BY DEF Progress, Waldur!StartOrder, Waldur!InstanceUp, Waldur!InstanceStopped,
       Waldur!FinishCreation, Waldur!FinishTermination,
           Waldur!FailOrder, Waldur!InstanceChange, Waldur!OrderStates
  <2>2. \A s \in Waldur!OrderStates, x \in Waldur!Order : [x EXCEPT !.state = s] \in Waldur!Order
    BY DEF Waldur!Order
  <2>3. QED
    BY <2>1, <2>2 DEF Waldur!WaldurTypeOK
<1>2. tResources' \in [OrderIds -> Waldur!Resource]
  <2>0. tResources \in [OrderIds -> Waldur!Resource]
    BY DEF Waldur!WaldurTypeOK
  <2>1. CASE Waldur!StartOrder(o)
    BY <2>0, <2>1, ClusterResourceFieldType DEF Waldur!StartOrder
  <2>2. CASE Waldur!InstanceUp(o)
    BY <2>0, <2>2, ClusterResourceFieldType DEF Waldur!InstanceUp
  <2>3. CASE Waldur!InstanceStopped(o)
    BY <2>0, <2>3, ClusterResourceFieldType DEF Waldur!InstanceStopped
  <2>4. CASE Waldur!FinishCreation(o)
    BY <2>0, <2>4, ClusterResourceFieldType DEF Waldur!FinishCreation
  <2>5. CASE Waldur!FinishTermination(o)
    BY <2>0, <2>5, ClusterResourceFieldType DEF Waldur!FinishTermination
  <2>6. CASE Waldur!FailOrder(o)
    BY <2>0, <2>6, ClusterResourceFieldType DEF Waldur!FailOrder
  <2>7. CASE Waldur!InstanceChange(o)
    <3>1. /\ [tResources[o] EXCEPT !.core = "ERRED", !.run = "ERROR"] \in Waldur!Resource
          /\ [tResources[o] EXCEPT !.core = "OK", !.run = "ACTIVE"] \in Waldur!Resource
      BY <2>0, ClusterResourceFieldType
    <3>2. \E x \in Waldur!Resource : tResources' = [tResources EXCEPT ![o] = x]
      BY <2>7, <3>1 DEF Waldur!InstanceChange
    <3>3. QED BY <2>0, <3>2
  <2>8. QED
    BY <2>1, <2>2, <2>3, <2>4, <2>5, <2>6, <2>7 DEF Progress
<1>3. QED
  BY <1>1, <1>2 DEF Waldur!WaldurTypeOK

LEMMA ClusterMarketplaceType ==
    ASSUME ClusterTypeInv, ClusterMarketplace
    PROVE  ClusterTypeInv'
<1>0. Parts
  BY TypeParts DEF ClusterTypeInv
<1>1. Waldur!WaldurTypeOK'
  BY <1>0, ProgressType DEF ClusterMarketplace, Waldur!WaldurProgress, Waldur!OrderProgress,
     Progress, Parts
<1>2. faults' \in 0..MaxFaults
  BY <1>0, ClusterFaultType DEF ClusterMarketplace, Parts
<1>3. StoreOK' /\ ClusterWorkerOK' /\ RestOK' /\ StoreShape' /\ WalkShape'
  BY <1>0, <1>2 DEF ClusterMarketplace, Parts, StoreOK, ClusterWorkerOK, RestOK, StoreShape,
     WalkShape, store, cWorker,
         ClusterTypeInv
<1>4. QED
  BY <1>1, <1>3, TypeParts DEF ClusterTypeInv, Parts

\* The steps of users and of the control plane, and what Reconcile does at once.
LEMMA ClusterEnvironmentType ==
    ASSUME ClusterTypeInv, NEW c \in Clusters, ClusterCacheSync(c) \/ ClusterEnvironment(c)
    PROVE  ClusterTypeInv'
<1>0. Parts /\ cApi[c] \in ClusterObject
  BY TypeParts DEF ClusterTypeInv, Parts, StoreOK
<1>1. Waldur!WaldurTypeOK' /\ ClusterWorkerOK' /\ WalkShape'
  BY <1>0 DEF ClusterCacheSync, ClusterEnvironment, ClusterUserDelete, EditDatacenters,
     ClusterSetOwnerRef, ControlPlaneUp,
         market, cWorker, Parts, Waldur!WaldurTypeOK, ClusterWorkerOK, WalkShape, ClusterTypeInv
<1>2. RestOK'
  <2>1. CASE ClusterCacheSync(c) \/ ClusterUserDelete(c) \/ ClusterSetOwnerRef(c)
    BY <1>0, <2>1 DEF ClusterCacheSync, ClusterUserDelete, ClusterSetOwnerRef, Parts, RestOK
  <2>2. CASE EditDatacenters(c)
    BY <1>0, <2>2, BoundAssumption DEF EditDatacenters, Parts, RestOK
  <2>3. CASE ControlPlaneUp(c)
    BY <1>0, <2>3, BoundAssumption DEF ControlPlaneUp, Parts, RestOK
  <2>4. QED BY <2>1, <2>2, <2>3 DEF ClusterEnvironment
<1>3. StoreOK' /\ StoreShape'
  <2>1. CASE ClusterCacheSync(c) \/ ControlPlaneUp(c)
    <3>1. cApi' = cApi /\ cCache' \in [Clusters -> ClusterObject] /\ cQueue' \in [Clusters -> BOOLEAN]
      BY <1>0, <2>1 DEF ClusterCacheSync, ControlPlaneUp, Parts, StoreOK
    <3>2. \A d \in Clusters : cCache'[d] = cCache[d] \/ cCache'[d] = cApi[d]
      BY <1>0, <2>1 DEF ClusterCacheSync, ControlPlaneUp, Parts, StoreOK
    <3>3. QED
      BY <1>0, <3>1, <3>2 DEF Parts, StoreOK, StoreShape, ClusterTypeInv
  <2>2. CASE ClusterUserDelete(c) \/ EditDatacenters(c) \/ ClusterSetOwnerRef(c)
    <3>1. PICK x \in ClusterObject : x.st = cApi[c].st /\ cApi' = [cApi EXCEPT ![c] = x]
      <4>1. CASE ClusterUserDelete(c)
        <5>1. CASE cApi[c].fin
          <6>1. cApi' = [cApi EXCEPT ![c] = [cApi[c] EXCEPT !.deleting = TRUE]]
            BY <4>1, <5>1 DEF ClusterUserDelete
          <6>2. QED BY <1>0, <6>1, ClusterFieldType
        <5>2. CASE ~cApi[c].fin
          <6>1. cApi' = [cApi EXCEPT ![c] = [cApi[c] EXCEPT !.exists = FALSE]]
            BY <4>1, <5>2 DEF ClusterUserDelete
          <6>2. QED BY <1>0, <6>1, ClusterFieldType
        <5>3. QED BY <5>1, <5>2
      <4>2. CASE EditDatacenters(c)
        <5>1. PICK d \in Spec0 : cApi' = [cApi EXCEPT ![c] = [cApi[c] EXCEPT !.dcs = d]]
          BY <4>2 DEF EditDatacenters
        <5>2. QED BY <1>0, <5>1, SpecAssumption, ClusterFieldType
      <4>3. CASE ClusterSetOwnerRef(c)
        <5>1. cApi' = [cApi EXCEPT ![c] = [cApi[c] EXCEPT !.owner = TRUE]]
          BY <4>3 DEF ClusterSetOwnerRef
        <5>2. QED BY <1>0, <5>1, ClusterFieldType
      <4>4. QED BY <2>2, <4>1, <4>2, <4>3
    <3>2. WholeStatus(x.st) /\ cCache' = cCache /\ cQueue' = cQueue
      BY <2>2, <3>1 DEF ClusterUserDelete, EditDatacenters, ClusterSetOwnerRef, StoreShape,
         ClusterTypeInv
    <3>3. cApi' \in [Clusters -> ClusterObject] /\ StoreShape'
      BY <1>0, <3>1, <3>2, ClusterWriteType DEF Parts, ClusterTypeInv
    <3>4. QED
      BY <1>0, <3>2, <3>3 DEF Parts, StoreOK
  <2>3. QED BY <2>1, <2>2 DEF ClusterEnvironment
<1>4. QED
  BY <1>1, <1>2, <1>3, TypeParts DEF ClusterTypeInv, Parts

LEMMA ClusterReconcileType ==
    ASSUME ClusterTypeInv, NEW c \in Clusters, ClusterReconcile(c)
    PROVE  ClusterTypeInv'
<1>0. Parts /\ cApi[c] \in ClusterObject /\ cCache[c] \in ClusterObject
  BY TypeParts DEF ClusterTypeInv, Parts, StoreOK
<1>1. Waldur!WaldurTypeOK' /\ RestOK' /\ cCache' = cCache
  BY <1>0 DEF ClusterReconcile, ClusterReconcileGone, ClusterAddFinalizer, ClusterReconcileWait,
     BeginReconcile, BeginDelete,
         ClusterSettle, ClusterBegin, market, Parts, Waldur!WaldurTypeOK, RestOK
<1>2. cQueue' \in [Clusters -> BOOLEAN]
  BY <1>0 DEF ClusterReconcile, ClusterReconcileGone, ClusterAddFinalizer, ClusterReconcileWait,
     BeginReconcile, BeginDelete,
         ClusterSettle, ClusterBegin, Parts, StoreOK
<1>3. CASE ClusterAddFinalizer(c)
  <2>1. Updated(c, [cCache[c] EXCEPT !.fin = TRUE]) \in ClusterObject
        /\ Updated(c, [cCache[c] EXCEPT !.fin = TRUE]).st = cApi[c].st
    <3>1. [cCache[c] EXCEPT !.fin = TRUE] \in ClusterObject
      BY <1>0, ClusterFieldType
    <3>2. QED BY <1>0, <3>1, UpdatedType DEF Parts
  <2>2. cApi' \in [Clusters -> ClusterObject] /\ StoreShape'
    BY <1>0, <1>1, <1>3, <2>1, ClusterWriteType DEF ClusterAddFinalizer, ClusterTypeInv, Parts,
       StoreShape
  <2>3. ClusterWorkerOK' /\ WalkShape'
    BY <1>0, <1>3 DEF ClusterAddFinalizer, ClusterSettle, cWorker, Parts, ClusterWorkerOK,
       WalkShape, ClusterTypeInv
  <2>4. QED
    BY <1>0, <1>1, <1>2, <2>2, <2>3, TypeParts DEF ClusterTypeInv, Parts, StoreOK
<1>4. CASE ClusterReconcileGone(c) \/ ClusterReconcileWait(c)
  <2>1. ClusterWorkerOK' /\ WalkShape' /\ cApi' = cApi
    BY <1>0, <1>4 DEF ClusterReconcileGone, ClusterReconcileWait, ClusterSettle, cWorker, Parts,
       ClusterWorkerOK, WalkShape, ClusterTypeInv
  <2>2. QED
    BY <1>0, <1>1, <1>2, <2>1, TypeParts DEF ClusterTypeInv, Parts, StoreOK, StoreShape
<1>5. CASE BeginReconcile(c) \/ BeginDelete(c)
  <2>1. /\ cPc' \in {"tenants", "terminate"} /\ cCur' = c /\ cObj' = cCache[c] /\ cBase' = cCache[c].st
        /\ dc' = Nil /\ allDone' = TRUE /\ cApi' = cApi
        /\ todo' \subseteq Offerings
        /\ cPc' = "terminate" => todo' = Present(cCache[c].st)
    BY <1>0, <1>5 DEF BeginReconcile, BeginDelete, ClusterBegin, ClusterObject, Present
  <2>2. ClusterWorkerOK'
    BY <1>0, <2>1 DEF ClusterWorkerOK, ClusterPCs, ClusterObject
  <2>3. WalkShape'
    BY <1>0, <2>1 DEF WalkShape, Extends, StoreShape, ClusterTypeInv
  <2>4. QED
    BY <1>0, <1>1, <1>2, <2>1, <2>2, <2>3, TypeParts DEF ClusterTypeInv, Parts, StoreOK, StoreShape
<1>6. QED
  BY <1>3, <1>4, <1>5 DEF ClusterReconcile


\* The worker leaves datacenter o behind with tenant t.
LEMMA WalkedType ==
    ASSUME cObj \in ClusterObject, NEW o \in Offerings, NEW t \in Tenant, Walked(o, t)
    PROVE  /\ cObj' \in ClusterObject
           /\ cObj'.st \in ClusterStatus
           /\ cObj'.st.tenants[o] = t
           /\ \A p \in Offerings \ {o} : cObj'.st.tenants[p] = cObj.st.tenants[p]
           /\ cObj'.dcs = cObj.dcs
           /\ todo' = todo \ {o}
           /\ UNCHANGED <<cQueue, cCur, cBase>>
BY DEF Walked, ClusterObject, ClusterStatus

\* refreshTenant, whole or in part, keeps the tenant's identity and its order;
\* it only learns the state of an order that was not over.
LEMMA RefreshedType ==
    ASSUME Waldur!WaldurTypeOK, NEW t \in Tenant, t.present, t.res \in OrderIds,
           NEW u \in PartlyRefreshed(t) \cup {refreshTenant(t)}
    PROVE  /\ u \in Tenant
           /\ u.present /\ u.res = t.res /\ u.ord = t.ord /\ u.ordType = t.ordType
           /\ \/ u.ordState = t.ordState
              \/ t.ord # Nil /\ ~Waldur!isOrderTerminal(t.ordState) /\ u.ordState = tOrders[t.ord].state
           /\ u.mrs \in {t.mrs, tResources[t.res].state}
<1> DEFINE a == RefreshedOrder(t)
           b == RefreshedResource(a)
<1>1. /\ a \in Tenant /\ a.mrs = t.mrs
      /\ a.present /\ a.res = t.res /\ a.ord = t.ord /\ a.ordType = t.ordType
      /\ \/ a.ordState = t.ordState
         \/ t.ord # Nil /\ ~Waldur!isOrderTerminal(t.ordState) /\ a.ordState = tOrders[t.ord].state
  <2>1. CASE t.ord # Nil /\ ~Waldur!isOrderTerminal(t.ordState)
    <3>1. tOrders[t.ord].state \in Waldur!OrderStates
      BY <2>1 DEF Waldur!WaldurTypeOK, Waldur!Order, Tenant
    <3>2. a = [t EXCEPT !.ordState = tOrders[t.ord].state]
      BY <2>1 DEF RefreshedOrder
    <3>3. QED BY <2>1, <3>1, <3>2 DEF Tenant
  <2>2. CASE ~(t.ord # Nil /\ ~Waldur!isOrderTerminal(t.ordState))
    BY <2>2 DEF RefreshedOrder
  <2>3. QED BY <2>1, <2>2
<1> HIDE DEF a
<1>2. /\ b \in Tenant /\ b.mrs = tResources[t.res].state
      /\ b.present /\ b.res = t.res /\ b.ord = t.ord /\ b.ordType = t.ordType
      /\ b.ordState = a.ordState
  <2>1. tResources[a.res].state \in {"none", "Creating", "OK", "Erred", "Terminating", "Terminated"}
    BY <1>1 DEF Waldur!WaldurTypeOK, Waldur!Resource
  <2>2. QED BY <1>1, <2>1 DEF RefreshedResource, Tenant
<1> HIDE DEF b
<1>3. /\ RefreshedTenant(b) \in Tenant /\ RefreshedTenant(b).mrs = b.mrs
      /\ RefreshedTenant(b).present /\ RefreshedTenant(b).res = t.res
      /\ RefreshedTenant(b).ord = t.ord /\ RefreshedTenant(b).ordType = t.ordType
      /\ RefreshedTenant(b).ordState = a.ordState
  <2>1. tResources[b.res].core \in {"none", "CREATING", "OK", "ERRED"}
    BY <1>2 DEF Waldur!WaldurTypeOK, Waldur!Resource
  <2>2. CASE tResources[b.res].core = "none"
    BY <1>2, <2>2 DEF RefreshedTenant
  <2>3. CASE tResources[b.res].core # "none"
    <3>1. RefreshedTenant(b) = [b EXCEPT !.state = tResources[b.res].core, !.known = TRUE]
      BY <2>3 DEF RefreshedTenant
    <3>2. QED BY <1>2, <2>1, <3>1, ZenonT(60) DEF Tenant
  <2>4. QED BY <2>2, <2>3
<1>4. u \in {t, a, b, RefreshedTenant(b)}
  BY DEF PartlyRefreshed, refreshTenant, a, b
<1>5. QED
  BY <1>1, <1>2, <1>3, <1>4

\* A walk step that keeps which tenants there are.
LEMMA KeepingType ==
    ASSUME ClusterTypeInv, NEW o \in Offerings, NEW t \in Tenant, Walked(o, t),
           cObj.st.tenants[o].present, t.present, t.res = cObj.st.tenants[o].res,
           cPc \in {"tenants", "terminate"}, cPc' = cPc, dc' = dc, allDone' \in BOOLEAN
    PROVE  ClusterWorkerOK' /\ WalkShape'
<1>0. cObj \in ClusterObject /\ cObj.st \in ClusterStatus /\ Parts
  BY TypeParts DEF ClusterTypeInv, Parts, ClusterWorkerOK, ClusterObject
<1>1. /\ cObj' \in ClusterObject /\ cObj'.st \in ClusterStatus
      /\ cObj'.st.tenants[o] = t
      /\ \A p \in Offerings \ {o} : cObj'.st.tenants[p] = cObj.st.tenants[p]
      /\ todo' = todo \ {o} /\ UNCHANGED <<cQueue, cCur, cBase>>
  BY <1>0, WalkedType
<1>2. ClusterWorkerOK'
  BY <1>0, <1>1 DEF Parts, ClusterWorkerOK
<1>3. WholeStatus(cObj'.st) /\ WholeStatus(cBase')
  BY <1>1 DEF ClusterTypeInv, WalkShape, WholeStatus, Whole
<1>4. \A p \in Offerings : /\ cObj'.st.tenants[p].present = cObj.st.tenants[p].present
                           /\ cObj'.st.tenants[p].res = cObj.st.tenants[p].res
  <2>1. t.present = cObj.st.tenants[o].present
    BY <1>0 DEF Tenant, ClusterStatus
  <2>2. QED BY <1>1, <2>1
<1>5. Extends(cObj'.st, cBase')
  BY <1>1, <1>4 DEF ClusterTypeInv, WalkShape, Extends
<1>6. cPc' = "terminate" => todo' \subseteq Present(cObj'.st)
  BY <1>1, <1>4 DEF ClusterTypeInv, WalkShape, Present
<1>7. QED
  BY <1>2, <1>3, <1>5, <1>6 DEF WalkShape

LEMMA KeepingSteps ==
    ASSUME ClusterTypeInv, NEW o \in Offerings,
           \/ RefreshTenant(o) \/ ClusterRefreshFails(o) \/ PollTermination(o)
           \/ SkipTerminated(o) \/ ClusterSubmitTermination(o) \/ TerminationFails(o)
    PROVE  ClusterTypeInv'
<1>0. Parts /\ cObj.st.tenants[o] \in Tenant /\ o \in todo /\ cObj.st.tenants[o].present
      /\ cObj.st.tenants[o].res \in OrderIds /\ cPc \in {"tenants", "terminate"}
  <2>1. Parts
    BY TypeParts DEF ClusterTypeInv
  <2>2. cObj.st.tenants[o] \in Tenant
    BY <2>1 DEF Parts, ClusterWorkerOK, ClusterObject, ClusterStatus
  <2>3. o \in todo /\ cObj.st.tenants[o].present /\ cPc \in {"tenants", "terminate"}
    BY DEF ClusterTypeInv, WalkShape, Present, RefreshTenant, ClusterRefreshFails, PollTermination,
           SkipTerminated, ClusterSubmitTermination, TerminationFails
  <2>4. cObj.st.tenants[o].res \in OrderIds
    BY <2>3 DEF ClusterTypeInv, WalkShape, WholeStatus, Whole
  <2>5. QED BY <2>1, <2>2, <2>3, <2>4
<1> DEFINE t == cObj.st.tenants[o]
<1>1. PICK u \in Tenant : Walked(o, u) /\ u.present /\ u.res = t.res
  <2>1. CASE RefreshTenant(o)
    BY <1>0, <2>1, RefreshedType DEF RefreshTenant, Parts
  <2>2. CASE ClusterRefreshFails(o)
    <3>1. PICK u \in PartlyRefreshed(t) : Walked(o, u)
      BY <2>2 DEF ClusterRefreshFails
    <3>2. QED BY <1>0, <3>1, RefreshedType DEF Parts
  <2>3. CASE PollTermination(o)
    <3>1. PICK u \in PartlyRefreshed(t) \cup {refreshTenant(t)} : Walked(o, u)
      BY <2>3 DEF PollTermination
    <3>2. QED BY <1>0, <3>1, RefreshedType DEF Parts
  <2>4. CASE SkipTerminated(o)
    BY <1>0, <2>4 DEF SkipTerminated
  <2>5. CASE ClusterSubmitTermination(o)
    <3>1. PICK id \in OrderIds : Walked(o, TerminatingTenant(t, id))
      BY <2>5 DEF ClusterSubmitTermination
    <3>2. /\ TerminatingTenant(t, id) \in Tenant /\ TerminatingTenant(t, id).present
          /\ TerminatingTenant(t, id).res = t.res
      BY <1>0 DEF TerminatingTenant, Tenant, Waldur!OrderStates
    <3>3. QED BY <3>1, <3>2
  <2>6. CASE TerminationFails(o)
    BY <1>0, <2>6 DEF TerminationFails
  <2>7. QED BY <2>1, <2>2, <2>3, <2>4, <2>5, <2>6
<1>2. Waldur!WaldurTypeOK'
  <2>1. CASE UNCHANGED market
    BY <1>0, <2>1 DEF market, Parts, Waldur!WaldurTypeOK
  <2>2. CASE \E id \in OrderIds : Waldur!AcceptTermination(id, t.res)
    BY <1>0, <2>2, TerminationType DEF Parts
  <2>3. QED
    BY <2>1, <2>2 DEF RefreshTenant, ClusterRefreshFails, PollTermination, SkipTerminated,
           ClusterSubmitTermination, TerminationFails
<1>3. cPc' = cPc /\ dc' = dc /\ allDone' \in BOOLEAN /\ cApi' = cApi /\ cCache' = cCache
  BY <1>0 DEF Parts, ClusterWorkerOK, RefreshTenant, ClusterRefreshFails, PollTermination,
     SkipTerminated,
         ClusterSubmitTermination, TerminationFails
<1>4. ClusterWorkerOK' /\ WalkShape'
  BY <1>0, <1>1, <1>3, KeepingType
<1>5. RestOK'
  <2>1. faults' \in 0..MaxFaults
    BY <1>0, ClusterFaultType DEF Parts, RefreshTenant, ClusterRefreshFails, PollTermination,
       SkipTerminated,
         ClusterSubmitTermination, TerminationFails
  <2>2. QED
    BY <1>0, <2>1 DEF Parts, RestOK, RefreshTenant, ClusterRefreshFails, PollTermination,
       SkipTerminated,
         ClusterSubmitTermination, TerminationFails
<1>6. StoreOK' /\ StoreShape'
  BY <1>0, <1>1, <1>3 DEF Walked, Parts, StoreOK, StoreShape, ClusterTypeInv
<1>7. QED
  BY <1>2, <1>4, <1>5, <1>6, TypeParts DEF ClusterTypeInv, Parts

LEMMA CreateSteps ==
    ASSUME ClusterTypeInv, NEW o \in Offerings,
           \/ GetOrCreateProject(o) \/ NoProject(o) \/ CreateTenantFails
           \/ CreateTenant \/ CreateTenantLost
    PROVE  ClusterTypeInv'
<1>0. Parts /\ cCur \in Clusters /\ cObj \in ClusterObject /\ cObj.st \in ClusterStatus
  BY TypeParts DEF ClusterTypeInv, Parts, ClusterWorkerOK, ClusterObject, GetOrCreateProject, NoProject,
        CreateTenantFails, CreateTenant, CreateTenantLost
<1>1. cApi' = cApi /\ cCache' = cCache /\ cQueue' = cQueue /\ cCur' = cCur /\ cBase' = cBase
      /\ allDone' = allDone
  BY DEF GetOrCreateProject, NoProject, CreateTenantFails, CreateTenant, CreateTenantLost,
         Walked, ClusterCreateFails, store
<1>2. StoreOK' /\ StoreShape'
  BY <1>0, <1>1 DEF Parts, StoreOK, StoreShape, ClusterTypeInv
<1>3. RestOK'
  <2>1. faults' \in 0..MaxFaults /\ cp' = cp /\ edits' = edits
    BY <1>0, ClusterFaultType DEF Parts, GetOrCreateProject, NoProject, CreateTenantFails, CreateTenant,
           CreateTenantLost
  <2>2. projects' \subseteq Projects
    BY <1>0 DEF Parts, RestOK, GetOrCreateProject, NoProject, CreateTenantFails, CreateTenant,
           CreateTenantLost, Projects, TenantKeys
  <2>3. QED BY <1>0, <2>1, <2>2 DEF Parts, RestOK
<1>4. CASE GetOrCreateProject(o)
  <2>1. Waldur!WaldurTypeOK'
    BY <1>0, <1>4 DEF GetOrCreateProject, market, Parts, Waldur!WaldurTypeOK
  <2>2. ClusterWorkerOK' /\ WalkShape'
    BY <1>0, <1>4 DEF GetOrCreateProject, Parts, ClusterWorkerOK, ClusterPCs, WalkShape, ClusterTypeInv
  <2>3. QED BY <1>2, <1>3, <2>1, <2>2, TypeParts DEF ClusterTypeInv, Parts
<1>5. CASE NoProject(o) \/ CreateTenantFails
  <2>1. Waldur!WaldurTypeOK'
    BY <1>0, <1>5 DEF NoProject, CreateTenantFails, market, Parts, Waldur!WaldurTypeOK
  <2>2. ClusterWorkerOK' /\ WalkShape'
    BY <1>0, <1>5 DEF NoProject, CreateTenantFails, ClusterCreateFails, Parts, ClusterWorkerOK,
       ClusterPCs, WalkShape, ClusterTypeInv
  <2>3. QED BY <1>2, <1>3, <2>1, <2>2, TypeParts DEF ClusterTypeInv, Parts
<1>6. CASE CreateTenantLost
  <2>1. Waldur!WaldurTypeOK'
    <3>1. dc \in Offerings
      BY <1>0, <1>6 DEF CreateTenantLost, ClusterTypeInv, WalkShape, Parts, ClusterWorkerOK
    <3>2. <<cCur, dc>> \in TenantKeys
      BY <1>0, <3>1 DEF TenantKeys
    <3>3. QED BY <1>0, <1>6, <3>2, CreationType DEF CreateTenantLost, AcceptTenant, Parts
  <2>2. ClusterWorkerOK' /\ WalkShape'
    BY <1>0, <1>6 DEF CreateTenantLost, ClusterCreateFails, Parts, ClusterWorkerOK, ClusterPCs,
       WalkShape, ClusterTypeInv
  <2>3. QED BY <1>2, <1>3, <2>1, <2>2, TypeParts DEF ClusterTypeInv, Parts
<1>7. CASE CreateTenant
  <2>1. dc \in Offerings /\ dc \in todo /\ ~cObj.st.tenants[dc].present /\ Extends(cObj.st, cBase)
    BY <1>0, <1>7 DEF CreateTenant, ClusterTypeInv, WalkShape, Parts, ClusterWorkerOK
  <2>2. <<cCur, dc>> \in TenantKeys
    BY <1>0, <2>1 DEF TenantKeys
  <2>3. PICK id \in OrderIds, core \in OrderScopes : AcceptTenant(id, core) /\ Walked(dc, CreatedTenant(id, core))
    BY <1>7 DEF CreateTenant
  <2>4. Waldur!WaldurTypeOK'
    BY <1>0, <2>2, <2>3, CreationType DEF AcceptTenant, Parts
  <2>5. CreatedTenant(id, core) \in Tenant /\ CreatedTenant(id, core).present /\ CreatedTenant(id, core).res = id
    BY DEF CreatedTenant, NoTenant, Tenant, Waldur!OrderStates
  <2>6. /\ cObj' \in ClusterObject /\ cObj'.st \in ClusterStatus
        /\ cObj'.st.tenants[dc] = CreatedTenant(id, core)
        /\ \A p \in Offerings \ {dc} : cObj'.st.tenants[p] = cObj.st.tenants[p]
        /\ todo' = todo \ {dc}
    BY <1>0, <2>1, <2>3, <2>5, WalkedType
  <2>7. cPc' = "tenants" /\ dc' = Nil
    BY <1>7 DEF CreateTenant
  <2>8. ClusterWorkerOK'
    BY <1>0, <1>1, <2>6, <2>7 DEF Parts, ClusterWorkerOK, ClusterPCs
  <2>9. WholeStatus(cObj'.st) /\ WholeStatus(cBase')
    BY <1>1, <2>5, <2>6 DEF ClusterTypeInv, WalkShape, WholeStatus, Whole
  <2>10. Extends(cObj'.st, cBase')
    BY <1>1, <2>1, <2>5, <2>6 DEF Extends
  <2>11. QED
    BY <1>2, <1>3, <2>4, <2>7, <2>8, <2>9, <2>10, TypeParts DEF ClusterTypeInv, Parts, WalkShape
<1>8. QED
  BY <1>4, <1>5, <1>6, <1>7


\* The merge patch of a walk's results.
LEMMA MergeTenantType ==
    ASSUME NEW a \in Tenant, NEW b \in Tenant, NEW s \in Tenant,
           Whole(a), Whole(b), Whole(s),
           (b.present = a.present /\ b.res = a.res) \/ (~a.present /\ b.present)
    PROVE  MergeTenant(a, b, s) \in Tenant /\ Whole(MergeTenant(a, b, s))
<1>1. MergeTenant(a, b, s) \in Tenant
  BY DEF MergeTenant, Merged, Tenant
<1>2. /\ MergeTenant(a, b, s).present = Merged(a.present, b.present, s.present)
      /\ MergeTenant(a, b, s).res = Merged(a.res, b.res, s.res)
  BY DEF MergeTenant
<1>3. CASE b.present = a.present /\ b.res = a.res
  BY <1>1, <1>2, <1>3 DEF Merged, Whole
<1>4. CASE ~a.present /\ b.present
  BY <1>1, <1>2, <1>4, KeyAssumption DEF Merged, Whole
<1>5. QED
  BY <1>1, <1>3, <1>4

LEMMA ClusterMergePatchType ==
    ASSUME NEW a \in ClusterStatus, NEW b \in ClusterStatus, NEW s \in ClusterStatus,
           WholeStatus(a), WholeStatus(b), WholeStatus(s), Extends(b, a)
    PROVE  ClusterMergePatch(a, b, s) \in ClusterStatus /\ WholeStatus(ClusterMergePatch(a, b, s))
<1>1. \A o \in Offerings :
         /\ MergeTenant(a.tenants[o], b.tenants[o], s.tenants[o]) \in Tenant
         /\ Whole(MergeTenant(a.tenants[o], b.tenants[o], s.tenants[o]))
  <2> TAKE o \in Offerings
  <2>1. a.tenants[o] \in Tenant /\ b.tenants[o] \in Tenant /\ s.tenants[o] \in Tenant
    BY DEF ClusterStatus
  <2>2. QED
    BY <2>1, MergeTenantType DEF WholeStatus, Extends
<1>2. ClusterMergePatch(a, b, s).tenants =
         [o \in Offerings |-> MergeTenant(a.tenants[o], b.tenants[o], s.tenants[o])]
  BY DEF ClusterMergePatch
<1>3. WholeStatus(ClusterMergePatch(a, b, s))
  BY <1>1, <1>2 DEF WholeStatus
<1>4. ClusterMergePatch(a, b, s) \in ClusterStatus
  <2>1. [o \in Offerings |-> MergeTenant(a.tenants[o], b.tenants[o], s.tenants[o])]
           \in [Offerings -> Tenant]
    BY <1>1
  <2>2. QED
    BY <2>1 DEF ClusterMergePatch, Merged, ClusterStatus
<1>5. QED
  BY <1>3, <1>4

\* setReadyCondition leaves the tenants alone.
LEMMA ReadyConditionType ==
    ASSUME NEW st \in ClusterStatus, NEW dcs
    PROVE  setReadyCondition(st, dcs) \in ClusterStatus /\ setReadyCondition(st, dcs).tenants = st.tenants
<1>1. ReadyReason(st, dcs) \in {"Provisioning", "ProvisioningFailed", "Provisioned"}
  BY DEF ReadyReason
<1>2. QED
  BY <1>1 DEF setReadyCondition, ClusterStatus

\* What PatchStatus and PatchDelete write.
LEMMA PatchType ==
    ASSUME ClusterTypeInv, ClusterPatchStatus \/ PatchDelete
    PROVE  \E st \in ClusterStatus :
              /\ WholeStatus(st)
              /\ st = ClusterMergePatch(cBase, IF cPc = "tenants" THEN setReadyCondition(cObj.st, cObj.dcs)
                                                                  ELSE cObj.st, cApi[cCur].st)
              /\ cApi' = [cApi EXCEPT ![cCur] = [cApi[cCur] EXCEPT !.st = st]]
              /\ cPc' # "idle" => cObj' = [cApi[cCur] EXCEPT !.st = st]
<1> DEFINE new == IF cPc = "tenants" THEN setReadyCondition(cObj.st, cObj.dcs) ELSE cObj.st
           st == ClusterMergePatch(cBase, new, cApi[cCur].st)
<1>1. /\ cPc \in {"tenants", "terminate"} /\ cCur \in Clusters
      /\ cObj.st \in ClusterStatus /\ cBase \in ClusterStatus /\ cApi[cCur].st \in ClusterStatus
      /\ WholeStatus(cObj.st) /\ WholeStatus(cBase) /\ WholeStatus(cApi[cCur].st)
      /\ Extends(cObj.st, cBase)
  <2>1. cPc \in {"tenants", "terminate"}
    BY DEF ClusterPatchStatus, PatchDelete
  <2>2. Parts
    BY TypeParts DEF ClusterTypeInv
  <2>3. QED
    BY <2>1, <2>2 DEF Parts, StoreOK, ClusterWorkerOK, ClusterObject, ClusterTypeInv, WalkShape,
       StoreShape
<1>2. new \in ClusterStatus /\ new.tenants = cObj.st.tenants
  BY <1>1, ReadyConditionType
<1>3. WholeStatus(new) /\ Extends(new, cBase)
  BY <1>1, <1>2 DEF WholeStatus, Extends
<1>4. st \in ClusterStatus /\ WholeStatus(st)
  BY <1>1, <1>2, <1>3, ClusterMergePatchType
<1>5. cApi' = [cApi EXCEPT ![cCur].st = st] /\ (cPc' # "idle" => cObj' = [cApi[cCur] EXCEPT !.st = st])
  BY DEF ClusterPatchStatus, PatchDelete, ClusterReturn, ClusterGoIdle
<1>6. cApi' = [cApi EXCEPT ![cCur] = [cApi[cCur] EXCEPT !.st = st]]
  BY <1>5
<1> HIDE DEF st
<1>7. st = ClusterMergePatch(cBase, IF cPc = "tenants" THEN setReadyCondition(cObj.st, cObj.dcs)
                                                       ELSE cObj.st, cApi[cCur].st)
  BY DEF st
<1>8. QED
  BY <1>4, <1>5, <1>6, <1>7

LEMMA PatchSteps ==
    ASSUME ClusterTypeInv, ClusterPatchStatus \/ PatchDelete
    PROVE  ClusterTypeInv'
<1>0. Parts /\ cCur \in Clusters /\ cApi[cCur] \in ClusterObject
  BY TypeParts DEF ClusterTypeInv, Parts, ClusterWorkerOK, StoreOK, ClusterPatchStatus, PatchDelete
<1>1. PICK st \in ClusterStatus : /\ WholeStatus(st)
                                  /\ cApi' = [cApi EXCEPT ![cCur] = [cApi[cCur] EXCEPT !.st = st]]
                                  /\ cPc' # "idle" => cObj' = [cApi[cCur] EXCEPT !.st = st]
  BY PatchType
<1>2. [cApi[cCur] EXCEPT !.st = st] \in ClusterObject /\ [cApi[cCur] EXCEPT !.st = st].st = st
  BY <1>0, ClusterFieldType
<1>3. cCache' = cCache /\ Waldur!WaldurTypeOK' /\ RestOK'
  BY <1>0 DEF ClusterPatchStatus, PatchDelete, market, Parts, Waldur!WaldurTypeOK, RestOK
<1>4. cApi' \in [Clusters -> ClusterObject] /\ StoreShape'
  BY <1>0, <1>1, <1>2, <1>3, ClusterWriteType DEF ClusterTypeInv, Parts
<1>5. CASE cPc' = "idle"
  <2>1. ClusterReturn(TRUE)
    BY <1>5 DEF ClusterPatchStatus, PatchDelete
  <2>2. QED BY <1>3, <1>4, <2>1, ClusterReturnType
<1>6. CASE cPc' # "idle"
  <2>1. /\ cQueue' = cQueue /\ cCur' = cCur /\ cBase' = cBase /\ dc' = dc /\ allDone' = allDone
        /\ cPc' \in {"endpoint", "deleteProjects"} /\ todo' \subseteq Offerings
    BY <1>0, <1>6 DEF ClusterPatchStatus, PatchDelete, ClusterReturn, ClusterGoIdle, Present,
       Parts, ClusterWorkerOK
  <2>2. cObj' \in ClusterObject /\ cObj'.st = st
    BY <1>1, <1>2, <1>6
  <2>3. ClusterWorkerOK'
    BY <1>0, <2>1, <2>2 DEF Parts, ClusterWorkerOK, ClusterPCs
  <2>4. WalkShape'
    BY <1>1, <2>1, <2>2 DEF WalkShape, ClusterTypeInv
  <2>5. StoreOK'
    BY <1>0, <1>3, <1>4, <2>1 DEF Parts, StoreOK
  <2>6. QED BY <1>3, <1>4, <2>3, <2>4, <2>5, TypeParts DEF ClusterTypeInv, Parts
<1>7. QED BY <1>5, <1>6

\* The steps that end a reconciliation.
LEMMA EndSteps ==
    ASSUME ClusterTypeInv,
           \/ EndpointFails \/ NoEndpoint \/ SetEndpoint \/ EndpointConflict
           \/ \E o \in Offerings : DeleteProject(o) \/ DeleteProjectFails(o)
           \/ ClusterRelease \/ ReleaseFails \/ ClusterAnswerPanics \/ ClusterWriteFails
           \/ CreateTenantPanics
    PROVE  ClusterTypeInv'
<1>0. Parts /\ cCur \in Clusters /\ cApi[cCur] \in ClusterObject
  BY TypeParts DEF ClusterTypeInv, Parts, ClusterWorkerOK, StoreOK, EndpointFails, NoEndpoint,
     SetEndpoint,
        EndpointConflict, DeleteProject, DeleteProjectFails, ClusterRelease, ReleaseFails, ClusterAnswerPanics,
        ClusterWriteFails, CreateTenantPanics
<1>1. Waldur!WaldurTypeOK' /\ cCache' = cCache
  <2>1. CASE CreateTenantPanics
    <3>1. <<cCur, dc>> \in TenantKeys
      BY <1>0, <2>1 DEF CreateTenantPanics, ClusterTypeInv, WalkShape, Parts, ClusterWorkerOK, TenantKeys
    <3>2. QED BY <1>0, <2>1, <3>1, CreationType DEF CreateTenantPanics, AcceptTenant, Parts
  <2>2. CASE ~CreateTenantPanics
    BY <1>0, <2>2 DEF market, store, Parts, Waldur!WaldurTypeOK, EndpointFails, NoEndpoint, SetEndpoint,
        EndpointConflict, DeleteProject, DeleteProjectFails, ClusterRelease, ReleaseFails, ClusterAnswerPanics,
        ClusterWriteFails
  <2>3. QED BY <2>1, <2>2
<1>2. RestOK'
  <2>1. faults' \in 0..MaxFaults
    BY <1>0, ClusterFaultType DEF Parts, EndpointFails, NoEndpoint, SetEndpoint, EndpointConflict,
        DeleteProject, DeleteProjectFails, ClusterRelease, ReleaseFails, ClusterAnswerPanics, ClusterWriteFails,
        CreateTenantPanics
  <2>2. QED
    BY <1>0, <2>1 DEF Parts, RestOK, EndpointFails, NoEndpoint, SetEndpoint, EndpointConflict,
        DeleteProject, DeleteProjectFails, ClusterRelease, ReleaseFails, ClusterAnswerPanics, ClusterWriteFails,
        CreateTenantPanics
<1>3. CASE \/ EndpointFails \/ NoEndpoint \/ EndpointConflict
           \/ (\E o \in Offerings : DeleteProjectFails(o)) \/ ReleaseFails \/ ClusterAnswerPanics \/ ClusterWriteFails
           \/ CreateTenantPanics
  <2>1. ClusterReturn(TRUE) /\ cApi' = cApi
    BY <1>3 DEF EndpointFails, NoEndpoint, EndpointConflict, DeleteProjectFails, ReleaseFails,
           ClusterAnswerPanics, ClusterWriteFails, CreateTenantPanics
  <2>2. cApi' \in [Clusters -> ClusterObject] /\ StoreShape'
    BY <1>0, <1>1, <2>1 DEF Parts, StoreOK, StoreShape, ClusterTypeInv
  <2>3. QED BY <1>1, <1>2, <2>1, <2>2, ClusterReturnType
<1>4. CASE SetEndpoint
  <2>1. Updated(cCur, [cObj EXCEPT !.endpoint = TRUE]) \in ClusterObject
        /\ Updated(cCur, [cObj EXCEPT !.endpoint = TRUE]).st = cApi[cCur].st
    BY <1>0, ClusterFieldType, UpdatedType DEF Parts, ClusterWorkerOK
  <2>2. cApi' \in [Clusters -> ClusterObject] /\ StoreShape'
    BY <1>0, <1>1, <1>4, <2>1, ClusterWriteType DEF SetEndpoint, ClusterTypeInv, Parts, StoreShape
  <2>3. QED BY <1>1, <1>2, <1>4, <2>2, ClusterReturnType DEF SetEndpoint
<1>5. CASE ClusterRelease
  <2>1. Updated(cCur, [cObj EXCEPT !.fin = FALSE]) \in ClusterObject
        /\ Updated(cCur, [cObj EXCEPT !.fin = FALSE]).st = cApi[cCur].st
    BY <1>0, ClusterFieldType, UpdatedType DEF Parts, ClusterWorkerOK
  <2>2. [Updated(cCur, [cObj EXCEPT !.fin = FALSE]) EXCEPT !.exists = FALSE] \in ClusterObject
        /\ [Updated(cCur, [cObj EXCEPT !.fin = FALSE]) EXCEPT !.exists = FALSE].st = cApi[cCur].st
    BY <2>1, ClusterFieldType
  <2>3. cApi' \in [Clusters -> ClusterObject] /\ StoreShape'
    BY <1>0, <1>1, <1>5, <2>2, ClusterWriteType DEF ClusterRelease, ClusterTypeInv, Parts, StoreShape
  <2>4. QED BY <1>1, <1>2, <1>5, <2>3, ClusterReturnType DEF ClusterRelease
<1>6. CASE \E o \in Offerings : DeleteProject(o)
  <2>1. ClusterWorkerOK' /\ WalkShape' /\ StoreOK' /\ StoreShape'
    BY <1>0, <1>6 DEF DeleteProject, store, Parts, ClusterWorkerOK, WalkShape, StoreOK, StoreShape,
       ClusterTypeInv
  <2>2. QED BY <1>1, <1>2, <2>1, TypeParts DEF ClusterTypeInv, Parts
<1>7. QED BY <1>3, <1>4, <1>5, <1>6

LEMMA ClusterTypeStep == ClusterTypeInv /\ [ClusterNext]_cVars => ClusterTypeInv'
<1> SUFFICES ASSUME ClusterTypeInv, [ClusterNext]_cVars PROVE ClusterTypeInv'
  OBVIOUS
<1>1. CASE UNCHANGED cVars
  <2>1. Parts' /\ StoreShape' /\ WalkShape'
    BY <1>1, TypeParts DEF cVars, ClusterTypeInv, Parts, Waldur!WaldurTypeOK, StoreOK,
       ClusterWorkerOK, RestOK,
           StoreShape, WalkShape
  <2>2. QED BY <2>1, TypeParts DEF ClusterTypeInv
<1>2. CASE \E o \in Offerings :
          \/ RefreshTenant(o) \/ ClusterRefreshFails(o) \/ GetOrCreateProject(o) \/ NoProject(o)
          \/ PollTermination(o) \/ SkipTerminated(o) \/ ClusterSubmitTermination(o)
          \/ TerminationFails(o) \/ DeleteProject(o) \/ DeleteProjectFails(o)
  BY <1>2, KeepingSteps, CreateSteps, EndSteps
<1>3. CASE CreateTenantFails \/ CreateTenant \/ CreateTenantLost
  <2>1. PICK o \in Offerings : TRUE
    BY <1>3, TypeParts DEF CreateTenantFails, CreateTenant, CreateTenantLost, ClusterTypeInv, WalkShape,
           Parts, ClusterWorkerOK
  <2>2. QED BY <1>3, <2>1, CreateSteps
<1>4. CASE ClusterPatchStatus \/ PatchDelete
  BY <1>4, PatchSteps
<1>5. CASE \/ EndpointFails \/ NoEndpoint \/ SetEndpoint \/ EndpointConflict \/ ClusterRelease
           \/ ReleaseFails \/ ClusterAnswerPanics \/ ClusterWriteFails \/ CreateTenantPanics
  BY <1>5, EndSteps
<1>6. CASE ClusterMarketplace
  BY <1>6, ClusterMarketplaceType
<1>7. CASE \E c \in Clusters : ClusterReconcile(c) \/ ClusterCacheSync(c) \/ ClusterEnvironment(c)
  BY <1>7, ClusterReconcileType, ClusterEnvironmentType
<1>8. CASE ClusterCrash
  <2>1. ClusterWorkerOK' /\ WalkShape'
    BY <1>8, IdleType DEF ClusterCrash
  <2>2. Waldur!WaldurTypeOK' /\ StoreOK' /\ RestOK' /\ StoreShape'
    BY <1>8, TypeParts, ClusterFaultType DEF ClusterCrash, market, ClusterTypeInv, Parts,
       Waldur!WaldurTypeOK, StoreOK, RestOK,
           StoreShape
  <2>3. QED BY <2>1, <2>2, TypeParts DEF ClusterTypeInv, Parts
<1>9. QED
  BY <1>1, <1>2, <1>3, <1>4, <1>5, <1>6, <1>7, <1>8 DEF ClusterNext, ClusterStep

\* Every variable keeps its type, whatever the cache shows and whatever fails:
\* in particular no merge patch, even one computed from a stale object, leaves
\* a status in which a tenant lacks its marketplace resource.
THEOREM ClusterTypeCorrect == ClusterSpec => []ClusterTypeOK
<1>1. ClusterTypeInv => ClusterTypeOK
  BY DEF ClusterTypeInv
<1>2. QED
  BY ClusterTypeInit, ClusterTypeStep, <1>1, PTL DEF ClusterSpec


----------------------------------------------------------------------------
(* What a step does to Waldur and to the API server *)

\* The steps that change the marketplace.
LEMMA MarketSteps ==
    ASSUME ClusterTypeInv, [ClusterNext]_cVars
    PROVE  \/ UNCHANGED market
           \/ /\ CreateTenant \/ CreateTenantLost \/ CreateTenantPanics
              /\ \E id \in OrderIds, core \in OrderScopes : AcceptTenant(id, core)
           \/ \E o \in Offerings : /\ ClusterSubmitTermination(o) \/ TerminationFails(o)
                                   /\ \E id \in OrderIds : Waldur!AcceptTermination(id, cObj.st.tenants[o].res)
           \/ ClusterMarketplace /\ \E o \in OrderIds : Progress(o)
<1>1. CASE UNCHANGED cVars
  BY <1>1 DEF cVars, market
<1>2. CASE ClusterStep
  <2>1. CASE \E o \in Offerings :
          \/ RefreshTenant(o) \/ ClusterRefreshFails(o) \/ GetOrCreateProject(o) \/ NoProject(o)
          \/ PollTermination(o) \/ SkipTerminated(o) \/ DeleteProject(o) \/ DeleteProjectFails(o)
    BY <2>1 DEF RefreshTenant, ClusterRefreshFails, GetOrCreateProject, NoProject, PollTermination,
           SkipTerminated, DeleteProject, DeleteProjectFails
  <2>2. CASE \E o \in Offerings : ClusterSubmitTermination(o) \/ TerminationFails(o)
    BY <2>2 DEF ClusterSubmitTermination, TerminationFails, market
  <2>3. CASE CreateTenant \/ CreateTenantLost \/ CreateTenantPanics
    BY <2>3 DEF CreateTenant, CreateTenantLost, CreateTenantPanics
  <2>4. CASE \/ CreateTenantFails \/ ClusterPatchStatus \/ EndpointFails \/ NoEndpoint \/ SetEndpoint
             \/ EndpointConflict \/ PatchDelete \/ ClusterRelease \/ ReleaseFails
             \/ ClusterAnswerPanics \/ ClusterWriteFails
    BY <2>4 DEF CreateTenantFails, ClusterPatchStatus, EndpointFails, NoEndpoint, SetEndpoint,
           EndpointConflict, PatchDelete, ClusterRelease, ReleaseFails, ClusterAnswerPanics, ClusterWriteFails
  <2>5. QED
    BY <1>2, <2>1, <2>2, <2>3, <2>4 DEF ClusterStep
<1>3. CASE \E c \in Clusters : ClusterReconcile(c) \/ ClusterCacheSync(c) \/ ClusterEnvironment(c)
  BY <1>3 DEF ClusterReconcile, ClusterReconcileGone, ClusterAddFinalizer, ClusterReconcileWait,
     BeginReconcile, BeginDelete,
         ClusterSettle, ClusterBegin, ClusterCacheSync, ClusterEnvironment, ClusterUserDelete, EditDatacenters, ClusterSetOwnerRef,
         ControlPlaneUp
<1>4. CASE ClusterMarketplace
  BY <1>4 DEF ClusterMarketplace, Waldur!WaldurProgress, Waldur!OrderProgress, Progress
<1>5. CASE ClusterCrash
  BY <1>5 DEF ClusterCrash
<1>6. QED
  BY <1>1, <1>2, <1>3, <1>4, <1>5 DEF ClusterNext

\* A full-object Update that is accepted changes one field: what it would undo
\* is what was read.
LEMMA AcceptedUpdate ==
    ASSUME NEW c \in Clusters, NEW x, ClusterUpdateAccepted(c, x), cApi[c] \in ClusterObject
    PROVE  /\ Updated(c, [x EXCEPT !.fin = TRUE]) = [cApi[c] EXCEPT !.fin = TRUE]
           /\ Updated(c, [x EXCEPT !.endpoint = TRUE]) = [cApi[c] EXCEPT !.endpoint = TRUE]
           /\ [Updated(c, [x EXCEPT !.fin = FALSE]) EXCEPT !.exists = FALSE]
                 = [cApi[c] EXCEPT !.fin = FALSE, !.exists = FALSE]
BY DEF ClusterUpdateAccepted, Updated, ClusterObject

\* The steps that change an object in the API server.
LEMMA ObjectSteps ==
    ASSUME ClusterTypeInv, [ClusterNext]_cVars
    PROVE  \/ UNCHANGED cApi
           \/ \E c \in Clusters :
                 \/ ClusterAddFinalizer(c) /\ cApi' = [cApi EXCEPT ![c] = [cApi[c] EXCEPT !.fin = TRUE]]
                 \/ ClusterUserDelete(c) \/ EditDatacenters(c) \/ ClusterSetOwnerRef(c)
           \/ /\ SetEndpoint
              /\ cApi' = [cApi EXCEPT ![cCur] = [cApi[cCur] EXCEPT !.endpoint = TRUE]]
           \/ /\ ClusterRelease
              /\ cApi' = [cApi EXCEPT ![cCur] = [cApi[cCur] EXCEPT !.fin = FALSE, !.exists = FALSE]]
           \/ ClusterPatchStatus \/ PatchDelete
<1>0. Parts
  BY TypeParts DEF ClusterTypeInv
<1>1. CASE UNCHANGED cVars
  BY <1>1 DEF cVars
<1>2. CASE ClusterStep
  <2>1. CASE \E o \in Offerings :
          \/ RefreshTenant(o) \/ ClusterRefreshFails(o) \/ GetOrCreateProject(o) \/ NoProject(o)
          \/ PollTermination(o) \/ SkipTerminated(o) \/ ClusterSubmitTermination(o)
          \/ TerminationFails(o) \/ DeleteProject(o) \/ DeleteProjectFails(o)
    BY <2>1 DEF RefreshTenant, ClusterRefreshFails, GetOrCreateProject, NoProject, PollTermination,
           SkipTerminated, DeleteProject, DeleteProjectFails, ClusterSubmitTermination, TerminationFails,
           store
  <2>2. CASE \/ CreateTenantFails \/ CreateTenant \/ CreateTenantLost \/ EndpointFails
             \/ NoEndpoint \/ EndpointConflict \/ ReleaseFails \/ ClusterAnswerPanics \/ ClusterWriteFails
             \/ CreateTenantPanics
    BY <2>2 DEF CreateTenantFails, CreateTenant, CreateTenantLost, CreateTenantPanics, EndpointFails, NoEndpoint,
           EndpointConflict, ReleaseFails, ClusterAnswerPanics, ClusterWriteFails
  <2>3. CASE SetEndpoint \/ ClusterRelease
    <3>1. cCur \in Clusters /\ cApi[cCur] \in ClusterObject /\ ClusterUpdateAccepted(cCur, cObj)
      BY <1>0, <2>3 DEF SetEndpoint, ClusterRelease, Parts, ClusterWorkerOK, StoreOK
    <3>2. QED
      BY <2>3, <3>1, AcceptedUpdate DEF SetEndpoint, ClusterRelease
  <2>4. QED
    BY <1>2, <2>1, <2>2, <2>3 DEF ClusterStep
<1>3. CASE \E c \in Clusters : ClusterReconcile(c) \/ ClusterCacheSync(c) \/ ClusterEnvironment(c)
  <2>1. PICK c \in Clusters : ClusterReconcile(c) \/ ClusterCacheSync(c) \/ ClusterEnvironment(c)
    BY <1>3
  <2>2. CASE ClusterAddFinalizer(c)
    <3>1. cApi[c] \in ClusterObject /\ ClusterUpdateAccepted(c, cCache[c])
      BY <1>0, <2>2 DEF ClusterAddFinalizer, Parts, StoreOK
    <3>2. QED
      BY <2>2, <3>1, AcceptedUpdate DEF ClusterAddFinalizer
  <2>3. CASE ~ClusterAddFinalizer(c)
    BY <2>1, <2>3 DEF ClusterReconcile, ClusterReconcileGone, ClusterReconcileWait, BeginReconcile,
       BeginDelete,
           ClusterBegin, ClusterCacheSync, ClusterEnvironment, ControlPlaneUp
  <2>4. QED BY <2>2, <2>3
<1>4. CASE ClusterMarketplace \/ ClusterCrash
  BY <1>4 DEF ClusterMarketplace, ClusterCrash, store
<1>5. QED
  BY <1>1, <1>2, <1>3, <1>4 DEF ClusterNext

LEMMA OrderedInProject == ClusterTypeInv /\ [ClusterNext]_cVars =>
    \A id \in OrderIds : tOrders[id].type = "none" /\ tOrders'[id].type = "Create"
        => ProjectOf[tResources'[id].owner] \in projects
<1> SUFFICES ASSUME ClusterTypeInv, [ClusterNext]_cVars, NEW id \in OrderIds,
                    tOrders[id].type = "none", tOrders'[id].type = "Create"
             PROVE  ProjectOf[tResources'[id].owner] \in projects
  OBVIOUS
<1>0. Waldur!WaldurTypeOK
  BY TypeParts DEF ClusterTypeInv, Parts
<1>1. CASE UNCHANGED market
  BY <1>1 DEF market
<1>2. CASE /\ CreateTenant \/ CreateTenantLost \/ CreateTenantPanics
           /\ \E i \in OrderIds, core \in OrderScopes : AcceptTenant(i, core)
  <2>1. ProjectOf[<<cCur, dc>>] \in projects
    BY <1>2 DEF CreateTenant, CreateTenantLost, CreateTenantPanics, ClusterTypeInv, WalkShape
  <2>2. PICK i \in OrderIds, core \in OrderScopes : AcceptTenant(i, core)
    BY <1>2
  <2>3. i = id
    BY <1>0, <2>2 DEF AcceptTenant, Waldur!AcceptCreation, Waldur!WaldurTypeOK
  <2>4. tResources'[id].owner = <<cCur, dc>>
    BY <1>0, <2>2, <2>3 DEF AcceptTenant, Waldur!AcceptCreation, Waldur!WaldurTypeOK
  <2>5. QED BY <2>1, <2>4
<1>3. CASE \E o \in Offerings, i \in OrderIds : Waldur!AcceptTermination(i, cObj.st.tenants[o].res)
  BY <1>0, <1>3 DEF Waldur!AcceptTermination, Waldur!WaldurTypeOK
<1>4. CASE \E o \in OrderIds : Progress(o)
  <2>1. PICK o \in OrderIds : tOrders' = tOrders \/ \E s : tOrders' = [tOrders EXCEPT ![o].state = s]
    BY <1>4 DEF Progress, Waldur!StartOrder, Waldur!InstanceUp, Waldur!InstanceStopped,
       Waldur!FinishCreation,
           Waldur!FinishTermination, Waldur!FailOrder, Waldur!InstanceChange
  <2>2. tOrders'[id].type = tOrders[id].type
    BY <1>0, <2>1 DEF Waldur!WaldurTypeOK, Waldur!Order
  <2>3. QED BY <2>2
<1>5. QED
  BY <1>1, <1>2, <1>3, <1>4, MarketSteps

\* Whoever shares a project and whatever fails, a tenant is ordered in a
\* project that exists: createTenant orders it in the reconciliation that read
\* or created the project, and the one worker deletes none in between.
THEOREM OrderedSafe == ClusterSpec => TenantOrderedInProject
<1>1. ClusterTypeInv /\ [ClusterNext]_cVars =>
        [\A id \in OrderIds :
            tOrders[id].type = "none" /\ tOrders'[id].type = "Create"
               => ProjectOf[tResources'[id].owner] \in projects]_cVars
  BY OrderedInProject
<1>2. QED
  BY ClusterTypeInit, ClusterTypeStep, <1>1, PTL DEF ClusterSpec, TenantOrderedInProject

LEMMA EditsKept == ClusterTypeInv /\ [ClusterNext]_cVars =>
    \A c \in Clusters : /\ cApi'[c].dcs # cApi[c].dcs => edits' # edits
                        /\ cApi[c].owner => cApi'[c].owner
                        /\ cApi[c].endpoint => cApi'[c].endpoint
<1> SUFFICES ASSUME ClusterTypeInv, [ClusterNext]_cVars, NEW c \in Clusters
             PROVE  /\ cApi'[c].dcs # cApi[c].dcs => edits' # edits
                    /\ cApi[c].owner => cApi'[c].owner
                    /\ cApi[c].endpoint => cApi'[c].endpoint
  OBVIOUS
<1>0. cApi \in [Clusters -> ClusterObject] /\ edits \in Nat
  BY TypeParts, BoundAssumption DEF ClusterTypeInv, Parts, StoreOK, RestOK
<1>1. CASE UNCHANGED cApi
  BY <1>1
<1>2. CASE \E d \in Clusters :
             cApi' = [cApi EXCEPT ![d] = [cApi[d] EXCEPT !.fin = TRUE]] \/ ClusterUserDelete(d) \/ ClusterSetOwnerRef(d)
  <2>1. PICK d \in Clusters :
             cApi' = [cApi EXCEPT ![d] = [cApi[d] EXCEPT !.fin = TRUE]] \/ ClusterUserDelete(d) \/ ClusterSetOwnerRef(d)
    BY <1>2
  <2>2. \/ cApi' = [cApi EXCEPT ![d] = [cApi[d] EXCEPT !.fin = TRUE]]
        \/ cApi' = [cApi EXCEPT ![d] = [cApi[d] EXCEPT !.deleting = TRUE]]
        \/ cApi' = [cApi EXCEPT ![d] = [cApi[d] EXCEPT !.exists = FALSE]]
        \/ cApi' = [cApi EXCEPT ![d] = [cApi[d] EXCEPT !.owner = TRUE]]
    BY <2>1 DEF ClusterUserDelete, ClusterSetOwnerRef
  <2>3. CASE c = d
    BY <1>0, <2>2, <2>3 DEF ClusterObject
  <2>4. CASE c # d
    BY <1>0, <2>2, <2>4
  <2>5. QED BY <2>3, <2>4
<1>3. CASE \E d \in Clusters : EditDatacenters(d)
  <2>1. PICK d \in Clusters, x \in Spec0 : cApi' = [cApi EXCEPT ![d].dcs = x]
    BY <1>3 DEF EditDatacenters
  <2>2. edits' # edits
    BY <1>0, <1>3 DEF EditDatacenters
  <2>3. QED BY <1>0, <2>1, <2>2 DEF ClusterObject
<1>4. CASE \/ SetEndpoint /\ cApi' = [cApi EXCEPT ![cCur] = [cApi[cCur] EXCEPT !.endpoint = TRUE]]
           \/ ClusterRelease /\ cApi' = [cApi EXCEPT ![cCur] = [cApi[cCur] EXCEPT !.fin = FALSE, !.exists = FALSE]]
  <2>1. CASE cApi' = [cApi EXCEPT ![cCur] = [cApi[cCur] EXCEPT !.endpoint = TRUE]]
    BY <1>0, <2>1 DEF ClusterObject
  <2>2. CASE cApi' = [cApi EXCEPT ![cCur] = [cApi[cCur] EXCEPT !.fin = FALSE, !.exists = FALSE]]
    BY <1>0, <2>2 DEF ClusterObject
  <2>3. QED BY <1>4, <2>1, <2>2
<1>5. CASE ClusterPatchStatus \/ PatchDelete
  <2>1. PICK st \in ClusterStatus : cApi' = [cApi EXCEPT ![cCur] = [cApi[cCur] EXCEPT !.st = st]]
    BY <1>5, PatchType
  <2>2. QED BY <1>0, <2>1 DEF ClusterObject
<1>6. QED
  BY <1>1, <1>2, <1>3, <1>4, <1>5, ObjectSteps

\* Only an edit changes spec.datacenters, and the owner reference and the
\* endpoint stay: the resource version makes the full-object Updates harmless,
\* even those of an object read from a stale cache.
THEOREM EditsSafe == ClusterSpec => EditsSurvive
<1>1. ClusterTypeInv /\ [ClusterNext]_cVars =>
        [\A c \in Clusters :
            /\ cApi'[c].dcs # cApi[c].dcs => edits' # edits
            /\ cApi[c].owner => cApi'[c].owner
            /\ cApi[c].endpoint => cApi'[c].endpoint]_cVars
  BY EditsKept
<1>2. QED
  BY ClusterTypeInit, ClusterTypeStep, <1>1, PTL DEF ClusterSpec, EditsSurvive


----------------------------------------------------------------------------
(* The finalizer holds the object a reconciliation works on *)

\* What a reconciliation relies on when the cache shows what earlier ones
\* wrote: its object exists and is held, its patch is computed against the
\* status the API server has, and a deletion it saw is not withdrawn.
ObjectHeld ==
    \A c \in Clusters :
        /\ cApi[c].fin => cApi[c].exists
        /\ cApi[c].exists /\ cApi[c].deleting => cApi[c].fin
        /\ cCache[c].exists /\ cCache[c].deleting => cCache[c].fin /\ cApi[c].deleting

FlightHeld ==
    /\ cPc # "idle" => cApi[cCur].exists /\ cApi[cCur].fin
    /\ cPc \in {"tenants", "order", "terminate"} => cBase = cApi[cCur].st
    /\ cPc \in {"endpoint", "deleteProjects"} => cObj.st = cApi[cCur].st
    /\ cPc \in {"terminate", "deleteProjects"} => cApi[cCur].deleting

HeldInv == ObjectHeld /\ FlightHeld

\* The steps of a walk, and what they leave alone.
WalkSteps == \/ CreateTenantFails \/ CreateTenant \/ CreateTenantLost
             \/ \E o \in Offerings :
                  \/ RefreshTenant(o) \/ ClusterRefreshFails(o) \/ GetOrCreateProject(o) \/ NoProject(o)
                  \/ PollTermination(o) \/ SkipTerminated(o) \/ ClusterSubmitTermination(o)
                  \/ TerminationFails(o)

WithinWalk ==
    /\ UNCHANGED <<cApi, cCache, cQueue, cCur, cBase>>
    /\ \/ cPc \in {"tenants", "order"} /\ cPc' \in {"tenants", "order"}
       \/ cPc = "terminate" /\ cPc' = "terminate"

\* The steps of the worker.
LEMMA WorkerSteps ==
    ASSUME ClusterTypeInv, [ClusterNext]_cVars
    PROVE  \/ UNCHANGED cWorker
           \/ cPc' = "idle"
           \/ \E c \in Clusters : BeginReconcile(c) \/ BeginDelete(c)
           \/ WalkSteps /\ WithinWalk
           \/ cPc' # "idle" /\ (ClusterPatchStatus \/ PatchDelete)
           \/ \E o \in Offerings : DeleteProject(o)
<1>1. CASE UNCHANGED cVars
  BY <1>1 DEF cVars, cWorker
<1>2. CASE ClusterStep
  <2>1. CASE WalkSteps
    <3>1. CASE CreateTenantFails \/ CreateTenant \/ CreateTenantLost
      BY <2>1, <3>1 DEF WithinWalk, CreateTenantFails, CreateTenant, CreateTenantLost,
         ClusterCreateFails,
             Walked
    <3>2. CASE ~(CreateTenantFails \/ CreateTenant \/ CreateTenantLost)
      BY <2>1, <3>2 DEF WalkSteps, WithinWalk, RefreshTenant, ClusterRefreshFails, GetOrCreateProject,
             NoProject, PollTermination, SkipTerminated, ClusterSubmitTermination, TerminationFails,
             Walked, store
    <3>3. QED BY <3>1, <3>2
  <2>3. CASE \/ EndpointFails \/ NoEndpoint \/ SetEndpoint \/ EndpointConflict \/ ClusterRelease
             \/ ReleaseFails \/ ClusterAnswerPanics \/ ClusterWriteFails \/ CreateTenantPanics
             \/ \E o \in Offerings : DeleteProjectFails(o)
    BY <2>3 DEF EndpointFails, NoEndpoint, SetEndpoint, EndpointConflict, ClusterRelease, ReleaseFails,
           ClusterAnswerPanics, ClusterWriteFails, CreateTenantPanics, DeleteProjectFails, ClusterReturn,
           ClusterGoIdle
  <2>4. QED
    BY <1>2, <2>1, <2>3 DEF ClusterStep, WalkSteps
<1>3. CASE \E c \in Clusters : ClusterReconcile(c) \/ ClusterCacheSync(c) \/ ClusterEnvironment(c)
  BY <1>3 DEF ClusterReconcile, ClusterReconcileGone, ClusterAddFinalizer, ClusterReconcileWait,
     ClusterSettle, ClusterCacheSync,
         ClusterEnvironment, ClusterUserDelete, EditDatacenters, ClusterSetOwnerRef, ControlPlaneUp
<1>4. CASE ClusterMarketplace
  BY <1>4 DEF ClusterMarketplace
<1>5. CASE ClusterCrash
  BY <1>5 DEF ClusterCrash, ClusterGoIdle
<1>6. QED
  BY <1>1, <1>2, <1>3, <1>4, <1>5 DEF ClusterNext

\* Only the informer and a restart change the cache.
LEMMA CacheSteps ==
    ASSUME ClusterTypeInv, [ClusterNext]_cVars
    PROVE  cCache' = cCache \/ (UNCHANGED cApi /\ \A c \in Clusters : cCache'[c] \in {cCache[c], cApi[c]})
<1>1. CASE UNCHANGED cVars
  BY <1>1 DEF cVars
<1>2. CASE ClusterStep
  BY <1>2 DEF ClusterStep, RefreshTenant, ClusterRefreshFails, GetOrCreateProject, NoProject,
     PollTermination,
         SkipTerminated, ClusterSubmitTermination, TerminationFails, DeleteProject, DeleteProjectFails,
         CreateTenantFails, CreateTenant, CreateTenantLost, CreateTenantPanics, ClusterPatchStatus, EndpointFails, NoEndpoint,
         SetEndpoint, EndpointConflict, PatchDelete, ClusterRelease, ReleaseFails, ClusterAnswerPanics,
         ClusterWriteFails, store
<1>3. CASE \E c \in Clusters : ClusterReconcile(c) \/ ClusterEnvironment(c)
  BY <1>3 DEF ClusterReconcile, ClusterReconcileGone, ClusterAddFinalizer, ClusterReconcileWait,
     BeginReconcile, BeginDelete,
         ClusterSettle, ClusterBegin, ClusterEnvironment, ClusterUserDelete, EditDatacenters, ClusterSetOwnerRef, ControlPlaneUp
<1>4. CASE \E c \in Clusters : ClusterCacheSync(c)
  BY <1>4, TypeParts DEF ClusterCacheSync, ClusterTypeInv, Parts, StoreOK
<1>5. CASE ClusterMarketplace \/ ClusterCrash
  BY <1>5 DEF ClusterMarketplace, ClusterCrash, store
<1>6. QED
  BY <1>1, <1>2, <1>3, <1>4, <1>5 DEF ClusterNext

LEMMA HeldInit == ClusterInit => HeldInv
<1> SUFFICES ASSUME ClusterInit PROVE HeldInv
  OBVIOUS
<1>1. \A c \in Clusters : \E dcs \in Spec0 : cApi[c] = ClusterNewObject(dcs)
  BY DEF ClusterInit
<1>2. \A dcs : ~ClusterNewObject(dcs).fin /\ ~ClusterNewObject(dcs).deleting
  BY DEF ClusterNewObject
<1>3. \A c \in Clusters : ~cApi[c].fin /\ ~cApi[c].deleting
  BY <1>1, <1>2
<1>4. QED
  BY <1>3 DEF ClusterInit, HeldInv, ObjectHeld, FlightHeld

\* What a step does to the fields the finalizer is about.  Nobody but the
\* worker's patches writes a status.
LEMMA ObjectFields ==
    ASSUME ClusterTypeInv, [ClusterNext]_cVars, NEW d \in Clusters
    PROVE  /\ cApi[d].deleting => cApi'[d].deleting
           /\ cApi'[d].exists => cApi[d].exists
           /\ cApi'[d].deleting /\ ~cApi[d].deleting => cApi[d].fin
           /\ cApi[d].fin /\ ~cApi'[d].fin => ~cApi'[d].exists /\ ClusterRelease /\ d = cCur
           /\ cApi[d].exists /\ ~cApi'[d].exists => ~cApi'[d].fin
           /\ cApi'[d].fin /\ ~cApi[d].fin => cApi[d].exists /\ cApi'[d].exists
           /\ cApi'[d].st # cApi[d].st => d = cCur /\ (ClusterPatchStatus \/ PatchDelete)
<1>0. cApi \in [Clusters -> ClusterObject] /\ cApi[d] \in ClusterObject
  BY TypeParts DEF ClusterTypeInv, Parts, StoreOK
<1>1. CASE UNCHANGED cApi
  BY <1>1
<1>2. CASE \E c \in Clusters : ClusterAddFinalizer(c) /\ cApi' = [cApi EXCEPT ![c] = [cApi[c] EXCEPT !.fin = TRUE]]
  <2>1. PICK c \in Clusters : ClusterAddFinalizer(c) /\ cApi' = [cApi EXCEPT ![c] = [cApi[c] EXCEPT !.fin = TRUE]]
    BY <1>2
  <2>2. cApi[c].exists
    BY <2>1 DEF ClusterAddFinalizer, ClusterUpdateAccepted
  <2>3. cApi' = [cApi EXCEPT ![c] = [cApi[c] EXCEPT !.fin = TRUE]]
    BY <2>1
  <2>4. QED BY <1>0, <2>2, <2>3 DEF ClusterObject
<1>3. CASE \E c \in Clusters : ClusterUserDelete(c)
  <2>1. PICK c \in Clusters : ClusterUserDelete(c)
    BY <1>3
  <2>2. CASE cApi[c].fin
    <3>1. cApi' = [cApi EXCEPT ![c] = [cApi[c] EXCEPT !.deleting = TRUE]]
      BY <2>1, <2>2 DEF ClusterUserDelete
    <3>2. QED BY <1>0, <2>2, <3>1 DEF ClusterObject
  <2>3. CASE ~cApi[c].fin
    <3>1. cApi' = [cApi EXCEPT ![c] = [cApi[c] EXCEPT !.exists = FALSE]]
      BY <2>1, <2>3 DEF ClusterUserDelete
    <3>2. QED BY <1>0, <2>3, <3>1 DEF ClusterObject
  <2>4. QED BY <2>2, <2>3
<1>4. CASE \E c \in Clusters : EditDatacenters(c) \/ ClusterSetOwnerRef(c)
  <2>1. PICK c \in Clusters : \/ \E x : cApi' = [cApi EXCEPT ![c] = [cApi[c] EXCEPT !.dcs = x]]
                             \/ cApi' = [cApi EXCEPT ![c] = [cApi[c] EXCEPT !.owner = TRUE]]
    BY <1>4 DEF EditDatacenters, ClusterSetOwnerRef
  <2>2. QED BY <1>0, <2>1 DEF ClusterObject
<1>5. CASE SetEndpoint /\ cApi' = [cApi EXCEPT ![cCur] = [cApi[cCur] EXCEPT !.endpoint = TRUE]]
  <2>1. cApi' = [cApi EXCEPT ![cCur] = [cApi[cCur] EXCEPT !.endpoint = TRUE]]
    BY <1>5
  <2>2. QED BY <1>0, <2>1 DEF ClusterObject
<1>6. CASE ClusterRelease /\ cApi' = [cApi EXCEPT ![cCur] = [cApi[cCur] EXCEPT !.fin = FALSE, !.exists = FALSE]]
  <2>1. cApi' = [cApi EXCEPT ![cCur] = [cApi[cCur] EXCEPT !.fin = FALSE, !.exists = FALSE]]
    BY <1>6
  <2>2. QED BY <1>0, <1>6, <2>1 DEF ClusterObject
<1>7. CASE ClusterPatchStatus \/ PatchDelete
  <2>1. PICK st \in ClusterStatus : cApi' = [cApi EXCEPT ![cCur] = [cApi[cCur] EXCEPT !.st = st]]
    BY <1>7, PatchType
  <2>2. QED BY <1>0, <1>7, <2>1 DEF ClusterObject
<1>8. QED
  BY <1>1, <1>2, <1>3, <1>4, <1>5, <1>6, <1>7, ObjectSteps

LEMMA ObjectNext ==
    ASSUME ClusterTypeInv, ObjectHeld, [ClusterNext]_cVars
    PROVE  ObjectHeld'
<1> SUFFICES ASSUME NEW c \in Clusters
             PROVE  /\ cApi'[c].fin => cApi'[c].exists
                    /\ cApi'[c].exists /\ cApi'[c].deleting => cApi'[c].fin
                    /\ cCache'[c].exists /\ cCache'[c].deleting => cCache'[c].fin /\ cApi'[c].deleting
  BY DEF ObjectHeld
<1>1. cApi'[c].fin => cApi'[c].exists
  BY ObjectFields DEF ObjectHeld
<1>2. cApi'[c].exists /\ cApi'[c].deleting => cApi'[c].fin
  BY ObjectFields DEF ObjectHeld
<1>3. cCache'[c].exists /\ cCache'[c].deleting => cCache'[c].fin /\ cApi'[c].deleting
  BY ObjectFields, CacheSteps DEF ObjectHeld
<1>4. QED
  BY <1>1, <1>2, <1>3

\* When nobody else writes the status of an object in flight, the merge patch
\* writes exactly what the worker has.
LEMMA ClusterMergeIsNew ==
    ASSUME NEW old \in ClusterStatus, NEW new \in ClusterStatus
    PROVE  ClusterMergePatch(old, new, old) = new
<1>1. \A o \in Offerings : MergeTenant(old.tenants[o], new.tenants[o], old.tenants[o]) = new.tenants[o]
  <2> TAKE o \in Offerings
  <2>1. new.tenants[o] \in Tenant
    BY DEF ClusterStatus
  <2> DEFINE t == new.tenants[o]
  <2>2. MergeTenant(old.tenants[o], t, old.tenants[o]) =
          [present |-> t.present, res |-> t.res, ord |-> t.ord, ordType |-> t.ordType,
           ordState |-> t.ordState, mrs |-> t.mrs, state |-> t.state, known |-> t.known]
    BY DEF MergeTenant, Merged
  <2>3. QED
    BY <2>1, <2>2 DEF Tenant
<1>2. [o \in Offerings |-> MergeTenant(old.tenants[o], new.tenants[o], old.tenants[o])] = new.tenants
  BY <1>1 DEF ClusterStatus
<1>3. ClusterMergePatch(old, new, old) = [tenants |-> new.tenants, ready |-> new.ready, prov |-> new.prov]
  BY <1>2 DEF ClusterMergePatch, Merged
<1>4. QED
  BY <1>3 DEF ClusterStatus

LEMMA FlightNext ==
    ASSUME ReadOwnWrites, ClusterTypeInv, HeldInv, [ClusterNext]_cVars
    PROVE  FlightHeld'
<1>0. Parts
  BY TypeParts DEF ClusterTypeInv
<1>1. CASE cPc' = "idle"
  BY <1>1 DEF FlightHeld
<1>2. CASE UNCHANGED cWorker /\ cPc' # "idle"
  <2>1. cPc # "idle" /\ cCur \in Clusters /\ UNCHANGED <<cPc, cCur, cObj, cBase>>
    BY <1>0, <1>2 DEF cWorker, Parts, ClusterWorkerOK
  <2>2. ~ClusterPatchStatus /\ ~PatchDelete /\ ~ClusterRelease
    BY <1>2 DEF cWorker, ClusterPatchStatus, PatchDelete, ClusterRelease, ClusterReturn, ClusterGoIdle
  <2>3. /\ cApi'[cCur].st = cApi[cCur].st
        /\ cApi[cCur].fin => cApi'[cCur].fin
        /\ cApi[cCur].deleting => cApi'[cCur].deleting
        /\ cApi[cCur].exists /\ ~cApi'[cCur].exists => ~cApi'[cCur].fin
    BY <2>1, <2>2, ObjectFields
  <2>4. QED
    BY <2>1, <2>3 DEF HeldInv, FlightHeld
<1>3. CASE \E c \in Clusters : BeginReconcile(c) \/ BeginDelete(c)
  <2>1. PICK c \in Clusters : BeginReconcile(c) \/ BeginDelete(c)
    BY <1>3
  <2>2. /\ cApi' = cApi /\ cCur' = c /\ cObj' = cCache[c] /\ cBase' = cCache[c].st
        /\ cCache[c].st = cApi[c].st /\ cCache[c].fin = cApi[c].fin
        /\ cCache[c].exists
        /\ (cPc' = "tenants" /\ cCache[c].fin) \/ (cPc' = "terminate" /\ cCache[c].deleting)
    BY <2>1 DEF BeginReconcile, BeginDelete, ClusterBegin, ClusterTake, ClusterFresh, ClusterAdmitted
  <2>3. QED
    BY <2>2 DEF HeldInv, ObjectHeld, FlightHeld
<1>4. CASE WithinWalk
  BY <1>4 DEF WithinWalk, HeldInv, FlightHeld
<1>5. CASE cPc' # "idle" /\ (ClusterPatchStatus \/ PatchDelete)
  <2>1. PICK st \in ClusterStatus : /\ cApi' = [cApi EXCEPT ![cCur] = [cApi[cCur] EXCEPT !.st = st]]
                                    /\ cPc' # "idle" => cObj' = [cApi[cCur] EXCEPT !.st = st]
    BY <1>5, PatchType
  <2>2. cCur \in Clusters /\ cApi[cCur] \in ClusterObject
    BY <1>0, <1>5 DEF ClusterPatchStatus, PatchDelete, Parts, ClusterWorkerOK, StoreOK
  <2>3. /\ cApi'[cCur].st = st /\ cObj'.st = st
        /\ cApi'[cCur].exists = cApi[cCur].exists /\ cApi'[cCur].fin = cApi[cCur].fin
        /\ cApi'[cCur].deleting = cApi[cCur].deleting
    BY <1>0, <1>5, <2>1, <2>2 DEF Parts, StoreOK, ClusterObject
  <2>4. /\ cCur' = cCur
        /\ \/ cPc = "tenants" /\ cPc' = "endpoint"
           \/ cPc = "terminate" /\ cPc' = "deleteProjects"
    BY <1>5 DEF ClusterPatchStatus, PatchDelete, ClusterReturn, ClusterGoIdle
  <2>5. QED
    BY <2>3, <2>4 DEF HeldInv, FlightHeld
<1>6. CASE \E o \in Offerings : DeleteProject(o)
  BY <1>6 DEF DeleteProject, store, HeldInv, FlightHeld
<1>7. QED
  BY <1>1, <1>2, <1>3, <1>4, <1>5, <1>6, WorkerSteps

LEMMA HeldNext ==
    ASSUME ReadOwnWrites
    PROVE  ClusterTypeInv /\ HeldInv /\ [ClusterNext]_cVars => HeldInv'
BY ObjectNext, FlightNext DEF HeldInv

\* When a reconciliation sees what earlier ones wrote, the object it works on
\* exists and keeps its finalizer until it ends, although users delete and
\* edit it meanwhile.
THEOREM ClusterInFlightSafe ==
    ASSUME ReadOwnWrites
    PROVE  ClusterSpec => []ClusterInFlightExists
<1>1. HeldInv => ClusterInFlightExists
  BY DEF HeldInv, FlightHeld, ClusterInFlightExists
<1>2. ClusterTypeInv /\ HeldInv /\ [ClusterNext]_cVars => HeldInv'
  BY HeldNext
<1>3. QED
  BY ClusterTypeInit, ClusterTypeStep, HeldInit, <1>1, <1>2, PTL DEF ClusterSpec


----------------------------------------------------------------------------
(* A cluster is let go only when its tenants are terminated *)

\* What Waldur's own records obey.
MarketInv ==
    \A o \in OrderIds :
        /\ tOrders[o].type # "Create" => tResources[o].owner = Nil /\ tResources[o].state = "none"
        /\ tOrders[o].type = "Create" => tOrders[o].res = o /\ tResources[o].owner \in TenantKeys
        /\ tOrders[o].type = "Terminate" =>
              /\ tOrders[o].res \in OrderIds
              /\ tOrders[tOrders[o].res].type = "Create"
              /\ Waldur!isOrderTerminal(tOrders[tOrders[o].res].state)
              /\ tOrders[o].state = "Done" => tResources[tOrders[o].res].state = "Terminated"
        /\ tResources[o].state = "Terminated" => Waldur!isOrderTerminal(tOrders[o].state)
        /\ tResources[o].state = "OK" => tOrders[o].state = "Done"

\* A recorded tenant is true of Waldur: its resource was ordered for this
\* datacenter, its order is one for that resource, and one recorded as over
\* ended the way it says; the creation of a tenant recorded as OK is done.
Booked(k, t, os, rs) == t.present =>
    /\ os[t.res].type = "Create" /\ rs[t.res].owner = k
    /\ t.ord \in OrderIds /\ t.ordType \in {"Create", "Terminate"}
    /\ os[t.ord].type = t.ordType /\ os[t.ord].res = t.res
    /\ Waldur!isOrderTerminal(t.ordState) => os[t.ord].state = t.ordState
    /\ t.mrs = "OK" => os[t.res].state = "Done"

BookedStatus(c, st, os, rs) ==
    \A o \in Offerings : Booked(<<c, o>>, st.tenants[o], os, rs)

\* The finalizer guards every recorded tenant until its termination is done.
Guarded(x) ==
    \A o \in Offerings : x.st.tenants[o].present =>
        IF x.exists THEN x.fin ELSE ClusterTerminationDone(x.st.tenants[o])

\* How far reconcileDelete has got.
DoneSoFar ==
    /\ cPc = "terminate" /\ allDone =>
          \A o \in Present(cObj.st) \ todo : ClusterTerminationDone(cObj.st.tenants[o])
    /\ cPc = "deleteProjects" =>
          \A o \in Present(cObj.st) : ClusterTerminationDone(cObj.st.tenants[o])

ClusterReleaseInv ==
    /\ MarketInv
    /\ \A c \in Clusters : BookedStatus(c, cApi[c].st, tOrders, tResources)
    /\ cPc # "idle" => BookedStatus(cCur, cObj.st, tOrders, tResources)
    /\ \A c \in Clusters : Guarded(cApi[c])
    /\ DoneSoFar

\* No order is forgotten or changes its resource, no resource its owner; the
\* end of an order and Terminated last.
ClusterStable ==
    \A o \in OrderIds :
        /\ tOrders[o].type # "none" =>
              /\ tOrders'[o].type = tOrders[o].type
              /\ tOrders'[o].res = tOrders[o].res
              /\ tResources'[o].owner = tResources[o].owner
              /\ Waldur!isOrderTerminal(tOrders[o].state) => tOrders'[o].state = tOrders[o].state
        /\ tResources[o].state = "Terminated" => tResources'[o].state = "Terminated"

LEMMA CreationKeepsMarket ==
    ASSUME Waldur!WaldurTypeOK, MarketInv, NEW id \in OrderIds, NEW k \in TenantKeys,
           NEW core \in OrderScopes, Waldur!AcceptCreation(id, k, Nil, core)
    PROVE  /\ MarketInv' /\ ClusterStable
           /\ tOrders'[id].type = "Create" /\ tOrders'[id].res = id /\ tResources'[id].owner = k
<1>1. /\ tOrders[id].type = "none"
      /\ tOrders'[id].type = "Create" /\ tOrders'[id].res = id
      /\ tResources'[id].state = "Creating" /\ tResources'[id].owner = k
      /\ \A p \in OrderIds \ {id} : tOrders'[p] = tOrders[p] /\ tResources'[p] = tResources[p]
  BY DEF Waldur!AcceptCreation, Waldur!FreshOrder, Waldur!WaldurTypeOK
<1>2. QED
  BY <1>1 DEF MarketInv, ClusterStable

LEMMA TerminationKeepsMarket ==
    ASSUME Waldur!WaldurTypeOK, MarketInv, NEW id \in OrderIds, NEW r \in OrderIds,
           tOrders[r].type = "Create", Waldur!AcceptTermination(id, r)
    PROVE  /\ MarketInv' /\ ClusterStable
           /\ tOrders'[id].type = "Terminate" /\ tOrders'[id].res = r
<1>1. /\ tOrders[id].type = "none"
      /\ tOrders'[id].type = "Terminate" /\ tOrders'[id].res = r
      /\ tOrders'[id].state = "PendingProvider"
      /\ \A p \in OrderIds \ {id} : tOrders'[p] = tOrders[p]
  BY DEF Waldur!AcceptTermination, Waldur!FreshOrder, Waldur!WaldurTypeOK
<1>2. /\ \A p \in OrderIds \ {r} : tResources'[p] = tResources[p]
      /\ tResources'[r].state = "Terminated" <=> tResources[r].state = "Terminated"
      /\ tResources'[r].state = "OK" => tResources[r].state = "OK"
      /\ tResources'[r].owner = tResources[r].owner
  <2>1. CASE Waldur!Live(r)
    BY <2>1 DEF Waldur!AcceptTermination, Waldur!Live, Waldur!WaldurTypeOK, Waldur!Resource
  <2>2. CASE ~Waldur!Live(r)
    BY <2>2 DEF Waldur!AcceptTermination
  <2>3. QED BY <2>1, <2>2
<1>3. Waldur!isOrderTerminal(tOrders[r].state)
  BY DEF Waldur!AcceptTermination, Waldur!CanTerminate, MarketInv
<1>4. QED
  BY <1>1, <1>2, <1>3 DEF MarketInv, ClusterStable, Waldur!isOrderTerminal

\* Waldur's own steps leave for whom a resource was ordered.
LEMMA ProgressKeepsOwner ==
    ASSUME Waldur!WaldurTypeOK, NEW o \in OrderIds, Progress(o)
    PROVE  \A r \in OrderIds : tResources'[r].owner = tResources[r].owner
<1>0. tResources \in [OrderIds -> Waldur!Resource]
  BY DEF Waldur!WaldurTypeOK
<1>1. CASE Waldur!StartOrder(o)
  <2>1. tResources' = tResources \/ tResources' = [tResources EXCEPT ![o].core = "CREATING"]
    BY <1>1 DEF Waldur!StartOrder
  <2>2. QED BY <1>0, <2>1 DEF Waldur!Resource
<1>2. CASE Waldur!InstanceUp(o)
  BY <1>0, <1>2 DEF Waldur!InstanceUp, Waldur!Resource
<1>3. CASE Waldur!InstanceStopped(o)
  BY <1>0, <1>3 DEF Waldur!InstanceStopped, Waldur!Resource
<1>4. CASE Waldur!FinishCreation(o)
  BY <1>0, <1>4 DEF Waldur!FinishCreation, Waldur!Resource
<1>5. CASE Waldur!FinishTermination(o)
  BY <1>0, <1>5 DEF Waldur!FinishTermination, Waldur!Resource
<1>6. CASE Waldur!FailOrder(o)
  <2>1. \A x \in Waldur!Resource : Waldur!Erred(x).owner = x.owner
    BY DEF Waldur!Erred, Waldur!Resource
  <2>2. tResources' = tResources \/ tResources' = [tResources EXCEPT ![tOrders[o].res] = Waldur!Erred(@)]
    BY <1>6 DEF Waldur!FailOrder
  <2>3. QED BY <1>0, <2>1, <2>2
<1>7. CASE Waldur!InstanceChange(o)
  <2>1. \/ tResources' = [tResources EXCEPT ![o] = [tResources[o] EXCEPT !.core = "ERRED", !.run = "ERROR"]]
        \/ tResources' = [tResources EXCEPT ![o] = [tResources[o] EXCEPT !.core = "OK", !.run = "ACTIVE"]]
    BY <1>7 DEF Waldur!InstanceChange
  <2>2. CASE tResources' = [tResources EXCEPT ![o] =
                               [tResources[o] EXCEPT !.core = "ERRED", !.run = "ERROR"]]
    BY <1>0, <2>2 DEF Waldur!Resource
  <2>3. CASE tResources' = [tResources EXCEPT ![o] =
                               [tResources[o] EXCEPT !.core = "OK", !.run = "ACTIVE"]]
    BY <1>0, <2>3 DEF Waldur!Resource
  <2>4. QED BY <2>1, <2>2, <2>3
<1>8. QED
  BY <1>1, <1>2, <1>3, <1>4, <1>5, <1>6, <1>7 DEF Progress

LEMMA ProgressKeepsMarket ==
    ASSUME Waldur!WaldurTypeOK, MarketInv, NEW o \in OrderIds, Progress(o)
    PROVE  MarketInv' /\ ClusterStable
<1>0. /\ tOrders \in [OrderIds -> Waldur!Order] /\ tResources \in [OrderIds -> Waldur!Resource]
      /\ \A r \in OrderIds : tResources'[r].owner = tResources[r].owner
  BY ProgressKeepsOwner DEF Waldur!WaldurTypeOK
<1>1. CASE Waldur!StartOrder(o)
  <2>1. /\ tOrders'[o].type = tOrders[o].type /\ tOrders'[o].res = tOrders[o].res
        /\ ~Waldur!isOrderTerminal(tOrders[o].state) /\ ~Waldur!isOrderTerminal(tOrders'[o].state)
        /\ \A p \in OrderIds \ {o} : tOrders'[p] = tOrders[p]
        /\ \A p \in OrderIds : tResources'[p].state = tResources[p].state
    BY <1>0, <1>1 DEF Waldur!StartOrder, Waldur!Order, Waldur!Resource, Waldur!isOrderTerminal
  <2>2. QED BY <1>0, <2>1 DEF MarketInv, ClusterStable, Waldur!isOrderTerminal
<1>2. CASE Waldur!InstanceUp(o) \/ Waldur!InstanceStopped(o) \/ Waldur!InstanceChange(o)
  <2>1. /\ tOrders' = tOrders
        /\ \A p \in OrderIds : tResources'[p].state = tResources[p].state
    <3>1. CASE Waldur!InstanceUp(o)
      BY <1>0, <3>1 DEF Waldur!InstanceUp, Waldur!Resource
    <3>2. CASE Waldur!InstanceStopped(o)
      BY <1>0, <3>2 DEF Waldur!InstanceStopped, Waldur!Resource
    <3>3. CASE Waldur!InstanceChange(o)
      BY <1>0, <3>3 DEF Waldur!InstanceChange, Waldur!Resource
    <3>4. QED BY <1>2, <3>1, <3>2, <3>3
  <2>2. QED BY <1>0, <2>1 DEF MarketInv, ClusterStable
<1>3. CASE Waldur!FinishCreation(o)
  <2>1. /\ tOrders[o].type = "Create" /\ tOrders'[o].type = "Create"
        /\ tOrders'[o].res = tOrders[o].res
        /\ ~Waldur!isOrderTerminal(tOrders[o].state) /\ Waldur!isOrderTerminal(tOrders'[o].state)
        /\ tOrders'[o].state = "Done"
        /\ \A p \in OrderIds \ {o} : tOrders'[p] = tOrders[p]
    BY <1>0, <1>3 DEF Waldur!FinishCreation, Waldur!Order, Waldur!isOrderTerminal
  <2>2. /\ tResources'[o].state = "OK"
        /\ \A p \in OrderIds \ {o} : tResources'[p] = tResources[p]
    BY <1>0, <1>3 DEF Waldur!FinishCreation, Waldur!Resource
  <2>3. QED BY <1>0, <2>1, <2>2 DEF MarketInv, ClusterStable
<1>4. CASE Waldur!FinishTermination(o)
  <2>1. /\ tOrders[o].type = "Terminate" /\ tOrders'[o].type = "Terminate"
        /\ tOrders'[o].res = tOrders[o].res
        /\ ~Waldur!isOrderTerminal(tOrders[o].state)
        /\ \A p \in OrderIds \ {o} : tOrders'[p] = tOrders[p]
    BY <1>0, <1>4 DEF Waldur!FinishTermination, Waldur!Order, Waldur!isOrderTerminal
  <2>2. tOrders[o].res \in OrderIds
    BY <2>1 DEF MarketInv
  <2>3. /\ tResources'[tOrders[o].res].state = "Terminated"
        /\ \A p \in OrderIds \ {tOrders[o].res} : tResources'[p] = tResources[p]
    BY <1>0, <1>4, <2>2 DEF Waldur!FinishTermination, Waldur!Resource
  <2>4. QED BY <1>0, <2>1, <2>2, <2>3 DEF MarketInv, ClusterStable
<1>5. CASE Waldur!FailOrder(o)
  <2>1. /\ tOrders[o].type # "none" /\ ~Waldur!isOrderTerminal(tOrders[o].state)
        /\ tOrders'[o].type = tOrders[o].type /\ tOrders'[o].res = tOrders[o].res
        /\ tOrders'[o].state # "Done" /\ Waldur!isOrderTerminal(tOrders'[o].state)
        /\ \A p \in OrderIds \ {o} : tOrders'[p] = tOrders[p]
    BY <1>0, <1>5 DEF Waldur!FailOrder, Waldur!Order, Waldur!isOrderTerminal
  <2>2. \A p \in OrderIds :
           /\ tResources'[p].state = "Terminated" <=> tResources[p].state = "Terminated"
           /\ tResources'[p].state = "none" <=> tResources[p].state = "none"
           /\ tResources'[p].state = "OK" => tResources[p].state = "OK"
    <3>1. CASE ~Waldur!Live(tOrders[o].res)
      BY <1>5, <3>1 DEF Waldur!FailOrder
    <3>2. CASE Waldur!Live(tOrders[o].res)
      <4>1. \A x \in Waldur!Resource : Waldur!Erred(x).state = "Erred"
        BY DEF Waldur!Erred, Waldur!Resource
      <4>2. tResources[tOrders[o].res].state \notin {"none", "Terminated"}
        BY <3>2 DEF Waldur!Live
      <4>3. tResources' = [tResources EXCEPT ![tOrders[o].res] = Waldur!Erred(@)]
        BY <1>5, <3>2 DEF Waldur!FailOrder
      <4>4. QED
        BY <1>0, <4>1, <4>2, <4>3
    <3>3. QED BY <3>1, <3>2
  <2>3. QED BY <1>0, <2>1, <2>2 DEF MarketInv, ClusterStable, Waldur!isOrderTerminal
<1>6. QED
  BY <1>1, <1>2, <1>3, <1>4, <1>5 DEF Progress

LEMMA MarketNext ==
    ASSUME ClusterTypeInv, MarketInv, [ClusterNext]_cVars,
           cPc # "idle" => BookedStatus(cCur, cObj.st, tOrders, tResources)
    PROVE  MarketInv' /\ ClusterStable
<1>0. Parts
  BY TypeParts DEF ClusterTypeInv
<1>1. CASE UNCHANGED market
  BY <1>1 DEF market, MarketInv, ClusterStable
<1>2. CASE /\ CreateTenant \/ CreateTenantLost \/ CreateTenantPanics
           /\ \E id \in OrderIds, core \in OrderScopes : AcceptTenant(id, core)
  <2>1. <<cCur, dc>> \in TenantKeys
    BY <1>0, <1>2 DEF CreateTenant, CreateTenantLost, CreateTenantPanics, ClusterTypeInv, WalkShape, Parts,
       ClusterWorkerOK, TenantKeys
  <2>2. QED BY <1>0, <1>2, <2>1, CreationKeepsMarket DEF AcceptTenant, Parts
<1>3. ASSUME NEW o \in Offerings, ClusterSubmitTermination(o) \/ TerminationFails(o),
             \E id \in OrderIds : Waldur!AcceptTermination(id, cObj.st.tenants[o].res)
      PROVE  MarketInv' /\ ClusterStable
  <2>1. cPc = "terminate" /\ o \in todo
    BY <1>3 DEF ClusterSubmitTermination, TerminationFails
  <2>2. cObj.st.tenants[o].present /\ cObj.st.tenants[o].res \in OrderIds
    BY <2>1 DEF ClusterTypeInv, WalkShape, Present, WholeStatus, Whole
  <2>3. tOrders[cObj.st.tenants[o].res].type = "Create"
    BY <2>1, <2>2 DEF BookedStatus, Booked
  <2>4. QED BY <1>0, <1>3, <2>2, <2>3, TerminationKeepsMarket DEF Parts
<1>4. CASE \E o \in OrderIds : Progress(o)
  BY <1>0, <1>4, ProgressKeepsMarket DEF Parts
<1>5. QED
  BY <1>1, <1>2, <1>3, <1>4, MarketSteps

LEMMA BookedStable ==
    ASSUME ClusterStable, NEW c, NEW st \in ClusterStatus, WholeStatus(st),
           BookedStatus(c, st, tOrders, tResources)
    PROVE  BookedStatus(c, st, tOrders', tResources')
<1> SUFFICES ASSUME NEW o \in Offerings PROVE Booked(<<c, o>>, st.tenants[o], tOrders', tResources')
  BY DEF BookedStatus
<1> DEFINE t == st.tenants[o]
<1>1. Whole(t) /\ Booked(<<c, o>>, t, tOrders, tResources)
  BY DEF WholeStatus, BookedStatus
<1> HIDE DEF t
<1>2. Booked(<<c, o>>, t, tOrders', tResources')
  BY <1>1 DEF ClusterStable, Booked, Whole, Waldur!isOrderTerminal
<1>3. QED
  BY <1>2 DEF t


\* refreshTenant, whole or in part, keeps a tenant true of Waldur.
LEMMA RefreshedBooked ==
    ASSUME Waldur!WaldurTypeOK, MarketInv, NEW k, NEW t \in Tenant, t.present, t.res \in OrderIds,
           Booked(k, t, tOrders, tResources),
           NEW u \in PartlyRefreshed(t) \cup {refreshTenant(t)}
    PROVE  Booked(k, u, tOrders, tResources)
<1>1. /\ u.present /\ u.res = t.res /\ u.ord = t.ord /\ u.ordType = t.ordType
      /\ \/ u.ordState = t.ordState
         \/ t.ord # Nil /\ ~Waldur!isOrderTerminal(t.ordState) /\ u.ordState = tOrders[t.ord].state
      /\ u.mrs \in {t.mrs, tResources[t.res].state}
  BY RefreshedType
<1>2. QED
  BY <1>1 DEF Booked, MarketInv

LEMMA WalkBooked ==
    ASSUME ClusterTypeInv, MarketInv, ClusterStable, WalkSteps,
           BookedStatus(cCur, cObj.st, tOrders, tResources)
    PROVE  BookedStatus(cCur, cObj'.st, tOrders', tResources')
<1>0. Parts /\ cObj \in ClusterObject /\ cObj.st \in ClusterStatus /\ WholeStatus(cObj.st)
  BY TypeParts DEF ClusterTypeInv, WalkShape, Parts, ClusterWorkerOK, ClusterObject
<1>1. BookedStatus(cCur, cObj.st, tOrders', tResources')
  BY <1>0, BookedStable
<1>2. ASSUME NEW o \in Offerings, NEW t \in Tenant, Walked(o, t),
             Booked(<<cCur, o>>, t, tOrders', tResources')
      PROVE  BookedStatus(cCur, cObj'.st, tOrders', tResources')
  <2>1. /\ cObj'.st.tenants[o] = t
        /\ \A p \in Offerings \ {o} : cObj'.st.tenants[p] = cObj.st.tenants[p]
    BY <1>0, <1>2, WalkedType
  <2>2. QED BY <1>1, <1>2, <2>1 DEF BookedStatus
<1>3. ASSUME NEW o \in Offerings, RefreshTenant(o) \/ ClusterRefreshFails(o) \/ PollTermination(o)
      PROVE  BookedStatus(cCur, cObj'.st, tOrders', tResources')
  <2> DEFINE t == cObj.st.tenants[o]
  <2>1. t \in Tenant /\ t.present /\ t.res \in OrderIds
    <3>1. t.present
      BY <1>3 DEF RefreshTenant, ClusterRefreshFails, PollTermination, ClusterTypeInv, WalkShape,
         Present
    <3>2. QED BY <1>0, <3>1 DEF ClusterStatus, WholeStatus, Whole
  <2>2. PICK u \in PartlyRefreshed(t) \cup {refreshTenant(t)} : Walked(o, u)
    BY <1>3 DEF RefreshTenant, ClusterRefreshFails, PollTermination
  <2>3. u \in Tenant
    BY <1>0, <2>1, RefreshedType DEF Parts
  <2>4. Booked(<<cCur, o>>, t, tOrders, tResources)
    BY DEF BookedStatus
  <2>5. Booked(<<cCur, o>>, u, tOrders, tResources)
    BY <1>0, <2>1, <2>4, RefreshedBooked DEF Parts
  <2>6. tOrders' = tOrders /\ tResources' = tResources
    BY <1>3 DEF RefreshTenant, ClusterRefreshFails, PollTermination, market
  <2>7. QED BY <1>2, <2>2, <2>3, <2>5, <2>6
<1>4. ASSUME NEW o \in Offerings, SkipTerminated(o) \/ TerminationFails(o)
      PROVE  BookedStatus(cCur, cObj'.st, tOrders', tResources')
  <2>1. Walked(o, cObj.st.tenants[o]) /\ cObj.st.tenants[o] \in Tenant
    BY <1>0, <1>4 DEF SkipTerminated, TerminationFails, ClusterStatus
  <2>2. QED BY <1>1, <1>2, <2>1 DEF BookedStatus
<1>5. ASSUME NEW o \in Offerings, ClusterSubmitTermination(o)
      PROVE  BookedStatus(cCur, cObj'.st, tOrders', tResources')
  <2> DEFINE t == cObj.st.tenants[o]
  <2>1. t \in Tenant /\ t.present /\ t.res \in OrderIds
    <3>1. t.present
      BY <1>5 DEF ClusterSubmitTermination, ClusterTypeInv, WalkShape, Present
    <3>2. QED BY <1>0, <3>1 DEF ClusterStatus, WholeStatus, Whole
  <2>2. Booked(<<cCur, o>>, t, tOrders, tResources) /\ Booked(<<cCur, o>>, t, tOrders', tResources')
    BY <1>1 DEF BookedStatus
  <2>3. PICK id \in OrderIds : Waldur!AcceptTermination(id, t.res) /\ Walked(o, TerminatingTenant(t, id))
    BY <1>5 DEF ClusterSubmitTermination
  <2>4. tOrders'[id].type = "Terminate" /\ tOrders'[id].res = t.res
    BY <1>0, <2>1, <2>2, <2>3, TerminationKeepsMarket DEF Booked, Parts
  <2> DEFINE u == TerminatingTenant(t, id)
  <2>5. /\ u \in Tenant /\ u.present /\ u.res = t.res /\ u.ord = id
        /\ u.ordType = "Terminate" /\ u.ordState = "PendingProvider" /\ u.mrs = t.mrs
    BY <2>1 DEF TerminatingTenant, Tenant, Waldur!OrderStates
  <2>6. Walked(o, u)
    BY <2>3
  <2> HIDE DEF u
  <2>7. Booked(<<cCur, o>>, u, tOrders', tResources')
    BY <2>1, <2>2, <2>4, <2>5 DEF Booked, Waldur!isOrderTerminal
  <2>8. QED BY <1>2, <2>5, <2>6, <2>7
<1>6. CASE CreateTenant
  <2>1. dc \in Offerings /\ cCur \in Clusters
    BY <1>0, <1>6 DEF CreateTenant, ClusterTypeInv, WalkShape, Parts, ClusterWorkerOK
  <2>2. PICK id \in OrderIds, core \in OrderScopes : AcceptTenant(id, core) /\ Walked(dc, CreatedTenant(id, core))
    BY <1>6 DEF CreateTenant
  <2>3. /\ tOrders'[id].type = "Create" /\ tOrders'[id].res = id
        /\ tResources'[id].owner = <<cCur, dc>>
    BY <1>0, <2>1, <2>2, CreationKeepsMarket DEF AcceptTenant, TenantKeys, Parts
  <2> DEFINE u == CreatedTenant(id, core)
  <2>4. /\ u \in Tenant /\ u.present /\ u.res = id /\ u.ord = id
        /\ u.ordType = "Create" /\ u.ordState = "PendingProvider" /\ u.mrs = "none"
    BY DEF CreatedTenant, NoTenant, Tenant, Waldur!OrderStates
  <2>5. Walked(dc, u)
    BY <2>2
  <2> HIDE DEF u
  <2>6. Booked(<<cCur, dc>>, u, tOrders', tResources')
    BY <2>3, <2>4 DEF Booked, Waldur!isOrderTerminal
  <2>7. QED BY <1>2, <2>1, <2>4, <2>5, <2>6
<1>7. CASE \/ CreateTenantFails \/ CreateTenantLost
           \/ \E o \in Offerings : GetOrCreateProject(o) \/ NoProject(o)
  <2>1. cObj' = cObj
    BY <1>7 DEF CreateTenantFails, CreateTenantLost, GetOrCreateProject, NoProject, ClusterCreateFails
  <2>2. QED BY <1>1, <2>1
<1>8. QED
  BY <1>3, <1>4, <1>5, <1>6, <1>7 DEF WalkSteps

\* A walk of reconcileDelete that finds every tenant terminated.
LEMMA WalkDone ==
    ASSUME ClusterTypeInv, WalkSteps, DoneSoFar
    PROVE  DoneSoFar'
<1>0. cObj \in ClusterObject
  BY TypeParts DEF ClusterTypeInv, Parts, ClusterWorkerOK
<1>1. ASSUME NEW o \in Offerings, SkipTerminated(o)
      PROVE  DoneSoFar'
  <2>1. /\ cPc = "terminate" /\ cPc' = cPc /\ allDone' = allDone
        /\ ClusterTerminationDone(cObj.st.tenants[o])
        /\ Walked(o, cObj.st.tenants[o]) /\ cObj.st.tenants[o] \in Tenant
    BY <1>0, <1>1 DEF SkipTerminated, ClusterObject, ClusterStatus
  <2>2. /\ cObj'.st.tenants[o] = cObj.st.tenants[o] /\ todo' = todo \ {o}
        /\ \A p \in Offerings \ {o} : cObj'.st.tenants[p] = cObj.st.tenants[p]
    BY <1>0, <2>1, WalkedType
  <2>3. QED BY <2>1, <2>2 DEF DoneSoFar, Present
<1>2. CASE ~ \E o \in Offerings : SkipTerminated(o)
  <2>1. cPc' \in {"tenants", "order"} \/ (cPc' = "terminate" /\ allDone' = FALSE)
    BY <1>2 DEF WalkSteps, CreateTenantFails, CreateTenant, CreateTenantLost, RefreshTenant,
           ClusterRefreshFails, GetOrCreateProject, NoProject, PollTermination, ClusterSubmitTermination,
           TerminationFails, ClusterCreateFails
  <2>2. QED BY <2>1 DEF DoneSoFar
<1>3. QED BY <1>1, <1>2


LEMMA ClusterReleaseInit == ClusterInit => ClusterReleaseInv
<1> SUFFICES ASSUME ClusterInit PROVE ClusterReleaseInv
  OBVIOUS
<1>1. \A c \in Clusters : \E dcs \in Spec0 : cApi[c] = ClusterNewObject(dcs)
  BY DEF ClusterInit
<1>2. \A dcs \in Spec0 : ClusterNewObject(dcs).st = ClusterNoStatus
  BY DEF ClusterNewObject
<1>3. \A o \in Offerings : ~ClusterNoStatus.tenants[o].present
  BY DEF ClusterNoStatus, NoTenant
<1>4. \A c \in Clusters, o \in Offerings : ~cApi[c].st.tenants[o].present
  BY <1>1, <1>2, <1>3
<1>5. MarketInv
  BY DEF ClusterInit, Waldur!WaldurInit, MarketInv
<1>6. QED
  BY <1>4, <1>5 DEF ClusterInit, ClusterReleaseInv, BookedStatus, Booked, Guarded, DoneSoFar

\* Nobody else writes the status of an object in flight, so a patch writes
\* exactly the tenants the worker has.
LEMMA PatchWrites ==
    ASSUME ClusterTypeInv, HeldInv, ClusterPatchStatus \/ PatchDelete
    PROVE  /\ cCur \in Clusters
           /\ cApi'[cCur].st.tenants = cObj.st.tenants
           /\ cApi'[cCur].exists /\ cApi'[cCur].fin
           /\ cPc' # "idle" => cObj'.st = cApi'[cCur].st
           /\ \A d \in Clusters \ {cCur} : cApi'[d] = cApi[d]
<1>0. Parts /\ cCur \in Clusters /\ cApi[cCur] \in ClusterObject /\ cObj.st \in ClusterStatus /\ cBase \in ClusterStatus
      /\ cBase = cApi[cCur].st /\ cApi[cCur].exists /\ cApi[cCur].fin
  BY TypeParts DEF ClusterTypeInv, Parts, ClusterWorkerOK, StoreOK, ClusterObject,
     ClusterPatchStatus, PatchDelete, HeldInv,
         FlightHeld
<1> DEFINE new == IF cPc = "tenants" THEN setReadyCondition(cObj.st, cObj.dcs) ELSE cObj.st
<1>1. new \in ClusterStatus /\ new.tenants = cObj.st.tenants
  BY <1>0, ReadyConditionType
<1>2. PICK st \in ClusterStatus :
         /\ st = ClusterMergePatch(cBase, new, cApi[cCur].st)
         /\ cApi' = [cApi EXCEPT ![cCur] = [cApi[cCur] EXCEPT !.st = st]]
         /\ cPc' # "idle" => cObj' = [cApi[cCur] EXCEPT !.st = st]
  BY PatchType
<1> HIDE DEF new
<1>3. st = new
  BY <1>0, <1>1, <1>2, ClusterMergeIsNew
<1>4. /\ cApi'[cCur] = [cApi[cCur] EXCEPT !.st = st]
      /\ \A d \in Clusters \ {cCur} : cApi'[d] = cApi[d]
  BY <1>0, <1>2 DEF Parts, StoreOK
<1>5. /\ [cApi[cCur] EXCEPT !.st = st].st = st
      /\ [cApi[cCur] EXCEPT !.st = st].exists = cApi[cCur].exists
      /\ [cApi[cCur] EXCEPT !.st = st].fin = cApi[cCur].fin
  BY <1>0 DEF ClusterObject
<1>6. QED
  BY <1>0, <1>1, <1>2, <1>3, <1>4, <1>5

\* A status in the API server changes only by a patch of the worker.
LEMMA ClusterStatusWritten ==
    ASSUME ClusterTypeInv, HeldInv, [ClusterNext]_cVars, NEW c \in Clusters
    PROVE  \/ cApi'[c].st = cApi[c].st
           \/ /\ ClusterPatchStatus \/ PatchDelete
              /\ c = cCur /\ cApi'[c].st.tenants = cObj.st.tenants
              /\ cApi'[c].exists /\ cApi'[c].fin
BY ObjectFields, PatchWrites

LEMMA BookedNext ==
    ASSUME ClusterTypeInv, HeldInv, ClusterReleaseInv, [ClusterNext]_cVars
    PROVE  \A c \in Clusters : BookedStatus(c, cApi'[c].st, tOrders', tResources')
<1>1. ClusterStable
  BY MarketNext DEF ClusterReleaseInv
<1> TAKE c \in Clusters
<1>2. cApi[c].st \in ClusterStatus /\ WholeStatus(cApi[c].st)
      /\ BookedStatus(c, cApi[c].st, tOrders, tResources)
  BY TypeParts DEF ClusterTypeInv, Parts, StoreOK, StoreShape, ClusterObject, ClusterReleaseInv
<1>3. BookedStatus(c, cApi[c].st, tOrders', tResources')
  BY <1>1, <1>2, BookedStable
<1>4. CASE cApi'[c].st = cApi[c].st
  BY <1>3, <1>4
<1>5. CASE (ClusterPatchStatus \/ PatchDelete) /\ c = cCur /\ cApi'[c].st.tenants = cObj.st.tenants
  <2>1. cObj.st \in ClusterStatus /\ WholeStatus(cObj.st) /\ cPc # "idle"
    BY <1>5, TypeParts DEF ClusterTypeInv, Parts, ClusterWorkerOK, WalkShape, ClusterObject,
       ClusterPatchStatus, PatchDelete
  <2>2. BookedStatus(c, cObj.st, tOrders', tResources')
    BY <1>1, <1>5, <2>1, BookedStable DEF ClusterReleaseInv
  <2>3. QED BY <1>5, <2>2 DEF BookedStatus
<1>6. QED
  BY <1>4, <1>5, ClusterStatusWritten

LEMMA GuardedNext ==
    ASSUME ClusterTypeInv, HeldInv, ClusterReleaseInv, [ClusterNext]_cVars
    PROVE  \A c \in Clusters : Guarded(cApi'[c])
<1> TAKE c \in Clusters
<1>0. Guarded(cApi[c])
  BY DEF ClusterReleaseInv
<1>1. CASE cApi'[c].exists /\ cApi'[c].fin
  BY <1>1 DEF Guarded
<1>2. CASE ~(cApi'[c].exists /\ cApi'[c].fin) /\ cApi'[c].st = cApi[c].st
  <2>1. CASE ~cApi[c].exists
    <3>1. ~cApi'[c].exists
      BY <2>1, ObjectFields
    <3>2. QED BY <1>0, <1>2, <2>1, <3>1 DEF Guarded
  <2>2. CASE cApi[c].exists /\ ~cApi[c].fin
    BY <1>0, <1>2, <2>2 DEF Guarded
  <2>3. CASE cApi[c].exists /\ cApi[c].fin
    <3>1. ClusterRelease /\ c = cCur /\ ~cApi'[c].exists
      BY <1>2, <2>3, ObjectFields
    <3>2. cPc = "deleteProjects" /\ cObj.st = cApi[c].st
      BY <3>1 DEF ClusterRelease, HeldInv, FlightHeld
    <3>3. QED BY <1>2, <3>1, <3>2 DEF ClusterReleaseInv, DoneSoFar, Present, Guarded
  <2>4. QED BY <2>1, <2>2, <2>3
<1>3. QED
  BY <1>1, <1>2, ClusterStatusWritten

LEMMA FlightBookedNext ==
    ASSUME ReadOwnWrites, ClusterTypeInv, HeldInv, ClusterReleaseInv, [ClusterNext]_cVars, cPc' # "idle"
    PROVE  BookedStatus(cCur', cObj'.st, tOrders', tResources') /\ DoneSoFar'
<1>0. MarketInv' /\ ClusterStable /\ Parts
  BY MarketNext, TypeParts DEF ClusterReleaseInv, ClusterTypeInv
<1>1. CASE UNCHANGED cWorker \/ \E o \in Offerings : DeleteProject(o)
  <2>1. UNCHANGED <<cPc, cCur, cObj>> /\ cObj.st \in ClusterStatus /\ WholeStatus(cObj.st)
    BY <1>0, <1>1 DEF cWorker, DeleteProject, ClusterTypeInv, Parts, ClusterWorkerOK, WalkShape,
       ClusterObject
  <2>2. BookedStatus(cCur, cObj.st, tOrders', tResources')
    BY <1>0, <2>1, BookedStable DEF ClusterReleaseInv
  <2>3. DoneSoFar'
    <3>1. DoneSoFar
      BY DEF ClusterReleaseInv
    <3>2. cPc = "deleteProjects" \/ UNCHANGED <<todo, allDone>>
      BY <1>1 DEF cWorker, DeleteProject
    <3>3. Present(cObj'.st) = Present(cObj.st)
      BY <2>1
    <3>4. QED BY <2>1, <3>1, <3>2, <3>3 DEF DoneSoFar
  <2>4. QED BY <2>1, <2>2, <2>3
<1>2. CASE \E c \in Clusters : BeginReconcile(c) \/ BeginDelete(c)
  <2>1. PICK c \in Clusters : BeginReconcile(c) \/ BeginDelete(c)
    BY <1>2
  <2>2. /\ cCur' = c /\ cObj' = cCache[c] /\ cCache[c].st = cApi[c].st /\ cApi' = cApi
        /\ cPc' = "tenants" \/ (cPc' = "terminate" /\ todo' = Present(cCache[c].st))
    BY <2>1 DEF BeginReconcile, BeginDelete, ClusterBegin, ClusterTake, ClusterFresh
  <2>3. BookedStatus(c, cApi'[c].st, tOrders', tResources')
    BY BookedNext
  <2>4. QED BY <2>2, <2>3 DEF DoneSoFar
<1>3. CASE WalkSteps /\ WithinWalk
  <2>1. cCur' = cCur /\ cPc # "idle"
    BY <1>3 DEF WithinWalk
  <2>2. QED BY <1>0, <1>3, <2>1, WalkBooked, WalkDone DEF ClusterReleaseInv
<1>4. CASE ClusterPatchStatus \/ PatchDelete
  <2>1. /\ cCur \in Clusters /\ cApi'[cCur].st.tenants = cObj.st.tenants
        /\ cObj'.st = cApi'[cCur].st
    BY <1>4, PatchWrites
  <2>2. /\ cCur' = cCur
        /\ cPc' = "endpoint" \/ (cPc' = "deleteProjects" /\ cPc = "terminate" /\ todo = {} /\ allDone)
    BY <1>4 DEF ClusterPatchStatus, PatchDelete, ClusterReturn, ClusterGoIdle
  <2>3. BookedStatus(cCur, cApi'[cCur].st, tOrders', tResources')
    BY <2>1, BookedNext
  <2>4. QED BY <2>1, <2>2, <2>3 DEF ClusterReleaseInv, DoneSoFar, Present
<1>5. QED
  BY <1>1, <1>2, <1>3, <1>4, WorkerSteps

LEMMA ClusterReleaseNext ==
    ASSUME ReadOwnWrites
    PROVE  ClusterTypeInv /\ HeldInv /\ ClusterReleaseInv /\ [ClusterNext]_cVars => ClusterReleaseInv'
<1> SUFFICES ASSUME ClusterTypeInv, HeldInv, ClusterReleaseInv, [ClusterNext]_cVars PROVE ClusterReleaseInv'
  OBVIOUS
<1>1. MarketInv'
  BY MarketNext DEF ClusterReleaseInv
<1>2. cPc' # "idle" => BookedStatus(cCur', cObj'.st, tOrders', tResources') /\ DoneSoFar'
  BY FlightBookedNext
<1>3. cPc' = "idle" => DoneSoFar'
  BY DEF DoneSoFar
<1>4. QED
  BY <1>1, <1>2, <1>3, BookedNext, GuardedNext DEF ClusterReleaseInv

LEMMA ReleaseGives == ClusterTypeInv /\ ClusterReleaseInv => ClusterReleasedOnlyWhenTerminated
<1> SUFFICES ASSUME ClusterTypeInv, ClusterReleaseInv, NEW c \in Clusters, NEW o \in Offerings,
                    ~cApi[c].exists, cApi[c].st.tenants[o].present
             PROVE  tResources[cApi[c].st.tenants[o].res].state = "Terminated"
  BY DEF ClusterReleasedOnlyWhenTerminated
<1> DEFINE t == cApi[c].st.tenants[o]
<1>1. ClusterTerminationDone(t) /\ Booked(<<c, o>>, t, tOrders, tResources)
  BY DEF ClusterReleaseInv, Guarded, BookedStatus
<1>2. t.present
  OBVIOUS
<1> HIDE DEF t
<1>3. /\ t.ord \in OrderIds /\ tOrders[t.ord].type = "Terminate" /\ tOrders[t.ord].state = "Done"
      /\ tOrders[t.ord].res = t.res
  BY <1>1, <1>2 DEF ClusterTerminationDone, Booked, Waldur!isOrderTerminal
<1>4. tResources[t.res].state = "Terminated"
  BY <1>3 DEF ClusterReleaseInv, MarketInv
<1>5. QED
  BY <1>4 DEF t

\* When a reconciliation sees what earlier ones wrote, reconcileDelete lets a
\* cluster go only once Waldur has terminated every tenant its status records,
\* whatever calls, patches and orders failed on the way.
THEOREM ClusterReleaseSafe ==
    ASSUME ReadOwnWrites
    PROVE  ClusterSpec => []ClusterReleasedOnlyWhenTerminated
<1>1. ClusterTypeInv /\ HeldInv /\ [ClusterNext]_cVars => HeldInv'
  BY HeldNext
<1>2. ClusterTypeInv /\ HeldInv /\ ClusterReleaseInv /\ [ClusterNext]_cVars => ClusterReleaseInv'
  BY ClusterReleaseNext
<1>3. QED
  BY ClusterTypeInit, ClusterTypeStep, HeldInit, ClusterReleaseInit, ReleaseGives, <1>1, <1>2, PTL
     DEF ClusterSpec


----------------------------------------------------------------------------
(* Every tenant Waldur holds is known *)

\* No fault ends a walk before its results are published: no panic, failed
\* patch or restart, and no lost answer.  Failing calls, refused and failing
\* orders and breaking tenants are all allowed.
WalksComplete == Faults \cap {"panic", "write", "crash", "lost"} = {}

ClusterRecorded(st, o, r) == st.tenants[o].present /\ st.tenants[o].res = r

\* The walk under way has ordered r for datacenter o of c, and will record it.
ClusterInHand(c, o, r) ==
    /\ cPc \in {"tenants", "order"} /\ cCur = c
    /\ ~cApi[c].st.tenants[o].present
    /\ ClusterRecorded(cObj.st, o, r)

ClusterKnownInv ==
    \A c \in Clusters, o \in Offerings, r \in OrderIds :
        tResources[r].owner = <<c, o>> => ClusterRecorded(cApi[c].st, o, r) \/ ClusterInHand(c, o, r)

\* Nobody terminates a tenant before its cluster's deletion was asked for.
DoomedInv ==
    \A i \in OrderIds, c \in Clusters, o \in Offerings :
        tOrders[i].type = "Terminate" /\ tResources[tOrders[i].res].owner = <<c, o>>
            => cApi[c].deleting

ClusterInv == ClusterTypeInv /\ HeldInv /\ ClusterReleaseInv

LEMMA ClusterInductive ==
    ASSUME ReadOwnWrites
    PROVE  (ClusterInit => ClusterInv) /\ (ClusterInv /\ [ClusterNext]_cVars => ClusterInv')
BY ClusterTypeInit, ClusterTypeStep, HeldInit, HeldNext, ClusterReleaseInit, ClusterReleaseNext
   DEF ClusterInv

\* A walk keeps the tenants it has.
LEMMA WalkKeeps ==
    ASSUME ClusterTypeInv, WalkSteps, NEW o \in Offerings, NEW r \in OrderIds, ClusterRecorded(cObj.st, o, r)
    PROVE  ClusterRecorded(cObj'.st, o, r)
<1>0. cObj \in ClusterObject /\ cObj.st \in ClusterStatus /\ Waldur!WaldurTypeOK /\ WholeStatus(cObj.st)
  BY TypeParts DEF ClusterTypeInv, Parts, ClusterWorkerOK, ClusterObject, WalkShape
<1>1. ASSUME NEW p \in Offerings, NEW t \in Tenant, Walked(p, t),
             p = o => t.present /\ t.res = cObj.st.tenants[p].res
      PROVE  ClusterRecorded(cObj'.st, o, r)
  <2>1. /\ cObj'.st.tenants[p] = t
        /\ \A q \in Offerings \ {p} : cObj'.st.tenants[q] = cObj.st.tenants[q]
    BY <1>0, <1>1, WalkedType
  <2>2. QED BY <1>1, <2>1 DEF ClusterRecorded
<1>2. ASSUME NEW p \in Offerings, RefreshTenant(p) \/ ClusterRefreshFails(p) \/ PollTermination(p)
      PROVE  ClusterRecorded(cObj'.st, o, r)
  <2> DEFINE t == cObj.st.tenants[p]
  <2>1. t \in Tenant /\ t.present /\ t.res \in OrderIds
    <3>1. t.present
      BY <1>2 DEF RefreshTenant, ClusterRefreshFails, PollTermination, ClusterTypeInv, WalkShape,
         Present
    <3>2. QED BY <1>0, <3>1 DEF ClusterStatus, WholeStatus, Whole
  <2>2. PICK u \in PartlyRefreshed(t) \cup {refreshTenant(t)} : Walked(p, u)
    BY <1>2 DEF RefreshTenant, ClusterRefreshFails, PollTermination
  <2>3. u \in Tenant /\ u.present /\ u.res = t.res
    BY <1>0, <2>1, RefreshedType
  <2>4. QED BY <1>1, <2>2, <2>3
<1>3. ASSUME NEW p \in Offerings, SkipTerminated(p) \/ TerminationFails(p)
      PROVE  ClusterRecorded(cObj'.st, o, r)
  <2>1. Walked(p, cObj.st.tenants[p]) /\ cObj.st.tenants[p] \in Tenant
    BY <1>0, <1>3 DEF SkipTerminated, TerminationFails, ClusterStatus
  <2>2. QED BY <1>1, <2>1 DEF ClusterRecorded
<1>4. ASSUME NEW p \in Offerings, ClusterSubmitTermination(p)
      PROVE  ClusterRecorded(cObj'.st, o, r)
  <2>1. PICK id \in OrderIds : Walked(p, TerminatingTenant(cObj.st.tenants[p], id))
    BY <1>4 DEF ClusterSubmitTermination
  <2>2. cObj.st.tenants[p] \in Tenant
    BY <1>0 DEF ClusterStatus
  <2>3. /\ TerminatingTenant(cObj.st.tenants[p], id) \in Tenant
        /\ TerminatingTenant(cObj.st.tenants[p], id).present = cObj.st.tenants[p].present
        /\ TerminatingTenant(cObj.st.tenants[p], id).res = cObj.st.tenants[p].res
    BY <2>2 DEF TerminatingTenant, Tenant, Waldur!OrderStates
  <2>4. QED BY <1>1, <2>1, <2>3 DEF ClusterRecorded
<1>5. CASE CreateTenant
  <2>1. PICK id \in OrderIds, core \in OrderScopes : Walked(dc, CreatedTenant(id, core))
    BY <1>5 DEF CreateTenant
  <2>2. dc \in Offerings /\ ~cObj.st.tenants[dc].present
    BY <1>5, TypeParts DEF CreateTenant, ClusterTypeInv, WalkShape, Parts, ClusterWorkerOK
  <2>3. CreatedTenant(id, core) \in Tenant
    BY DEF CreatedTenant, NoTenant, Tenant, Waldur!OrderStates
  <2>4. QED BY <1>1, <2>1, <2>2, <2>3 DEF ClusterRecorded
<1>6. CASE \/ CreateTenantFails \/ CreateTenantLost
           \/ \E p \in Offerings : GetOrCreateProject(p) \/ NoProject(p)
  <2>1. cObj' = cObj
    BY <1>6 DEF CreateTenantFails, CreateTenantLost, GetOrCreateProject, NoProject, ClusterCreateFails
  <2>2. QED BY <2>1
<1>7. QED
  BY <1>2, <1>3, <1>4, <1>5, <1>6 DEF WalkSteps

\* Only an order of createTenant gives a resource an owner, and the walk then
\* has the tenant in hand.
LEMMA OwnerSteps ==
    ASSUME WalksComplete, ClusterInv, [ClusterNext]_cVars, NEW r \in OrderIds
    PROVE  \/ tResources'[r].owner = tResources[r].owner
           \/ /\ CreateTenant
              /\ cCur \in Clusters /\ dc \in Offerings /\ ~cApi[cCur].st.tenants[dc].present
              /\ ~cObj.st.tenants[dc].present
              /\ tOrders[r].type = "none" /\ tResources'[r].owner = <<cCur, dc>>
              /\ tResources'[r].state = "Creating"
              /\ \A p \in OrderIds \ {r} : tResources'[p] = tResources[p]
              /\ ClusterRecorded(cObj'.st, dc, r)
              /\ cPc' = "tenants" /\ cCur' = cCur /\ cApi' = cApi
<1>0. ClusterTypeInv /\ Parts /\ Waldur!WaldurTypeOK /\ cObj \in ClusterObject
  BY TypeParts DEF ClusterInv, ClusterTypeInv, Parts, ClusterWorkerOK
<1>1. CASE UNCHANGED market
  BY <1>1 DEF market
<1>2. CASE CreateTenantLost \/ CreateTenantPanics
  BY <1>2 DEF CreateTenantLost, CreateTenantPanics, Fault, WalksComplete
<1>3. CASE CreateTenant
  <2>1. PICK id \in OrderIds, core \in OrderScopes : AcceptTenant(id, core) /\ Walked(dc, CreatedTenant(id, core))
    BY <1>3 DEF CreateTenant
  <2>2. /\ tOrders[id].type = "none"
        /\ tResources'[id].owner = <<cCur, dc>> /\ tResources'[id].state = "Creating"
        /\ \A p \in OrderIds \ {id} : tResources'[p] = tResources[p]
    BY <1>0, <2>1 DEF AcceptTenant, Waldur!AcceptCreation, Waldur!FreshOrder, Waldur!WaldurTypeOK
  <2>3. cPc = "order" /\ cCur \in Clusters /\ dc \in Offerings /\ ~cObj.st.tenants[dc].present
        /\ Extends(cObj.st, cBase)
    BY <1>0, <1>3 DEF CreateTenant, ClusterTypeInv, WalkShape, Parts, ClusterWorkerOK
  <2>4. ~cApi[cCur].st.tenants[dc].present
    BY <2>3 DEF Extends, ClusterInv, HeldInv, FlightHeld
  <2>5. CreatedTenant(id, core) \in Tenant /\ CreatedTenant(id, core).present /\ CreatedTenant(id, core).res = id
    BY DEF CreatedTenant, NoTenant, Tenant, Waldur!OrderStates
  <2>6. cObj'.st.tenants[dc] = CreatedTenant(id, core) /\ cCur' = cCur
    BY <1>0, <2>1, <2>3, <2>5, WalkedType
  <2>7. cPc' = "tenants" /\ cApi' = cApi
    BY <1>3 DEF CreateTenant
  <2>8. QED
    BY <1>3, <2>2, <2>3, <2>4, <2>5, <2>6, <2>7 DEF ClusterRecorded
<1>4. CASE \E o \in Offerings, id \in OrderIds : Waldur!AcceptTermination(id, cObj.st.tenants[o].res)
  <2>1. PICK o \in Offerings, id \in OrderIds : Waldur!AcceptTermination(id, cObj.st.tenants[o].res)
    BY <1>4
  <2>2. \/ tResources' = tResources
        \/ tResources' = [tResources EXCEPT ![cObj.st.tenants[o].res].state = "Terminating"]
    BY <2>1 DEF Waldur!AcceptTermination
  <2>3. QED BY <1>0, <2>2 DEF Waldur!WaldurTypeOK, Waldur!Resource
<1>5. CASE \E o \in OrderIds : Progress(o)
  BY <1>0, <1>5, ProgressKeepsOwner
<1>6. QED
  BY <1>0, <1>1, <1>2, <1>3, <1>4, <1>5, MarketSteps

LEMMA ClusterKnownInit == ClusterInit => ClusterKnownInv /\ DoomedInv
BY KeyAssumption DEF ClusterInit, Waldur!WaldurInit, ClusterKnownInv, DoomedInv, TenantKeys

\* What is recorded stays recorded: a patch writes what the walk has, and the
\* walk has whatever the status had.
LEMMA RecordedStays ==
    ASSUME ClusterInv, [ClusterNext]_cVars, NEW c \in Clusters, NEW o \in Offerings, NEW r \in OrderIds,
           ClusterRecorded(cApi[c].st, o, r)
    PROVE  ClusterRecorded(cApi'[c].st, o, r)
<1>0. ClusterTypeInv /\ HeldInv
  BY DEF ClusterInv
<1>1. CASE cApi'[c].st = cApi[c].st
  BY <1>1
<1>2. CASE (ClusterPatchStatus \/ PatchDelete) /\ c = cCur /\ cApi'[c].st.tenants = cObj.st.tenants
  <2>1. Extends(cObj.st, cBase) /\ cBase = cApi[c].st
    BY <1>0, <1>2 DEF ClusterPatchStatus, PatchDelete, ClusterTypeInv, WalkShape, HeldInv, FlightHeld
  <2>2. QED BY <1>2, <2>1 DEF Extends, ClusterRecorded
<1>3. QED
  BY <1>0, <1>1, <1>2, ClusterStatusWritten

\* What the walk has in hand it keeps, until its patch records it.
LEMMA InHandStays ==
    ASSUME WalksComplete, ClusterInv, [ClusterNext]_cVars, NEW c \in Clusters, NEW o \in Offerings,
           NEW r \in OrderIds, ClusterInHand(c, o, r)
    PROVE  ClusterRecorded(cApi'[c].st, o, r) \/ ClusterInHand(c, o, r)'
<1>0. ClusterTypeInv /\ HeldInv /\ cPc \in {"tenants", "order"} /\ cCur = c
  BY DEF ClusterInv, ClusterInHand
<1>1. CASE cPc' = "idle"
  <2>1. ~ClusterAnswerPanics /\ ~ClusterWriteFails /\ ~ClusterCrash /\ ~CreateTenantPanics
    BY DEF CreateTenantPanics, ClusterAnswerPanics, ClusterWriteFails, ClusterCrash, Fault, WalksComplete
  <2>2. CASE ClusterStep
    <3>1. ~WalkSteps
      BY <1>1 DEF WalkSteps, CreateTenantFails, CreateTenant, CreateTenantLost, RefreshTenant,
             ClusterRefreshFails, GetOrCreateProject, NoProject, PollTermination, SkipTerminated,
             ClusterSubmitTermination, TerminationFails, ClusterCreateFails
    <3>2. QED
      BY <1>0, <1>1, <2>1, <2>2, <3>1 DEF ClusterStep, WalkSteps, ClusterPatchStatus,
         EndpointFails, NoEndpoint,
             SetEndpoint, EndpointConflict, PatchDelete, ClusterRelease, ReleaseFails, DeleteProject,
             DeleteProjectFails
  <2>3. CASE ~ClusterStep
    BY <1>0, <1>1, <2>1, <2>3 DEF ClusterNext, cVars, cWorker, ClusterReconcile,
       ClusterReconcileGone, ClusterAddFinalizer,
           ClusterReconcileWait, BeginReconcile, BeginDelete, ClusterTake, ClusterCacheSync, ClusterEnvironment, ClusterUserDelete,
           EditDatacenters, ClusterSetOwnerRef, ControlPlaneUp, ClusterMarketplace
  <2>4. QED BY <2>2, <2>3
<1>2. CASE UNCHANGED cWorker
  <2>1. UNCHANGED <<cPc, cCur, cObj>> /\ ~ClusterPatchStatus /\ ~PatchDelete
    BY <1>0, <1>2 DEF cWorker, ClusterPatchStatus, PatchDelete
  <2>2. cApi'[c].st = cApi[c].st
    BY <1>0, <2>1, ClusterStatusWritten
  <2>3. QED BY <2>1, <2>2 DEF ClusterInHand
<1>3. CASE \E d \in Clusters : BeginReconcile(d) \/ BeginDelete(d)
  BY <1>0, <1>3 DEF BeginReconcile, BeginDelete, ClusterTake
<1>4. CASE WalkSteps /\ WithinWalk
  <2>1. cPc' \in {"tenants", "order"} /\ cCur' = cCur /\ cApi' = cApi
    BY <1>0, <1>4 DEF WithinWalk
  <2>2. ClusterRecorded(cObj'.st, o, r)
    BY <1>0, <1>4, WalkKeeps DEF ClusterInHand
  <2>3. QED BY <1>0, <2>1, <2>2 DEF ClusterInHand
<1>5. CASE ClusterPatchStatus \/ PatchDelete
  <2>1. cApi'[cCur].st.tenants = cObj.st.tenants
    BY <1>0, <1>5, PatchWrites
  <2>2. QED BY <1>0, <2>1 DEF ClusterInHand, ClusterRecorded
<1>6. CASE \E p \in Offerings : DeleteProject(p)
  BY <1>0, <1>6 DEF DeleteProject
<1>7. QED
  BY <1>0, <1>1, <1>2, <1>3, <1>4, <1>5, <1>6, WorkerSteps

LEMMA ClusterKnownNext ==
    ASSUME WalksComplete, ClusterInv, ClusterKnownInv, [ClusterNext]_cVars
    PROVE  ClusterKnownInv'
<1> SUFFICES ASSUME NEW c \in Clusters, NEW o \in Offerings, NEW r \in OrderIds,
                    tResources'[r].owner = <<c, o>>
             PROVE  ClusterRecorded(cApi'[c].st, o, r) \/ ClusterInHand(c, o, r)'
  BY DEF ClusterKnownInv
<1>1. CASE tResources'[r].owner = tResources[r].owner
  BY <1>1, RecordedStays, InHandStays DEF ClusterKnownInv
<1>2. CASE /\ tResources'[r].owner = <<cCur, dc>> /\ ~cApi[cCur].st.tenants[dc].present
           /\ ClusterRecorded(cObj'.st, dc, r) /\ cPc' = "tenants" /\ cCur' = cCur /\ cApi' = cApi
  BY <1>2 DEF ClusterInHand
<1>3. QED
  BY <1>1, <1>2, OwnerSteps

\* A termination order is for a tenant of the cluster being deleted.
LEMMA DoomedNext ==
    ASSUME ClusterInv, DoomedInv, [ClusterNext]_cVars
    PROVE  DoomedInv'
<1> SUFFICES ASSUME NEW i \in OrderIds, NEW c \in Clusters, NEW o \in Offerings,
                    tOrders'[i].type = "Terminate", tResources'[tOrders'[i].res].owner = <<c, o>>
             PROVE  cApi'[c].deleting
  BY DEF DoomedInv
<1>0. ClusterTypeInv /\ HeldInv /\ ClusterReleaseInv /\ Parts /\ Waldur!WaldurTypeOK /\ MarketInv
  BY TypeParts DEF ClusterInv, ClusterTypeInv, Parts, ClusterReleaseInv
<1>1. ClusterStable /\ MarketInv'
  BY <1>0, MarketNext DEF ClusterReleaseInv
<1>2. CASE tOrders[i].type = "Terminate"
  <2>1. tOrders'[i].res = tOrders[i].res /\ tOrders[i].res \in OrderIds
        /\ tOrders[tOrders[i].res].type = "Create"
    BY <1>0, <1>1, <1>2 DEF ClusterStable, MarketInv
  <2>2. tResources[tOrders[i].res].owner = <<c, o>>
    BY <1>1, <2>1 DEF ClusterStable
  <2>3. cApi[c].deleting
    BY <1>2, <2>2 DEF DoomedInv
  <2>4. QED BY <1>0, <2>3, ObjectFields
<1>3. CASE tOrders[i].type # "Terminate"
  <2>1. ~UNCHANGED market
    BY <1>3 DEF market
  <2>2. ~ \E p \in OrderIds : Progress(p)
    <3>1. SUFFICES ASSUME NEW p \in OrderIds, Progress(p) PROVE FALSE
      OBVIOUS
    <3>2. tOrders' = tOrders \/ \E s : tOrders' = [tOrders EXCEPT ![p].state = s]
      BY <3>1 DEF Progress, Waldur!StartOrder, Waldur!InstanceUp, Waldur!InstanceStopped,
         Waldur!FinishCreation,
             Waldur!FinishTermination, Waldur!FailOrder, Waldur!InstanceChange
    <3>3. tOrders'[i].type = tOrders[i].type
      BY <1>0, <3>2 DEF Waldur!WaldurTypeOK, Waldur!Order
    <3>4. QED BY <1>3, <3>3
  <2>3. ~ \E id \in OrderIds, core \in OrderScopes : AcceptTenant(id, core)
    BY <1>0, <1>3 DEF AcceptTenant, Waldur!AcceptCreation, Waldur!WaldurTypeOK
  <2>4. PICK p \in Offerings, id \in OrderIds :
               /\ ClusterSubmitTermination(p) \/ TerminationFails(p)
               /\ Waldur!AcceptTermination(id, cObj.st.tenants[p].res)
    BY <1>0, <2>1, <2>2, <2>3, MarketSteps
  <2>5. cPc = "terminate" /\ p \in todo /\ cApi' = cApi /\ cCur \in Clusters
    BY <1>0, <2>4 DEF ClusterSubmitTermination, TerminationFails, Parts, ClusterWorkerOK
  <2>6. cObj.st.tenants[p].present /\ cObj.st.tenants[p].res \in OrderIds
    BY <1>0, <2>5 DEF ClusterTypeInv, WalkShape, Present, WholeStatus, Whole
  <2>7. tOrders[cObj.st.tenants[p].res].type = "Create"
        /\ tResources[cObj.st.tenants[p].res].owner = <<cCur, p>>
    BY <1>0, <2>5, <2>6 DEF ClusterReleaseInv, BookedStatus, Booked
  <2>8. id = i /\ tOrders'[i].res = cObj.st.tenants[p].res
    BY <1>0, <1>3, <2>4 DEF Waldur!AcceptTermination, Waldur!WaldurTypeOK
  <2>9. tResources'[cObj.st.tenants[p].res].owner = <<cCur, p>>
    BY <1>1, <2>6, <2>7 DEF ClusterStable
  <2>10. c = cCur
    BY <2>8, <2>9
  <2>11. QED BY <1>0, <2>5, <2>10 DEF HeldInv, FlightHeld
<1>4. QED BY <1>2, <1>3


\* A tenant whose recorded termination is done is terminated.
LEMMA DoneTerminated ==
    ASSUME MarketInv, NEW k, NEW t, t.present, ClusterTerminationDone(t), Booked(k, t, tOrders, tResources)
    PROVE  tResources[t.res].state = "Terminated"
<1>1. /\ t.ord \in OrderIds /\ tOrders[t.ord].type = "Terminate" /\ tOrders[t.ord].state = "Done"
      /\ tOrders[t.ord].res = t.res
  BY DEF ClusterTerminationDone, Booked, Waldur!isOrderTerminal
<1>2. QED
  BY <1>1 DEF MarketInv

LEMMA KnownGives == ClusterInv /\ ClusterKnownInv => NoOrphanTenant
<1> SUFFICES ASSUME ClusterInv, ClusterKnownInv, NEW r \in OrderIds, Waldur!Live(r)
             PROVE  LET c == tResources[r].owner[1]
                        o == tResources[r].owner[2] IN
                    /\ cApi[c].exists
                    /\ \/ cApi[c].st.tenants[o].present /\ cApi[c].st.tenants[o].res = r
                       \/ cCur = c /\ cObj.st.tenants[o].present /\ cObj.st.tenants[o].res = r
  BY DEF NoOrphanTenant
<1>1. MarketInv
  BY DEF ClusterInv, ClusterReleaseInv
<1>2. tResources[r].owner \in TenantKeys
  BY <1>1 DEF MarketInv, Waldur!Live
<1>3. PICK c \in Clusters, o \in Offerings : tResources[r].owner = <<c, o>>
  BY <1>2 DEF TenantKeys
<1>4. CASE ClusterRecorded(cApi[c].st, o, r)
  <2>1. cApi[c].exists
    <3>1. SUFFICES ASSUME ~cApi[c].exists PROVE FALSE
      OBVIOUS
    <3>2. cApi[c].st.tenants[o].present /\ cApi[c].st.tenants[o].res = r
      BY <1>4 DEF ClusterRecorded
    <3>3. /\ ClusterTerminationDone(cApi[c].st.tenants[o])
          /\ Booked(<<c, o>>, cApi[c].st.tenants[o], tOrders, tResources)
      BY <3>1, <3>2 DEF ClusterInv, ClusterReleaseInv, Guarded, BookedStatus
    <3>4. tResources[r].state = "Terminated"
      BY <1>1, <3>2, <3>3, DoneTerminated
    <3>5. QED BY <3>4 DEF Waldur!Live
  <2>2. QED BY <1>3, <1>4, <2>1 DEF ClusterRecorded
<1>5. CASE ClusterInHand(c, o, r)
  BY <1>3, <1>5 DEF ClusterInHand, ClusterRecorded, ClusterInv, HeldInv, FlightHeld
<1>6. QED
  BY <1>3, <1>4, <1>5 DEF ClusterKnownInv

LEMMA KnownWaits == ClusterInv /\ ClusterKnownInv => WaitsForOthersOnly
<1> SUFFICES ASSUME ClusterInv, ClusterKnownInv, cPc = "deleteProjects", NEW r \in OrderIds, Waldur!Live(r),
                    tResources[r].owner[1] = cCur
             PROVE  FALSE
  BY DEF WaitsForOthersOnly
<1>1. MarketInv
  BY DEF ClusterInv, ClusterReleaseInv
<1>2. tResources[r].owner \in TenantKeys
  BY <1>1 DEF MarketInv, Waldur!Live
<1>3. PICK c \in Clusters, o \in Offerings : tResources[r].owner = <<c, o>>
  BY <1>2 DEF TenantKeys
<1>4. c = cCur
  BY <1>3
<1>5. ClusterRecorded(cApi[c].st, o, r)
  BY <1>3 DEF ClusterKnownInv, ClusterInHand
<1>6. cObj.st = cApi[c].st
  BY <1>4 DEF ClusterInv, HeldInv, FlightHeld
<1>7. /\ cObj.st.tenants[o].present /\ cObj.st.tenants[o].res = r
      /\ ClusterTerminationDone(cObj.st.tenants[o])
      /\ Booked(<<cCur, o>>, cObj.st.tenants[o], tOrders, tResources)
  BY <1>5, <1>6 DEF ClusterRecorded, ClusterInv, ClusterReleaseInv, DoneSoFar, Present, BookedStatus
<1>8. tResources[r].state = "Terminated"
  BY <1>1, <1>7, DoneTerminated
<1>9. QED
  BY <1>8 DEF Waldur!Live

\* When every walk publishes its results, a tenant Waldur holds is recorded on
\* its cluster, which exists, or is about to be: a failing call for one
\* datacenter loses no tenant of another, and no edit of the datacenters does.
THEOREM NoTenantOrphaned ==
    ASSUME ReadOwnWrites, WalksComplete
    PROVE  ClusterSpec => []NoOrphanTenant
<1>1. ClusterInv /\ ClusterKnownInv /\ [ClusterNext]_cVars => ClusterKnownInv'
  BY ClusterKnownNext
<1>2. QED
  BY ClusterInductive, ClusterKnownInit, KnownGives, <1>1, PTL DEF ClusterSpec

\* Under the same assumptions a cluster that destroys its projects has no live
\* tenant left: it waits for other clusters only.
THEOREM WaitsSafe ==
    ASSUME ReadOwnWrites, WalksComplete
    PROVE  ClusterSpec => []WaitsForOthersOnly
<1>1. ClusterInv /\ ClusterKnownInv /\ [ClusterNext]_cVars => ClusterKnownInv'
  BY ClusterKnownNext
<1>2. QED
  BY ClusterInductive, ClusterKnownInit, KnownWaits, <1>1, PTL DEF ClusterSpec

----------------------------------------------------------------------------
(* The refinement of ManagedResource *)

LEMMA ClusterLifecycleInit == ClusterInit => TenantLifecycle!Init
<1> SUFFICES ASSUME ClusterInit PROVE TenantLifecycle!Init
  OBVIOUS
<1>1. \A c \in Clusters : \E dcs \in Spec0 : cApi[c] = ClusterNewObject(dcs)
  BY DEF ClusterInit
<1>2. \A dcs \in Spec0 : ClusterNewObject(dcs).exists /\ ~ClusterNewObject(dcs).deleting
  BY DEF ClusterNewObject
<1>3. \A k \in TenantKeys : cApi[k[1]].exists /\ ~cApi[k[1]].deleting
  BY <1>1, <1>2 DEF TenantKeys
<1>4. \A r \in OrderIds : tResources[r].owner = Nil /\ tResources[r].state = "none"
  BY DEF ClusterInit, Waldur!WaldurInit
<1>5. QED
  BY <1>3, <1>4, KeyAssumption DEF TenantLifecycle!Init

\* What the abstract specification sees of a step that changes no object's
\* existence or deletion, orders nothing and gives nothing up.
LEMMA ClusterLifecycleStutter ==
    ASSUME \A c \in Clusters : /\ cApi'[c].exists = cApi[c].exists
                               /\ cApi'[c].deleting = cApi[c].deleting,
           \A r \in OrderIds : /\ tResources'[r].owner = tResources[r].owner
                               /\ tResources'[r].state = "Terminated"
                                     <=> tResources[r].state = "Terminated"
    PROVE  UNCHANGED TenantLifecycle!vars
<1>1. \A k \in TenantKeys : /\ cApi'[k[1]].exists = cApi[k[1]].exists
                            /\ cApi'[k[1]].deleting = cApi[k[1]].deleting
  BY DEF TenantKeys
<1>2. QED
  BY <1>1 DEF TenantLifecycle!vars

LEMMA ClusterLifecycleBuy ==
    ASSUME WalksComplete, ClusterInv, ClusterKnownInv, [ClusterNext]_cVars, NEW r \in OrderIds,
           tResources'[r].owner # tResources[r].owner
    PROVE  \E k \in TenantKeys : TenantLifecycle!Buy(k)
<1>1. /\ cCur \in Clusters /\ dc \in Offerings /\ ~cApi[cCur].st.tenants[dc].present
      /\ ~cObj.st.tenants[dc].present /\ CreateTenant
      /\ tOrders[r].type = "none" /\ tResources'[r].owner = <<cCur, dc>>
      /\ tResources'[r].state = "Creating"
      /\ \A p \in OrderIds \ {r} : tResources'[p] = tResources[p]
      /\ cApi' = cApi
  BY OwnerSteps
<1>2. tResources[r].owner = Nil /\ tResources[r].state # "Terminated"
  BY <1>1 DEF ClusterInv, ClusterReleaseInv, MarketInv
<1>3. \A k \in TenantKeys : tResources[r].owner # k
  BY <1>2, KeyAssumption
<1>4. \A p \in OrderIds : tResources[p].owner # <<cCur, dc>>
  BY <1>1 DEF ClusterKnownInv, ClusterInHand, ClusterRecorded
<1>5. PICK k \in TenantKeys : k = <<cCur, dc>>
  BY <1>1 DEF TenantKeys
<1>6. cApi[k[1]].exists
  BY <1>1, <1>5 DEF CreateTenant, ClusterInv, HeldInv, FlightHeld
<1>7. [j \in TenantKeys |-> {p \in OrderIds : tResources'[p].owner = j}]
        = [[j \in TenantKeys |-> {p \in OrderIds : tResources[p].owner = j}] EXCEPT ![k] = {r}]
  <2>1. {p \in OrderIds : tResources'[p].owner = k} = {r}
    BY <1>1, <1>4, <1>5
  <2>2. \A j \in TenantKeys \ {k} : {p \in OrderIds : tResources'[p].owner = j}
                                      = {p \in OrderIds : tResources[p].owner = j}
    BY <1>1, <1>3, <1>5
  <2>3. QED BY <2>1, <2>2
<1>8. {p \in OrderIds : tResources'[p].state = "Terminated"}
        = {p \in OrderIds : tResources[p].state = "Terminated"}
  BY <1>1, <1>2
<1>9. {p \in OrderIds : tResources[p].owner = k} = {}
  BY <1>4, <1>5
<1>10. TenantLifecycle!Buy(k)
  BY <1>1, <1>3, <1>5, <1>6, <1>7, <1>8, <1>9 DEF TenantLifecycle!Buy
<1>11. QED BY <1>10

\* A resource becomes Terminated only at the end of a termination order.
LEMMA ClusterLifecycleGiveUp ==
    ASSUME ClusterInv, DoomedInv, NEW i \in OrderIds, Waldur!FinishTermination(i), cApi' = cApi
    PROVE  UNCHANGED TenantLifecycle!vars \/ \E k \in TenantKeys : TenantLifecycle!GiveUp(k)
<1>0. Waldur!WaldurTypeOK /\ MarketInv
  BY TypeParts DEF ClusterInv, ClusterTypeInv, Parts, ClusterReleaseInv
<1>1. PICK r \in OrderIds : r = tOrders[i].res /\ tOrders[i].type = "Terminate"
                          /\ tOrders[r].type = "Create"
  BY <1>0 DEF Waldur!FinishTermination, MarketInv
<1>2. PICK k \in TenantKeys : k = tResources[r].owner
  BY <1>0, <1>1 DEF MarketInv
<1>3. cApi[k[1]].deleting
  <2>1. PICK c \in Clusters, o \in Offerings : k = <<c, o>>
    BY DEF TenantKeys
  <2>2. tResources[tOrders[i].res].owner = <<c, o>> /\ k[1] = c
    BY <1>1, <1>2, <2>1
  <2>3. QED BY <1>1, <2>2 DEF DoomedInv
<1>4. /\ tResources'[r].state = "Terminated"
      /\ \A p \in OrderIds : p # r => tResources'[p] = tResources[p]
      /\ \A p \in OrderIds : tResources'[p].owner = tResources[p].owner
  BY <1>0, <1>1 DEF Waldur!FinishTermination, Waldur!WaldurTypeOK, Waldur!Resource
<1>5. CASE tResources[r].state = "Terminated"
  BY <1>4, <1>5, ClusterLifecycleStutter
<1>6. CASE tResources[r].state # "Terminated"
  <2>1. {p \in OrderIds : tResources'[p].state = "Terminated"}
           = {p \in OrderIds : tResources[p].state = "Terminated"} \cup {r}
    BY <1>1, <1>4
  <2>2. [j \in TenantKeys |-> {p \in OrderIds : tResources'[p].owner = j}]
           = [j \in TenantKeys |-> {p \in OrderIds : tResources[p].owner = j}]
    BY <1>4
  <2>3. TenantLifecycle!GiveUp(k)
    BY <1>1, <1>2, <1>3, <1>6, <2>1, <2>2 DEF TenantLifecycle!GiveUp
  <2>4. QED BY <1>2, <2>3
<1>7. QED BY <1>5, <1>6

\* A cluster that leaves the API server has no tenant that is not given up.
LEMMA ClusterNothingLeft ==
    ASSUME ClusterInv, ClusterKnownInv, [ClusterNext]_cVars, NEW c \in Clusters,
           cApi[c].exists, ~cApi'[c].exists, NEW o \in Offerings, NEW r \in OrderIds,
           tResources[r].owner = <<c, o>>
    PROVE  tResources[r].state = "Terminated"
<1>0. ClusterTypeInv /\ HeldInv /\ ClusterReleaseInv /\ MarketInv
  BY DEF ClusterInv, ClusterReleaseInv
<1>1. CASE cApi[c].fin
  <2>1. ClusterRelease /\ c = cCur
    BY <1>0, <1>1, ObjectFields
  <2>2. cPc = "deleteProjects" /\ cObj.st = cApi[c].st
    BY <1>0, <2>1 DEF ClusterRelease, HeldInv, FlightHeld
  <2>3. ClusterRecorded(cApi[c].st, o, r)
    BY <2>2 DEF ClusterKnownInv, ClusterInHand
  <2>4. /\ cObj.st.tenants[o].present /\ cObj.st.tenants[o].res = r
        /\ ClusterTerminationDone(cObj.st.tenants[o])
        /\ Booked(<<cCur, o>>, cObj.st.tenants[o], tOrders, tResources)
    BY <1>0, <2>2, <2>3 DEF ClusterRecorded, ClusterReleaseInv, DoneSoFar, Present, BookedStatus
  <2>5. QED BY <1>0, <2>4, DoneTerminated
<1>2. CASE ~cApi[c].fin
  <2>1. ~ClusterInHand(c, o, r)
    BY <1>0, <1>2 DEF ClusterInHand, HeldInv, FlightHeld
  <2>2. ClusterRecorded(cApi[c].st, o, r)
    BY <2>1 DEF ClusterKnownInv
  <2>3. QED BY <1>0, <1>2, <2>2 DEF ClusterRecorded, ClusterReleaseInv, Guarded
<1>3. QED BY <1>1, <1>2


LEMMA TerminatedBy ==
    ASSUME ClusterInv, [ClusterNext]_cVars, NEW r \in OrderIds,
           tResources'[r].state = "Terminated", tResources[r].state # "Terminated"
    PROVE  ClusterMarketplace /\ \E i \in OrderIds : Waldur!FinishTermination(i)
<1>0. ClusterTypeInv /\ Waldur!WaldurTypeOK /\ tResources \in [OrderIds -> Waldur!Resource]
  BY TypeParts DEF ClusterInv, ClusterTypeInv, Parts, Waldur!WaldurTypeOK
<1>1. ~UNCHANGED market
  BY DEF market
<1>2. ~ \E id \in OrderIds, core \in OrderScopes : AcceptTenant(id, core)
  BY <1>0 DEF AcceptTenant, Waldur!AcceptCreation
<1>3. ~ \E o \in Offerings, id \in OrderIds : Waldur!AcceptTermination(id, cObj.st.tenants[o].res)
  <2>1. SUFFICES ASSUME NEW o \in Offerings, NEW id \in OrderIds,
                        Waldur!AcceptTermination(id, cObj.st.tenants[o].res)
                 PROVE  FALSE
    OBVIOUS
  <2>2. \/ tResources' = tResources
        \/ tResources' = [tResources EXCEPT ![cObj.st.tenants[o].res].state = "Terminating"]
    BY <2>1 DEF Waldur!AcceptTermination
  <2>3. QED BY <1>0, <2>2 DEF Waldur!Resource
<1>4. ClusterMarketplace /\ \E i \in OrderIds : Progress(i)
  BY <1>0, <1>1, <1>2, <1>3, MarketSteps
<1>5. PICK i \in OrderIds : Progress(i)
  BY <1>4
<1>6. ~Waldur!StartOrder(i)
  <2>1. Waldur!StartOrder(i) => tResources' = tResources \/ tResources' = [tResources EXCEPT ![i].core = "CREATING"]
    BY DEF Waldur!StartOrder
  <2>2. QED BY <1>0, <2>1 DEF Waldur!Resource
<1>7. ~Waldur!InstanceUp(i)
  BY <1>0 DEF Waldur!InstanceUp, Waldur!Resource
<1>8. ~Waldur!InstanceStopped(i)
  BY <1>0 DEF Waldur!InstanceStopped, Waldur!Resource
<1>9. ~Waldur!FinishCreation(i)
  BY <1>0 DEF Waldur!FinishCreation, Waldur!Resource
<1>10. ~Waldur!FailOrder(i)
  <2>1. \A x \in Waldur!Resource : Waldur!Erred(x).state = "Erred"
    BY DEF Waldur!Erred, Waldur!Resource
  <2>2. Waldur!FailOrder(i) => tResources' = tResources \/ tResources' = [tResources EXCEPT ![tOrders[i].res] = Waldur!Erred(@)]
    BY DEF Waldur!FailOrder
  <2>3. QED BY <1>0, <2>1, <2>2
<1>11. ~Waldur!InstanceChange(i)
  <2>1. Waldur!InstanceChange(i) =>
           \/ tResources' = [tResources EXCEPT ![i] = [tResources[i] EXCEPT !.core = "ERRED", !.run = "ERROR"]]
           \/ tResources' = [tResources EXCEPT ![i] = [tResources[i] EXCEPT !.core = "OK", !.run = "ACTIVE"]]
    BY DEF Waldur!InstanceChange
  <2>2. tResources' # [tResources EXCEPT ![i] = [tResources[i] EXCEPT !.core = "ERRED", !.run = "ERROR"]]
    BY <1>0 DEF Waldur!Resource
  <2>3. tResources' # [tResources EXCEPT ![i] = [tResources[i] EXCEPT !.core = "OK", !.run = "ACTIVE"]]
    BY <1>0 DEF Waldur!Resource
  <2>4. QED BY <2>1, <2>2, <2>3
<1>12. QED
  BY <1>4, <1>5, <1>6, <1>7, <1>8, <1>9, <1>10, <1>11 DEF Progress

\* Only a user's deletion and a release change whether an object exists or is
\* being deleted.
LEMMA RemovalSteps ==
    ASSUME ClusterTypeInv, [ClusterNext]_cVars
    PROVE  \/ \A d \in Clusters : /\ cApi'[d].exists = cApi[d].exists
                                  /\ cApi'[d].deleting = cApi[d].deleting
           \/ \E c \in Clusters :
                /\ tResources' = tResources /\ cApi[c].exists
                /\ \A d \in Clusters \ {c} : cApi'[d] = cApi[d]
                /\ \/ cApi'[c].exists /\ cApi'[c].deleting
                   \/ ~cApi'[c].exists /\ cApi'[c].deleting = cApi[c].deleting
<1>0. cApi \in [Clusters -> ClusterObject] /\ Parts
  BY TypeParts DEF ClusterTypeInv, Parts, StoreOK
<1>1. CASE UNCHANGED cApi
  BY <1>1
<1>2. CASE \E c \in Clusters : \/ cApi' = [cApi EXCEPT ![c] = [cApi[c] EXCEPT !.fin = TRUE]]
                               \/ EditDatacenters(c) \/ ClusterSetOwnerRef(c)
  <2>1. PICK c \in Clusters : \/ cApi' = [cApi EXCEPT ![c] = [cApi[c] EXCEPT !.fin = TRUE]]
                             \/ \E x : cApi' = [cApi EXCEPT ![c] = [cApi[c] EXCEPT !.dcs = x]]
                             \/ cApi' = [cApi EXCEPT ![c] = [cApi[c] EXCEPT !.owner = TRUE]]
    BY <1>2 DEF EditDatacenters, ClusterSetOwnerRef
  <2>2. \A d \in Clusters : /\ cApi'[d].exists = cApi[d].exists
                            /\ cApi'[d].deleting = cApi[d].deleting
    BY <1>0, <2>1 DEF ClusterObject
  <2>3. QED BY <2>2
<1>3. CASE \E c \in Clusters : ClusterUserDelete(c)
  <2>1. PICK c \in Clusters : ClusterUserDelete(c)
    BY <1>3
  <2>2. tResources' = tResources /\ cApi[c].exists
    BY <2>1 DEF ClusterUserDelete, market
  <2>3. CASE cApi[c].fin
    <3>1. cApi' = [cApi EXCEPT ![c] = [cApi[c] EXCEPT !.deleting = TRUE]]
      BY <2>1, <2>3 DEF ClusterUserDelete
    <3>2. cApi'[c].exists /\ cApi'[c].deleting /\ \A d \in Clusters \ {c} : cApi'[d] = cApi[d]
      BY <1>0, <2>2, <3>1 DEF ClusterObject
    <3>3. QED BY <2>2, <3>2
  <2>4. CASE ~cApi[c].fin
    <3>1. cApi' = [cApi EXCEPT ![c] = [cApi[c] EXCEPT !.exists = FALSE]]
      BY <2>1, <2>4 DEF ClusterUserDelete
    <3>2. /\ ~cApi'[c].exists /\ cApi'[c].deleting = cApi[c].deleting
          /\ \A d \in Clusters \ {c} : cApi'[d] = cApi[d]
      BY <1>0, <3>1 DEF ClusterObject
    <3>3. QED BY <2>2, <3>2
  <2>5. QED BY <2>3, <2>4
<1>4. CASE SetEndpoint /\ cApi' = [cApi EXCEPT ![cCur] = [cApi[cCur] EXCEPT !.endpoint = TRUE]]
  <2>1. cApi' = [cApi EXCEPT ![cCur] = [cApi[cCur] EXCEPT !.endpoint = TRUE]]
    BY <1>4
  <2>2. \A d \in Clusters : /\ cApi'[d].exists = cApi[d].exists
                            /\ cApi'[d].deleting = cApi[d].deleting
    BY <1>0, <2>1 DEF ClusterObject
  <2>3. QED BY <2>2
<1>5. CASE ClusterRelease /\ cApi' = [cApi EXCEPT ![cCur] = [cApi[cCur] EXCEPT !.fin = FALSE, !.exists = FALSE]]
  <2>1. cCur \in Clusters /\ tResources' = tResources /\ cApi[cCur].exists
    BY <1>0, <1>5 DEF ClusterRelease, ClusterUpdateAccepted, market, Parts, ClusterWorkerOK
  <2>2. cApi' = [cApi EXCEPT ![cCur] = [cApi[cCur] EXCEPT !.fin = FALSE, !.exists = FALSE]]
    BY <1>5
  <2>3. /\ ~cApi'[cCur].exists /\ cApi'[cCur].deleting = cApi[cCur].deleting
        /\ \A d \in Clusters \ {cCur} : cApi'[d] = cApi[d]
    BY <1>0, <2>1, <2>2 DEF ClusterObject
  <2>4. QED BY <2>1, <2>3
<1>6. CASE ClusterPatchStatus \/ PatchDelete
  <2>1. PICK st \in ClusterStatus : cApi' = [cApi EXCEPT ![cCur] = [cApi[cCur] EXCEPT !.st = st]]
    BY <1>6, PatchType
  <2>2. \A d \in Clusters : /\ cApi'[d].exists = cApi[d].exists
                            /\ cApi'[d].deleting = cApi[d].deleting
    BY <1>0, <2>1 DEF ClusterObject
  <2>3. QED BY <2>2
<1>7. QED
  BY <1>1, <1>2, <1>3, <1>4, <1>5, <1>6, ObjectSteps

LEMMA ClusterLifecycleRemoval ==
    ASSUME ClusterInv, ClusterKnownInv, [ClusterNext]_cVars, NEW c \in Clusters,
           tResources' = tResources, cApi[c].exists,
           \A d \in Clusters \ {c} : cApi'[d] = cApi[d],
           \/ cApi'[c].exists /\ cApi'[c].deleting
           \/ ~cApi'[c].exists /\ cApi'[c].deleting = cApi[c].deleting
    PROVE  \E K \in SUBSET TenantKeys : TenantLifecycle!Doom(K) \/ TenantLifecycle!Drop(K)
<1> DEFINE K == {k \in TenantKeys : k[1] = c}
<1>1. \A k \in TenantKeys : k[1] \in Clusters
  BY DEF TenantKeys
<1>2. \A k \in TenantKeys \ K : cApi'[k[1]] = cApi[k[1]]
  BY <1>1
<1>3. K \subseteq {k \in TenantKeys : cApi[k[1]].exists}
  OBVIOUS
<1>4. CASE cApi'[c].exists /\ cApi'[c].deleting
  <2>1. {k \in TenantKeys : cApi'[k[1]].exists} = {k \in TenantKeys : cApi[k[1]].exists}
    BY <1>2, <1>4
  <2>2. {k \in TenantKeys : cApi'[k[1]].deleting} = {k \in TenantKeys : cApi[k[1]].deleting} \cup K
    BY <1>2, <1>4
  <2>3. TenantLifecycle!Doom(K)
    BY <1>3, <2>1, <2>2 DEF TenantLifecycle!Doom
  <2>4. QED BY <2>3
<1>5. CASE ~cApi'[c].exists /\ cApi'[c].deleting = cApi[c].deleting
  <2>1. {k \in TenantKeys : cApi'[k[1]].exists} = {k \in TenantKeys : cApi[k[1]].exists} \ K
    BY <1>2, <1>5
  <2>2. {k \in TenantKeys : cApi'[k[1]].deleting} = {k \in TenantKeys : cApi[k[1]].deleting}
    BY <1>2, <1>5
  <2>3. \A k \in K, r \in OrderIds : tResources[r].owner = k => tResources[r].state = "Terminated"
    <3> TAKE k \in K, r \in OrderIds
    <3>1. PICK o \in Offerings : k = <<c, o>>
      BY DEF TenantKeys
    <3>2. QED BY <1>5, <3>1, ClusterNothingLeft
  <2>4. TenantLifecycle!Drop(K)
    BY <1>3, <2>1, <2>2, <2>3 DEF TenantLifecycle!Drop
  <2>5. QED BY <2>4
<1>6. QED BY <1>4, <1>5

LEMMA ClusterLifecycleStep ==
    ASSUME WalksComplete, ClusterInv, ClusterKnownInv, DoomedInv, [ClusterNext]_cVars
    PROVE  [TenantLifecycle!Next]_(TenantLifecycle!vars)
<1>0. ClusterTypeInv /\ ClusterStable
  BY MarketNext DEF ClusterInv, ClusterReleaseInv
<1>1. CASE \E r \in OrderIds : tResources'[r].owner # tResources[r].owner
  BY <1>1, ClusterLifecycleBuy DEF TenantLifecycle!Next
<1>2. CASE ClusterMarketplace /\ \E i \in OrderIds : Waldur!FinishTermination(i)
  <2>1. cApi' = cApi
    BY <1>2 DEF ClusterMarketplace, store
  <2>2. QED BY <1>2, <2>1, ClusterLifecycleGiveUp DEF TenantLifecycle!Next
<1>3. CASE \E c \in Clusters :
             /\ tResources' = tResources /\ cApi[c].exists
             /\ \A d \in Clusters \ {c} : cApi'[d] = cApi[d]
             /\ \/ cApi'[c].exists /\ cApi'[c].deleting
                \/ ~cApi'[c].exists /\ cApi'[c].deleting = cApi[c].deleting
  BY <1>3, ClusterLifecycleRemoval DEF TenantLifecycle!Next
<1>4. CASE /\ \A r \in OrderIds : tResources'[r].owner = tResources[r].owner
           /\ ~(ClusterMarketplace /\ \E i \in OrderIds : Waldur!FinishTermination(i))
           /\ \A d \in Clusters : /\ cApi'[d].exists = cApi[d].exists
                                  /\ cApi'[d].deleting = cApi[d].deleting
  <2>1. \A r \in OrderIds : tResources'[r].state = "Terminated" <=> tResources[r].state = "Terminated"
    BY <1>0, <1>4, TerminatedBy DEF ClusterStable
  <2>2. QED BY <1>4, <2>1, ClusterLifecycleStutter
<1>5. QED
  BY <1>0, <1>1, <1>2, <1>3, <1>4, RemovalSteps

\* When every walk publishes its results, the cluster controller implements
\* ManagedResource: one tenant is ever ordered for a datacenter, while the
\* cluster exists; it is given up only after the cluster's deletion was asked
\* for; and the cluster stays until all of its tenants are gone.
THEOREM ManagedTenantImplemented ==
    ASSUME ReadOwnWrites, WalksComplete
    PROVE  ClusterSpec => ManagedTenant
<1>1. ClusterInv /\ ClusterKnownInv /\ [ClusterNext]_cVars => ClusterKnownInv'
  BY ClusterKnownNext
<1>2. ClusterInv /\ DoomedInv /\ [ClusterNext]_cVars => DoomedInv'
  BY DoomedNext
<1>3. ClusterInv /\ ClusterKnownInv /\ DoomedInv /\ [ClusterNext]_cVars => [TenantLifecycle!Next]_(TenantLifecycle!vars)
  BY ClusterLifecycleStep
<1>4. QED
  BY ClusterInductive, ClusterKnownInit, ClusterLifecycleInit, <1>1, <1>2, <1>3, PTL
     DEF ClusterSpec, ManagedTenant, TenantLifecycle!Spec


----------------------------------------------------------------------------
(* No project is left behind *)

\* Moreover no call to Waldur fails and no order is refused: orders may still
\* fail later, and tenants break.
CallsSucceed == Faults \cap {"call", "reject"} = {}

\* What keeps the project of a datacenter in use: its tenant, recorded or in
\* the hands of the walk, or the order for it that is about to be placed.
InUse(c, o) ==
    /\ cApi[c].exists
    /\ \/ cApi[c].st.tenants[o].present
       \/ cPc \in {"tenants", "order"} /\ cCur = c /\ cObj.st.tenants[o].present
       \/ cPc = "order" /\ cCur = c /\ dc = o

ProjectInv ==
    /\ \A p \in projects :
          \E c \in Clusters, o \in Offerings : ProjectOf[<<c, o>>] = p /\ InUse(c, o)
    /\ cPc = "deleteProjects" =>
          \A o \in Present(cObj.st) \ todo : ProjectOf[<<cCur, o>>] \notin projects

LEMMA ProjectInit == ClusterInit => ProjectInv
BY DEF ClusterInit, ProjectInv

\* The steps that change which projects there are.
LEMMA ProjectSteps ==
    ASSUME ClusterTypeInv, [ClusterNext]_cVars
    PROVE  projects' = projects \/ \E o \in Offerings : GetOrCreateProject(o) \/ DeleteProject(o)
<1>1. CASE ClusterStep
  BY <1>1 DEF ClusterStep, RefreshTenant, ClusterRefreshFails, NoProject, PollTermination,
     SkipTerminated,
         ClusterSubmitTermination, TerminationFails, DeleteProjectFails, CreateTenantFails, CreateTenant,
         CreateTenantLost, CreateTenantPanics, ClusterPatchStatus, EndpointFails, NoEndpoint, SetEndpoint, EndpointConflict,
         PatchDelete, ClusterRelease, ReleaseFails, ClusterAnswerPanics, ClusterWriteFails
<1>2. CASE ~ClusterStep
  BY <1>2 DEF ClusterNext, cVars, ClusterReconcile, ClusterReconcileGone, ClusterAddFinalizer,
     ClusterReconcileWait, BeginReconcile,
         BeginDelete, ClusterSettle, ClusterBegin, ClusterCacheSync, ClusterEnvironment, ClusterUserDelete, EditDatacenters,
         ClusterSetOwnerRef, ControlPlaneUp, ClusterMarketplace, ClusterCrash
<1>3. QED BY <1>1, <1>2

\* An order that is about to be placed is placed.
LEMMA OrderPlaced ==
    ASSUME WalksComplete, CallsSucceed, ClusterTypeInv, [ClusterNext]_cVars, cPc = "order"
    PROVE  \/ UNCHANGED <<cPc, cCur, dc>>
           \/ CreateTenant
<1>1. /\ ~CreateTenantFails /\ ~CreateTenantLost /\ ~CreateTenantPanics
      /\ ~ClusterAnswerPanics /\ ~ClusterCrash
  BY DEF CreateTenantFails, CreateTenantLost, CreateTenantPanics, ClusterAnswerPanics, ClusterCrash, Fault, WalksComplete,
         CallsSucceed
<1>2. CASE ClusterStep
  BY <1>1, <1>2 DEF ClusterStep, RefreshTenant, ClusterRefreshFails, NoProject, PollTermination,
     SkipTerminated,
         ClusterSubmitTermination, TerminationFails, DeleteProject, DeleteProjectFails,
         GetOrCreateProject, ClusterPatchStatus, EndpointFails, NoEndpoint, SetEndpoint, EndpointConflict,
         PatchDelete, ClusterRelease, ReleaseFails, ClusterWriteFails
<1>3. CASE ~ClusterStep
  BY <1>1, <1>3 DEF ClusterNext, cVars, cWorker, ClusterReconcile, ClusterReconcileGone,
     ClusterAddFinalizer, ClusterReconcileWait,
         BeginReconcile, BeginDelete, ClusterTake, ClusterSettle, ClusterCacheSync, ClusterEnvironment, ClusterUserDelete,
         EditDatacenters, ClusterSetOwnerRef, ControlPlaneUp, ClusterMarketplace
<1>4. QED BY <1>2, <1>3

\* What is in use stays in use, unless its cluster is released.
LEMMA InUseStays ==
    ASSUME WalksComplete, CallsSucceed, ClusterInv, [ClusterNext]_cVars,
           NEW c \in Clusters, NEW o \in Offerings, InUse(c, o),
           ~(ClusterRelease /\ cCur = c)
    PROVE  InUse(c, o)'
<1>0. ClusterTypeInv /\ HeldInv /\ ClusterReleaseInv /\ Parts
  BY TypeParts DEF ClusterInv, ClusterTypeInv
<1>1. cApi'[c].exists
  <2>1. cApi[c].exists /\ cApi[c].fin
    <3>1. CASE cPc # "idle" /\ cCur = c
      BY <1>0, <3>1 DEF HeldInv, FlightHeld
    <3>2. CASE cApi[c].st.tenants[o].present
      BY <1>0, <3>2 DEF InUse, ClusterReleaseInv, Guarded
    <3>3. QED BY <3>1, <3>2 DEF InUse
  <2>2. QED BY <1>0, <2>1, ObjectFields
<1>2. CASE cApi[c].st.tenants[o].present
  <2>1. PICK r \in OrderIds : ClusterRecorded(cApi[c].st, o, r)
    BY <1>0, <1>2 DEF ClusterTypeInv, StoreShape, WholeStatus, Whole, ClusterRecorded
  <2>2. ClusterRecorded(cApi'[c].st, o, r)
    BY <2>1, RecordedStays
  <2>3. QED BY <1>1, <2>2 DEF ClusterRecorded, InUse
<1>3. CASE ~cApi[c].st.tenants[o].present /\ cPc \in {"tenants", "order"} /\ cCur = c
           /\ cObj.st.tenants[o].present
  <2>1. PICK r \in OrderIds : ClusterInHand(c, o, r)
    BY <1>0, <1>3 DEF ClusterTypeInv, WalkShape, WholeStatus, Whole, ClusterRecorded, ClusterInHand
  <2>2. ClusterRecorded(cApi'[c].st, o, r) \/ ClusterInHand(c, o, r)'
    BY <2>1, InHandStays
  <2>3. QED BY <1>1, <2>2 DEF ClusterRecorded, ClusterInHand, InUse
<1>4. CASE cPc = "order" /\ cCur = c /\ dc = o
  <2>1. CASE UNCHANGED <<cPc, cCur, dc>>
    BY <1>1, <1>4, <2>1 DEF InUse
  <2>2. CASE CreateTenant
    <3>1. PICK id \in OrderIds, core \in OrderScopes : Walked(dc, CreatedTenant(id, core))
      BY <2>2 DEF CreateTenant
    <3>2. CreatedTenant(id, core) \in Tenant /\ CreatedTenant(id, core).present
      BY DEF CreatedTenant, NoTenant, Tenant, Waldur!OrderStates
    <3>3. cObj'.st.tenants[o] = CreatedTenant(id, core) /\ cCur' = cCur
      BY <1>0, <1>4, <3>1, <3>2, WalkedType DEF Parts, ClusterWorkerOK
    <3>4. cPc' = "tenants"
      BY <2>2 DEF CreateTenant
    <3>5. QED BY <1>1, <1>4, <3>2, <3>3, <3>4 DEF InUse
  <2>3. QED BY <1>0, <1>4, <2>1, <2>2, OrderPlaced
<1>5. QED
  BY <1>2, <1>3, <1>4 DEF InUse

LEMMA ProjectNext ==
    ASSUME WalksComplete, CallsSucceed, ClusterInv, ProjectInv, [ClusterNext]_cVars
    PROVE  ProjectInv'
<1>0. ClusterTypeInv /\ HeldInv /\ Parts
  BY TypeParts DEF ClusterInv, ClusterTypeInv
<1>1. ASSUME NEW p \in projects'
      PROVE  \E c \in Clusters, o \in Offerings : ProjectOf[<<c, o>>] = p /\ InUse(c, o)'
  <2>1. CASE p \in projects
    <3>1. PICK c \in Clusters, o \in Offerings : ProjectOf[<<c, o>>] = p /\ InUse(c, o)
      BY <2>1 DEF ProjectInv
    <3>2. ~(ClusterRelease /\ cCur = c)
      <4>1. SUFFICES ASSUME ClusterRelease, cCur = c PROVE FALSE
        OBVIOUS
      <4>2. cPc = "deleteProjects" /\ todo = {} /\ cObj.st = cApi[c].st
        BY <1>0, <4>1 DEF ClusterRelease, HeldInv, FlightHeld
      <4>3. o \in Present(cObj.st) \ todo
        BY <3>1, <4>2 DEF InUse, Present
      <4>4. QED BY <2>1, <3>1, <4>1, <4>2, <4>3 DEF ProjectInv
    <3>3. InUse(c, o)'
      BY <3>1, <3>2, InUseStays
    <3>4. QED BY <3>1, <3>3
  <2>2. CASE p \notin projects
    <3>1. PICK o \in Offerings : GetOrCreateProject(o)
      BY <1>0, <1>1, <2>2, ProjectSteps DEF DeleteProject
    <3>2. p = ProjectOf[<<cCur, o>>] /\ cCur \in Clusters
      BY <1>0, <1>1, <2>2, <3>1 DEF GetOrCreateProject, Parts, ClusterWorkerOK
    <3>3. PICK c \in Clusters : c = cCur
      BY <3>2
    <3>4. /\ cPc' = "order" /\ cCur' = c /\ dc' = o /\ cApi' = cApi /\ cApi[c].exists
      BY <1>0, <3>1, <3>3 DEF GetOrCreateProject, store, HeldInv, FlightHeld
    <3>5. InUse(c, o)'
      BY <3>4 DEF InUse
    <3>6. QED BY <3>2, <3>3, <3>5
  <2>3. QED BY <2>1, <2>2
<1>2. cPc' = "deleteProjects" =>
          \A o \in Present(cObj'.st) \ todo' : ProjectOf[<<cCur', o>>] \notin projects'
  <2>1. CASE UNCHANGED cWorker /\ cPc = "deleteProjects"
    <3>1. projects' = projects
      BY <1>0, <2>1, ProjectSteps DEF GetOrCreateProject, DeleteProject, cWorker
    <3>2. QED BY <2>1, <3>1 DEF cWorker, ProjectInv
  <2>2. CASE \E o \in Offerings : DeleteProject(o)
    <3>1. PICK o \in Offerings : DeleteProject(o)
      BY <2>2
    <3>2. /\ cPc = "deleteProjects" /\ cObj' = cObj /\ cCur' = cCur /\ todo' = todo \ {o}
          /\ projects' = projects \ {ProjectOf[<<cCur, o>>]}
      BY <3>1 DEF DeleteProject
    <3>3. QED BY <3>2 DEF ProjectInv
  <2>3. CASE ClusterPatchStatus \/ PatchDelete
    <3>1. cPc' = "deleteProjects" => /\ todo' = Present(cObj.st)
                                     /\ cObj'.st = cApi'[cCur].st
                                     /\ cApi'[cCur].st.tenants = cObj.st.tenants
      BY <1>0, <2>3, PatchWrites DEF ClusterPatchStatus, PatchDelete, ClusterReturn, ClusterGoIdle
    <3>2. QED BY <3>1 DEF Present
  <2>4. CASE \E c \in Clusters : BeginReconcile(c) \/ BeginDelete(c)
    BY <2>4 DEF BeginReconcile, BeginDelete, ClusterBegin
  <2>5. CASE WithinWalk \/ cPc' = "idle"
    BY <2>5 DEF WithinWalk
  <2>6. QED
    BY <1>0, <2>1, <2>2, <2>3, <2>4, <2>5, WorkerSteps DEF cWorker
<1>3. QED
  BY <1>1, <1>2 DEF ProjectInv

\* When moreover no call fails and no order is refused, a project exists only
\* as long as some cluster that uses it does, however clusters share it: the
\* last one to go takes it along.
THEOREM ProjectsSafe ==
    ASSUME ReadOwnWrites, WalksComplete, CallsSucceed
    PROVE  ClusterSpec => []NoProjectLeft
<1>1. ProjectInv => NoProjectLeft
  <2>1. SUFFICES ASSUME ProjectInv, NEW p \in projects
                 PROVE  \E k \in TenantKeys : ProjectOf[k] = p /\ cApi[k[1]].exists
    BY DEF NoProjectLeft
  <2>2. PICK c \in Clusters, o \in Offerings : ProjectOf[<<c, o>>] = p /\ InUse(c, o)
    BY <2>1 DEF ProjectInv
  <2>3. <<c, o>> \in TenantKeys /\ <<c, o>>[1] = c
    BY DEF TenantKeys
  <2>4. cApi[c].exists
    BY <2>2 DEF InUse
  <2>5. QED BY <2>2, <2>3, <2>4
<1>2. ClusterInv /\ ProjectInv /\ [ClusterNext]_cVars => ProjectInv'
  BY ProjectNext
<1>3. QED
  BY ClusterInductive, ProjectInit, <1>1, <1>2, PTL DEF ClusterSpec

============================================================================
