------------------------ MODULE MachineSafetyProofs ------------------------
(***************************************************************************)
(* The finalizer protects every recorded VM, however stale the cache is    *)
(* and whatever fails; and reconcileDelete lets a machine go only when its *)
(* VM is terminated, provided a reconciliation sees what the earlier ones  *)
(* wrote.                                                                  *)
(***************************************************************************)
EXTENDS MachineProofs

\* A deleting object is held by the finalizer.
Held(x) == x.exists /\ x.deleting => x.fin

\* The only object that may be gone while the cache still shows it admitted
\* is one whose deletion reconcileDelete had finished when it released it.
ReleasedView(x) ==
    x.exists /\ x.fin
        => x.deleting /\ (x.st.uuid = Nil \/ TerminationDone(x.st))

FinalizerInv ==
    /\ \A m \in Machines : Held(api[m])
    /\ \A m \in Machines : Held(cache[m])
    /\ \A m \in Machines : cache[m].fin /\ api[m].exists => api[m].fin
    /\ \A m \in Machines : ~api[m].exists => ReleasedView(cache[m])
    /\ InFlightExists
    /\ FinalizerGuards

LEMMA FinalizerInit == Init => FinalizerInv
BY DEF Init, FinalizerInv, Held, ReleasedView, InFlightExists, FinalizerGuards, NewObject, NoStatus

\* The branches of Reconcile and reconcileDelete that start a reconciliation.
LEMMA FinalizerBegin ==
    ASSUME TypeInv, FinalizerInv, NEW m \in Machines,
           BeginCreate(m) \/ BeginRefresh(m) \/ DeletePoll(m) \/ BeginTerminate(m)
    PROVE  FinalizerInv'
<1>1. /\ api' = api /\ cache' = cache /\ cur' = m
      /\ cache[m].exists
      /\ \/ ~cache[m].deleting /\ cache[m].fin
         \/ cache[m].deleting /\ cache[m].st.uuid # Nil /\ ~TerminationDone(cache[m].st)
  BY DEF BeginCreate, BeginRefresh, DeletePoll, BeginTerminate, Begin, Admitted, Deleting,
         TerminationInFlight, TerminationDone, MustTerminate, isOrderTerminal
<1>2. cache[m].fin
  BY <1>1 DEF FinalizerInv, Held
<1>3. api[m].exists
  BY <1>1, <1>2 DEF FinalizerInv, ReleasedView
<1>4. api[m].fin
  BY <1>2, <1>3 DEF FinalizerInv
<1>5. QED
  BY <1>1, <1>3, <1>4 DEF FinalizerInv, InFlightExists, FinalizerGuards, Held, ReleasedView

\* An Update removes the finalizer only from the object the worker read.
LEMMA FinalizerRelease ==
    ASSUME TypeInv, FinalizerInv, NEW m \in Machines,
           DeleteNeverProvisioned(m) \/ DeleteDone(m)
    PROVE  FinalizerInv'
<1>1. /\ pc = "idle" /\ pc' = pc /\ cache' = cache
      /\ cache[m] = api[m]
      /\ cache[m].deleting
      /\ cache[m].st.uuid = Nil \/ TerminationDone(cache[m].st)
      /\ api' = [api EXCEPT ![m].fin = FALSE, ![m].exists = FALSE]
  BY DEF DeleteNeverProvisioned, DeleteDone, Release, Settle, Take, UpdateAccepted, Deleting, worker
<1>2. /\ ~api'[m].exists /\ ~api'[m].fin
      /\ \A n \in Machines \ {m} : api'[n] = api[n]
  BY <1>1 DEF TypeInv, TypeOK, Object
<1>3. QED
  BY <1>1, <1>2 DEF FinalizerInv, InFlightExists, FinalizerGuards, Held, ReleasedView

LEMMA FinalizerReconcile ==
    ASSUME TypeInv, FinalizerInv, NEW m \in Machines, Reconcile(m)
    PROVE  FinalizerInv'
<1>1. CASE ReconcileGone(m) \/ ReconcileWait(m)
  <2>1. api' = api /\ cache' = cache /\ pc' = pc /\ cur' = cur
    BY <1>1 DEF ReconcileGone, ReconcileWait, Settle, worker
  <2>2. QED
    BY <2>1 DEF FinalizerInv, InFlightExists, FinalizerGuards, Held, ReleasedView
<1>2. CASE AddFinalizer(m)
  <2>1. /\ pc = "idle" /\ pc' = pc /\ cache' = cache
        /\ api[m].exists
        /\ api' = [api EXCEPT ![m].fin = TRUE]
    BY <1>2 DEF AddFinalizer, Take, Settle, UpdateAccepted, worker
  <2>2. /\ api'[m].exists /\ api'[m].fin
        /\ \A n \in Machines \ {m} : api'[n] = api[n]
    BY <2>1 DEF TypeInv, TypeOK, Object
  <2>3. QED
    BY <2>1, <2>2 DEF FinalizerInv, InFlightExists, FinalizerGuards, Held, ReleasedView
<1>3. QED
  BY <1>1, <1>2, FinalizerBegin, FinalizerRelease DEF Reconcile

\* The steps of a reconciliation that leave the API server alone.
LEMMA FinalizerQuiet ==
    ASSUME FinalizerInv, api' = api, cache' = cache,
           pc' = "idle" \/ (cur' = cur /\ (pc' # "idle" => pc # "idle"))
    PROVE  FinalizerInv'
BY DEF FinalizerInv, InFlightExists, FinalizerGuards, Held, ReleasedView

\* A patch of an object in flight, which keeps its finalizer.
LEMMA FinalizerPatch ==
    ASSUME TypeInv, FinalizerInv, PatchProviderID \/ PatchStatus
    PROVE  FinalizerInv'
<1>1. cur \in Machines /\ api[cur].exists /\ api[cur].fin
  BY DEF FinalizerInv, InFlightExists, PatchProviderID, PatchStatus, TypeInv, TypeOK
<1>2. /\ cache' = cache
      /\ pc' = "idle" \/ cur' = cur
  BY DEF PatchProviderID, PatchStatus, Return, GoIdle
<1>3. /\ api'[cur].exists = api[cur].exists
      /\ api'[cur].fin = api[cur].fin
      /\ api'[cur].deleting = api[cur].deleting
      /\ \A n \in Machines \ {cur} : api'[n] = api[n]
  <2>1. CASE PatchProviderID
    BY <1>1, <2>1 DEF PatchProviderID, TypeInv, TypeOK, Object
  <2>2. CASE PatchStatus
    BY <1>1, <2>2 DEF PatchStatus, TypeInv, TypeOK, Object
  <2>3. QED
    BY <2>1, <2>2
<1>4. QED
  BY <1>1, <1>2, <1>3 DEF FinalizerInv, InFlightExists, FinalizerGuards, Held, ReleasedView

LEMMA FinalizerStep ==
    ASSUME TypeInv, FinalizerInv, Step
    PROVE  FinalizerInv'
<1> USE DEF waldur, vault, worker, world, Goto, Return, GoIdle, CreateFails
<1>1. CASE WaitBootstrap \/ PassVerbatim \/ StripFails \/ StoreToken \/ RancherPath
           \/ NewSecretID \/ MergeFails \/ PayloadNotReady \/ CreateCallFails \/ VaultAnswerLost
  BY <1>1, FinalizerQuiet DEF WaitBootstrap, PassVerbatim, StripFails, StoreToken, RancherPath,
         NewSecretID, MergeFails, PayloadNotReady, CreateCallFails, VaultAnswerLost
<1>2. CASE SubmitAccepted \/ SubmitRejected \/ SubmitLost
  BY <1>2, FinalizerQuiet DEF SubmitAccepted, SubmitRejected, SubmitLost
<1>3. CASE RefreshOrder \/ RefreshInstance \/ RefreshFails \/ AnswerPanics \/ WriteFails
  BY <1>3, FinalizerQuiet DEF RefreshOrder, RefreshInstance, RefreshFails, AnswerPanics,
         WriteFails
<1>4. CASE PatchProviderID \/ PatchStatus
  BY <1>4, FinalizerPatch
<1>5. CASE StopVM \/ SubmitTermination \/ TerminationRefused \/ TerminationLost
           \/ TerminateCallFails
  BY <1>5, FinalizerQuiet DEF StopVM, SubmitTermination, TerminationRefused, TerminationLost,
         TerminateCallFails
<1>6. QED
  BY <1>1, <1>2, <1>3, <1>4, <1>5 DEF Step

LEMMA FinalizerEnvironment ==
    ASSUME TypeInv, FinalizerInv, NEW m \in Machines,
           CacheSync(m) \/ Environment(m) \/ TenantReady \/ Marketplace \/ Crash
    PROVE  FinalizerInv'
<1> USE DEF waldur, vault, worker, world
<1>0. pc # "idle" => cur \in Machines
  BY DEF TypeInv, TypeOK
<1>1. CASE CacheSync(m)
  <2>1. /\ api' = api /\ pc' = pc /\ cur' = cur
        /\ cache'[m] = api[m]
        /\ \A n \in Machines \ {m} : cache'[n] = cache[n]
    BY <1>1 DEF CacheSync, TypeInv, TypeOK
  <2>2. QED
    BY <2>1 DEF FinalizerInv, InFlightExists, FinalizerGuards, Held, ReleasedView
<1>2. CASE UserDelete(m)
  <2>1. cache' = cache /\ pc' = pc /\ cur' = cur /\ api[m].exists
    BY <1>2 DEF UserDelete
  <2>2. CASE api[m].fin
    <3>1. /\ api'[m] = [api[m] EXCEPT !.deleting = TRUE]
          /\ \A n \in Machines \ {m} : api'[n] = api[n]
      BY <1>2, <2>2 DEF UserDelete, TypeInv, TypeOK
    <3>2. api'[m].st = api[m].st /\ api'[m].fin /\ api'[m].exists
      BY <2>1, <2>2, <3>1 DEF TypeInv, TypeOK, Object
    <3>3. QED
      BY <1>0, <2>1, <3>1, <3>2 DEF FinalizerInv, InFlightExists, FinalizerGuards, Held, ReleasedView
  <2>3. CASE ~api[m].fin
    <3>1. /\ api'[m] = [api[m] EXCEPT !.exists = FALSE]
          /\ \A n \in Machines \ {m} : api'[n] = api[n]
      BY <1>2, <2>3 DEF UserDelete, TypeInv, TypeOK
    <3>2. ~api'[m].exists
      BY <3>1 DEF TypeInv, TypeOK, Object
    <3>3. QED
      BY <1>0, <2>1, <2>3, <3>1, <3>2 DEF FinalizerInv, InFlightExists, FinalizerGuards, Held, ReleasedView
  <2>4. QED
    BY <2>2, <2>3
<1>3. CASE SetOwnerRef(m)
  <2>1. /\ cache' = cache /\ pc' = pc /\ cur' = cur
        /\ api'[m] = [api[m] EXCEPT !.owner = TRUE]
        /\ \A n \in Machines \ {m} : api'[n] = api[n]
    BY <1>3 DEF SetOwnerRef, TypeInv, TypeOK
  <2>2. /\ api'[m].st = api[m].st /\ api'[m].fin = api[m].fin
        /\ api'[m].exists = api[m].exists /\ api'[m].deleting = api[m].deleting
    BY <2>1 DEF TypeInv, TypeOK, Object
  <2>3. \A n \in Machines :
           /\ api'[n].st = api[n].st /\ api'[n].fin = api[n].fin
           /\ api'[n].exists = api[n].exists /\ api'[n].deleting = api[n].deleting
    BY <2>1, <2>2
  <2>4. InFlightExists' /\ FinalizerGuards'
    BY <1>0, <2>1, <2>3 DEF FinalizerInv, InFlightExists, FinalizerGuards
  <2>5. QED
    BY <2>1, <2>3, <2>4 DEF FinalizerInv, Held, ReleasedView
<1>4. CASE SetLabel(m) \/ BootstrapReady(m) \/ TenantReady \/ Marketplace
  BY <1>4, FinalizerQuiet DEF SetLabel, BootstrapReady, TenantReady, Marketplace
<1>5. CASE Crash
  <2>1. api' = api /\ cache' = api /\ pc' = "idle"
    BY <1>5 DEF Crash, GoIdle
  <2>2. QED
    BY <2>1 DEF FinalizerInv, InFlightExists, FinalizerGuards, Held, ReleasedView
<1>6. QED
  BY <1>1, <1>2, <1>3, <1>4, <1>5 DEF Environment

LEMMA FinalizerNext == TypeInv /\ FinalizerInv /\ [Next]_vars => FinalizerInv'
<1> SUFFICES ASSUME TypeInv, FinalizerInv, [Next]_vars PROVE FinalizerInv'
  OBVIOUS
<1>1. CASE UNCHANGED vars
  BY <1>1, FinalizerQuiet DEF vars
<1>2. CASE Step
  BY <1>2, FinalizerStep
<1>3. CASE \E m \in Machines : Reconcile(m) \/ CacheSync(m) \/ Environment(m)
  BY <1>3, FinalizerReconcile, FinalizerEnvironment
<1>4. CASE TenantReady \/ Marketplace
  BY <1>4, FinalizerQuiet DEF TenantReady, Marketplace, worker
<1>5. CASE Crash
  <2>1. api' = api /\ cache' = api /\ pc' = "idle"
    BY <1>5 DEF Crash, GoIdle
  <2>2. QED
    BY <2>1 DEF FinalizerInv, InFlightExists, FinalizerGuards, Held, ReleasedView
<1>6. QED
  BY <1>1, <1>2, <1>3, <1>4, <1>5 DEF Next

\* Whatever the cache shows and whatever fails, a VM recorded on an object is
\* protected by the finalizer that Reconcile added before ordering anything.
THEOREM FinalizerSafe == Spec => []FinalizerGuards
<1>1. TypeInv /\ FinalizerInv => FinalizerGuards
  BY DEF FinalizerInv
<1>2. QED
  BY TypeInit, TypeStep, FinalizerInit, FinalizerNext, <1>1, PTL DEF Spec

\* No patch of a reconciliation meets an object that is gone.
THEOREM InFlightSafe == Spec => []InFlightExists
<1>1. TypeInv /\ FinalizerInv => InFlightExists
  BY DEF FinalizerInv
<1>2. QED
  BY TypeInit, TypeStep, FinalizerInit, FinalizerNext, <1>1, PTL DEF Spec

----------------------------------------------------------------------------
(* The release of a machine *)

\* What Waldur's own records obey.
OrdersInv ==
    \A o \in OrderIds :
        /\ orders[o].type = "Create" => orders[o].res = o
        /\ orders[o].type = "Terminate" =>
              /\ orders[o].res \in OrderIds
              /\ orders[orders[o].res].type = "Create"
              /\ isOrderTerminal(orders[orders[o].res].state)
              /\ orders[o].state = "Done" => resources[orders[o].res].state = "Terminated"
        /\ resources[o].state = "Terminated" =>
              orders[o].type = "Create" /\ isOrderTerminal(orders[o].state)

\* A status is true of Waldur: it tracks a VM that was ordered, a termination
\* order it names is one for that VM, and one it records as Done is done.
StatusTrue(st, os) ==
    /\ st.uuid # Nil => os[st.uuid].type = "Create"
    /\ st.ord # Nil /\ st.ordType = "Terminate" =>
          /\ st.uuid # Nil
          /\ os[st.ord].type = "Terminate"
          /\ os[st.ord].res = st.uuid
          /\ st.ordState = "Done" => os[st.ord].state = "Done"

ReleaseInv ==
    /\ OrdersInv
    /\ \A m \in Machines : StatusTrue(api[m].st, orders)
    /\ pc # "idle" => StatusTrue(obj.st, orders) /\ base = api[cur].st
    /\ ReleasedOnlyWhenTerminated

\* No order is forgotten or changes its resource; Done and Terminated last.
Stable ==
    \A o \in OrderIds :
        /\ orders[o].type # "none" =>
              /\ orders'[o].type = orders[o].type
              /\ orders'[o].res = orders[o].res
              /\ isOrderTerminal(orders[o].state) => orders'[o].state = orders[o].state
        /\ resources[o].state = "Terminated" => resources'[o].state = "Terminated"

LEMMA ReleaseInit == Init => ReleaseInv
BY DEF Init, WaldurInit, NewObject, NoStatus, ReleaseInv, OrdersInv, StatusTrue,
       ReleasedOnlyWhenTerminated

LEMMA CreationKeepsOrders ==
    ASSUME TypeInv, OrdersInv, NEW o \in OrderIds, NEW m, NEW s, AcceptCreation(o, m, s, "none")
    PROVE  OrdersInv' /\ Stable
<1>1. /\ orders[o].type = "none"
      /\ orders'[o].type = "Create" /\ orders'[o].res = o
      /\ resources'[o].state = "Creating"
      /\ \A p \in OrderIds \ {o} : orders'[p] = orders[p] /\ resources'[p] = resources[p]
  BY DEF AcceptCreation, FreshOrder, TypeInv, TypeOK, WaldurTypeOK
<1>2. QED
  BY <1>1 DEF OrdersInv, Stable

LEMMA TerminationKeepsOrders ==
    ASSUME TypeInv, OrdersInv, NEW o \in OrderIds, NEW r \in OrderIds,
           orders[r].type = "Create", AcceptTermination(o, r)
    PROVE  /\ OrdersInv' /\ Stable
           /\ orders'[o].type = "Terminate" /\ orders'[o].res = r
<1>1. /\ orders[o].type = "none"
      /\ orders'[o].type = "Terminate" /\ orders'[o].res = r
      /\ orders'[o].state = "PendingProvider"
      /\ \A p \in OrderIds \ {o} : orders'[p] = orders[p]
  BY DEF AcceptTermination, FreshOrder, TypeInv, TypeOK, WaldurTypeOK
<1>2. /\ \A p \in OrderIds \ {r} : resources'[p] = resources[p]
      /\ resources'[r].state = "Terminated" <=> resources[r].state = "Terminated"
  <2>1. CASE Live(r)
    BY <2>1 DEF AcceptTermination, Live, TypeInv, TypeOK, WaldurTypeOK, Resource
  <2>2. CASE ~Live(r)
    BY <2>2 DEF AcceptTermination
  <2>3. QED BY <2>1, <2>2
<1>3. isOrderTerminal(orders[r].state)
  BY DEF AcceptTermination, CanTerminate, OrdersInv
<1>4. QED
  BY <1>1, <1>2, <1>3 DEF OrdersInv, Stable, isOrderTerminal

\* Waldur's own steps, faults included.
LEMMA ProgressKeepsOrders ==
    ASSUME TypeInv, OrdersInv, NEW o \in OrderIds,
           \/ StartOrder(o) \/ InstanceUp(o) \/ InstanceStopped(o)
           \/ FinishCreation(o) \/ FinishTermination(o)
           \/ FailOrder(o) \/ InstanceChange(o)
    PROVE  OrdersInv' /\ Stable
<1>0. orders \in [OrderIds -> Order] /\ resources \in [OrderIds -> Resource]
  BY DEF TypeInv, TypeOK, WaldurTypeOK
<1>1. CASE StartOrder(o)
  <2>1. /\ orders'[o].type = orders[o].type /\ orders'[o].res = orders[o].res
        /\ ~isOrderTerminal(orders[o].state) /\ ~isOrderTerminal(orders'[o].state)
        /\ \A p \in OrderIds \ {o} : orders'[p] = orders[p]
        /\ \A p \in OrderIds : resources'[p].state = resources[p].state
    BY <1>0, <1>1 DEF StartOrder, Order, Resource, isOrderTerminal
  <2>2. QED BY <2>1 DEF OrdersInv, Stable, isOrderTerminal
<1>2. CASE InstanceUp(o) \/ InstanceStopped(o) \/ InstanceChange(o)
  <2>1. /\ orders' = orders
        /\ \A p \in OrderIds : resources'[p].state = resources[p].state
    <3>1. CASE InstanceUp(o)
      BY <1>0, <3>1 DEF InstanceUp, Resource
    <3>2. CASE InstanceStopped(o)
      BY <1>0, <3>2 DEF InstanceStopped, Resource
    <3>3. CASE InstanceChange(o)
      BY <1>0, <3>3 DEF InstanceChange, Resource
    <3>4. QED BY <1>2, <3>1, <3>2, <3>3
  <2>2. QED BY <2>1 DEF OrdersInv, Stable
<1>3. CASE FinishCreation(o)
  <2>1. /\ orders[o].type = "Create" /\ orders'[o].type = "Create"
        /\ orders'[o].res = orders[o].res
        /\ ~isOrderTerminal(orders[o].state) /\ isOrderTerminal(orders'[o].state)
        /\ \A p \in OrderIds \ {o} : orders'[p] = orders[p]
    BY <1>0, <1>3 DEF FinishCreation, Order, isOrderTerminal
  <2>2. /\ resources'[o].state = "OK"
        /\ \A p \in OrderIds \ {o} : resources'[p] = resources[p]
    BY <1>0, <1>3 DEF FinishCreation, Resource
  <2>3. QED BY <2>1, <2>2 DEF OrdersInv, Stable
<1>4. CASE FinishTermination(o)
  <2>1. /\ orders[o].type = "Terminate" /\ orders'[o].type = "Terminate"
        /\ orders'[o].res = orders[o].res
        /\ ~isOrderTerminal(orders[o].state)
        /\ \A p \in OrderIds \ {o} : orders'[p] = orders[p]
    BY <1>0, <1>4 DEF FinishTermination, Order, isOrderTerminal
  <2>2. orders[o].res \in OrderIds
    BY <2>1 DEF OrdersInv
  <2>3. /\ resources'[orders[o].res].state = "Terminated"
        /\ \A p \in OrderIds \ {orders[o].res} : resources'[p] = resources[p]
    BY <1>0, <1>4, <2>2 DEF FinishTermination, Resource
  <2>4. QED BY <2>1, <2>2, <2>3 DEF OrdersInv, Stable
<1>5. CASE FailOrder(o)
  <2>1. /\ orders[o].type # "none" /\ ~isOrderTerminal(orders[o].state)
        /\ orders'[o].type = orders[o].type /\ orders'[o].res = orders[o].res
        /\ orders'[o].state # "Done" /\ isOrderTerminal(orders'[o].state)
        /\ \A p \in OrderIds \ {o} : orders'[p] = orders[p]
    BY <1>0, <1>5 DEF FailOrder, Order, isOrderTerminal
  <2>2. \A p \in OrderIds :
           resources'[p].state = "Terminated" <=> resources[p].state = "Terminated"
    <3>1. CASE ~Live(orders[o].res)
      BY <1>5, <3>1 DEF FailOrder
    <3>2. CASE Live(orders[o].res)
      <4>1. \A x \in Resource : Erred(x).state = "Erred"
        BY DEF Erred, Resource
      <4>2. resources[orders[o].res].state # "Terminated"
        BY <3>2 DEF Live
      <4>3. resources' = [resources EXCEPT ![orders[o].res] = Erred(@)]
        BY <1>5, <3>2 DEF FailOrder
      <4>4. QED
        BY <1>0, <4>1, <4>2, <4>3
    <3>3. QED BY <3>1, <3>2
  <2>3. QED BY <2>1, <2>2 DEF OrdersInv, Stable
<1>6. QED
  BY <1>1, <1>2, <1>3, <1>4, <1>5

LEMMA StatusStable ==
    ASSUME Stable, NEW st \in Status, StatusTrue(st, orders)
    PROVE  StatusTrue(st, orders')
BY DEF Stable, StatusTrue, Status, isOrderTerminal

LEMMA WaldurIdle ==
    ASSUME OrdersInv, UNCHANGED waldur
    PROVE  OrdersInv' /\ Stable
BY DEF OrdersInv, Stable, waldur

\* A step that patches no status and releases no object.
LEMMA ReleaseQuiet ==
    ASSUME TypeInv, ReleaseInv, OrdersInv', Stable,
           \A m \in Machines : api'[m].st = api[m].st /\ api'[m].exists = api[m].exists,
           pc' # "idle" => /\ cur' \in Machines
                           /\ base' = api[cur'].st
                           /\ StatusTrue(obj'.st, orders')
    PROVE  ReleaseInv'
<1>1. \A m \in Machines : api[m].st \in Status
  BY DEF TypeInv, TypeOK, Object
<1>2. \A m \in Machines : StatusTrue(api[m].st, orders')
  BY <1>1, StatusStable DEF ReleaseInv
<1>3. ReleasedOnlyWhenTerminated'
  BY <1>1 DEF ReleaseInv, ReleasedOnlyWhenTerminated, Stable, Status
<1>4. QED
  BY <1>2, <1>3 DEF ReleaseInv

\* A step of a reconciliation that goes on without touching api, base or cur.
LEMMA ReleaseGoesOn ==
    ASSUME TypeInv, ReleaseInv, OrdersInv', Stable, api' = api,
           \/ pc' = "idle"
           \/ /\ pc # "idle" /\ cur' = cur /\ base' = base
              /\ obj' = obj \/ StatusTrue(obj'.st, orders')
    PROVE  ReleaseInv'
<1>1. pc # "idle" => /\ obj.st \in Status /\ cur \in Machines
                     /\ base = api[cur].st /\ StatusTrue(obj.st, orders)
  BY DEF TypeInv, TypeOK, Object, ReleaseInv
<1>2. pc # "idle" => StatusTrue(obj.st, orders')
  BY <1>1, StatusStable
<1>3. QED
  BY <1>1, <1>2, ReleaseQuiet

LEMMA ReleaseReconcile ==
    ASSUME ReadOwnWrites, TypeInv, ReleaseInv, NEW m \in Machines, Reconcile(m)
    PROVE  ReleaseInv'
<1>1. pc = "idle" /\ cache[m].st = api[m].st /\ UNCHANGED waldur
  BY DEF Reconcile, ReconcileGone, AddFinalizer, ReconcileWait, BeginCreate, BeginRefresh,
         DeleteNeverProvisioned, DeletePoll, DeleteDone, BeginTerminate, Take, Fresh,
         Release, Begin, Settle, waldur
<1>2. OrdersInv' /\ Stable
  BY <1>1, WaldurIdle DEF ReleaseInv
<1>3. CASE ReconcileGone(m) \/ ReconcileWait(m) \/ AddFinalizer(m)
  <2>1. pc' = "idle"
    BY <1>1, <1>3 DEF ReconcileGone, ReconcileWait, AddFinalizer, Settle, worker
  <2>2. \A n \in Machines : api'[n].st = api[n].st /\ api'[n].exists = api[n].exists
    <3>1. api' = api \/ api' = [api EXCEPT ![m].fin = TRUE]
      BY <1>3 DEF ReconcileGone, ReconcileWait, AddFinalizer
    <3>2. api \in [Machines -> Object]
      BY DEF TypeInv, TypeOK
    <3>3. QED BY <3>1, <3>2 DEF Object
  <2>3. QED BY <1>2, <2>1, <2>2, ReleaseQuiet
<1>4. CASE BeginCreate(m) \/ BeginRefresh(m) \/ DeletePoll(m) \/ BeginTerminate(m)
  <2>1. /\ api' = api /\ cur' = m /\ base' = api[m].st /\ obj'.st = api[m].st
        /\ orders' = orders
    BY <1>1, <1>4 DEF BeginCreate, BeginRefresh, DeletePoll, BeginTerminate, Begin, waldur
  <2>2. StatusTrue(obj'.st, orders')
    BY <2>1 DEF ReleaseInv
  <2>3. QED BY <1>2, <2>1, <2>2, ReleaseQuiet
<1>5. CASE DeleteNeverProvisioned(m) \/ DeleteDone(m)
  <2>1. /\ pc' = "idle"
        /\ cache[m].st.uuid = Nil \/ TerminationDone(cache[m].st)
        /\ api' = [api EXCEPT ![m].fin = FALSE, ![m].exists = FALSE]
    BY <1>1, <1>5 DEF DeleteNeverProvisioned, DeleteDone, Release, Settle, worker
  <2>2. /\ \A n \in Machines : api'[n].st = api[n].st
        /\ \A n \in Machines \ {m} : api'[n].exists = api[n].exists
    BY <2>1 DEF TypeInv, TypeOK, Object
  <2>3. api[m].st \in Status /\ StatusTrue(api[m].st, orders)
    BY DEF TypeInv, TypeOK, Object, ReleaseInv
  <2>4. api[m].st.uuid # Nil => resources[api[m].st.uuid].state = "Terminated"
    BY <1>1, <2>1, <2>3 DEF TerminationDone, StatusTrue, Status, ReleaseInv, OrdersInv
  <2>5. ReleasedOnlyWhenTerminated'
    BY <1>1, <2>2, <2>4 DEF ReleaseInv, ReleasedOnlyWhenTerminated, waldur
  <2>6. \A n \in Machines : StatusTrue(api'[n].st, orders')
    BY <1>1, <2>2 DEF ReleaseInv, waldur
  <2>7. QED
    BY <1>2, <2>1, <2>5, <2>6 DEF ReleaseInv
<1>6. QED
  BY <1>3, <1>4, <1>5 DEF Reconcile

\* The steps of createVM: only an accepted order changes what Waldur holds.
LEMMA ReleaseCreate ==
    ASSUME TypeInv, ReleaseInv,
           \/ WaitBootstrap \/ PassVerbatim \/ StripFails \/ StoreToken \/ RancherPath
           \/ NewSecretID \/ MergeFails \/ PayloadNotReady \/ CreateCallFails \/ VaultAnswerLost
           \/ SubmitAccepted \/ SubmitRejected \/ SubmitLost
    PROVE  ReleaseInv'
<1> USE DEF Goto, Return, GoIdle, CreateFails
<1>1. CASE WaitBootstrap \/ PassVerbatim \/ StripFails \/ StoreToken \/ RancherPath
           \/ NewSecretID \/ MergeFails \/ PayloadNotReady \/ CreateCallFails \/ VaultAnswerLost
           \/ SubmitRejected
  <2>1. UNCHANGED waldur /\ api' = api
    BY <1>1 DEF WaitBootstrap, PassVerbatim, StripFails, StoreToken, RancherPath, NewSecretID,
           MergeFails, PayloadNotReady, CreateCallFails, VaultAnswerLost, SubmitRejected
  <2>2. pc' = "idle" \/ (pc # "idle" /\ cur' = cur /\ base' = base /\ obj' = obj)
    BY <1>1 DEF WaitBootstrap, PassVerbatim, StripFails, StoreToken, RancherPath, NewSecretID,
           MergeFails, PayloadNotReady, CreateCallFails, VaultAnswerLost, SubmitRejected
  <2>3. OrdersInv' /\ Stable
    BY <2>1, WaldurIdle DEF ReleaseInv
  <2>4. QED BY <2>1, <2>2, <2>3, ReleaseGoesOn
<1>2. CASE SubmitAccepted
  <2>1. PICK o \in OrderIds : /\ AcceptCreation(o, cur, sid, "none")
                             /\ obj' = [obj EXCEPT !.st = CreatedStatus(obj.st, o)]
    BY <1>2 DEF SubmitAccepted
  <2>2. OrdersInv' /\ Stable
    BY <2>1, CreationKeepsOrders DEF ReleaseInv
  <2>3. orders'[o].type = "Create"
    BY <2>1 DEF AcceptCreation, TypeInv, TypeOK, WaldurTypeOK
  <2>4. obj'.st = CreatedStatus(obj.st, o) /\ obj.st \in Status
    BY <2>1 DEF TypeInv, TypeOK, Object
  <2>5. StatusTrue(obj'.st, orders')
    BY <2>3, <2>4 DEF StatusTrue, CreatedStatus, Status
  <2>6. api' = api /\ pc # "idle" /\ cur' = cur /\ base' = base
    BY <1>2 DEF SubmitAccepted
  <2>7. QED BY <2>2, <2>5, <2>6, ReleaseGoesOn
<1>3. CASE SubmitLost
  <2>1. PICK o \in OrderIds : AcceptCreation(o, cur, sid, "none")
    BY <1>3 DEF SubmitLost
  <2>2. OrdersInv' /\ Stable
    BY <2>1, CreationKeepsOrders DEF ReleaseInv
  <2>3. api' = api /\ pc # "idle" /\ cur' = cur /\ base' = base /\ obj' = obj
    BY <1>3 DEF SubmitLost
  <2>4. QED BY <2>2, <2>3, ReleaseGoesOn
<1>4. QED
  BY <1>1, <1>2, <1>3

\* Nobody else writes the status of an object in flight, so the merge patch
\* writes exactly what the worker has.
LEMMA MergeIsNew ==
    ASSUME NEW old \in Status, NEW new \in Status
    PROVE  MergePatch(old, new, old) = new
<1>1. MergePatch(old, new, old) = [uuid |-> new.uuid, ord |-> new.ord, ordType |-> new.ordType,
         ordState |-> new.ordState, state |-> new.state, vm |-> new.vm, init |-> new.init,
         ready |-> new.ready]
  BY DEF MergePatch, Merged
<1>2. QED
  BY <1>1 DEF Status

LEMMA ReleasePatch ==
    ASSUME TypeInv, FinalizerInv, ReleaseInv, PatchStatus
    PROVE  ReleaseInv'
<1>1. /\ cur \in Machines /\ api[cur].exists /\ pc' = "idle"
      /\ UNCHANGED waldur
      /\ obj \in Object /\ base = api[cur].st /\ base \in Status /\ StatusTrue(obj.st, orders)
  BY DEF PatchStatus, Return, GoIdle, TypeInv, TypeOK, ReleaseInv, Object, waldur
<1>2. OrdersInv' /\ Stable
  BY <1>1, WaldurIdle DEF ReleaseInv
<1>3. FinalStatus(obj) \in Status
  BY <1>1, FinalStatusType
<1>4. MergePatch(base, FinalStatus(obj), api[cur].st) = FinalStatus(obj)
  BY <1>1, <1>3, MergeIsNew
<1>5. api' = [api EXCEPT ![cur].st = FinalStatus(obj)]
  BY <1>4 DEF PatchStatus
<1>6. /\ api'[cur].st = FinalStatus(obj)
      /\ api'[cur].exists
      /\ \A n \in Machines \ {cur} : api'[n] = api[n]
  BY <1>1, <1>5 DEF TypeInv, TypeOK, Object
<1>7. StatusTrue(FinalStatus(obj), orders)
  BY <1>1 DEF FinalStatus, setMachineReadyCondition, StatusTrue, Object, Status
<1>8. \A n \in Machines : StatusTrue(api'[n].st, orders')
  BY <1>1, <1>6, <1>7 DEF ReleaseInv, waldur
<1>9. ReleasedOnlyWhenTerminated'
  BY <1>1, <1>6 DEF ReleaseInv, ReleasedOnlyWhenTerminated, waldur
<1>10. QED
  BY <1>1, <1>2, <1>8, <1>9 DEF ReleaseInv

LEMMA ReleaseRefresh ==
    ASSUME TypeInv, FinalizerInv, ReleaseInv,
           \/ RefreshOrder \/ RefreshInstance \/ RefreshFails \/ AnswerPanics
           \/ PatchProviderID \/ PatchStatus \/ WriteFails
    PROVE  ReleaseInv'
<1> USE DEF Goto, Return, GoIdle
<1>1. CASE RefreshOrder
  <2>1. api' = api /\ pc # "idle" /\ cur' = cur /\ base' = base /\ UNCHANGED waldur
    BY <1>1 DEF RefreshOrder
  <2>2. OrdersInv' /\ Stable
    BY <2>1, WaldurIdle DEF ReleaseInv
  <2>3. obj.st \in Status /\ StatusTrue(obj.st, orders)
    BY <2>1 DEF TypeInv, TypeOK, Object, ReleaseInv
  <2>4. obj'.st = [obj.st EXCEPT !.ordState = orders[obj.st.ord].state]
    BY <1>1 DEF RefreshOrder, TypeInv, TypeOK, Object
  <2>5. StatusTrue(obj'.st, orders')
    BY <2>1, <2>3, <2>4 DEF StatusTrue, Status, waldur
  <2>6. QED BY <2>1, <2>2, <2>5, ReleaseGoesOn
<1>2. CASE RefreshInstance
  <2>1. api' = api /\ pc # "idle" /\ cur' = cur /\ base' = base /\ UNCHANGED waldur
    BY <1>2 DEF RefreshInstance
  <2>2. OrdersInv' /\ Stable
    BY <2>1, WaldurIdle DEF ReleaseInv
  <2>3. obj.st \in Status /\ StatusTrue(obj.st, orders)
    BY <2>1 DEF TypeInv, TypeOK, Object, ReleaseInv
  <2>4. obj'.st = InstanceStatus(obj.st)
    BY <1>2 DEF RefreshInstance, TypeInv, TypeOK, Object
  <2>5. /\ obj'.st.uuid = obj.st.uuid /\ obj'.st.ord = obj.st.ord
        /\ obj'.st.ordType = obj.st.ordType /\ obj'.st.ordState = obj.st.ordState
    BY <2>3, <2>4 DEF InstanceStatus, Status
  <2>6. StatusTrue(obj'.st, orders')
    BY <2>1, <2>3, <2>5 DEF StatusTrue, waldur
  <2>7. QED BY <2>1, <2>2, <2>6, ReleaseGoesOn
<1>3. CASE RefreshFails \/ AnswerPanics \/ WriteFails
  <2>1. /\ api' = api /\ UNCHANGED waldur
        /\ pc' = "idle" \/ (pc # "idle" /\ cur' = cur /\ base' = base /\ obj' = obj)
    BY <1>3 DEF RefreshFails, AnswerPanics, WriteFails
  <2>2. OrdersInv' /\ Stable
    BY <2>1, WaldurIdle DEF ReleaseInv
  <2>3. QED BY <2>1, <2>2, ReleaseGoesOn
<1>4. CASE PatchProviderID
  <2>1. /\ cur \in Machines /\ cur' = cur /\ base' = api[cur].st /\ UNCHANGED waldur
        /\ obj'.st = api[cur].st
    BY <1>4 DEF PatchProviderID, TypeInv, TypeOK, Object
  <2>2. OrdersInv' /\ Stable
    BY <2>1, WaldurIdle DEF ReleaseInv
  <2>3. \A n \in Machines : api'[n].st = api[n].st /\ api'[n].exists = api[n].exists
    BY <1>4 DEF PatchProviderID, TypeInv, TypeOK, Object
  <2>4. StatusTrue(obj'.st, orders')
    BY <2>1 DEF ReleaseInv, waldur
  <2>5. QED BY <2>1, <2>2, <2>3, <2>4, ReleaseQuiet
<1>5. CASE PatchStatus
  BY <1>5, ReleasePatch
<1>6. QED
  BY <1>1, <1>2, <1>3, <1>4, <1>5

LEMMA ReleaseTerminate ==
    ASSUME TypeInv, ReleaseInv,
           \/ StopVM \/ SubmitTermination \/ TerminationRefused \/ TerminationLost
           \/ TerminateCallFails
    PROVE  ReleaseInv'
<1> USE DEF Goto, Return, GoIdle
<1>0. /\ pc = "terminate" /\ api' = api
      /\ obj.st \in Status /\ obj.st.uuid \in OrderIds /\ obj.st.uuid # Nil
      /\ StatusTrue(obj.st, orders)
      /\ orders[obj.st.uuid].type = "Create"
  BY DEF StopVM, SubmitTermination, TerminationRefused, TerminationLost, TerminateCallFails,
         TypeInv, TypeOK, WorkerOK, Object, Status, ReleaseInv, StatusTrue
<1>1. CASE StopVM
  <2>1. orders' = orders
    BY <1>1 DEF StopVM
  <2>2. \A p \in OrderIds : resources'[p].state = resources[p].state
    BY <1>1 DEF StopVM, AcceptStop, TypeInv, TypeOK, WaldurTypeOK, Resource
  <2>3. OrdersInv' /\ Stable
    BY <2>1, <2>2 DEF ReleaseInv, OrdersInv, Stable
  <2>4. QED BY <1>0, <1>1, <2>3, ReleaseGoesOn DEF StopVM
<1>2. CASE SubmitTermination
  <2>1. PICK o \in OrderIds : /\ AcceptTermination(o, obj.st.uuid)
                             /\ obj' = [obj EXCEPT !.st = TerminatingStatus(obj.st, o)]
    BY <1>2 DEF SubmitTermination
  <2>2. OrdersInv' /\ Stable /\ orders'[o].type = "Terminate" /\ orders'[o].res = obj.st.uuid
    BY <1>0, <2>1, TerminationKeepsOrders DEF ReleaseInv
  <2>3. obj'.st = TerminatingStatus(obj.st, o)
    BY <2>1 DEF TypeInv, TypeOK, Object
  <2>4. orders'[obj.st.uuid].type = "Create"
    BY <1>0, <2>2 DEF Stable
  <2>5. StatusTrue(obj'.st, orders')
    BY <1>0, <2>2, <2>3, <2>4 DEF StatusTrue, TerminatingStatus, Status
  <2>6. QED BY <1>0, <1>2, <2>2, <2>5, ReleaseGoesOn DEF SubmitTermination
<1>3. CASE TerminationRefused \/ TerminateCallFails
  <2>1. UNCHANGED waldur /\ pc' = "idle"
    BY <1>3 DEF TerminationRefused, TerminateCallFails
  <2>2. OrdersInv' /\ Stable
    BY <2>1, WaldurIdle DEF ReleaseInv
  <2>3. QED BY <1>0, <2>1, <2>2, ReleaseGoesOn
<1>4. CASE TerminationLost
  <2>1. PICK o \in OrderIds : AcceptTermination(o, obj.st.uuid)
    BY <1>4 DEF TerminationLost
  <2>2. OrdersInv' /\ Stable
    BY <1>0, <2>1, TerminationKeepsOrders DEF ReleaseInv
  <2>3. QED BY <1>0, <1>4, <2>2, ReleaseGoesOn DEF TerminationLost
<1>5. QED
  BY <1>1, <1>2, <1>3, <1>4

LEMMA ReleaseEnvironment ==
    ASSUME TypeInv, FinalizerInv, ReleaseInv, NEW m \in Machines,
           CacheSync(m) \/ Environment(m)
    PROVE  ReleaseInv'
<1>0. /\ UNCHANGED waldur /\ pc' = pc /\ cur' = cur /\ base' = base /\ obj' = obj
      /\ pc # "idle" => cur \in Machines
  BY DEF CacheSync, Environment, UserDelete, SetOwnerRef, SetLabel, BootstrapReady, worker,
         TypeInv, TypeOK
<1>1. OrdersInv' /\ Stable /\ orders' = orders
  BY <1>0, WaldurIdle DEF ReleaseInv, waldur
<1>2. CASE CacheSync(m) \/ SetLabel(m) \/ BootstrapReady(m) \/ SetOwnerRef(m)
  <2>1. \A n \in Machines : api'[n].st = api[n].st /\ api'[n].exists = api[n].exists
    <3>1. CASE SetOwnerRef(m)
      BY <3>1 DEF SetOwnerRef, TypeInv, TypeOK, Object
    <3>2. CASE ~SetOwnerRef(m)
      BY <1>2, <3>2 DEF CacheSync, SetLabel, BootstrapReady
    <3>3. QED BY <3>1, <3>2
  <2>2. QED BY <1>0, <1>1, <2>1, ReleaseQuiet DEF ReleaseInv
<1>3. CASE UserDelete(m)
  <2>1. CASE api[m].fin
    <3>1. \A n \in Machines : api'[n].st = api[n].st /\ api'[n].exists = api[n].exists
      BY <1>3, <2>1 DEF UserDelete, TypeInv, TypeOK, Object
    <3>2. QED BY <1>0, <1>1, <3>1, ReleaseQuiet DEF ReleaseInv
  <2>2. CASE ~api[m].fin
    <3>1. api[m].st.uuid = Nil
      BY <1>3, <2>2 DEF UserDelete, FinalizerInv, FinalizerGuards
    <3>2. /\ \A n \in Machines : api'[n].st = api[n].st
          /\ \A n \in Machines \ {m} : api'[n].exists = api[n].exists
      BY <1>3, <2>2 DEF UserDelete, TypeInv, TypeOK, Object
    <3>3. ReleasedOnlyWhenTerminated'
      BY <1>0, <3>1, <3>2 DEF ReleaseInv, ReleasedOnlyWhenTerminated, waldur
    <3>4. QED
      BY <1>0, <1>1, <3>2, <3>3 DEF ReleaseInv
  <2>3. QED BY <2>1, <2>2
<1>4. QED
  BY <1>2, <1>3 DEF CacheSync, Environment

LEMMA ReleaseMarketplace ==
    ASSUME TypeInv, ReleaseInv, Marketplace
    PROVE  ReleaseInv'
<1>1. OrdersInv' /\ Stable
  BY ProgressKeepsOrders DEF Marketplace, WaldurProgress, OrderProgress, ReleaseInv
<1>2. api' = api /\ pc' = pc /\ cur' = cur /\ base' = base /\ obj' = obj
  BY DEF Marketplace, worker
<1>3. QED
  BY <1>1, <1>2, ReleaseGoesOn

LEMMA ReleaseNext ==
    ASSUME ReadOwnWrites
    PROVE  TypeInv /\ FinalizerInv /\ ReleaseInv /\ [Next]_vars => ReleaseInv'
<1> SUFFICES ASSUME TypeInv, FinalizerInv, ReleaseInv, [Next]_vars PROVE ReleaseInv'
  OBVIOUS
<1>1. CASE UNCHANGED vars \/ TenantReady
  <2>1. UNCHANGED waldur /\ api' = api /\ pc' = pc /\ cur' = cur /\ base' = base /\ obj' = obj
    BY <1>1 DEF vars, TenantReady, waldur, worker
  <2>2. QED BY <2>1, WaldurIdle, ReleaseGoesOn DEF ReleaseInv
<1>2. CASE Step
  BY <1>2, ReleaseCreate, ReleaseRefresh, ReleaseTerminate DEF Step
<1>3. CASE \E m \in Machines : Reconcile(m) \/ CacheSync(m) \/ Environment(m)
  BY <1>3, ReleaseReconcile, ReleaseEnvironment
<1>4. CASE Marketplace
  BY <1>4, ReleaseMarketplace
<1>5. CASE Crash
  <2>1. UNCHANGED waldur /\ api' = api /\ pc' = "idle"
    BY <1>5 DEF Crash, GoIdle
  <2>2. QED BY <2>1, WaldurIdle, ReleaseGoesOn DEF ReleaseInv
<1>6. QED
  BY <1>1, <1>2, <1>3, <1>4, <1>5 DEF Next

\* When a reconciliation sees what earlier ones wrote, reconcileDelete removes
\* the finalizer from a machine with a VM only once Waldur has terminated that
\* VM, whatever calls, patches and orders failed on the way.
THEOREM ReleaseSafe ==
    ASSUME ReadOwnWrites
    PROVE  Spec => []ReleasedOnlyWhenTerminated
<1>1. TypeInv /\ FinalizerInv /\ ReleaseInv => ReleasedOnlyWhenTerminated
  BY DEF ReleaseInv
<1>2. TypeInv /\ FinalizerInv /\ ReleaseInv /\ [Next]_vars => ReleaseInv'
  BY ReleaseNext
<1>3. QED
  BY TypeInit, TypeStep, FinalizerInit, FinalizerNext, ReleaseInit, <1>1, <1>2, PTL DEF Spec

============================================================================
