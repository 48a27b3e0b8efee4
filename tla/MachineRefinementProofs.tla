---------------------- MODULE MachineRefinementProofs ----------------------
(***************************************************************************)
(* Machine and VM keep the promise of ManagedResource as long as no fault  *)
(* hides an accepted order: no restart, no failed status patch and no lost *)
(* answer.  Failing reads, panics, rejected and failing orders and broken  *)
(* instances are all allowed.                                              *)
(***************************************************************************)
EXTENDS MachineTrackProofs

NothingHidden == Faults \cap {"crash", "write", "lost"} = {}

\* Waldur's resource r is recorded on the machine it was ordered for, or about
\* to be.
Known(r) ==
    LET m == resources[r].owner IN
    \/ api[m].st.uuid = r
    \/ cur = m /\ pc = "patchStatus" /\ obj.st.uuid = r

KnownInv ==
    \A r \in OrderIds :
        /\ resources[r].owner # Nil <=> orders[r].type = "Create"
        /\ resources[r].state # "none" => orders[r].type = "Create"
        /\ orders[r].type = "Create" => Known(r)
        /\ orders[r].type = "Terminate" => api[resources[orders[r].res].owner].deleting

\* No resource is made, and none is given up by anything but a termination.
KeepsResources ==
    \A r \in OrderIds :
        /\ resources'[r].owner = resources[r].owner
        /\ orders'[r].type = "Create" <=> orders[r].type = "Create"
        /\ resources'[r].state # "none" =>
              resources[r].state # "none" \/ orders[r].type = "Create"
        /\ resources'[r].state = "Terminated" =>
              \/ resources[r].state = "Terminated"
              \/ Marketplace /\ \E o \in OrderIds : FinishTermination(o) /\ r = orders[o].res

LEMMA ProgressKeepsResources ==
    ASSUME TypeInv, OrdersInv, Marketplace, NEW o \in OrderIds,
           \/ StartOrder(o) \/ InstanceUp(o) \/ InstanceStopped(o)
           \/ FinishCreation(o) \/ FinishTermination(o)
           \/ FailOrder(o) \/ InstanceChange(o)
    PROVE  KeepsResources
<1>0. orders \in [OrderIds -> Order] /\ resources \in [OrderIds -> Resource]
  BY DEF TypeInv, TypeOK, WaldurTypeOK
<1>1. \A r \in OrderIds : /\ resources'[r].owner = resources[r].owner
                          /\ orders'[r].type = orders[r].type
  BY ProgressMakesNoOrder, ProgressKeepsIdentity
<1>2. CASE FinishTermination(o)
  <2>1. orders[o].type = "Terminate" /\ orders[o].res \in OrderIds
        /\ orders[orders[o].res].type = "Create"
    BY <1>2 DEF FinishTermination, OrdersInv
  <2>2. \A r \in OrderIds : r # orders[o].res => resources'[r] = resources[r]
    BY <1>0, <1>2 DEF FinishTermination
  <2>3. QED BY <1>1, <1>2, <2>1, <2>2 DEF KeepsResources
<1>3. CASE FinishCreation(o)
  <2>1. /\ orders[o].type = "Create" /\ resources'[o].state = "OK"
        /\ \A r \in OrderIds : r # o => resources'[r] = resources[r]
    BY <1>0, <1>3 DEF FinishCreation, Resource
  <2>2. QED BY <1>1, <2>1 DEF KeepsResources
<1>4. CASE StartOrder(o) \/ InstanceUp(o) \/ InstanceStopped(o) \/ InstanceChange(o)
  <2>1. \A r \in OrderIds : resources'[r].state = resources[r].state
    <3>1. CASE StartOrder(o)
      <4>1. resources' = resources \/ resources' = [resources EXCEPT ![o].core = "CREATING"]
        BY <3>1 DEF StartOrder
      <4>2. QED BY <1>0, <4>1 DEF Resource
    <3>2. CASE InstanceUp(o)
      BY <1>0, <3>2 DEF InstanceUp, Resource
    <3>3. CASE InstanceStopped(o)
      BY <1>0, <3>3 DEF InstanceStopped, Resource
    <3>4. CASE InstanceChange(o)
      BY <1>0, <3>4 DEF InstanceChange, Resource
    <3>5. QED BY <1>4, <3>1, <3>2, <3>3, <3>4
  <2>2. QED BY <1>1, <2>1 DEF KeepsResources
<1>5. CASE FailOrder(o)
  <2>1. \A x \in Resource : Erred(x).state = "Erred"
    BY DEF Erred, Resource
  <2>2. \/ resources' = resources
        \/ Live(orders[o].res) /\ resources' = [resources EXCEPT ![orders[o].res] = Erred(@)]
    BY <1>5 DEF FailOrder
  <2>3. \A r \in OrderIds : \/ resources'[r].state = resources[r].state
                            \/ resources[r].state # "none" /\ resources'[r].state = "Erred"
    BY <1>0, <2>1, <2>2 DEF Live
  <2>4. QED BY <1>1, <2>3 DEF KeepsResources
<1>6. QED BY <1>2, <1>3, <1>4, <1>5

LEMMA OthersKeepResources ==
    ASSUME TypeInv, OrdersInv, [Next]_vars, ~SubmitAccepted, ~SubmitLost
    PROVE  KeepsResources
<1>1. CASE UNCHANGED waldur
  BY <1>1 DEF KeepsResources, waldur
<1>2. CASE Marketplace
  BY <1>2, ProgressKeepsResources DEF Marketplace, WaldurProgress, OrderProgress
<1>3. CASE StopVM
  <2>1. /\ orders' = orders
        /\ \A r \in OrderIds : /\ resources'[r].owner = resources[r].owner
                               /\ resources'[r].state = resources[r].state
    BY <1>3 DEF StopVM, AcceptStop, TypeInv, TypeOK, WaldurTypeOK, Resource
  <2>2. QED BY <2>1 DEF KeepsResources
<1>4. CASE SubmitTermination \/ TerminationLost
  <2>1. PICK o \in OrderIds : AcceptTermination(o, obj.st.uuid)
    BY <1>4 DEF SubmitTermination, TerminationLost
  <2>2. /\ orders[o].type = "none" /\ orders'[o].type = "Terminate"
        /\ \A p \in OrderIds \ {o} : orders'[p] = orders[p]
    BY <2>1 DEF AcceptTermination, FreshOrder, TypeInv, TypeOK, WaldurTypeOK
  <2>3. \/ resources' = resources
        \/ /\ Live(obj.st.uuid)
           /\ resources' = [resources EXCEPT ![obj.st.uuid].state = "Terminating"]
    BY <2>1 DEF AcceptTermination
  <2>4. \A r \in OrderIds : /\ resources'[r].owner = resources[r].owner
                            /\ \/ resources'[r].state = resources[r].state
                               \/ /\ resources[r].state # "none"
                                  /\ resources'[r].state = "Terminating"
    BY <2>3 DEF TypeInv, TypeOK, WaldurTypeOK, Resource, Live
  <2>5. QED BY <2>2, <2>4 DEF KeepsResources
<1>5. QED
  BY <1>1, <1>2, <1>3, <1>4, WaldurActs

\* A deletion is never taken back.
LEMMA DeletingStep ==
    ASSUME TypeInv, ReleaseInv, [Next]_vars, NEW m \in Machines, api[m].deleting
    PROVE  api'[m].deleting
BY ApiStep, RemovalKeeps, StatusWritten, ProviderIDWritten

\* As long as the worker does not patch it, what it holds stays in its hands.
LEMMA HandStep ==
    ASSUME NothingHidden, [Next]_vars, pc = "patchStatus", ~PatchStatus
    PROVE  pc' = pc /\ cur' = cur /\ obj' = obj
<1>1. CASE Step
  BY <1>1 DEF Step, WaitBootstrap, PassVerbatim, StripFails, StoreToken, RancherPath, NewSecretID,
         MergeFails, PayloadNotReady, CreateCallFails, VaultAnswerLost, SubmitRejected,
         SubmitAccepted, SubmitLost, RefreshOrder, RefreshInstance, RefreshFails, AnswerPanics,
         PatchProviderID, WriteFails, StopVM, SubmitTermination, TerminationRefused,
         TerminationLost, TerminateCallFails, NothingHidden, Fault
<1>2. CASE \E m \in Machines : Reconcile(m) \/ CacheSync(m) \/ Environment(m)
  BY <1>2 DEF Reconcile, ReconcileGone, AddFinalizer, ReconcileWait, BeginCreate, BeginRefresh,
         DeleteNeverProvisioned, DeletePoll, DeleteDone, BeginTerminate, Take, CacheSync,
         Environment, UserDelete, SetOwnerRef, SetLabel, BootstrapReady, worker
<1>3. CASE UNCHANGED vars \/ TenantReady \/ Marketplace \/ Crash
  BY <1>3 DEF vars, TenantReady, Marketplace, Crash, worker, NothingHidden, Fault
<1>4. QED
  BY <1>1, <1>2, <1>3 DEF Next

LEMMA StableStep ==
    ASSUME TypeInv, ReleaseInv, [Next]_vars
    PROVE  Stable
<1>1. CASE UNCHANGED waldur
  BY <1>1, WaldurIdle DEF ReleaseInv
<1>2. CASE Marketplace
  BY <1>2, ProgressKeepsOrders DEF Marketplace, WaldurProgress, OrderProgress, ReleaseInv
<1>3. CASE SubmitAccepted \/ SubmitLost
  BY <1>3, CreationKeepsOrders DEF SubmitAccepted, SubmitLost, ReleaseInv
<1>4. CASE StopVM
  BY <1>4 DEF StopVM, AcceptStop, TypeInv, TypeOK, WaldurTypeOK, Resource, Stable
<1>5. CASE SubmitTermination \/ TerminationLost
  <2>1. pc = "terminate" /\ \E o \in OrderIds : AcceptTermination(o, obj.st.uuid)
    BY <1>5 DEF SubmitTermination, TerminationLost
  <2>2. obj.st.uuid \in OrderIds /\ orders[obj.st.uuid].type = "Create"
    BY <2>1 DEF TypeInv, TypeOK, WorkerOK, Object, Status, ReleaseInv, StatusTrue
  <2>3. QED BY <2>1, <2>2, TerminationKeepsOrders DEF ReleaseInv
<1>6. QED
  BY <1>1, <1>2, <1>3, <1>4, <1>5, WaldurActs

LEMMA KnownInit == Init => KnownInv
BY DEF Init, WaldurInit, KnownInv

\* A VM was ordered for some machine.
LEMMA KnownOwner ==
    ASSUME TypeInv, KnownInv, NEW r \in OrderIds, orders[r].type = "Create"
    PROVE  resources[r].owner \in Machines
BY DEF TypeInv, TypeOK, WaldurTypeOK, Resource, KnownInv

\* An order that createVM records is the first one for its machine.
LEMMA KnownBuy ==
    ASSUME MachineInv, KnownInv, SubmitAccepted
    PROVE  \E o \in OrderIds :
              /\ orders[o].type = "none" /\ orders'[o].type = "Create"
              /\ resources'[o].owner = cur /\ resources'[o].state = "Creating"
              /\ \A p \in OrderIds \ {o} : orders'[p] = orders[p] /\ resources'[p] = resources[p]
              /\ cur \in Machines /\ api[cur].exists
              /\ \A r \in OrderIds : resources[r].owner # cur
              /\ api' = api /\ cur' = cur /\ pc' = "patchStatus" /\ obj'.st.uuid = o
<1>1. PICK o \in OrderIds : /\ AcceptCreation(o, cur, sid, "none")
                           /\ obj' = [obj EXCEPT !.st = CreatedStatus(obj.st, o)]
  BY DEF SubmitAccepted
<1>2. /\ orders[o].type = "none" /\ orders'[o].type = "Create"
      /\ resources'[o].owner = cur /\ resources'[o].state = "Creating"
      /\ \A p \in OrderIds \ {o} : orders'[p] = orders[p] /\ resources'[p] = resources[p]
  BY <1>1 DEF AcceptCreation, FreshOrder, MachineInv, TypeInv, TypeOK, WaldurTypeOK
<1>3. /\ pc = "submit" /\ cur \in Machines /\ api[cur].exists
      /\ api[cur].st.uuid = Nil
  BY NilAssumption DEF SubmitAccepted, MachineInv, TypeInv, TypeOK, FinalizerInv, InFlightExists,
     ReleaseInv, TrackInv, InHand
<1>4. \A r \in OrderIds : resources[r].owner # cur
  BY <1>3, NilAssumption DEF KnownInv, Known
<1>5. obj'.st.uuid = o
  <2>1. obj \in Object /\ obj.st \in Status
    BY DEF MachineInv, TypeInv, TypeOK, Object
  <2>2. obj'.st = CreatedStatus(obj.st, o)
    BY <1>1, <2>1 DEF Object
  <2>3. QED BY <2>1, <2>2 DEF CreatedStatus, Status
<1>6. api' = api /\ cur' = cur /\ pc' = "patchStatus"
  BY DEF SubmitAccepted, Goto
<1>7. QED BY <1>2, <1>3, <1>4, <1>5, <1>6

LEMMA KnownNext ==
    ASSUME NothingHidden
    PROVE  MachineInv /\ KnownInv /\ [Next]_vars => KnownInv'
<1> SUFFICES ASSUME MachineInv, KnownInv, [Next]_vars PROVE KnownInv'
  OBVIOUS
<1>0. TypeInv /\ ReleaseInv /\ OrdersInv /\ Stable /\ ~SubmitLost
  BY StableStep DEF MachineInv, ReleaseInv, SubmitLost, Fault, NothingHidden
<1>1. CASE SubmitAccepted
  <2>1. PICK o \in OrderIds :
              /\ orders[o].type = "none" /\ orders'[o].type = "Create"
              /\ resources'[o].owner = cur /\ resources'[o].state = "Creating"
              /\ \A p \in OrderIds \ {o} : orders'[p] = orders[p] /\ resources'[p] = resources[p]
              /\ cur \in Machines /\ api[cur].exists
              /\ \A r \in OrderIds : resources[r].owner # cur
              /\ api' = api /\ cur' = cur /\ pc' = "patchStatus" /\ obj'.st.uuid = o
    BY <1>1, KnownBuy
  <2>2. pc = "submit"
    BY <1>1 DEF SubmitAccepted
  <2>3. \A r \in OrderIds \ {o} : orders[r].type = "Create" => Known(r)'
    BY <2>1, <2>2 DEF KnownInv, Known
  <2>4. Known(o)'
    BY <2>1 DEF Known
  <2>5. \A r \in OrderIds : orders'[r].type = "Terminate" =>
              api'[resources'[orders'[r].res].owner].deleting
    BY <1>0, <2>1 DEF KnownInv, OrdersInv
  <2>6. QED BY <2>1, <2>3, <2>4, <2>5, NilAssumption DEF KnownInv
<1>2. CASE ~SubmitAccepted
  <2>1. KeepsResources
    BY <1>0, <1>2, OthersKeepResources
  <2>2. ASSUME NEW r \in OrderIds, orders[r].type = "Create" PROVE Known(r)'
    <3>1. resources[r].owner \in Machines /\ resources'[r].owner = resources[r].owner
      BY <1>0, <2>1, <2>2, KnownOwner DEF KeepsResources
    <3>2. CASE api[resources[r].owner].st.uuid = r
      <4>1. r # Nil
        BY NilAssumption
      <4>2. QED BY <3>1, <3>2, <4>1, TrackedStep DEF Known
    <3>3. CASE cur = resources[r].owner /\ pc = "patchStatus" /\ obj.st.uuid = r
      <4>1. CASE PatchStatus
        BY <1>0, <3>1, <3>3, <4>1, StatusWritten DEF Known
      <4>2. CASE ~PatchStatus
        BY <3>1, <3>3, <4>2, HandStep DEF Known
      <4>3. QED BY <4>1, <4>2
    <3>4. QED BY <2>2, <3>2, <3>3 DEF KnownInv, Known
  <2>3. ASSUME NEW o \in OrderIds, orders'[o].type = "Terminate"
        PROVE  api'[resources'[orders'[o].res].owner].deleting
    <3>1. CASE orders[o].type = "none"
      <4>1. pc = "terminate" /\ orders'[o].res = obj.st.uuid
        BY <1>0, <2>3, <3>1, NewTermination
      <4>2. /\ cur \in Machines /\ obj.st.uuid \in OrderIds
            /\ resources[obj.st.uuid].owner = cur /\ api[cur].deleting
        BY <4>1 DEF MachineInv, TypeInv, TypeOK, WorkerOK, Object, Status, TrackInv, InHand, OwnVM
      <4>3. QED BY <1>0, <2>1, <4>1, <4>2, DeletingStep DEF KeepsResources
    <3>2. CASE orders[o].type # "none"
      <4>1. orders[o].type = "Terminate" /\ orders'[o].res = orders[o].res
        BY <1>0, <2>3, <3>2 DEF Stable
      <4>2. orders[o].res \in OrderIds /\ orders[orders[o].res].type = "Create"
        BY <1>0, <4>1 DEF OrdersInv
      <4>3. resources[orders[o].res].owner \in Machines
            /\ resources'[orders[o].res].owner = resources[orders[o].res].owner
        BY <1>0, <2>1, <4>2, KnownOwner DEF KeepsResources
      <4>4. QED BY <1>0, <4>1, <4>3, DeletingStep DEF KnownInv
    <3>3. QED BY <3>1, <3>2
  <2>4. QED BY <2>1, <2>2, <2>3 DEF KnownInv, KeepsResources
<1>3. QED BY <1>1, <1>2

LEMMA KnownNoOrphan == MachineInv /\ KnownInv => NoOrphan
<1> SUFFICES ASSUME MachineInv, KnownInv, NEW r \in OrderIds, Live(r)
             PROVE  /\ api[resources[r].owner].exists
                    /\ \/ api[resources[r].owner].st.uuid = r
                       \/ cur = resources[r].owner /\ pc = "patchStatus" /\ obj.st.uuid = r
  BY DEF NoOrphan
<1>1. orders[r].type = "Create" /\ Known(r) /\ resources[r].owner \in Machines
  BY KnownOwner DEF KnownInv, Live, MachineInv
<1>2. api[resources[r].owner].exists
  BY <1>1, NilAssumption DEF Known, Live, MachineInv, FinalizerInv, InFlightExists, ReleaseInv,
     ReleasedOnlyWhenTerminated
<1>3. QED BY <1>1, <1>2 DEF Known

\* When a reconciliation sees what earlier ones wrote and no fault hides an
\* accepted order, every VM Waldur holds is recorded on a machine that exists,
\* or in the hands of the reconciliation about to record it.
THEOREM NoVMOrphaned ==
    ASSUME ReadOwnWrites, NothingHidden
    PROVE  Spec => []NoOrphan
BY KnownNoOrphan, KnownInit, KnownNext, MachineInductive, PTL DEF Spec

----------------------------------------------------------------------------
(* The refinement, action by action. *)

LEMMA LifecycleInit == Init => Lifecycle!Init
BY NilAssumption DEF Init, WaldurInit, NewObject, Lifecycle!Init

\* What the abstract specification sees of a step that changes no object's
\* existence or deletion and gives up no VM.
LEMMA LifecycleStutter ==
    ASSUME \A m \in Machines : /\ api'[m].exists = api[m].exists
                               /\ api'[m].deleting = api[m].deleting,
           \A r \in OrderIds : /\ resources'[r].owner = resources[r].owner
                               /\ resources'[r].state = "Terminated"
                                     <=> resources[r].state = "Terminated"
    PROVE  UNCHANGED Lifecycle!vars
BY DEF Lifecycle!vars

LEMMA LifecycleBuy ==
    ASSUME MachineInv, KnownInv, SubmitAccepted
    PROVE  \E m \in Machines : Lifecycle!Buy(m)
<1>1. PICK o \in OrderIds :
            /\ orders[o].type = "none" /\ orders'[o].type = "Create"
            /\ resources'[o].owner = cur /\ resources'[o].state = "Creating"
            /\ \A p \in OrderIds \ {o} : orders'[p] = orders[p] /\ resources'[p] = resources[p]
            /\ cur \in Machines /\ api[cur].exists
            /\ \A r \in OrderIds : resources[r].owner # cur
            /\ api' = api /\ cur' = cur /\ pc' = "patchStatus" /\ obj'.st.uuid = o
  BY KnownBuy
<1>2. resources[o].owner = Nil /\ resources[o].state # "Terminated"
  BY <1>1 DEF KnownInv
<1>3. \A m \in Machines : resources[o].owner # m
  BY <1>2, NilAssumption
<1>4. PICK m \in Machines : m = cur
  BY <1>1
<1>5. [n \in Machines |-> {r \in OrderIds : resources'[r].owner = n}]
        = [[n \in Machines |-> {r \in OrderIds : resources[r].owner = n}] EXCEPT ![m] = {o}]
  <2>1. {r \in OrderIds : resources'[r].owner = m} = {o}
    BY <1>1, <1>4
  <2>2. \A n \in Machines \ {m} : {r \in OrderIds : resources'[r].owner = n}
                                    = {r \in OrderIds : resources[r].owner = n}
    BY <1>1, <1>3, <1>4
  <2>3. QED BY <2>1, <2>2
<1>6. {r \in OrderIds : resources'[r].state = "Terminated"}
        = {r \in OrderIds : resources[r].state = "Terminated"}
  BY <1>1, <1>2
<1>7. Lifecycle!Buy(m)
  BY <1>1, <1>3, <1>4, <1>5, <1>6, ZenonT(60) DEF Lifecycle!Buy
<1>8. QED BY <1>7

\* The end of a termination gives up a VM that was not given up before.
LEMMA LifecycleGiveUp ==
    ASSUME MachineInv, KnownInv, KeepsResources, api' = api,
           NEW o \in OrderIds, FinishTermination(o)
    PROVE  UNCHANGED Lifecycle!vars \/ \E m \in Machines : Lifecycle!GiveUp(m)
<1>1. PICK r \in OrderIds : r = orders[o].res /\ orders[o].type = "Terminate"
                          /\ orders[r].type = "Create"
  BY DEF FinishTermination, MachineInv, ReleaseInv, OrdersInv
<1>2. PICK m \in Machines : m = resources[r].owner /\ api[m].deleting
  BY <1>1, KnownOwner DEF KnownInv, MachineInv
<1>3. /\ resources'[r].state = "Terminated"
      /\ \A p \in OrderIds : p # r => resources'[p] = resources[p]
  BY <1>1 DEF FinishTermination, MachineInv, TypeInv, TypeOK, WaldurTypeOK, Resource
<1>4. \A p \in OrderIds : resources'[p].owner = resources[p].owner
  BY DEF KeepsResources
<1>5. CASE resources[r].state = "Terminated"
  BY <1>3, <1>4, <1>5, LifecycleStutter
<1>6. CASE resources[r].state # "Terminated"
  <2>1. {p \in OrderIds : resources'[p].state = "Terminated"}
           = {p \in OrderIds : resources[p].state = "Terminated"} \cup {r}
    BY <1>1, <1>3
  <2>2. [n \in Machines |-> {p \in OrderIds : resources'[p].owner = n}]
           = [n \in Machines |-> {p \in OrderIds : resources[p].owner = n}]
    BY <1>4
  <2>3. Lifecycle!GiveUp(m)
    BY <1>1, <1>2, <1>6, <2>1, <2>2 DEF Lifecycle!GiveUp
  <2>4. QED BY <1>2, <2>3
<1>7. QED BY <1>5, <1>6

\* A machine that is not in flight and tracks no VM, or a terminated one, has
\* none that is not given up.
LEMMA NothingLeft ==
    ASSUME MachineInv, KnownInv, NEW m \in Machines, pc = "idle" \/ cur # m,
           api[m].st.uuid # Nil => resources[api[m].st.uuid].state = "Terminated"
    PROVE  \A r \in OrderIds : resources[r].owner = m => resources[r].state = "Terminated"
BY NilAssumption DEF KnownInv, Known

LEMMA LifecycleRemoval ==
    ASSUME MachineInv, KnownInv, [Next]_vars, NEW m \in Machines,
           DeleteNeverProvisioned(m) \/ DeleteDone(m) \/ UserDelete(m),
           ReleasedOnlyWhenTerminated'
    PROVE  \E K \in SUBSET Machines : Lifecycle!Doom(K) \/ Lifecycle!Drop(K)
<1>0. api \in [Machines -> Object] /\ TypeInv
  BY DEF MachineInv, TypeInv, TypeOK
<1>1. resources' = resources
  BY DEF DeleteNeverProvisioned, DeleteDone, UserDelete, Release, Settle, waldur
<1>2. \A n \in Machines : api'[n].st = api[n].st /\ (n # m => api'[n] = api[n])
  BY <1>0, RemovalKeeps
<1>3. CASE UserDelete(m) /\ api[m].fin
  <2>1. api[m].exists /\ api'[m].exists /\ api'[m].deleting
    BY <1>0, <1>3 DEF UserDelete, Object
  <2>2. Lifecycle!Doom({m})
    BY <1>1, <1>2, <2>1 DEF Lifecycle!Doom
  <2>3. QED BY <2>2
<1>4. CASE ~(UserDelete(m) /\ api[m].fin)
  <2>1. api[m].exists /\ ~api'[m].exists /\ api'[m].deleting = api[m].deleting
    <3>1. CASE UserDelete(m)
      BY <1>0, <1>4, <3>1 DEF UserDelete, Object
    <3>2. CASE DeleteNeverProvisioned(m) \/ DeleteDone(m)
      BY <1>0, <3>2 DEF DeleteNeverProvisioned, DeleteDone, Release, UpdateAccepted, Object
    <3>3. QED BY <3>1, <3>2
  <2>2. pc = "idle" \/ cur # m
    BY <1>4 DEF UserDelete, DeleteNeverProvisioned, DeleteDone, Take, MachineInv, FinalizerInv,
       InFlightExists
  <2>3. api[m].st.uuid # Nil => resources[api[m].st.uuid].state = "Terminated"
    BY <1>1, <1>2, <2>1 DEF ReleasedOnlyWhenTerminated
  <2>4. \A r \in OrderIds : resources[r].owner = m => resources[r].state = "Terminated"
    BY <2>2, <2>3, NothingLeft
  <2>5. Lifecycle!Drop({m})
    BY <1>1, <1>2, <2>1, <2>4 DEF Lifecycle!Drop
  <2>6. QED BY <2>5
<1>5. QED BY <1>3, <1>4

LEMMA LifecycleStep ==
    ASSUME NothingHidden, MachineInv, KnownInv, [Next]_vars, ReleasedOnlyWhenTerminated'
    PROVE  [Lifecycle!Next]_(Lifecycle!vars)
<1>0. TypeInv /\ ReleaseInv /\ OrdersInv /\ Stable /\ ~SubmitLost
  BY StableStep DEF MachineInv, ReleaseInv, SubmitLost, Fault, NothingHidden
<1>1. CASE SubmitAccepted
  BY <1>1, LifecycleBuy DEF Lifecycle!Next
<1>2. CASE \E m \in Machines : DeleteNeverProvisioned(m) \/ DeleteDone(m) \/ UserDelete(m)
  BY <1>2, LifecycleRemoval DEF Lifecycle!Next
<1>3. CASE \E o \in OrderIds : FinishTermination(o) /\ Marketplace
  <2>1. KeepsResources /\ api' = api
    BY <1>0, <1>3, ProgressKeepsResources DEF Marketplace
  <2>2. QED BY <1>3, <2>1, LifecycleGiveUp DEF Lifecycle!Next
<1>4. CASE /\ ~SubmitAccepted
           /\ ~\E m \in Machines : DeleteNeverProvisioned(m) \/ DeleteDone(m) \/ UserDelete(m)
           /\ ~\E o \in OrderIds : FinishTermination(o) /\ Marketplace
  <2>1. KeepsResources
    BY <1>0, <1>4, OthersKeepResources
  <2>2. \A m \in Machines : /\ api'[m].exists = api[m].exists
                            /\ api'[m].deleting = api[m].deleting
    BY <1>0, <1>4, ApiStep, StatusWritten, ProviderIDWritten
  <2>3. QED BY <1>0, <1>4, <2>1, <2>2, LifecycleStutter DEF KeepsResources, Stable
<1>5. QED BY <1>1, <1>2, <1>3, <1>4

\* Under the same assumptions the machine controller implements
\* ManagedResource: one VM is ever ordered for a machine, while the machine
\* exists; it is given up only after the machine's deletion was asked for; and
\* the machine stays until its VM is gone.
THEOREM ManagedVMImplemented ==
    ASSUME ReadOwnWrites, NothingHidden
    PROVE  Spec => ManagedVM
<1>1. MachineInv => ReleasedOnlyWhenTerminated
  BY DEF MachineInv, ReleaseInv
<1>2. MachineInv /\ KnownInv /\ [Next]_vars /\ ReleasedOnlyWhenTerminated'
        => [Lifecycle!Next]_(Lifecycle!vars)
  BY LifecycleStep
<1>3. QED
  BY <1>1, <1>2, LifecycleInit, KnownInit, KnownNext, MachineInductive, PTL
     DEF Spec, ManagedVM, Lifecycle!Spec

============================================================================
