--------------------------- MODULE MachineProofs ---------------------------
(***************************************************************************)
(* Theorems about MachineController, for any machines, orders, modes and   *)
(* faults.                                                                 *)
(***************************************************************************)
EXTENDS MachineController, TLAPS

\* What the type invariant needs to be inductive: the steps that look up an
\* order or a resource hold the identifier of one.
WorkerOK ==
    /\ pc = "refreshOrder" => obj.st.ord # Nil
    /\ pc \in {"refreshOrder", "refreshInstance", "terminate"} => obj.st.uuid # Nil

TypeInv == TypeOK /\ WorkerOK

LEMMA MergePatchType ==
    ASSUME NEW a \in Status, NEW b \in Status, NEW c \in Status
    PROVE  MergePatch(a, b, c) \in Status
BY DEF MergePatch, Merged, Status

LEMMA FinalStatusType ==
    ASSUME NEW o \in Object
    PROVE  FinalStatus(o) \in Status
BY DEF FinalStatus, setMachineReadyCondition, Status, Object

LEMMA InstanceStatusType ==
    ASSUME WaldurTypeOK, NEW st \in Status, st.uuid # Nil
    PROVE  /\ InstanceStatus(st) \in Status
           /\ InstanceStatus(st).uuid = st.uuid
BY DEF InstanceStatus, Status, WaldurTypeOK, Resource

LEMMA TypeInit == Init => TypeInv
BY NilAssumption, FaultAssumption, InputAssumption
   DEF Init, WaldurInit, VaultInit, TypeInv, TypeOK, WorkerOK, WaldurTypeOK, VaultTypeOK,
       Order, Resource, OrderStates, Object, Status, NewObject, NoStatus, PCs, AllBootDocs

\* Type correctness of the objects the actions build.
LEMMA NewObjectType == NewObject \in Object /\ NoStatus \in Status
BY DEF NewObject, NoStatus, Object, Status

\* Field updates of an object in the API server.
LEMMA FieldType ==
    ASSUME NEW x \in Object, NEW b \in BOOLEAN, NEW c \in BOOLEAN,
           NEW p \in OrderIds \cup {Nil}, NEW st \in Status
    PROVE  /\ [x EXCEPT !.fin = b] \in Object
           /\ [x EXCEPT !.fin = b, !.exists = c] \in Object
           /\ [x EXCEPT !.exists = b] \in Object
           /\ [x EXCEPT !.deleting = b] \in Object
           /\ [x EXCEPT !.owner = b] \in Object
           /\ [x EXCEPT !.pid = p] \in Object
           /\ [x EXCEPT !.st = st] \in Object
           /\ [x EXCEPT !.pid = p, !.st = st] \in Object
BY DEF Object

\* Field updates of an order and of a resource at Waldur.
LEMMA OrderFieldType ==
    ASSUME WaldurTypeOK, NEW o \in OrderIds, NEW s \in OrderStates
    PROVE  [orders EXCEPT ![o].state = s] \in [OrderIds -> Order]
<1>1. \A x \in Order : [x EXCEPT !.state = s] \in Order
  BY DEF Order
<1>2. QED
  BY <1>1 DEF WaldurTypeOK

LEMMA ResourceFieldType ==
    ASSUME NEW x \in Resource
    PROVE  /\ [x EXCEPT !.state = "Terminating"] \in Resource
           /\ [x EXCEPT !.state = "OK"] \in Resource
           /\ [x EXCEPT !.core = "CREATING"] \in Resource
           /\ [x EXCEPT !.run = "SHUTOFF"] \in Resource
           /\ [x EXCEPT !.state = "Terminated", !.core = "none", !.run = "none"] \in Resource
           /\ [x EXCEPT !.core = "OK", !.run = "ACTIVE"] \in Resource
           /\ [x EXCEPT !.core = "ERRED", !.run = "ERROR"] \in Resource
           /\ Erred(x) \in Resource
BY DEF Resource, Erred

\* Adding the finalizer, and releasing the object.
LEMMA WriteType ==
    ASSUME api \in [Machines -> Object], NEW m \in Machines
    PROVE  /\ [api EXCEPT ![m].fin = TRUE] \in [Machines -> Object]
           /\ [api EXCEPT ![m].fin = FALSE, ![m].exists = FALSE] \in [Machines -> Object]
<1>1. [api[m] EXCEPT !.fin = TRUE] \in Object
  BY DEF Object
<1>2. [api[m] EXCEPT !.fin = FALSE, !.exists = FALSE] \in Object
  BY DEF Object
<1>3. QED
  BY <1>1, <1>2

LEMMA ReconcileType ==
    ASSUME TypeInv, NEW m \in Machines, Reconcile(m)
    PROVE  TypeInv'
<1> USE DEF TypeInv, TypeOK, WorkerOK, waldur, vault, worker, world, WaldurTypeOK, VaultTypeOK
<1>1. CASE ReconcileGone(m)
  BY <1>1 DEF ReconcileGone, Settle
<1>2. CASE AddFinalizer(m)
  <2>1. api' \in [Machines -> Object]
    BY <1>2, WriteType DEF AddFinalizer
  <2>2. QED
    BY <1>2, <2>1 DEF AddFinalizer, Settle
<1>3. CASE ReconcileWait(m)
  BY <1>3 DEF ReconcileWait, Settle
<1>4. CASE BeginCreate(m)
  BY <1>4 DEF BeginCreate, Begin, PCs, Object
<1>5. CASE BeginRefresh(m)
  BY <1>5 DEF BeginRefresh, Begin, RefreshAt, NeedsVM, PCs, Object
<1>6. CASE DeleteNeverProvisioned(m)
  <2>1. api' \in [Machines -> Object]
    BY <1>6, WriteType DEF DeleteNeverProvisioned, Release
  <2>2. QED
    BY <1>6, <2>1 DEF DeleteNeverProvisioned, Release, Settle
<1>7. CASE DeletePoll(m)
  BY <1>7 DEF DeletePoll, TerminationInFlight, Begin, PCs, Object
<1>8. CASE DeleteDone(m)
  <2>1. api' \in [Machines -> Object]
    BY <1>8, WriteType DEF DeleteDone, Release
  <2>2. QED
    BY <1>8, <2>1 DEF DeleteDone, Release, Settle
<1>9. CASE BeginTerminate(m)
  BY <1>9 DEF BeginTerminate, Begin, PCs, Object
<1>10. QED
  BY <1>1, <1>2, <1>3, <1>4, <1>5, <1>6, <1>7, <1>8, <1>9 DEF Reconcile

LEMMA ReturnType ==
    ASSUME TypeInv, Return
    PROVE  /\ queued' \in [Machines -> BOOLEAN]
           /\ pc' = "idle" /\ cur' = Nil /\ obj' \in Object /\ base' \in Status /\ sid' = Nil
BY NewObjectType DEF TypeInv, TypeOK, Return, GoIdle

LEMMA FaultType ==
    ASSUME TypeInv, NEW k, Fault(k)
    PROVE  faults' \in 0..MaxFaults
BY FaultAssumption DEF TypeInv, TypeOK, Fault

LEMMA CreateType ==
    ASSUME TypeInv,
           \/ WaitBootstrap \/ PassVerbatim \/ StripFails \/ StoreToken \/ RancherPath
           \/ NewSecretID \/ MergeFails \/ PayloadNotReady \/ CreateCallFails \/ VaultAnswerLost
           \/ SubmitAccepted \/ SubmitRejected \/ SubmitLost
    PROVE  TypeInv'
<1> USE DEF waldur, vault, worker, world
<1>1. CASE WaitBootstrap
  BY <1>1, ReturnType DEF TypeInv, TypeOK, WorkerOK, WaldurTypeOK, VaultTypeOK, WaitBootstrap, PCs
<1>2. CASE PassVerbatim
  BY <1>2 DEF TypeInv, TypeOK, WorkerOK, WaldurTypeOK, VaultTypeOK, PassVerbatim, Goto, PCs
<1>3. CASE StripFails
  BY <1>3 DEF TypeInv, TypeOK, WorkerOK, WaldurTypeOK, VaultTypeOK, StripFails, CreateFails, Goto, PCs
<1>4. CASE StoreToken
  BY <1>4 DEF TypeInv, TypeOK, WorkerOK, WaldurTypeOK, VaultTypeOK, StoreToken, WriteSecret, StrippedToken, Goto, PCs
<1>5. CASE RancherPath
  BY <1>5 DEF TypeInv, TypeOK, WorkerOK, WaldurTypeOK, VaultTypeOK, RancherPath, Goto, PCs
<1>6. CASE NewSecretID
  BY <1>6 DEF TypeInv, TypeOK, WorkerOK, WaldurTypeOK, VaultTypeOK, NewSecretID, GenerateSecretID, Goto, PCs
<1>7. CASE MergeFails
  BY <1>7 DEF TypeInv, TypeOK, WorkerOK, WaldurTypeOK, VaultTypeOK, MergeFails, MergeFailsRevoking,
              RevokeSecretID, GenerateSecretID, CreateFails, Goto, PCs
<1>8. CASE PayloadNotReady
  BY <1>8 DEF TypeInv, TypeOK, WorkerOK, WaldurTypeOK, VaultTypeOK, PayloadNotReady, CreateFails, Goto, PCs
<1>9. CASE CreateCallFails
  BY <1>9, FaultType DEF TypeInv, TypeOK, WorkerOK, WaldurTypeOK, VaultTypeOK, CreateCallFails, CreateFails, Goto, PCs
<1>10. CASE SubmitAccepted
  <2> PICK o \in OrderIds : /\ AcceptCreation(o, cur, sid, "none")
                           /\ obj' = [obj EXCEPT !.st = CreatedStatus(obj.st, o)]
    BY <1>10 DEF SubmitAccepted
  <2>1. CreatedStatus(obj.st, o) \in Status
    BY DEF TypeInv, TypeOK, CreatedStatus, Object, Status, OrderStates
  <2>2. obj' \in Object
    BY <2>1 DEF TypeInv, TypeOK, Object
  <2>3. WaldurTypeOK'
    BY <1>10 DEF TypeInv, TypeOK, WaldurTypeOK, SubmitAccepted, AcceptCreation, Order, Resource, OrderStates
  <2>4. QED
    BY <1>10, <2>2, <2>3 DEF TypeInv, TypeOK, WorkerOK, VaultTypeOK, SubmitAccepted, Goto, PCs
<1>11. CASE SubmitRejected
  BY <1>11, FaultType DEF TypeInv, TypeOK, WorkerOK, WaldurTypeOK, VaultTypeOK, SubmitRejected, RevokeSecretID,
               CreateFails, Goto, PCs
<1>12. CASE SubmitLost
  BY <1>12, FaultType DEF TypeInv, TypeOK, WorkerOK, WaldurTypeOK, VaultTypeOK, SubmitLost, AcceptCreation,
               Order, Resource, OrderStates, CreateFails, Goto, PCs
<1>13. CASE VaultAnswerLost
  BY <1>13, FaultType DEF TypeInv, TypeOK, WorkerOK, WaldurTypeOK, VaultTypeOK, VaultAnswerLost, WriteSecret,
               StrippedToken, GenerateSecretID, CreateFails, Goto, PCs
<1>14. QED
  BY <1>1, <1>2, <1>3, <1>4, <1>5, <1>6, <1>7, <1>8, <1>9, <1>10, <1>11, <1>12, <1>13

LEMMA RefreshType ==
    ASSUME TypeInv,
           \/ RefreshOrder \/ RefreshInstance \/ RefreshFails \/ AnswerPanics
           \/ PatchProviderID \/ PatchStatus \/ WriteFails
    PROVE  TypeInv'
<1> USE DEF waldur, vault, worker, world
<1>1. CASE RefreshOrder
  <2>1. [obj.st EXCEPT !.ordState = orders[obj.st.ord].state] \in Status
    BY <1>1 DEF TypeInv, TypeOK, WorkerOK, WaldurTypeOK, RefreshOrder, Object, Status, Order
  <2>2. obj' \in Object /\ obj'.st.uuid = obj.st.uuid
    BY <1>1, <2>1 DEF TypeInv, TypeOK, RefreshOrder, Object, Status
  <2>3. QED
    BY <1>1, <2>2 DEF TypeInv, TypeOK, WorkerOK, WaldurTypeOK, VaultTypeOK, RefreshOrder, Goto, PCs
<1>2. CASE RefreshInstance
  <2>1. obj' \in Object
    BY <1>2, InstanceStatusType DEF TypeInv, TypeOK, WorkerOK, RefreshInstance, Object
  <2>2. QED
    BY <1>2, <2>1 DEF TypeInv, TypeOK, WorkerOK, WaldurTypeOK, VaultTypeOK, RefreshInstance,
                      AfterRefresh, Goto, PCs
<1>3. CASE RefreshFails
  BY <1>3, FaultType DEF TypeInv, TypeOK, WorkerOK, WaldurTypeOK, VaultTypeOK, RefreshFails,
                         AfterRefresh, Goto, PCs
<1>4. CASE AnswerPanics
  BY <1>4, FaultType, ReturnType DEF TypeInv, TypeOK, WorkerOK, WaldurTypeOK, VaultTypeOK, AnswerPanics, PCs
<1>5. CASE PatchProviderID
  <2>1. cur \in Machines /\ obj.st.vm \in OrderIds \cup {Nil} /\ api[cur] \in Object
    BY <1>5 DEF TypeInv, TypeOK, PatchProviderID, Object, Status
  <2>2. api[cur].st \in Status
    BY <2>1 DEF Object
  <2>3. api' \in [Machines -> Object] /\ obj' \in Object
    BY <1>5, <2>1, <2>2, FieldType DEF TypeInv, TypeOK, PatchProviderID
  <2>4. QED
    BY <1>5, <2>2, <2>3 DEF TypeInv, TypeOK, WorkerOK, WaldurTypeOK, VaultTypeOK, PatchProviderID, PCs
<1>6. CASE PatchStatus
  <2>1. cur \in Machines /\ api[cur].st \in Status
    BY <1>6 DEF TypeInv, TypeOK, PatchStatus, Object
  <2>2. MergePatch(base, FinalStatus(obj), api[cur].st) \in Status
    BY <2>1, MergePatchType, FinalStatusType DEF TypeInv, TypeOK
  <2>3. api' \in [Machines -> Object]
    BY <1>6, <2>1, <2>2, FieldType DEF TypeInv, TypeOK, PatchStatus
  <2>4. QED
    BY <1>6, <2>3, ReturnType DEF TypeInv, TypeOK, WorkerOK, WaldurTypeOK, VaultTypeOK, PatchStatus, PCs
<1>7. CASE WriteFails
  BY <1>7, FaultType, ReturnType DEF TypeInv, TypeOK, WorkerOK, WaldurTypeOK, VaultTypeOK, WriteFails, PCs
<1>8. QED
  BY <1>1, <1>2, <1>3, <1>4, <1>5, <1>6, <1>7

LEMMA TerminateType ==
    ASSUME TypeInv,
           \/ StopVM \/ SubmitTermination \/ TerminationRefused \/ TerminationLost
           \/ TerminateCallFails
    PROVE  TypeInv'
<1> USE DEF waldur, vault, worker, world
<1>1. CASE StopVM
  <2>1. WaldurTypeOK'
    BY <1>1, ZenonT(60) DEF TypeInv, TypeOK, WaldurTypeOK, StopVM, AcceptStop, Resource
  <2>2. QED
    BY <1>1, <2>1, ReturnType DEF TypeInv, TypeOK, WorkerOK, VaultTypeOK, StopVM, PCs
<1>2. ASSUME NEW o \in OrderIds, AcceptTermination(o, obj.st.uuid), pc = "terminate"
      PROVE  WaldurTypeOK'
  <2>1. obj.st.uuid \in OrderIds /\ WaldurTypeOK
    BY <1>2 DEF TypeInv, TypeOK, WorkerOK, Object, Status
  <2>2. orders' \in [OrderIds -> Order]
    BY <1>2, <2>1 DEF AcceptTermination, WaldurTypeOK, Order, OrderStates
  <2>3. resources' \in [OrderIds -> Resource]
    BY <1>2, <2>1, ResourceFieldType DEF AcceptTermination, WaldurTypeOK
  <2>4. QED
    BY <2>2, <2>3 DEF WaldurTypeOK
<1>3. CASE SubmitTermination
  <2> PICK o \in OrderIds : /\ AcceptTermination(o, obj.st.uuid)
                           /\ obj' = [obj EXCEPT !.st = TerminatingStatus(obj.st, o)]
    BY <1>3 DEF SubmitTermination
  <2>1. TerminatingStatus(obj.st, o) \in Status
    BY DEF TypeInv, TypeOK, TerminatingStatus, Object, Status, OrderStates
  <2>2. obj' \in Object
    BY <2>1 DEF TypeInv, TypeOK, Object
  <2>3. WaldurTypeOK'
    BY <1>2, <1>3 DEF SubmitTermination
  <2>4. faults' \in 0..MaxFaults
    BY <1>3, FaultType DEF SubmitTermination, MaySubmitTermination, TypeInv, TypeOK
  <2>5. QED
    BY <1>3, <2>2, <2>3, <2>4 DEF TypeInv, TypeOK, WorkerOK, VaultTypeOK, SubmitTermination, Goto, PCs
<1>4. CASE TerminationRefused
  BY <1>4, ReturnType DEF TypeInv, TypeOK, WorkerOK, WaldurTypeOK, VaultTypeOK, TerminationRefused, PCs
<1>5. CASE TerminationLost
  <2>1. WaldurTypeOK'
    BY <1>2, <1>5 DEF TerminationLost
  <2>2. QED
    BY <1>5, <2>1, ReturnType, FaultType DEF TypeInv, TypeOK, WorkerOK, VaultTypeOK, TerminationLost, PCs
<1>6. CASE TerminateCallFails
  BY <1>6, ReturnType, FaultType DEF TypeInv, TypeOK, WorkerOK, WaldurTypeOK, VaultTypeOK, TerminateCallFails, PCs
<1>7. QED
  BY <1>1, <1>3, <1>4, <1>5, <1>6

LEMMA MarketplaceType ==
    ASSUME TypeInv, Marketplace
    PROVE  TypeInv'
<1> USE DEF waldur, vault, worker, world
<1>1. ASSUME WaldurTypeOK, NEW o \in OrderIds,
             \/ StartOrder(o) \/ InstanceUp(o) \/ InstanceStopped(o)
             \/ FinishCreation(o) \/ FinishTermination(o)
             \/ FailOrder(o) \/ InstanceChange(o)
      PROVE  WaldurTypeOK'
  <2>1. CASE StartOrder(o)
    <3>1. orders' \in [OrderIds -> Order]
      BY <1>1, <2>1, OrderFieldType DEF StartOrder, OrderStates
    <3>2. resources' \in [OrderIds -> Resource]
      BY <1>1, <2>1, ResourceFieldType DEF StartOrder, WaldurTypeOK
    <3>3. QED BY <3>1, <3>2 DEF WaldurTypeOK
  <2>2. CASE InstanceUp(o)
    BY <1>1, <2>2, ResourceFieldType DEF InstanceUp, WaldurTypeOK
  <2>3. CASE InstanceStopped(o)
    BY <1>1, <2>3, ResourceFieldType DEF InstanceStopped, WaldurTypeOK
  <2>4. CASE FinishCreation(o)
    <3>1. orders' \in [OrderIds -> Order]
      BY <1>1, <2>4, OrderFieldType DEF FinishCreation, OrderStates
    <3>2. resources' \in [OrderIds -> Resource]
      BY <1>1, <2>4, ResourceFieldType DEF FinishCreation, WaldurTypeOK
    <3>3. QED BY <3>1, <3>2 DEF WaldurTypeOK
  <2>5. CASE FinishTermination(o)
    <3>1. orders' \in [OrderIds -> Order]
      BY <1>1, <2>5, OrderFieldType DEF FinishTermination, OrderStates
    <3>2. resources' \in [OrderIds -> Resource]
      BY <1>1, <2>5, ResourceFieldType DEF FinishTermination, WaldurTypeOK
    <3>3. QED BY <3>1, <3>2 DEF WaldurTypeOK
  <2>6. CASE FailOrder(o)
    <3>1. PICK s \in {"Erred", "Canceled"} : orders' = [orders EXCEPT ![o].state = s]
      BY <2>6 DEF FailOrder
    <3>2. orders' \in [OrderIds -> Order]
      BY <1>1, <3>1, OrderFieldType DEF OrderStates
    <3>3. resources' \in [OrderIds -> Resource]
      BY <1>1, <2>6, ResourceFieldType DEF FailOrder, WaldurTypeOK
    <3>4. QED BY <3>2, <3>3 DEF WaldurTypeOK
  <2>7. CASE InstanceChange(o)
    <3>1. PICK x \in Resource : resources' = [resources EXCEPT ![o] = x]
      <4>1. resources[o] \in Resource
        BY <1>1 DEF WaldurTypeOK
      <4>2. /\ [resources[o] EXCEPT !.core = "ERRED", !.run = "ERROR"] \in Resource
            /\ [resources[o] EXCEPT !.core = "OK", !.run = "ACTIVE"] \in Resource
        BY <4>1, ResourceFieldType
      <4>3. QED BY <2>7, <4>2 DEF InstanceChange
    <3>2. resources' \in [OrderIds -> Resource]
      BY <1>1, <3>1 DEF WaldurTypeOK
    <3>3. QED BY <1>1, <2>7, <3>2 DEF InstanceChange, WaldurTypeOK
  <2>8. QED BY <1>1, <2>1, <2>2, <2>3, <2>4, <2>5, <2>6, <2>7
<1>2. WaldurTypeOK'
  BY <1>1 DEF Marketplace, WaldurProgress, OrderProgress, TypeInv, TypeOK
<1>3. faults' \in 0..MaxFaults
  BY FaultType DEF Marketplace, TypeInv, TypeOK
<1>4. QED
  BY <1>2, <1>3 DEF Marketplace, TypeInv, TypeOK, WorkerOK, VaultTypeOK

LEMMA EnvironmentType ==
    ASSUME TypeInv, NEW m \in Machines,
           CacheSync(m) \/ Environment(m) \/ TenantReady \/ Crash
    PROVE  TypeInv'
<1> USE DEF waldur, vault, worker, world, TypeInv, TypeOK, WorkerOK, WaldurTypeOK, VaultTypeOK
<1>1. CASE CacheSync(m) BY <1>1 DEF CacheSync
<1>2. CASE UserDelete(m)
  <2>1. api' \in [Machines -> Object]
    BY <1>2, FieldType DEF UserDelete
  <2>2. QED BY <1>2, <2>1 DEF UserDelete
<1>3. CASE SetOwnerRef(m)
  <2>1. api' \in [Machines -> Object]
    BY <1>3, FieldType DEF SetOwnerRef
  <2>2. QED BY <1>3, <2>1 DEF SetOwnerRef
<1>4. CASE SetLabel(m) BY <1>4 DEF SetLabel
<1>5. CASE BootstrapReady(m) BY <1>5, InputAssumption DEF BootstrapReady
<1>6. CASE TenantReady BY <1>6 DEF TenantReady
<1>7. CASE Crash BY <1>7, NewObjectType, FaultType, InputAssumption DEF Crash, GoIdle, PCs
<1>8. QED BY <1>1, <1>2, <1>3, <1>4, <1>5, <1>6, <1>7 DEF Environment

LEMMA TypeStep == TypeInv /\ [Next]_vars => TypeInv'
<1> SUFFICES ASSUME TypeInv, [Next]_vars PROVE TypeInv'
  OBVIOUS
<1>1. CASE UNCHANGED vars
  BY <1>1 DEF vars, TypeInv, TypeOK, WorkerOK, WaldurTypeOK, VaultTypeOK
<1>2. CASE Step
  BY <1>2, CreateType, RefreshType, TerminateType DEF Step
<1>3. CASE Marketplace
  BY <1>3, MarketplaceType
<1>4. CASE \E m \in Machines : Reconcile(m) \/ CacheSync(m) \/ Environment(m)
  BY <1>4, ReconcileType, EnvironmentType
<1>5. CASE TenantReady
  BY <1>5 DEF TenantReady, TypeInv, TypeOK, WorkerOK, WaldurTypeOK, VaultTypeOK, waldur, vault, worker
<1>6. CASE Crash
  BY <1>6, NewObjectType, FaultType, InputAssumption DEF Crash, GoIdle, TypeInv, TypeOK, WorkerOK, WaldurTypeOK,
        VaultTypeOK, waldur, vault, world, PCs
<1>7. QED
  BY <1>1, <1>2, <1>3, <1>4, <1>5, <1>6 DEF Next

\* Waldur's own steps make no orders.
LEMMA ProgressMakesNoOrder ==
    ASSUME TypeInv, NEW o \in OrderIds,
           \/ StartOrder(o) \/ InstanceUp(o) \/ InstanceStopped(o)
           \/ FinishCreation(o) \/ FinishTermination(o)
           \/ FailOrder(o) \/ InstanceChange(o)
    PROVE  \A p \in OrderIds : /\ orders'[p].type = orders[p].type
                               /\ orders'[p].res = orders[p].res
<1>1. orders' = orders \/ \E s : orders' = [orders EXCEPT ![o].state = s]
  BY DEF StartOrder, InstanceUp, InstanceStopped, FinishCreation, FinishTermination, FailOrder,
         InstanceChange
<1>2. QED
  BY <1>1 DEF TypeInv, TypeOK, WaldurTypeOK, Order

\* ... and leave alone for whom a resource was ordered and what it embeds.
LEMMA ProgressKeepsIdentity ==
    ASSUME TypeInv, NEW o \in OrderIds,
           \/ StartOrder(o) \/ InstanceUp(o) \/ InstanceStopped(o)
           \/ FinishCreation(o) \/ FinishTermination(o)
           \/ FailOrder(o) \/ InstanceChange(o)
    PROVE  \A r \in OrderIds : /\ resources'[r].owner = resources[r].owner
                               /\ resources'[r].sid = resources[r].sid
<1>0. resources \in [OrderIds -> Resource]
  BY DEF TypeInv, TypeOK, WaldurTypeOK
<1>1. CASE StartOrder(o)
  <2>1. resources' = resources \/ resources' = [resources EXCEPT ![o].core = "CREATING"]
    BY <1>1 DEF StartOrder
  <2>2. QED BY <1>0, <2>1 DEF Resource
<1>2. CASE InstanceUp(o)
  BY <1>0, <1>2 DEF InstanceUp, Resource
<1>3. CASE InstanceStopped(o)
  BY <1>0, <1>3 DEF InstanceStopped, Resource
<1>4. CASE FinishCreation(o)
  BY <1>0, <1>4 DEF FinishCreation, Resource
<1>5. CASE FinishTermination(o)
  BY <1>0, <1>5 DEF FinishTermination, Resource
<1>6. CASE FailOrder(o)
  <2>1. \A x \in Resource : Erred(x).owner = x.owner /\ Erred(x).sid = x.sid
    BY DEF Erred, Resource
  <2>2. resources' = resources \/ resources' = [resources EXCEPT ![orders[o].res] = Erred(@)]
    BY <1>6 DEF FailOrder
  <2>3. QED BY <1>0, <2>1, <2>2
<1>7. CASE InstanceChange(o)
  <2>1. \/ resources' = [resources EXCEPT ![o] = [@ EXCEPT !.core = "ERRED", !.run = "ERROR"]]
        \/ resources' = [resources EXCEPT ![o] = [@ EXCEPT !.core = "OK", !.run = "ACTIVE"]]
    BY <1>7 DEF InstanceChange
  <2>2. CASE resources' = [resources EXCEPT ![o] = [@ EXCEPT !.core = "ERRED", !.run = "ERROR"]]
    BY <1>0, <2>2 DEF Resource
  <2>3. CASE resources' = [resources EXCEPT ![o] = [@ EXCEPT !.core = "OK", !.run = "ACTIVE"]]
    BY <1>0, <2>3 DEF Resource
  <2>4. QED BY <2>1, <2>2, <2>3
<1>8. QED BY <1>1, <1>2, <1>3, <1>4, <1>5, <1>6, <1>7

\* Every variable keeps its type, whatever the cache shows and whatever fails.
THEOREM TypeCorrect == Spec => []TypeOK
<1>1. TypeInv => TypeOK
  BY DEF TypeInv
<1>2. QED
  BY TypeInit, TypeStep, <1>1, PTL DEF Spec
============================================================================
