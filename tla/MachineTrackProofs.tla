------------------------- MODULE MachineTrackProofs -------------------------
(***************************************************************************)
(* What the controller publishes about a machine is true of one VM, the    *)
(* one it ordered, provided a reconciliation sees what the earlier ones    *)
(* wrote.                                                                  *)
(***************************************************************************)
EXTENDS MachineSafetyProofs

\* A status that names an instance names the tracked one, and one that calls
\* it OK also calls it provisioned and names it.
StatusSound(st) ==
    /\ st.vm # Nil => st.vm = st.uuid
    /\ st.state = "OK" => st.init /\ st.vm # Nil

\* The VM tracked by a status was ordered for machine m.
OwnVM(st, m) == st.uuid # Nil => resources[st.uuid].owner = m

Recorded(m) ==
    /\ StatusSound(api[m].st)
    /\ OwnVM(api[m].st, m)
    /\ api[m].pid # Nil => api[m].pid = api[m].st.uuid
    /\ cache[m].deleting => api[m].deleting

\* What the worker holds, at every step of a reconciliation.
InHand ==
    pc # "idle" =>
        /\ StatusSound(obj.st)
        /\ OwnVM(obj.st, cur)
        /\ obj.pid = api[cur].pid
        /\ obj.deleting => api[cur].deleting
        /\ base.uuid # Nil => obj.st.uuid = base.uuid
        /\ pc \in {"createVM", "secretID", "submit"} =>
              obj.st = base /\ base.uuid = Nil
        /\ pc \in {"refreshOrder", "refreshInstance", "providerID"} => obj.st.uuid = base.uuid
        /\ pc = "providerID" => NeedsProviderID(obj)
        /\ pc = "patchStatus" => ~NeedsProviderID(obj)
        /\ pc = "terminate" => obj.deleting /\ obj.st = base

TrackInv ==
    /\ \A m \in Machines : Recorded(m)
    /\ ReadyConsistent
    /\ InHand

\* A resource keeps its owner once it is ordered.
OwnersKept ==
    \A r \in OrderIds :
        orders[r].type # "none" => resources'[r].owner = resources[r].owner

LEMMA TrackInit == Init => TrackInv
BY DEF Init, NewObject, NoStatus, TrackInv, Recorded, StatusSound, OwnVM, ReadyConsistent, InHand

LEMMA OrderKeepsOwners ==
    ASSUME TypeInv, NEW o \in OrderIds, NEW r \in OrderIds, NEW m, NEW s,
           AcceptCreation(o, m, s, "none") \/ AcceptTermination(o, r) \/ AcceptStop(r)
    PROVE  OwnersKept
<1>0. resources \in [OrderIds -> Resource]
  BY DEF TypeInv, TypeOK, WaldurTypeOK
<1>1. CASE AcceptCreation(o, m, s, "none")
  BY <1>0, <1>1 DEF AcceptCreation, FreshOrder, OwnersKept
<1>2. CASE AcceptTermination(o, r)
  <2>1. resources' = resources \/ resources' = [resources EXCEPT ![r].state = "Terminating"]
    BY <1>2 DEF AcceptTermination
  <2>2. QED BY <1>0, <2>1 DEF OwnersKept, Resource
<1>3. CASE AcceptStop(r)
  BY <1>0, <1>3 DEF AcceptStop, OwnersKept, Resource
<1>4. QED BY <1>1, <1>2, <1>3

\* A VM stays a machine's own while Waldur works.
LEMMA OwnStable ==
    ASSUME OwnersKept, NEW st \in Status, NEW m, StatusTrue(st, orders), OwnVM(st, m)
    PROVE  st.uuid # Nil => resources'[st.uuid].owner = m
BY DEF OwnersKept, OwnVM, StatusTrue, Status

\* A step after which the API server holds what it held before.
LEMMA TrackQuiet ==
    ASSUME TypeInv, ReleaseInv, TrackInv, OwnersKept, api' = api,
           \A m \in Machines : cache'[m].deleting => api[m].deleting,
           InHand'
    PROVE  TrackInv'
<1>1. \A m \in Machines : api[m].st \in Status /\ StatusTrue(api[m].st, orders)
  BY DEF TypeInv, TypeOK, Object, ReleaseInv
<1>2. \A m \in Machines : Recorded(m)'
  BY <1>1, OwnStable DEF TrackInv, Recorded, OwnVM
<1>3. QED
  BY <1>2 DEF TrackInv, ReadyConsistent

\* A step that leaves the worker and the objects' provider IDs alone.
LEMMA HandKept ==
    ASSUME TypeInv, ReleaseInv, TrackInv, OwnersKept, UNCHANGED worker,
           \A m \in Machines : /\ api'[m].pid = api[m].pid
                               /\ api[m].deleting => api'[m].deleting
    PROVE  InHand'
<1>1. pc # "idle" => cur \in Machines /\ obj.st \in Status /\ StatusTrue(obj.st, orders)
  BY DEF TypeInv, TypeOK, Object, ReleaseInv
<1>2. pc # "idle" => (obj.st.uuid # Nil => resources'[obj.st.uuid].owner = cur)
  BY <1>1, OwnStable DEF TrackInv, InHand
<1>3. QED
  BY <1>1, <1>2 DEF TrackInv, InHand, OwnVM, worker, NeedsProviderID

\* A step of a reconciliation that goes on with the object it has.
LEMMA TrackGoesOn ==
    ASSUME TypeInv, ReleaseInv, TrackInv, UNCHANGED waldur, api' = api, cache' = cache,
           \/ pc' = "idle"
           \/ /\ pc # "idle" /\ cur' = cur /\ base' = base /\ obj' = obj
              /\ \/ pc \in {"createVM", "secretID", "submit"}
                    /\ pc' \in {"secretID", "submit", "patchStatus"}
                 \/ pc \in {"refreshOrder", "refreshInstance"} /\ pc' = AfterRefresh(obj)
    PROVE  TrackInv'
<1>1. OwnersKept
  BY DEF OwnersKept, waldur
<1>2. InHand'
  BY DEF TrackInv, InHand, StatusSound, OwnVM, NeedsProviderID, AfterRefresh, waldur
<1>3. QED
  BY <1>1, <1>2, TrackQuiet DEF TrackInv, Recorded

LEMMA TrackReconcile ==
    ASSUME ReadOwnWrites, TypeInv, ReleaseInv, TrackInv, NEW m \in Machines, Reconcile(m)
    PROVE  TrackInv'
<1>1. /\ pc = "idle" /\ UNCHANGED waldur /\ cache' = cache
      /\ cache[m].st = api[m].st /\ cache[m].pid = api[m].pid
      /\ cache[m] \in Object /\ api[m] \in Object
  BY DEF Reconcile, ReconcileGone, AddFinalizer, ReconcileWait, BeginCreate, BeginRefresh,
         DeleteNeverProvisioned, DeletePoll, DeleteDone, BeginTerminate, Take, Fresh,
         Release, Begin, Settle, waldur, TypeInv, TypeOK
<1>2. OwnersKept
  BY <1>1 DEF OwnersKept, waldur
<1>3. CASE BeginCreate(m) \/ BeginRefresh(m) \/ DeletePoll(m) \/ BeginTerminate(m)
  <2>1. /\ api' = api /\ cur' = m /\ base' = api[m].st /\ obj' = cache[m]
        /\ obj'.st = api[m].st /\ obj'.pid = api[m].pid
    BY <1>1, <1>3 DEF BeginCreate, BeginRefresh, DeletePoll, BeginTerminate, Begin
  <2>2. /\ obj'.deleting => api[m].deleting
        /\ StatusSound(api[m].st) /\ OwnVM(api[m].st, m)
    BY <2>1 DEF TrackInv, Recorded
  <2>3. /\ pc' \in {"createVM", "refreshOrder", "refreshInstance", "terminate"}
        /\ pc' = "createVM" => api[m].st.uuid = Nil
        /\ pc' = "terminate" => cache[m].deleting
    BY <1>1, <1>3 DEF BeginCreate, BeginRefresh, DeletePoll, BeginTerminate, Begin, NeedsVM,
                      RefreshAt, Deleting
  <2>4. InHand'
    BY <1>1, <2>1, <2>2, <2>3 DEF InHand, OwnVM, StatusSound, waldur
  <2>5. QED BY <1>1, <1>2, <2>1, <2>4, TrackQuiet DEF TrackInv, Recorded
<1>4. CASE ReconcileGone(m) \/ ReconcileWait(m)
  <2>1. api' = api /\ pc' = "idle"
    BY <1>1, <1>4 DEF ReconcileGone, ReconcileWait, Settle, worker
  <2>2. QED BY <1>1, <2>1, TrackGoesOn
<1>5. CASE AddFinalizer(m) \/ DeleteNeverProvisioned(m) \/ DeleteDone(m)
  <2>1. /\ pc' = "idle"
        /\ \/ api' = [api EXCEPT ![m].fin = TRUE]
           \/ api' = [api EXCEPT ![m].fin = FALSE, ![m].exists = FALSE]
    BY <1>1, <1>5 DEF AddFinalizer, DeleteNeverProvisioned, DeleteDone, Release, Settle, worker
  <2>2. \A n \in Machines : /\ api'[n].st = api[n].st /\ api'[n].pid = api[n].pid
                            /\ api'[n].deleting = api[n].deleting
    <3>1. api \in [Machines -> Object]
      BY DEF TypeInv, TypeOK
    <3>2. CASE api' = [api EXCEPT ![m].fin = TRUE]
      BY <3>1, <3>2 DEF Object
    <3>3. CASE api' = [api EXCEPT ![m].fin = FALSE, ![m].exists = FALSE]
      BY <3>1, <3>3 DEF Object
    <3>4. QED BY <2>1, <3>2, <3>3
  <2>3. \A n \in Machines : Recorded(n)'
    BY <1>1, <2>2 DEF TrackInv, Recorded, StatusSound, OwnVM, waldur
  <2>4. ReadyConsistent'
    BY <2>2 DEF TrackInv, ReadyConsistent
  <2>5. QED BY <2>1, <2>3, <2>4 DEF TrackInv, InHand
<1>6. QED
  BY <1>3, <1>4, <1>5 DEF Reconcile

LEMMA TrackCreate ==
    ASSUME TypeInv, ReleaseInv, TrackInv,
           \/ WaitBootstrap \/ PassVerbatim \/ StripFails \/ StoreToken \/ RancherPath
           \/ NewSecretID \/ MergeFails \/ PayloadNotReady \/ CreateCallFails \/ VaultAnswerLost
           \/ SubmitAccepted \/ SubmitRejected \/ SubmitLost
    PROVE  TrackInv'
<1> USE DEF Goto, Return, GoIdle, CreateFails
<1>0. api' = api /\ cache' = cache /\ pc \in {"createVM", "secretID", "submit"} /\ cur \in Machines
  BY DEF WaitBootstrap, PassVerbatim, StripFails, StoreToken, RancherPath, NewSecretID,
         MergeFails, PayloadNotReady, CreateCallFails, VaultAnswerLost, SubmitRejected,
         SubmitAccepted, SubmitLost, TypeInv, TypeOK
<1>1. CASE WaitBootstrap \/ PassVerbatim \/ StripFails \/ StoreToken \/ RancherPath
           \/ NewSecretID \/ MergeFails \/ PayloadNotReady \/ CreateCallFails \/ VaultAnswerLost
           \/ SubmitRejected
  <2>1. UNCHANGED waldur
    BY <1>1 DEF WaitBootstrap, PassVerbatim, StripFails, StoreToken, RancherPath, NewSecretID,
           MergeFails, PayloadNotReady, CreateCallFails, VaultAnswerLost, SubmitRejected
  <2>2. \/ pc' = "idle"
        \/ /\ cur' = cur /\ base' = base /\ obj' = obj
           /\ pc' \in {"secretID", "submit", "patchStatus"}
    BY <1>1 DEF WaitBootstrap, PassVerbatim, StripFails, StoreToken, RancherPath, NewSecretID,
           MergeFails, PayloadNotReady, CreateCallFails, VaultAnswerLost, SubmitRejected
  <2>3. QED BY <1>0, <2>1, <2>2, TrackGoesOn
<1>2. CASE SubmitAccepted
  <2>1. PICK o \in OrderIds : /\ AcceptCreation(o, cur, sid, "none")
                             /\ obj' = [obj EXCEPT !.st = CreatedStatus(obj.st, o)]
    BY <1>2 DEF SubmitAccepted
  <2>2. OwnersKept
    BY <2>1, OrderKeepsOwners
  <2>3. resources'[o].owner = cur
    BY <2>1 DEF AcceptCreation, TypeInv, TypeOK, WaldurTypeOK
  <2>4. /\ pc = "submit" /\ pc' = "patchStatus" /\ cur' = cur /\ base' = base
        /\ obj \in Object /\ obj.st \in Status /\ obj.st.uuid = Nil /\ base.uuid = Nil
        /\ obj.pid = api[cur].pid
        /\ obj.deleting => api[cur].deleting
        /\ obj.st.vm = Nil
    BY <1>2 DEF SubmitAccepted, TypeInv, TypeOK, Object, TrackInv, InHand, StatusSound
  <2>5. /\ obj'.st = CreatedStatus(obj.st, o)
        /\ obj'.pid = obj.pid /\ obj'.deleting = obj.deleting
    BY <2>1, <2>4 DEF Object
  <2>6. obj'.st.uuid = o /\ obj'.st.vm = Nil /\ obj'.st.state = "CREATING"
    BY <2>4, <2>5 DEF CreatedStatus, Status
  <2>7. InHand'
    BY <1>0, <2>3, <2>4, <2>5, <2>6 DEF InHand, OwnVM, StatusSound, NeedsProviderID
  <2>8. QED BY <1>0, <2>2, <2>7, TrackQuiet DEF TrackInv, Recorded
<1>3. CASE SubmitLost
  <2>1. PICK o \in OrderIds : AcceptCreation(o, cur, sid, "none")
    BY <1>3 DEF SubmitLost
  <2>2. OwnersKept
    BY <2>1, OrderKeepsOwners
  <2>3. pc = "submit" /\ pc' = "patchStatus" /\ cur' = cur /\ base' = base /\ obj' = obj
    BY <1>3 DEF SubmitLost
  <2>4. InHand'
    BY <1>0, <2>3 DEF TrackInv, InHand, OwnVM, StatusSound, NeedsProviderID
  <2>5. QED BY <1>0, <2>2, <2>4, TrackQuiet DEF TrackInv, Recorded
<1>4. QED
  BY <1>1, <1>2, <1>3

LEMMA TrackPatch ==
    ASSUME TypeInv, ReleaseInv, TrackInv, PatchStatus
    PROVE  TrackInv'
<1>1. /\ cur \in Machines /\ pc = "patchStatus" /\ pc' = "idle"
      /\ UNCHANGED waldur /\ cache' = cache
      /\ obj \in Object /\ obj.st \in Status /\ base = api[cur].st /\ base \in Status
  BY DEF PatchStatus, Return, GoIdle, TypeInv, TypeOK, ReleaseInv, Object
<1>2. /\ StatusSound(obj.st) /\ OwnVM(obj.st, cur)
      /\ obj.pid = api[cur].pid
      /\ obj.deleting => api[cur].deleting
      /\ base.uuid # Nil => obj.st.uuid = base.uuid
      /\ ~NeedsProviderID(obj)
  BY <1>1 DEF TrackInv, InHand
<1>3. FinalStatus(obj) \in Status
  BY <1>1, FinalStatusType
<1>4. MergePatch(base, FinalStatus(obj), api[cur].st) = FinalStatus(obj)
  BY <1>1, <1>3, MergeIsNew
<1>5. api' = [api EXCEPT ![cur].st = FinalStatus(obj)]
  BY <1>4 DEF PatchStatus
<1>6. /\ api'[cur].st = FinalStatus(obj)
      /\ api'[cur].pid = api[cur].pid /\ api'[cur].deleting = api[cur].deleting
      /\ \A n \in Machines \ {cur} : api'[n] = api[n]
  BY <1>1, <1>5 DEF TypeInv, TypeOK, Object
<1>7. /\ FinalStatus(obj).uuid = obj.st.uuid /\ FinalStatus(obj).vm = obj.st.vm
      /\ FinalStatus(obj).state = obj.st.state /\ FinalStatus(obj).init = obj.st.init
      /\ ~obj.deleting => FinalStatus(obj).ready = CASE obj.st.state = "OK" -> "Provisioned"
                                                  [] obj.st.state = "ERRED" -> "ProvisioningFailed"
                                                  [] OTHER -> "Provisioning"
  BY <1>1 DEF FinalStatus, setMachineReadyCondition, Status
<1>8. \A n \in Machines : n = cur => Recorded(n)'
  BY <1>1, <1>2, <1>6, <1>7 DEF TrackInv, Recorded, StatusSound, OwnVM, waldur
<1>9. \A n \in Machines \ {cur} : Recorded(n)'
  BY <1>1, <1>6 DEF TrackInv, Recorded, OwnVM, waldur
<1>10. ~api'[cur].deleting =>
         /\ api'[cur].st.ready = "Provisioned" <=> api'[cur].st.state = "OK"
         /\ api'[cur].st.ready = "ProvisioningFailed" <=> api'[cur].st.state = "ERRED"
         /\ api'[cur].st.ready = "Provisioned" => api'[cur].st.init /\ api'[cur].pid # Nil
  BY <1>2, <1>6, <1>7 DEF StatusSound, NeedsProviderID
<1>11. ReadyConsistent'
  BY <1>6, <1>10 DEF TrackInv, ReadyConsistent
<1>12. QED
  BY <1>1, <1>8, <1>9, <1>11 DEF TrackInv, InHand

LEMMA TrackRefresh ==
    ASSUME TypeInv, ReleaseInv, TrackInv,
           \/ RefreshOrder \/ RefreshInstance \/ RefreshFails \/ AnswerPanics
           \/ PatchProviderID \/ PatchStatus \/ WriteFails
    PROVE  TrackInv'
<1> USE DEF Goto, Return, GoIdle
<1>0. /\ pc # "idle" => cur \in Machines /\ base = api[cur].st
      /\ obj \in Object /\ obj.st \in Status
  BY DEF TypeInv, TypeOK, Object, ReleaseInv
<1>1. CASE RefreshOrder
  <2>1. /\ pc = "refreshOrder" /\ pc' = "refreshInstance" /\ api' = api /\ cache' = cache
        /\ cur' = cur /\ base' = base /\ UNCHANGED waldur
    BY <1>1 DEF RefreshOrder
  <2>2. /\ obj'.st = [obj.st EXCEPT !.ordState = orders[obj.st.ord].state]
        /\ obj'.pid = obj.pid /\ obj'.deleting = obj.deleting
    BY <1>0, <1>1 DEF RefreshOrder, Object
  <2>3. /\ obj'.st.uuid = obj.st.uuid /\ obj'.st.vm = obj.st.vm
        /\ obj'.st.state = obj.st.state /\ obj'.st.init = obj.st.init
    BY <1>0, <2>2 DEF Status
  <2>4. InHand'
    BY <2>1, <2>2, <2>3 DEF TrackInv, InHand, OwnVM, StatusSound, waldur
  <2>5. QED BY <2>1, <2>4, TrackQuiet DEF TrackInv, Recorded, OwnersKept, waldur
<1>2. CASE RefreshInstance
  <2>1. /\ pc = "refreshInstance" /\ pc' = AfterRefresh(obj') /\ api' = api /\ cache' = cache
        /\ cur' = cur /\ base' = base /\ UNCHANGED waldur
    BY <1>2 DEF RefreshInstance
  <2>2. /\ obj'.st = InstanceStatus(obj.st)
        /\ obj'.pid = obj.pid /\ obj'.deleting = obj.deleting
    BY <1>0, <1>2 DEF RefreshInstance, Object
  <2>3. StatusSound(obj.st) /\ obj.st.uuid # Nil
    BY <2>1 DEF TrackInv, InHand, TypeInv, WorkerOK
  <2>4. obj'.st.uuid = obj.st.uuid /\ StatusSound(obj'.st)
    BY <1>0, <2>2, <2>3, ZenonT(60) DEF InstanceStatus, Status, StatusSound
  <2>5. InHand'
    BY <2>1, <2>2, <2>4 DEF TrackInv, InHand, OwnVM, waldur, AfterRefresh
  <2>6. QED BY <2>1, <2>5, TrackQuiet DEF TrackInv, Recorded, OwnersKept, waldur
<1>3. CASE RefreshFails
  BY <1>3, TrackGoesOn DEF RefreshFails
<1>4. CASE AnswerPanics \/ WriteFails
  BY <1>4, TrackGoesOn DEF AnswerPanics, WriteFails
<1>5. CASE PatchProviderID
  <2>1. /\ pc = "providerID" /\ pc' = "patchStatus" /\ cur' = cur /\ base' = api[cur].st
        /\ UNCHANGED waldur /\ cache' = cache /\ cur \in Machines
        /\ api' = [api EXCEPT ![cur].pid = obj.st.vm]
        /\ obj' = [obj EXCEPT !.pid = obj.st.vm, !.st = api[cur].st]
    BY <1>0, <1>5 DEF PatchProviderID
  <2>2. /\ api'[cur].pid = obj.st.vm /\ api'[cur].st = api[cur].st
        /\ api'[cur].deleting = api[cur].deleting
        /\ \A n \in Machines \ {cur} : api'[n] = api[n]
    BY <2>1 DEF TypeInv, TypeOK, Object
  <2>3. obj'.pid = obj.st.vm /\ obj'.st = api[cur].st /\ obj'.deleting = obj.deleting
    BY <1>0, <2>1 DEF Object
  <2>4. /\ obj.st.vm # Nil /\ obj.st.vm = api[cur].st.uuid
        /\ obj.deleting => api[cur].deleting
    BY <1>0, <2>1 DEF TrackInv, InHand, NeedsProviderID, StatusSound
  <2>5. \A n \in Machines : Recorded(n)'
    <3>1. \A n \in Machines : n = cur => Recorded(n)'
      BY <2>1, <2>2, <2>4 DEF TrackInv, Recorded, OwnVM, waldur
    <3>2. \A n \in Machines \ {cur} : Recorded(n)'
      BY <2>1, <2>2 DEF TrackInv, Recorded, OwnVM, waldur
    <3>3. QED BY <3>1, <3>2
  <2>6. ReadyConsistent'
    BY <2>2, <2>4 DEF TrackInv, ReadyConsistent
  <2>7. InHand'
    BY <2>1, <2>2, <2>3, <2>4 DEF TrackInv, Recorded, InHand, OwnVM, NeedsProviderID, waldur
  <2>8. QED BY <2>5, <2>6, <2>7 DEF TrackInv
<1>6. CASE PatchStatus
  BY <1>6, TrackPatch
<1>7. QED
  BY <1>1, <1>2, <1>3, <1>4, <1>5, <1>6

LEMMA TrackTerminate ==
    ASSUME TypeInv, ReleaseInv, TrackInv,
           \/ StopVM \/ SubmitTermination \/ TerminationRefused \/ TerminationLost
           \/ TerminateCallFails
    PROVE  TrackInv'
<1> USE DEF Goto, Return, GoIdle
<1>0. /\ pc = "terminate" /\ api' = api /\ cache' = cache /\ cur \in Machines
      /\ obj \in Object /\ obj.st \in Status /\ obj.st.uuid \in OrderIds
  BY DEF StopVM, SubmitTermination, TerminationRefused, TerminationLost, TerminateCallFails,
         TypeInv, TypeOK, WorkerOK, Object, Status
<1>1. CASE StopVM
  <2>1. AcceptStop(obj.st.vm) /\ obj.st.vm \in OrderIds /\ pc' = "idle"
    BY <1>0, <1>1 DEF StopVM, StillRunning, Status
  <2>2. QED BY <1>0, <2>1, OrderKeepsOwners, TrackQuiet DEF InHand, TrackInv, Recorded
<1>2. CASE SubmitTermination
  <2>1. PICK o \in OrderIds : /\ AcceptTermination(o, obj.st.uuid)
                             /\ obj' = [obj EXCEPT !.st = TerminatingStatus(obj.st, o)]
    BY <1>2 DEF SubmitTermination
  <2>2. OwnersKept
    BY <1>0, <2>1, OrderKeepsOwners
  <2>3. /\ obj'.st = TerminatingStatus(obj.st, o)
        /\ obj'.pid = obj.pid /\ obj'.deleting = obj.deleting
    BY <1>0, <2>1 DEF Object
  <2>4. /\ obj'.st.uuid = obj.st.uuid /\ obj'.st.vm = obj.st.vm
        /\ obj'.st.state = obj.st.state /\ obj'.st.init = obj.st.init
    BY <1>0, <2>3 DEF TerminatingStatus, Status
  <2>5. StatusTrue(obj.st, orders) /\ OwnVM(obj.st, cur)
    BY <1>0 DEF ReleaseInv, TrackInv, InHand
  <2>6. obj.st.uuid # Nil => resources'[obj.st.uuid].owner = cur
    BY <1>0, <2>2, <2>5, OwnStable
  <2>7. pc' = "patchStatus" /\ cur' = cur /\ base' = base
    BY <1>2 DEF SubmitTermination
  <2>8. InHand'
    BY <1>0, <2>3, <2>4, <2>6, <2>7 DEF TrackInv, InHand, OwnVM, StatusSound, NeedsProviderID
  <2>9. QED BY <1>0, <2>2, <2>8, TrackQuiet DEF TrackInv, Recorded
<1>3. CASE TerminationRefused \/ TerminateCallFails
  BY <1>3, TrackGoesOn DEF TerminationRefused, TerminateCallFails
<1>4. CASE TerminationLost
  <2>1. PICK o \in OrderIds : AcceptTermination(o, obj.st.uuid)
    BY <1>4 DEF TerminationLost
  <2>2. OwnersKept /\ pc' = "idle"
    BY <1>0, <1>4, <2>1, OrderKeepsOwners DEF TerminationLost
  <2>3. QED BY <1>0, <2>2, TrackQuiet DEF InHand, TrackInv, Recorded
<1>5. QED
  BY <1>1, <1>2, <1>3, <1>4

LEMMA TrackEnvironment ==
    ASSUME TypeInv, ReleaseInv, TrackInv, NEW m \in Machines, CacheSync(m) \/ Environment(m)
    PROVE  TrackInv'
<1>0. UNCHANGED waldur /\ UNCHANGED worker
  BY DEF CacheSync, Environment, UserDelete, SetOwnerRef, SetLabel, BootstrapReady
<1>1. OwnersKept
  BY <1>0 DEF OwnersKept, waldur
<1>2. CASE CacheSync(m) \/ SetLabel(m) \/ BootstrapReady(m)
  <2>1. api' = api /\ \A n \in Machines : cache'[n].deleting => api[n].deleting
    BY <1>2 DEF CacheSync, SetLabel, BootstrapReady, TypeInv, TypeOK, TrackInv, Recorded
  <2>2. InHand'
    BY <1>0, <1>1, <2>1, HandKept
  <2>3. QED BY <1>1, <2>1, <2>2, TrackQuiet
<1>3. CASE UserDelete(m) \/ SetOwnerRef(m)
  <2>1. cache' = cache /\ api \in [Machines -> Object]
    BY <1>3 DEF UserDelete, SetOwnerRef, TypeInv, TypeOK
  <2>2. \A n \in Machines : /\ api'[n].st = api[n].st /\ api'[n].pid = api[n].pid
                            /\ api[n].deleting => api'[n].deleting
    <3>1. CASE SetOwnerRef(m)
      BY <2>1, <3>1 DEF SetOwnerRef, Object
    <3>2. CASE UserDelete(m) /\ api[m].fin
      BY <2>1, <3>2 DEF UserDelete, Object
    <3>3. CASE UserDelete(m) /\ ~api[m].fin
      BY <2>1, <3>3 DEF UserDelete, Object
    <3>4. QED BY <1>3, <3>1, <3>2, <3>3
  <2>3. InHand'
    BY <1>0, <1>1, <2>2, HandKept
  <2>4. \A n \in Machines : Recorded(n)'
    BY <1>0, <2>1, <2>2 DEF TrackInv, Recorded, OwnVM, waldur
  <2>5. ReadyConsistent'
    BY <2>2 DEF TrackInv, ReadyConsistent
  <2>6. QED BY <2>3, <2>4, <2>5 DEF TrackInv
<1>4. QED
  BY <1>2, <1>3 DEF Environment

LEMMA TrackNext ==
    ASSUME ReadOwnWrites
    PROVE  TypeInv /\ ReleaseInv /\ TrackInv /\ [Next]_vars => TrackInv'
<1> SUFFICES ASSUME TypeInv, ReleaseInv, TrackInv, [Next]_vars PROVE TrackInv'
  OBVIOUS
<1>1. CASE UNCHANGED vars \/ TenantReady
  <2>1. UNCHANGED waldur /\ api' = api /\ cache' = cache /\ UNCHANGED worker
    BY <1>1 DEF vars, TenantReady, waldur, worker
  <2>2. OwnersKept
    BY <2>1 DEF OwnersKept, waldur
  <2>3. QED BY <2>1, <2>2, HandKept, TrackQuiet DEF TrackInv, Recorded
<1>2. CASE Step
  BY <1>2, TrackCreate, TrackRefresh, TrackTerminate DEF Step
<1>3. CASE \E m \in Machines : Reconcile(m) \/ CacheSync(m) \/ Environment(m)
  BY <1>3, TrackReconcile, TrackEnvironment
<1>4. CASE Marketplace
  <2>1. OwnersKept
    BY <1>4, ProgressKeepsIdentity DEF Marketplace, WaldurProgress, OrderProgress, OwnersKept
  <2>2. api' = api /\ cache' = cache /\ UNCHANGED worker
    BY <1>4 DEF Marketplace
  <2>3. QED BY <2>1, <2>2, HandKept, TrackQuiet DEF TrackInv, Recorded
<1>5. CASE Crash
  <2>1. UNCHANGED waldur /\ api' = api /\ cache' = api /\ pc' = "idle"
    BY <1>5 DEF Crash, GoIdle
  <2>2. QED BY <2>1, TrackQuiet DEF InHand, OwnersKept, waldur
<1>6. QED
  BY <1>1, <1>2, <1>3, <1>4, <1>5 DEF Next

\* The invariants of this module and of those it rests on.
MachineInv == TypeInv /\ FinalizerInv /\ ReleaseInv /\ TrackInv

LEMMA MachineInductive ==
    ASSUME ReadOwnWrites
    PROVE  Spec => []MachineInv
<1>1. Init => MachineInv
  BY TypeInit, FinalizerInit, ReleaseInit, TrackInit DEF MachineInv
<1>2. MachineInv /\ [Next]_vars => MachineInv'
  BY TypeStep, FinalizerNext, ReleaseNext, TrackNext DEF MachineInv
<1>3. QED
  BY <1>1, <1>2, PTL DEF Spec

\* When a reconciliation sees what earlier ones wrote, the provider ID and the
\* instance UUID a machine shows are always those of the VM that its deletion
\* will terminate.
THEOREM ProviderIDSafe ==
    ASSUME ReadOwnWrites
    PROVE  Spec => []ProviderIDMatchesTracked
<1>1. MachineInv => ProviderIDMatchesTracked
  BY DEF MachineInv, TrackInv, Recorded, StatusSound, ProviderIDMatchesTracked
<1>2. QED
  BY <1>1, MachineInductive, PTL

\* Under the same assumption the published Ready condition agrees with the
\* instance state published beside it, and a Ready machine is initialized and
\* has its provider ID.
THEOREM ReadySafe ==
    ASSUME ReadOwnWrites
    PROVE  Spec => []ReadyConsistent
<1>1. MachineInv => ReadyConsistent
  BY DEF MachineInv, TrackInv
<1>2. QED
  BY <1>1, MachineInductive, PTL

\* The patch of the status writes what the worker has, and nothing else.
LEMMA StatusWritten ==
    ASSUME TypeInv, ReleaseInv, PatchStatus
    PROVE  /\ cur \in Machines
           /\ api'[cur].st = FinalStatus(obj) /\ api'[cur].st.uuid = obj.st.uuid
           /\ \A n \in Machines : /\ n # cur => api'[n] = api[n]
                                  /\ api'[n].pid = api[n].pid
                                  /\ api'[n].exists = api[n].exists
                                  /\ api'[n].deleting = api[n].deleting
<1>1. /\ obj \in Object /\ obj.st \in Status /\ base \in Status
      /\ base = api[cur].st /\ cur \in Machines /\ api \in [Machines -> Object]
  BY DEF PatchStatus, ReleaseInv, TypeInv, TypeOK, Object
<1>2. MergePatch(base, FinalStatus(obj), api[cur].st) = FinalStatus(obj)
  BY <1>1, FinalStatusType, MergeIsNew
<1>3. api' = [api EXCEPT ![cur].st = FinalStatus(obj)]
  BY <1>2 DEF PatchStatus
<1>4. FinalStatus(obj).uuid = obj.st.uuid
  BY <1>1 DEF FinalStatus, setMachineReadyCondition, Status
<1>5. QED
  BY <1>1, <1>3, <1>4 DEF Object

LEMMA ProviderIDWritten ==
    ASSUME TypeInv, PatchProviderID
    PROVE  /\ cur \in Machines
           /\ \A n \in Machines : /\ n # cur => api'[n] = api[n]
                                  /\ api'[n].st = api[n].st
                                  /\ api'[n].exists = api[n].exists
                                  /\ api'[n].deleting = api[n].deleting
BY DEF PatchProviderID, TypeInv, TypeOK, Object

\* What a step may do to the objects: patch one in flight, release one, let
\* the user delete one, or leave all of them recognisable.
LEMMA ApiStep ==
    ASSUME TypeInv, [Next]_vars
    PROVE  \/ PatchStatus \/ PatchProviderID
           \/ \E m \in Machines : DeleteNeverProvisioned(m) \/ DeleteDone(m) \/ UserDelete(m)
           \/ \A n \in Machines : /\ api'[n].st = api[n].st /\ api'[n].pid = api[n].pid
                                  /\ api'[n].exists = api[n].exists
                                  /\ api'[n].deleting = api[n].deleting
<1>0. api \in [Machines -> Object]
  BY DEF TypeInv, TypeOK
<1>1. CASE UNCHANGED vars \/ TenantReady \/ Marketplace \/ Crash
  BY <1>1 DEF vars, TenantReady, Marketplace, Crash
<1>2. CASE Step
  BY <1>2 DEF Step, WaitBootstrap, PassVerbatim, StripFails, StoreToken, RancherPath, NewSecretID,
         MergeFails, PayloadNotReady, CreateCallFails, VaultAnswerLost, SubmitRejected,
         SubmitAccepted, SubmitLost, RefreshOrder, RefreshInstance, RefreshFails, AnswerPanics,
         WriteFails, StopVM, SubmitTermination, TerminationRefused, TerminationLost,
         TerminateCallFails
<1>3. ASSUME NEW m \in Machines, AddFinalizer(m) \/ SetOwnerRef(m)
      PROVE  \A n \in Machines : /\ api'[n].st = api[n].st /\ api'[n].pid = api[n].pid
                                 /\ api'[n].exists = api[n].exists
                                 /\ api'[n].deleting = api[n].deleting
  <2>1. CASE AddFinalizer(m)
    BY <1>0, <2>1 DEF AddFinalizer, Object
  <2>2. CASE SetOwnerRef(m)
    BY <1>0, <2>2 DEF SetOwnerRef, Object
  <2>3. QED BY <1>3, <2>1, <2>2
<1>4. CASE \E m \in Machines : Reconcile(m) \/ CacheSync(m) \/ Environment(m)
  BY <1>3, <1>4 DEF Reconcile, CacheSync, Environment, ReconcileGone, ReconcileWait,
           BeginCreate, BeginRefresh, DeletePoll, BeginTerminate, Begin, SetLabel, BootstrapReady
<1>5. QED
  BY <1>1, <1>2, <1>4 DEF Next

\* A release and a deletion by the user leave status and provider ID alone.
LEMMA RemovalKeeps ==
    ASSUME TypeInv, NEW m \in Machines,
           DeleteNeverProvisioned(m) \/ DeleteDone(m) \/ UserDelete(m)
    PROVE  \A n \in Machines : /\ api'[n].st = api[n].st /\ api'[n].pid = api[n].pid
                               /\ api[n].deleting => api'[n].deleting
                               /\ n # m => api'[n] = api[n]
<1>0. api \in [Machines -> Object]
  BY DEF TypeInv, TypeOK
<1>1. \/ api' = [api EXCEPT ![m].fin = FALSE, ![m].exists = FALSE]
      \/ api' = [api EXCEPT ![m].deleting = TRUE]
      \/ api' = [api EXCEPT ![m].exists = FALSE]
  BY DEF DeleteNeverProvisioned, DeleteDone, Release, UserDelete
<1>2. CASE api' = [api EXCEPT ![m].fin = FALSE, ![m].exists = FALSE]
  BY <1>0, <1>2 DEF Object
<1>3. CASE api' = [api EXCEPT ![m].deleting = TRUE]
  BY <1>0, <1>3 DEF Object
<1>4. CASE api' = [api EXCEPT ![m].exists = FALSE]
  BY <1>0, <1>4 DEF Object
<1>5. QED BY <1>1, <1>2, <1>3, <1>4

LEMMA TrackedStep ==
    ASSUME MachineInv, [Next]_vars, NEW m \in Machines
    PROVE  /\ api[m].st.uuid # Nil => api'[m].st.uuid = api[m].st.uuid
           /\ api[m].pid # Nil => api'[m].pid = api[m].pid
<1>1. CASE PatchStatus
  <2>1. pc = "patchStatus" /\ base = api[cur].st /\ (base.uuid # Nil => obj.st.uuid = base.uuid)
    BY <1>1 DEF MachineInv, ReleaseInv, TrackInv, InHand, PatchStatus
  <2>2. QED BY <1>1, <2>1, StatusWritten DEF MachineInv
<1>2. CASE PatchProviderID
  <2>1. api[cur].pid = Nil
    BY <1>2 DEF MachineInv, TrackInv, InHand, NeedsProviderID, PatchProviderID
  <2>2. QED BY <1>2, <2>1, ProviderIDWritten DEF MachineInv
<1>3. CASE ~PatchStatus /\ ~PatchProviderID
  BY <1>3, ApiStep, RemovalKeeps DEF MachineInv
<1>4. QED BY <1>1, <1>2, <1>3

\* When a reconciliation sees what earlier ones wrote, a VM once recorded stays
\* the machine's VM and a provider ID once set never changes, over all later
\* patches, failures, retries and restarts.
THEOREM TrackedSafe ==
    ASSUME ReadOwnWrites
    PROVE  Spec => TrackedForever
<1>1. MachineInv /\ [Next]_vars =>
        [\A m \in Machines :
           /\ api[m].st.uuid # Nil => api'[m].st.uuid = api[m].st.uuid
           /\ api[m].pid # Nil => api'[m].pid = api[m].pid]_vars
  BY TrackedStep
<1>2. QED
  BY <1>1, MachineInductive, PTL DEF Spec, TrackedForever

\* The steps that reach Waldur, and Waldur's own.
LEMMA WaldurActs ==
    ASSUME [Next]_vars
    PROVE  \/ UNCHANGED waldur \/ Marketplace
           \/ SubmitAccepted \/ SubmitLost \/ StopVM \/ SubmitTermination \/ TerminationLost
<1>1. CASE Step
  BY <1>1 DEF Step, WaitBootstrap, PassVerbatim, StripFails, StoreToken, RancherPath, NewSecretID,
         MergeFails, PayloadNotReady, CreateCallFails, VaultAnswerLost, SubmitRejected,
         RefreshOrder, RefreshInstance, RefreshFails, AnswerPanics, PatchProviderID, PatchStatus,
         WriteFails, TerminationRefused, TerminateCallFails
<1>2. CASE \/ UNCHANGED vars \/ TenantReady \/ Crash
           \/ \E m \in Machines : Reconcile(m) \/ CacheSync(m) \/ Environment(m)
  BY <1>2 DEF vars, TenantReady, Crash, Reconcile, CacheSync, Environment, ReconcileGone,
         AddFinalizer, ReconcileWait, BeginCreate, BeginRefresh, DeleteNeverProvisioned,
         DeletePoll, DeleteDone, BeginTerminate, Release, Begin, Settle, UserDelete, SetOwnerRef,
         SetLabel, BootstrapReady, waldur
<1>3. QED
  BY <1>1, <1>2 DEF Next

\* A termination order is made by the worker, for the VM it tracks.
LEMMA NewTermination ==
    ASSUME TypeInv, [Next]_vars, NEW o \in OrderIds,
           orders[o].type = "none", orders'[o].type = "Terminate"
    PROVE  /\ pc = "terminate" /\ orders'[o].res = obj.st.uuid
           /\ SubmitTermination \/ TerminationLost
<1>0. orders \in [OrderIds -> Order]
  BY DEF TypeInv, TypeOK, WaldurTypeOK
<1>1. CASE Marketplace
  BY <1>1, ProgressMakesNoOrder DEF Marketplace, WaldurProgress, OrderProgress
<1>2. CASE SubmitAccepted \/ SubmitLost
  BY <1>0, <1>2 DEF SubmitAccepted, SubmitLost, AcceptCreation
<1>3. CASE SubmitTermination \/ TerminationLost
  BY <1>0, <1>3 DEF SubmitTermination, TerminationLost, AcceptTermination
<1>4. CASE UNCHANGED waldur \/ StopVM
  BY <1>4 DEF StopVM, waldur
<1>5. QED
  BY <1>1, <1>2, <1>3, <1>4, WaldurActs

\* When a reconciliation sees what earlier ones wrote and no read of the
\* instance fails (the code takes such an answer for an instance that does not
\* run), a VM whose instance was recorded is shut off before its termination
\* is ordered.
THEOREM StoppedFirst ==
    ASSUME ReadOwnWrites, "call" \notin Faults
    PROVE  Spec => StoppedBeforeTermination
<1>1. ASSUME MachineInv, [Next]_vars, NEW o \in OrderIds,
             orders[o].type = "none", orders'[o].type = "Terminate"
      PROVE  \/ api[resources[orders'[o].res].owner].st.vm = Nil
             \/ RuntimeState(orders'[o].res) \in {"none", "SHUTOFF", "ERROR"}
  <2>1. /\ pc = "terminate" /\ orders'[o].res = obj.st.uuid
        /\ SubmitTermination \/ TerminationLost
    BY <1>1, NewTermination DEF MachineInv
  <2>2. ~StillRunning(obj.st)
    BY <2>1 DEF SubmitTermination, TerminationLost, MaySubmitTermination, Fault
  <2>3. obj.st = api[cur].st /\ OwnVM(obj.st, cur) /\ StatusSound(obj.st) /\ obj.st.uuid # Nil
    BY <1>1, <2>1 DEF MachineInv, ReleaseInv, TrackInv, InHand, TypeInv, WorkerOK
  <2>4. QED
    BY <2>1, <2>2, <2>3 DEF StillRunning, OwnVM, StatusSound
<1>2. MachineInv /\ [Next]_vars =>
        [\A o \in OrderIds : LET r == orders'[o].res IN
           orders[o].type = "none" /\ orders'[o].type = "Terminate"
             => \/ api[resources[r].owner].st.vm = Nil
                \/ RuntimeState(r) \in {"none", "SHUTOFF", "ERROR"}]_vars
  BY <1>1
<1>3. QED
  BY <1>2, MachineInductive, PTL DEF Spec, StoppedBeforeTermination

============================================================================
