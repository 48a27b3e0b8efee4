------------------------- MODULE MachineController -------------------------
(***************************************************************************)
(* WaldurMachineReconciler: one worker that reconciles WaldurMachine       *)
(* objects against the Waldur marketplace and Vault.                       *)
(*                                                                         *)
(* A reconciliation reads its object from the informer cache (cache),      *)
(* which lags the API server (api), works on an in-memory copy (obj), and  *)
(* patches the API server with what changed since its snapshot (base).     *)
(* Every call to Waldur or Vault whose effect outlives the reconciliation  *)
(* is a step of its own, so that the user, Waldur, the cache, a failing    *)
(* call or a crash can come in between.                                    *)
(***************************************************************************)
EXTENDS WaldurMarketplace, VaultStore

CONSTANTS
    VaultMode,       \* "none": no VaultClient; "rke2", "rancher": by vault-config
    Templates,       \* may the base cloud-init template parse, may it not?
    BootDocs,        \* the bootstrap documents the bootstrap provider may write
    TenantStart      \* may the machine's tenant be ready when the run begins?

AllBootDocs == {"withToken", "noConfigFile", "malformed"}

ASSUME ModeAssumption == /\ VaultMode \in {"none", "rke2", "rancher"}
                         /\ ReadOwnWrites \in BOOLEAN
ASSUME InputAssumption == /\ BootDocs \subseteq AllBootDocs
                          /\ TenantStart \subseteq BOOLEAN
                          /\ Templates \subseteq BOOLEAN
ASSUME FaultAssumption == Faults \subseteq AllFaults /\ MaxFaults \in Nat

VARIABLES
    api,          \* the WaldurMachine objects in the API server
    cache,        \* the informer's copy of them
    queued,       \* the workqueue: due now, or after a RequeueAfter
    pc,           \* where the worker is
    cur,          \* the machine it is reconciling
    obj,          \* its in-memory object
    base,         \* the status snapshot its patch is computed against
    sid,          \* the secret_id createVM holds
    boot,         \* the bootstrap Secret of each owner Machine
    labelled,     \* does the owner Machine carry the cluster-name label?
    tenantReady,  \* is the tenant of the machines' offering ready?
    templateOK    \* does the base template the manager loaded parse?

worker == <<pc, cur, obj, base, sid>>
world == <<boot, labelled, tenantReady, templateOK>>
vars == <<orders, resources, kv, sids, api, cache, queued, pc, cur, obj, base,
          sid, boot, labelled, tenantReady, templateOK, faults>>

----------------------------------------------------------------------------
(* Objects *)

\* WaldurMachineStatus, the fields some decision depends on.  The Order
\* pointer is flattened into ord, ordType and ordState; ready is the reason
\* of the Ready condition; init is Initialization.Provisioned.
Status == [uuid : OrderIds \cup {Nil},
           ord : OrderIds \cup {Nil},
           ordType : {"none", "Create", "Terminate"},
           ordState : OrderStates \cup {"none"},
           state : {"none", "CREATING", "OK", "ERRED"},
           vm : OrderIds \cup {Nil},
           init : BOOLEAN,
           ready : {"none", "Provisioned", "ProvisioningFailed", "Provisioning"}]

NoStatus == [uuid |-> Nil, ord |-> Nil, ordType |-> "none", ordState |-> "none",
             state |-> "none", vm |-> Nil, init |-> FALSE, ready |-> "none"]

\* A WaldurMachine: does it exist, its deletionTimestamp, machineFinalizer,
\* an ownerReference of kind Machine, spec.providerID and its status.
Object == [exists : BOOLEAN, deleting : BOOLEAN, fin : BOOLEAN, owner : BOOLEAN,
           pid : OrderIds \cup {Nil}, st : Status]

NewObject == [exists |-> TRUE, deleting |-> FALSE, fin |-> FALSE, owner |-> FALSE,
              pid |-> Nil, st |-> NoStatus]

PCs == {"idle", "createVM", "secretID", "submit", "refreshOrder",
        "refreshInstance", "providerID", "patchStatus", "terminate"}

TypeOK ==
    /\ WaldurTypeOK
    /\ VaultTypeOK
    /\ api \in [Machines -> Object]
    /\ cache \in [Machines -> Object]
    /\ queued \in [Machines -> BOOLEAN]
    /\ pc \in PCs
    /\ cur \in Machines \cup {Nil}
    /\ pc # "idle" => cur \in Machines
    /\ obj \in Object
    /\ base \in Status
    /\ sid \in SecretIds \cup {Nil}
    /\ boot \in [Machines -> AllBootDocs \cup {"none"}]
    /\ labelled \in [Machines -> BOOLEAN]
    /\ tenantReady \in BOOLEAN
    /\ templateOK \in BOOLEAN
    /\ faults \in 0..MaxFaults

Init ==
    /\ WaldurInit
    /\ VaultInit
    /\ api = [m \in Machines |-> NewObject]
    /\ cache = api
    /\ queued = [m \in Machines |-> TRUE]
    /\ pc = "idle" /\ cur = Nil /\ obj = NewObject /\ base = NoStatus /\ sid = Nil
    /\ boot = [m \in Machines |-> "none"]
    /\ labelled \in [Machines -> BOOLEAN]
    /\ tenantReady \in TenantStart
    /\ templateOK \in Templates
    /\ faults = MaxFaults

----------------------------------------------------------------------------
(* The API server and the informer *)

\* client.MergeFrom(base) without an optimistic lock: the fields that differ
\* from the snapshot overwrite the server's, the others are left alone.
MergePatch(old, new, server) ==
    [uuid |-> Merged(old.uuid, new.uuid, server.uuid),
     ord |-> Merged(old.ord, new.ord, server.ord),
     ordType |-> Merged(old.ordType, new.ordType, server.ordType),
     ordState |-> Merged(old.ordState, new.ordState, server.ordState),
     state |-> Merged(old.state, new.state, server.state),
     vm |-> Merged(old.vm, new.vm, server.vm),
     init |-> Merged(old.init, new.init, server.init),
     ready |-> Merged(old.ready, new.ready, server.ready)]

\* The cache shows every write the controller itself has made.
Fresh(m) == /\ cache[m].st = api[m].st
            /\ cache[m].pid = api[m].pid
            /\ cache[m].fin = api[m].fin

\* r.Update sends the resourceVersion that was read: a stale copy is refused.
\* The refused update only puts the object back in the queue, a stutter here.
UpdateAccepted(m) == api[m].exists /\ cache[m] = api[m]

\* A watch event brings the cache up to date and queues the object.
CacheSync(m) ==
    /\ cache[m] # api[m]
    /\ cache' = [cache EXCEPT ![m] = api[m]]
    /\ queued' = [queued EXCEPT ![m] = TRUE]
    /\ UNCHANGED <<waldur, vault, api, worker, world, faults>>

----------------------------------------------------------------------------
(* The worker's steps: beginning and returning *)

Take(m) == /\ pc = "idle"
           /\ queued[m]
           /\ ReadOwnWrites => Fresh(m)

Begin(m, at) ==
    /\ pc' = at
    /\ cur' = m
    /\ obj' = cache[m]
    /\ base' = cache[m].st
    /\ sid' = Nil
    /\ queued' = [queued EXCEPT ![m] = FALSE]
    /\ UNCHANGED <<waldur, vault, api, cache, world, faults>>

\* A result without RequeueAfter.
Settle(m) ==
    /\ queued' = [queued EXCEPT ![m] = FALSE]
    /\ UNCHANGED <<waldur, vault, cache, worker, world, faults>>

GoIdle == pc' = "idle" /\ cur' = Nil /\ obj' = NewObject /\ base' = NoStatus /\ sid' = Nil

\* RequeueAfter, or an error, which the workqueue retries.
Return ==
    /\ GoIdle
    /\ queued' = [queued EXCEPT ![cur] = TRUE]

Goto(at) == pc' = at /\ UNCHANGED <<cur, base, queued>>

----------------------------------------------------------------------------
(* Reconcile: the branches that end at once *)

\* Get answers NotFound.
ReconcileGone(m) ==
    /\ Take(m)
    /\ ~cache[m].exists
    /\ Settle(m)
    /\ UNCHANGED api

AddFinalizer(m) ==
    /\ Take(m)
    /\ cache[m].exists /\ ~cache[m].deleting /\ ~cache[m].fin
    /\ UpdateAccepted(m)
    /\ api' = [api EXCEPT ![m].fin = TRUE]
    /\ Settle(m)

AdmittedEarly(m) == cache[m].exists /\ ~cache[m].deleting

\* The object passes the gates on deletion and finalizer.
Admitted(m) == cache[m].exists /\ ~cache[m].deleting /\ cache[m].fin

\* No owner Machine yet, or no cluster label on it: return with no requeue.
\* (Failing to read the Machine, its Cluster or the WaldurCluster is an error
\* that leaves the object queued: a stutter.)
ReconcileWait(m) ==
    /\ Take(m)
    /\ Admitted(m)
    /\ ~cache[m].owner \/ ~labelled[m]
    /\ Settle(m)
    /\ UNCHANGED api

----------------------------------------------------------------------------
(* Reconcile: creating the VM *)

NeedsVMUntilSeen(st) == st.vm = Nil

NeedsVMOrRetry(st) == st.uuid = Nil \/ st.ordState = "Erred"

NeedsVM(st) == st.uuid = Nil

BeginCreate(m) ==
    /\ Take(m)
    /\ Admitted(m)
    /\ cache[m].owner /\ labelled[m]
    /\ NeedsVM(cache[m].st)
    /\ Begin(m, "createVM")

\* createVM failed: Reconcile logs the error and goes on to patch the status.
CreateFails == Goto("patchStatus") /\ UNCHANGED <<obj, sid>>

WaitBootstrapOnce ==
    /\ pc = "createVM"
    /\ VaultMode # "rancher"
    /\ boot[cur] = "none"
    /\ GoIdle
    /\ UNCHANGED <<waldur, vault, api, cache, queued, world, faults>>

\* errBootstrapNotReady: RequeueAfter 10 s, without a patch.
WaitBootstrap ==
    /\ pc = "createVM"
    /\ VaultMode # "rancher"
    /\ boot[cur] = "none"
    /\ Return
    /\ UNCHANGED <<waldur, vault, api, cache, world, faults>>

\* No VaultClient: the bootstrap document is the user_data.
PassVerbatim ==
    /\ pc = "createVM"
    /\ VaultMode = "none"
    /\ boot[cur] # "none"
    /\ Goto("submit")
    /\ UNCHANGED <<waldur, vault, api, cache, obj, sid, world, faults>>

\* stripRKE2Token: the token it finds.  A document without an rke2 config
\* file yields the empty token and no error.
StrippedToken(doc) == IF doc = "withToken" THEN "token" ELSE "empty"

StripFails ==
    /\ pc = "createVM"
    /\ VaultMode = "rke2"
    /\ boot[cur] = "malformed"
    /\ CreateFails
    /\ UNCHANGED <<waldur, vault, api, cache, world, faults>>

\* The first node writes the token, later nodes find a secret and skip.
StoreToken ==
    /\ pc = "createVM"
    /\ VaultMode = "rke2"
    /\ boot[cur] \in {"withToken", "noConfigFile"}
    /\ IF SecretExists THEN UNCHANGED kv ELSE WriteSecret(StrippedToken(boot[cur]))
    /\ Goto("secretID")
    /\ UNCHANGED <<waldur, sids, api, cache, obj, sid, world, faults>>

\* buildUserDataWithRancherAgent: the token is in Vault already.
RancherPath ==
    /\ pc = "createVM"
    /\ VaultMode = "rancher"
    /\ Goto("secretID")
    /\ UNCHANGED <<waldur, vault, api, cache, obj, sid, world, faults>>

NewSecretID ==
    /\ pc = "secretID"
    /\ templateOK
    /\ \E s \in SecretIds : GenerateSecretID(s) /\ sid' = s
    /\ Goto("submit")
    /\ UNCHANGED <<waldur, kv, api, cache, obj, world, faults>>

\* The secret_id generated for user_data that cannot be built is revoked.
MergeFailsRevoking(s) == FreshSecretID(s) /\ RevokeSecretID(s)

\* mergeCloudInit or BuildRancherAgentUserData fails on the base template.
\* An error of the revocation is dropped.
MergeFails ==
    /\ pc = "secretID"
    /\ ~templateOK
    /\ \E s \in SecretIds :
          MergeFailsRevoking(s) \/ ("call" \in Faults /\ GenerateSecretID(s))
    /\ CreateFails
    /\ UNCHANGED <<waldur, kv, api, cache, world, faults>>

\* buildOrderPayload fails: the tenant is missing or not ready.  The
\* secret_id is not revoked.
PayloadNotReady ==
    /\ pc = "submit"
    /\ ~tenantReady
    /\ CreateFails
    /\ UNCHANGED <<waldur, vault, api, cache, world, faults>>

\* A read of Kubernetes, Vault or Waldur, or the connection to submit the
\* order, fails before it has any effect.  A secret_id in hand is not revoked.
CreateCallFails ==
    /\ pc \in {"createVM", "secretID", "submit"}
    /\ Fault("call")
    /\ CreateFails
    /\ UNCHANGED <<waldur, vault, api, cache, world>>

\* Vault stores the token, or generates a secret_id, and the answer is lost or
\* cannot be decoded: an error to createVM, which never learns the secret_id.
VaultAnswerLost ==
    /\ Fault("lost")
    /\ \/ /\ pc = "createVM"
          /\ VaultMode = "rke2"
          /\ boot[cur] \in {"withToken", "noConfigFile"}
          /\ ~SecretExists
          /\ WriteSecret(StrippedToken(boot[cur]))
          /\ UNCHANGED sids
       \/ /\ pc = "secretID"
          /\ \E s \in SecretIds : GenerateSecretID(s)
          /\ UNCHANGED kv
    /\ CreateFails
    /\ UNCHANGED <<waldur, api, cache, world>>

CreatedStatus(st, o) ==
    [st EXCEPT !.ord = o, !.ordType = "Create", !.ordState = "PendingProvider",
               !.uuid = o, !.state = "CREATING"]

SubmitAccepted ==
    /\ pc = "submit"
    /\ tenantReady
    /\ \E o \in OrderIds :
          /\ AcceptCreation(o, cur, sid, "none")
          /\ obj' = [obj EXCEPT !.st = CreatedStatus(obj.st, o)]
    /\ Goto("patchStatus")
    /\ UNCHANGED <<vault, api, cache, sid, world, faults>>

\* Any answer but 201: the secret_id is revoked, the revocation's own error
\* is dropped.
SubmitRejected ==
    /\ pc = "submit"
    /\ tenantReady
    /\ Fault("reject")
    /\ RevokeSecretID(sid) \/ ("call" \in Faults /\ UNCHANGED sids)
    /\ CreateFails
    /\ UNCHANGED <<waldur, kv, api, cache, world>>

SubmitLostRevoking ==
    /\ pc = "submit"
    /\ tenantReady
    /\ Fault("lost")
    /\ \E o \in OrderIds : AcceptCreation(o, cur, sid, "none")
    /\ RevokeSecretID(sid)
    /\ CreateFails
    /\ UNCHANGED <<kv, api, cache, world>>

\* Waldur accepted the order but the answer never arrives.
SubmitLost ==
    /\ pc = "submit"
    /\ tenantReady
    /\ Fault("lost")
    /\ \E o \in OrderIds : AcceptCreation(o, cur, sid, "none")
    /\ CreateFails
    /\ UNCHANGED <<vault, api, cache, world>>

----------------------------------------------------------------------------
(* Reconcile: refreshing the VM *)

\* refreshVM skips refreshOrder when there is no order or it is terminal.
RefreshAt(st) == IF st.ord # Nil /\ ~isOrderTerminal(st.ordState)
                 THEN "refreshOrder" ELSE "refreshInstance"

BeginRefresh(m) ==
    /\ Take(m)
    /\ Admitted(m)
    /\ cache[m].owner /\ labelled[m]
    /\ ~NeedsVM(cache[m].st)
    /\ Begin(m, RefreshAt(cache[m].st))

RefreshOrder ==
    /\ pc = "refreshOrder"
    /\ obj' = [obj EXCEPT !.st.ordState = orders[obj.st.ord].state]
    /\ Goto("refreshInstance")
    /\ UNCHANGED <<waldur, vault, api, cache, sid, world, faults>>

NeedsProviderIDAlways(o) == ~o.deleting /\ o.st.state = "OK" /\ o.st.vm # Nil

\* Only Reconcile's own path sets the provider ID; reconcileDelete polls.
NeedsProviderID(o) ==
    ~o.deleting /\ o.st.state = "OK" /\ o.pid = Nil /\ o.st.vm # Nil

AfterRefresh(o) == IF NeedsProviderID(o) THEN "providerID" ELSE "patchStatus"

InstanceStatusOfOwner(st) ==
    IF resources[st.uuid].core = "none" THEN st
    ELSE [st EXCEPT !.state = resources[st.uuid].core,
                    !.vm = resources[st.uuid].owner,
                    !.init = @ \/ resources[st.uuid].core = "OK"]

\* A resource without scope tells nothing; otherwise the instance's state and
\* UUID are taken over, and an instance that is OK is Provisioned for good.
InstanceStatus(st) ==
    IF resources[st.uuid].core = "none" THEN st
    ELSE [st EXCEPT !.state = resources[st.uuid].core,
                    !.vm = st.uuid,
                    !.init = @ \/ resources[st.uuid].core = "OK"]

RefreshInstance ==
    /\ pc = "refreshInstance"
    /\ obj' = [obj EXCEPT !.st = InstanceStatus(obj.st)]
    /\ Goto(AfterRefresh([obj EXCEPT !.st = InstanceStatus(obj.st)]))
    /\ UNCHANGED <<waldur, vault, api, cache, sid, world, faults>>

\* An error is logged and Reconcile, or the poll, goes on with what it has.
RefreshFails ==
    /\ pc \in {"refreshOrder", "refreshInstance"}
    /\ Fault("call")
    /\ Goto(AfterRefresh(obj))
    /\ UNCHANGED <<waldur, vault, api, cache, obj, sid, world>>

\* An answer other than 200 leaves JSON200 nil, which refreshOrder, refreshVM
\* and buildOrderPayload dereference.  The panic is recovered and the object
\* retried; nothing is patched.
AnswerPanics ==
    /\ pc \in {"refreshOrder", "refreshInstance"} \/ (pc = "submit" /\ tenantReady)
    /\ Fault("panic")
    /\ Return
    /\ UNCHANGED <<waldur, vault, api, cache, world>>

----------------------------------------------------------------------------
(* Reconcile: writing back *)

\* r.Patch sends spec.providerID only (the status is a subresource), and the
\* answer is decoded over the in-memory object: the refreshed state is lost.
\* A field the server does not have yet survives in memory, but is part of the
\* new snapshot as well, so it is not patched either.
PatchProviderID ==
    /\ pc = "providerID"
    /\ api[cur].exists
    /\ api' = [api EXCEPT ![cur].pid = obj.st.vm]
    /\ obj' = [obj EXCEPT !.pid = obj.st.vm, !.st = api[cur].st]
    /\ base' = api[cur].st
    /\ pc' = "patchStatus"
    /\ UNCHANGED <<waldur, vault, cache, queued, cur, sid, world, faults>>

setMachineReadyConditionSkippingErred(st) ==
    [st EXCEPT !.ready = CASE st.state = "OK" -> "Provisioned"
                           [] st.state = "ERRED" -> @
                           [] OTHER -> "Provisioning"]

setMachineReadyCondition(st) ==
    [st EXCEPT !.ready = CASE st.state = "OK" -> "Provisioned"
                           [] st.state = "ERRED" -> "ProvisioningFailed"
                           [] OTHER -> "Provisioning"]

\* reconcileDelete patches the status as it is.
FinalStatus(o) == IF o.deleting THEN o.st ELSE setMachineReadyCondition(o.st)

PatchStatus ==
    /\ pc = "patchStatus"
    /\ api[cur].exists
    /\ api' = [api EXCEPT ![cur].st = MergePatch(base, FinalStatus(obj), api[cur].st)]
    /\ Return
    /\ UNCHANGED <<waldur, vault, cache, world, faults>>

\* The API server refuses or loses a patch: the error requeues the object and
\* what the reconciliation knew is gone.
WriteFails ==
    /\ pc \in {"providerID", "patchStatus"}
    /\ Fault("write")
    /\ Return
    /\ UNCHANGED <<waldur, vault, api, cache, world>>

----------------------------------------------------------------------------
(* reconcileDelete *)

Deleting(m) == cache[m].exists /\ cache[m].deleting

\* The last finalizer of a deleting object is removed: it is gone.
Release(m) ==
    /\ UpdateAccepted(m)
    /\ api' = [api EXCEPT ![m].fin = FALSE, ![m].exists = FALSE]
    /\ Settle(m)

DeleteNeverProvisioned(m) ==
    /\ Take(m)
    /\ Deleting(m)
    /\ cache[m].st.uuid = Nil
    /\ Release(m)

TerminationInFlight(st) ==
    st.ord # Nil /\ st.ordType = "Terminate" /\ ~isOrderTerminal(st.ordState)

DeletePoll(m) ==
    /\ Take(m)
    /\ Deleting(m)
    /\ cache[m].st.uuid # Nil
    /\ TerminationInFlight(cache[m].st)
    /\ Begin(m, "refreshOrder")

TerminationOver(st) ==
    st.ord # Nil /\ st.ordType = "Terminate" /\ isOrderTerminal(st.ordState)

TerminationDone(st) ==
    st.ord # Nil /\ st.ordType = "Terminate" /\ st.ordState = "Done"

DeleteDone(m) ==
    /\ Take(m)
    /\ Deleting(m)
    /\ cache[m].st.uuid # Nil
    /\ TerminationDone(cache[m].st)
    /\ Release(m)

MustTerminateOnce(st) == st.ordType # "Terminate"

\* Never ordered, or ordered and failed: (re)submit.
MustTerminate(st) == ~TerminationInFlight(st) /\ ~TerminationDone(st)

BeginTerminate(m) ==
    /\ Take(m)
    /\ Deleting(m)
    /\ cache[m].st.uuid # Nil
    /\ MustTerminate(cache[m].st)
    /\ Begin(m, "terminate")

StillRunningUntilStopped(st) == st.vm # Nil /\ resources[st.vm].run = "ACTIVE"

\* The instance, if its UUID was ever recorded, reports a runtime state, and not
\* one of the two that need no stop.
StillRunning(st) == /\ st.vm # Nil
                    /\ RuntimeState(st.vm) \notin {"none", "SHUTOFF", "ERROR"}

StopVM ==
    /\ pc = "terminate"
    /\ StillRunning(obj.st)
    /\ AcceptStop(obj.st.vm)
    /\ Return
    /\ UNCHANGED <<orders, vault, api, cache, world, faults>>

TerminatingStatus(st, o) ==
    [st EXCEPT !.ord = o, !.ordType = "Terminate", !.ordState = "PendingProvider"]

\* The runtime state is read first; an answer other than 200 to that read is
\* taken for an instance that does not run.
MaySubmitTermination ==
    \/ ~StillRunning(obj.st) /\ UNCHANGED faults
    \/ StillRunning(obj.st) /\ Fault("call")

SubmitTermination ==
    /\ pc = "terminate"
    /\ MaySubmitTermination
    /\ \E o \in OrderIds :
          /\ AcceptTermination(o, obj.st.uuid)
          /\ obj' = [obj EXCEPT !.st = TerminatingStatus(obj.st, o)]
    /\ Goto("patchStatus")
    /\ UNCHANGED <<vault, api, cache, sid, world>>

\* Waldur refuses the order: retry in 15 s.
TerminationRefused ==
    /\ pc = "terminate"
    /\ ~StillRunning(obj.st)
    /\ ~CanTerminate(obj.st.uuid)
    /\ Return
    /\ UNCHANGED <<waldur, vault, api, cache, world, faults>>

\* Waldur accepts the order but the answer is lost, or is a 202, for which the
\* client fills in no JSON200: the order's UUID is not known.
TerminationLost ==
    /\ pc = "terminate"
    /\ ~StillRunning(obj.st)
    /\ Fault("lost")
    /\ \E o \in OrderIds : AcceptTermination(o, obj.st.uuid)
    /\ Return
    /\ UNCHANGED <<vault, api, cache, world>>

\* The read, the stop or the submission fails: retry.
TerminateCallFails ==
    /\ pc = "terminate"
    /\ Fault("call")
    /\ Return
    /\ UNCHANGED <<waldur, vault, api, cache, world>>

----------------------------------------------------------------------------
(* The manager process, and everybody else *)

\* The manager dies and restarts, or loses its lease to a new leader: it loads
\* the base template again, and the informer lists the objects afresh and
\* queues every one of them.
Crash ==
    /\ Fault("crash")
    /\ GoIdle
    /\ cache' = api
    /\ queued' = [m \in Machines |-> TRUE]
    /\ templateOK' \in Templates
    /\ UNCHANGED <<waldur, vault, api, boot, labelled, tenantReady>>

\* Without a finalizer the API server drops the object at once.
UserDelete(m) ==
    /\ api[m].exists /\ ~api[m].deleting
    /\ api' = IF api[m].fin THEN [api EXCEPT ![m].deleting = TRUE]
                            ELSE [api EXCEPT ![m].exists = FALSE]
    /\ UNCHANGED <<waldur, vault, cache, queued, worker, world, faults>>

\* Cluster API's Machine controller adopts the WaldurMachine.
SetOwnerRef(m) ==
    /\ api[m].exists /\ ~api[m].deleting /\ ~api[m].owner
    /\ api' = [api EXCEPT ![m].owner = TRUE]
    /\ UNCHANGED <<waldur, vault, cache, queued, worker, world, faults>>

\* The owner Machine is not watched: labelling it queues nothing.
SetLabel(m) ==
    /\ ~labelled[m]
    /\ labelled' = [labelled EXCEPT ![m] = TRUE]
    /\ UNCHANGED <<waldur, vault, api, cache, queued, worker, boot, tenantReady, templateOK, faults>>

BootstrapReady(m) ==
    /\ boot[m] = "none"
    /\ \E doc \in BootDocs : boot' = [boot EXCEPT ![m] = doc]
    /\ UNCHANGED <<waldur, vault, api, cache, queued, worker, labelled, tenantReady, templateOK, faults>>

TenantReady ==
    /\ ~tenantReady
    /\ tenantReady' = TRUE
    /\ UNCHANGED <<waldur, vault, api, cache, queued, worker, boot, labelled, templateOK, faults>>

\* Waldur's own steps.
Marketplace ==
    /\ \/ WaldurProgress /\ UNCHANGED faults
       \/ Fault("order") /\ \E o \in OrderIds : FailOrder(o)
       \/ Fault("vm") /\ \E r \in OrderIds : InstanceChange(r)
    /\ UNCHANGED <<vault, api, cache, queued, worker, world>>

----------------------------------------------------------------------------
(* The specification *)

Reconcile(m) ==
    \/ ReconcileGone(m) \/ AddFinalizer(m) \/ ReconcileWait(m)
    \/ BeginCreate(m) \/ BeginRefresh(m)
    \/ DeleteNeverProvisioned(m) \/ DeletePoll(m) \/ DeleteDone(m)
    \/ BeginTerminate(m)

Step ==
    \/ WaitBootstrap \/ PassVerbatim \/ StripFails \/ StoreToken \/ RancherPath
    \/ NewSecretID \/ MergeFails \/ PayloadNotReady \/ CreateCallFails \/ VaultAnswerLost
    \/ SubmitAccepted \/ SubmitRejected \/ SubmitLost
    \/ RefreshOrder \/ RefreshInstance \/ RefreshFails \/ AnswerPanics
    \/ PatchProviderID \/ PatchStatus \/ WriteFails
    \/ StopVM \/ SubmitTermination \/ TerminationRefused \/ TerminationLost
    \/ TerminateCallFails

Environment(m) ==
    \/ UserDelete(m) \/ SetOwnerRef(m) \/ SetLabel(m) \/ BootstrapReady(m)

Next ==
    \/ \E m \in Machines : Reconcile(m) \/ CacheSync(m) \/ Environment(m)
    \/ Step
    \/ TenantReady
    \/ Marketplace
    \/ Crash

Spec == Init /\ [][Next]_vars

(***************************************************************************)
(* Fairness.  A running reconciliation goes on; the workqueue is FIFO, so  *)
(* an object that keeps being due is taken; watch events are delivered;    *)
(* Waldur works off its orders; Cluster API adopts the object and provides *)
(* bootstrap data and tenant.  Nobody owes the label, a deletion or a      *)
(* fault.  The informer's periodic resync is not relied upon.              *)
(***************************************************************************)
Fairness ==
    /\ WF_vars(Step)
    /\ \A m \in Machines : /\ SF_vars(Reconcile(m))
                           /\ WF_vars(CacheSync(m))
                           /\ WF_vars(SetOwnerRef(m))
                           /\ WF_vars(BootstrapReady(m))
    /\ WF_vars(TenantReady)
    /\ WaldurFairness

FairSpec == Spec /\ Fairness

----------------------------------------------------------------------------
(* Safety *)

\* No VM is recorded on an object the API server could drop without the
\* controller: the finalizer is persisted before anything is ordered
\* (Reconcile returns after adding it), however stale the cache is.
FinalizerGuards ==
    \A m \in Machines :
        api[m].exists /\ api[m].st.uuid # Nil => api[m].fin

\* A reconciliation under way never works on an object that is already gone,
\* so none of its patches can meet a NotFound: the finalizer is released only
\* by an Update that the API server refuses to a stale copy.
InFlightExists == pc # "idle" => api[cur].exists /\ api[cur].fin

\* reconcileDelete releases an object whose VM was recorded only when Waldur
\* has terminated that VM, through failed, lost and repeated orders, failed
\* patches and restarts.
ReleasedOnlyWhenTerminated ==
    \A m \in Machines :
        ~api[m].exists /\ api[m].st.uuid # Nil
            => resources[api[m].st.uuid].state = "Terminated"

\* spec.providerID and status.vmUuid name the instance of the resource that
\* deletion will terminate.
ProviderIDMatchesTracked ==
    \A m \in Machines :
        /\ api[m].pid # Nil => api[m].pid = api[m].st.uuid
        /\ api[m].st.vm # Nil => api[m].st.vm = api[m].st.uuid

\* The condition Reconcile publishes agrees with the instance state published
\* beside it, although the provider-ID patch throws the refreshed status away
\* half-way; a machine that is Ready is also Initialized and has its ID.
ReadyConsistent ==
    \A m \in Machines : LET st == api[m].st IN
        ~api[m].deleting /\ st.ready # "none"
            => /\ st.ready = "Provisioned" <=> st.state = "OK"
               /\ st.ready = "ProvisioningFailed" <=> st.state = "ERRED"
               /\ st.ready = "Provisioned" => st.init /\ api[m].pid # Nil

\* Every VM Waldur holds is known: recorded on its machine, which exists, or
\* in the hands of the reconciliation about to record it.
NoOrphan ==
    \A r \in OrderIds : Live(r) =>
        LET m == resources[r].owner IN
        /\ api[m].exists
        /\ \/ api[m].st.uuid = r
           \/ cur = m /\ pc = "patchStatus" /\ obj.st.uuid = r

\* A document without the config file counts as one with an empty token.
MayStoreEmpty == \E m \in Machines : boot[m] = "noConfigFile"

\* The VM of an accepted order can fetch what it needs at boot: its secret_id
\* is its own and was not revoked, and the join token is in Vault, an empty one
\* only if some machine's bootstrap document has no config file.  Revoking when
\* the answer is lost would break the VM that Waldur is building.
AcceptedOrderUsable ==
    \A r \in OrderIds : Live(r) /\ VaultMode # "none" =>
        /\ resources[r].sid \in SecretIds
        /\ sids[resources[r].sid] = "live"
        /\ \A q \in OrderIds : Live(q) /\ resources[q].sid = resources[r].sid => q = r
        /\ VaultMode = "rke2" => kv = "token" \/ (kv = "empty" /\ MayStoreEmpty)

----------------------------------------------------------------------------
(* Action properties *)

\* A VM once recorded stays the machine's VM: no later reconciliation, retry
\* or restart replaces it, and the provider ID never changes.
TrackedForever ==
    [][\A m \in Machines :
         /\ api[m].st.uuid # Nil => api'[m].st.uuid = api[m].st.uuid
         /\ api[m].pid # Nil => api'[m].pid = api[m].pid]_vars

\* Once a refresh has recorded the instance, no termination is ordered while
\* it is being built, runs or is still going down.
StoppedBeforeTermination ==
    [][\A o \in OrderIds : LET r == orders'[o].res IN
         orders[o].type = "none" /\ orders'[o].type = "Terminate"
            => \/ api[resources[r].owner].st.vm = Nil
               \/ RuntimeState(r) \in {"none", "SHUTOFF", "ERROR"}]_vars

----------------------------------------------------------------------------
(* Refinement *)

Lifecycle == INSTANCE ManagedResource WITH
    Keys <- Machines,
    Ids <- OrderIds,
    present <- {m \in Machines : api[m].exists},
    doomed <- {m \in Machines : api[m].deleting},
    bought <- [m \in Machines |-> {r \in OrderIds : resources[r].owner = m}],
    gone <- {r \in OrderIds : resources[r].state = "Terminated"}

\* Machine and VM keep the promise of ManagedResource as long as no fault hides
\* an accepted order: one VM is ever ordered for a machine, over all retries of
\* createVM, it is terminated only when the machine is deleted, and the machine
\* stays until then.
ManagedVM == Lifecycle!Spec

----------------------------------------------------------------------------
(* Liveness, under FairSpec *)

\* A machine the user deletes goes away.
DeletionCompletes ==
    \A m \in Machines : api[m].deleting ~> ~api[m].exists

\* A VM that is up, and stays up, is reported: provider ID, Initialized, Ready.
ProvisionCompletes ==
    \A m \in Machines, r \in OrderIds :
        (api[m].st.uuid = r /\ resources[r].state = "OK")
            ~> \/ api[m].pid = r /\ api[m].st.init /\ api[m].st.ready = "Provisioned"
               \/ api[m].deleting \/ resources[r].core # "OK"

\* A machine whose owner is labelled from the start gets its VM ordered: the
\* waits for finalizer, owner, bootstrap data and tenant all wake up again.
LabelledMachineOrdered ==
    \A m \in Machines :
        labelled[m] => <>(api[m].st.uuid # Nil \/ api[m].deleting \/ ~api[m].exists)

\* "VM provisioning failed": a creation order that fails is reported.
FailureReported ==
    \A m \in Machines, o \in OrderIds :
        (api[m].st.uuid = o /\ orders[o].state = "Erred")
            ~> api[m].st.ready = "ProvisioningFailed" \/ api[m].deleting
============================================================================
