# A TLA+ model of cluster-api-provider-waldur

The provider turns two Kubernetes custom resources into Waldur orders: a
`WaldurCluster` becomes one OpenStack tenant per datacenter, a `WaldurMachine`
becomes one VM in such a tenant. What makes it hard is not the happy path but
where its memory lives. Waldur keeps orders and resources; the controllers
remember them only in the `status` of the custom resource, written by one patch
at the end of a reconciliation and read back through a cache. Whatever comes
between an order and that patch (a lost answer, a panic, a failed patch, a
restart, a stale cache) decides whether a VM or tenant is still known.

## 1. Inventory

| Component | State it keeps | Operations | Modelled in |
|---|---|---|---|
| WaldurMachine controller (`waldurmachine_controller.go`) | finalizer, `spec.providerID`, status: resource UUID, order, instance state, VM UUID, Initialization, Ready | `Reconcile`, `createVM`, `buildUserData*`, `buildOrderPayload`, `refreshVM`, `reconcileDelete`, `setMachineReadyCondition` | `MachineController` |
| WaldurCluster controller (`waldurcluster_controller.go`) | finalizer, tenant map in the status, Ready, Initialization, `spec.controlPlaneEndpoint` | `Reconcile`, `createTenant`, `getOrCreateProject`, `refreshTenant`, `reconcileDelete`, `deleteProject`, `setReadyCondition`, `reconcileControlPlaneEndpoint`, `waldurMachineToCluster` | `ClusterController` |
| Waldur marketplace (external) | orders, resources, instances, projects | create, retrieve, terminate, stop; its own progress | `WaldurMarketplace`, and `projects` of `ClusterController` |
| Vault and its client (`internal/vault`) | the client's token; in Vault the token secret of a cluster and AppRole secret_ids | `SecretExists`, `WriteSecret`, `GenerateSecretID`, `RevokeSecretID`; login and one retry | `VaultStore` (Vault), `VaultClient` (login, retry, lost answers) |
| Cloud-init builder (`cloudinit.go`) | none; its fetch scripts run on the nodes | `stripRKE2Token`, `mergeCloudInit`, `BuildRancherAgentUserData` | `CloudInit`, and `NodeBoot` for what the scripts do; in `MachineController` its outcomes only |
| Tenant limits (`calculateLimits`) | none | arithmetic over node groups | `TenantLimits` |
| Manager (`cmd/main.go`) | Vault client, base template, leader lease | start-up, restart | `Crash`, which also re-reads the base template (`templateOK`, from `Templates`), and the constant `VaultMode`; `NewClient` of `VaultClient` |
| Both controllers in one manager, with Cluster API around them | what one publishes and the other reads: tenants in the WaldurCluster's status, state and address of control-plane machines | | `Provider` |
| API types, generated code, templates, tests | | | not modelled |

How they interact. Each controller has one worker (controller-runtime's default
of one concurrent reconciliation) and a workqueue fed by watch events,
`RequeueAfter` and returned errors. A worker reads from the informer cache,
calls Waldur and Vault synchronously, and patches the API server. The machine
controller reads the cluster's status (the tenant must be OK); the cluster
controller reads machines (the first control-plane machine that is OK gives the
endpoint) and is woken by their events. The user, Cluster API's own controllers
and the bootstrap provider change the same objects at any time.

What is hard, and what makes each part correct:

* **Machine controller**: every VM Waldur holds is recorded or about to be
  (`NoOrphan`); an object is released only after its VM was terminated; it is
  never worked on without finalizer; the VM, once recorded, is never replaced;
  the published condition agrees with the state published beside it; the
  credentials of an order that is placed are not revoked; deletion and
  provisioning finish.
* **Cluster controller**: the same for tenants and their projects, where one
  reconciliation handles many tenants and records them together; "all tenants
  are ready" means what it says although the spec is edited; a full-object
  Update never undoes an edit; clusters that share a project neither destroy it
  under an order nor wait for each other.
* **Vault client**: a request has its effect at most once, is reported as done
  only when it is, and an expired token heals itself.
* **Cloud-init and the nodes**: the token is in no user_data and in the config of
  every agent whose fetch worked; every ordered node finds an unused secret_id of
  its own and the token to fetch; a credential is given back where the code says
  so (a refused order, a template that does not parse), and what is lost in other
  ways is accounted for.
* **Both controllers together**: no wait for each other is for good, a VM is
  ordered only in a finished tenant, a tenant outlives its VMs, and a cluster
  that is gone has left no VM and no tenant.
* **Limits**: the quota ordered is the sum of what every node needs.

`PROJECT.json` lists the hazards one by one with the line where each bites.

## 2. The modules

`ProviderTypes` declares the identifiers all modules share, `MachineTypes` those
of the machine side, `Manager` what both controllers have in common: the faults,
the cache, the merge patch. `WaldurMarketplace` and `VaultStore` hold the
external state and what an accepted call does to it. `MachineController` extends
all of them; `ClusterController` instantiates `WaldurMarketplace`, as `Waldur`,
with <<cluster, offering>> pairs in the place of machines. What both controllers
have is named after the source on the machine side and has a prefix on the
cluster side: `api` and `cApi`, `orders` and `tOrders`, `Reconcile` and
`ClusterReconcile`. `Provider` extends both; `VaultClient` and `CloudInit` are put
together by `NodeBoot`. `ManagedResource` and `VaultService` are abstract
specifications that models implement. `MCMachine`, `MCCluster`, `MCNode` and
`MCProvider` add symmetry and the sets their `.cfg` files choose from. The proofs
are in `MachineProofs`, `MachineSafetyProofs`, `MachineTrackProofs`,
`MachineSecretProofs`, `MachineRefinementProofs`, `ClusterProofs`,
`ProviderProofs` and `NodeProofs`.

### Abstract specifications

`ManagedResource` is the promise about an object that stands for something
bought at Waldur: one resource is bought for it, once and while the object
exists; it is given up only when the object is being deleted; the object goes
only after it. `ManagedVM` maps a machine's object and the resources Waldur
made for it to that specification, `ManagedTenant` a datacenter of a cluster.
Status, cache, orders and the worker appear in neither mapping: they are how the
promise is kept. It is kept as long as no fault hides an accepted order: `lost`,
`crash`, `write` and, in a cluster's walk, `panic` between order and patch break
it (see `machine_orphan`). Section 4 proves both under exactly that condition.

`VaultService` is what a caller of `internal/vault` may rely on: a call has its
effect at most once and is reported as done only after it; an error may be
reported although the effect took place. `AtMostOnce` maps the client's first
attempt, its login and its second attempt to the one phase "open".

### Vault client, user_data and nodes

`VaultClient` models `do` request by request. `session` is the token the client
holds; it may expire at Vault without the client noticing. A request is sent,
served (Vault's state changes there) and answered, each a step; 401 or 403 leads
to a login and one more attempt; every other failure, including an answer lost
after Vault served the request, is an error to the caller. A login that fails at
start-up ends the process, which is started again.

`CloudInit` has the functions of `cloudinit.go` on documents of files and
commands: only `write_files`, `runcmd` and `bootcmd` exist, as in the code's
type. A file is its path, the settings in it and the secret_id in it.

`NodeBoot` runs the controller's `buildUserDataWithVault`,
`buildUserDataWithRancherAgent` and the end of `createVM` through the client, one
machine at a time, and beside it the nodes already ordered: files are written,
`runcmd` runs entry by entry, the fetch script logs in with the node's
secret_id, reads the secret, completes the config and removes the credentials. A
script that fails ends with an error, and cloud-init goes on with the next
entry. `buildOrderPayload` comes after the secret_id: while the tenant is not
ready it fails (`TenantNotReady`, no fault, at most `MaxEarly` times in a
behaviour), and so it does when a look-up fails (`NotSubmitted`); in either case
the secret_id is dropped. `early` and `refused` count the attempts that ended
that way and the orders that Waldur refused. Queue, cache and orders are left to `MachineController`, where the calls
to Vault are one step each (with `VaultAnswerLost` for a lost answer).

### The controllers together

`Provider` is both controllers, each with its worker and queue, and one budget of
faults. `Place` says which cluster and datacenter each machine is placed in; any
placement will do. The environment steps that stood for the other controller are
replaced: the tenant a machine needs is read from the cached WaldurCluster
(`TenantUsable`, looked up by `Look` before a reconciliation that may order, as
`Reconcile` does), the control plane's stage from the cached machines
(`ControlPlane`: of the machines in state OK only the first is asked for its
address, and all machines of the model are control-plane ones), and a machine's
watch event queues the cluster. An address that an instance gets later is no
event: only polling finds it. A restart
(`ManagerCrash`) hits both. The user may edit datacenters, delete machines and
tear the cluster down (`torn`) at any time. Cluster API is what its contract
says: it sets owner references, provides bootstrap data once the cluster is
provisioned, and deletes the infrastructure cluster after the machines. Faults
may be of any kind; one that hides an accepted order breaks `TenantOutlivesVMs`
and `NothingLeftBehind`, for the reason `machine_orphan` shows, while
`OrderedInFinishedTenant` survives them all.

`TenantLimits` is `calculateLimits` as a fold over the node groups; its
reference adds up what each single node needs.

### Time steps

A reconciliation is not atomic. Reading the object from the cache is one step
(`Begin...`), every call with an effect that outlives the reconciliation is one,
and every write to the API server is one. `pc` says where the worker is; `obj`
is the in-memory object, `base` the snapshot the patch is computed against. A
branch of `Reconcile` that reads the object and ends with one write
(`AddFinalizer`, `Release` of the machine side) is one step: nothing happens in
between but the user's and Waldur's steps, which a refused Update accounts for.

### API server and cache

`api` is the truth, `cache` the informer's copy; `CacheSync` delivers a watch
event and queues the object. `client.MergeFrom` patches carry no lock:
`MergePatch` overwrites exactly the fields that changed since the snapshot.
`r.Update` is locked: `UpdateAccepted` compares the object read with the one
stored. `ReadOwnWrites` says whether a reconciliation is guaranteed to see what
earlier ones wrote. Usually it does (patch and next run are 10 s or more apart)
and the runs assume so, in order to find what goes wrong even then. The theorems
marked *any cache* in section 4 do without the assumption.

`r.Patch` for the provider ID goes to the main resource, so the API server
ignores the status in it, and the client decodes the answer over the in-memory
object: `PatchProviderID` takes the server's status over, and the refreshed
state is published only by the next reconciliation.

### Waldur and Vault

Waldur is modelled from the calls in the repository. A creation order makes a
resource at once; the instance appears when the order executes, is up before the
order is `Done`, and the order may fail at any time before. While the instance is
being built its `RuntimeState` is `BUILD`, which is not stopped, and Waldur
refuses to stop it. `createTenant` distinguishes answers that name the tenant
already: `OrderScopes` says whether its scope exists when the order is answered
(`CREATING`) or not (`none`), and both may be allowed. In the first case the
tenant is read at once, and a failed read or the nil body of another answer loses
the accepted order (`CreateTenantLost`, `CreateTenantPanics`; both are `lost`
faults). That read tells CREATING; what a later one would have told is left to
the next refresh. One order per
resource is open at a time. Whether a terminated resource may be terminated
again cannot be read off this repository; it is the constant `ReTerminate`, and
the runs say which answer they need. `projects` holds the Waldur projects;
destroying one with live resources may succeed or be refused, so nothing rests
on Waldur guarding them.

In Vault only the cluster's token secret and the secret_ids are kept; a
secret_id is good for one login.

### Faults

`Faults` and `MaxFaults` bound what goes wrong in a behaviour: a call that fails
(`call`), an answer other than 200 whose nil `JSON200` is dereferenced and
panics (`panic`; controller-runtime recovers and retries), a failed write to the
API server (`write`), a restart or change of leader (`crash`), an order that is
accepted while its answer is lost (`lost`) or is refused (`reject`), an order
(`order`) or an instance (`vm`) that fails at Waldur. `NodeBoot` has, in
addition, an expiring token (`expire`), a request denied for another reason
(`deny`) and a node that does not reach Vault (`node`).

### What is abstracted

Names, addresses, plans, security groups and the text of cloud-init are left
out; sizes count in `TenantLimits` only. Order and resource UUIDs are small numbers; a resource and its
instance carry the number of the order that made them. A bootstrap document is
one of three kinds: with a token, without an rke2 config file, or malformed.
`buildOrderPayload` is its guard on the tenant plus look-ups that can fail. A
datacenter is identified with its offering slug. The requeue delays are not
timed: an object is due or not. Backoff and the five-minute requeue are "due".

## 3. The runs

All runs set `CHECK_DEADLOCK FALSE`: a system whose objects have been deleted and
whose orders are closed really is at rest.

| Run | Instance | Shows |
|---|---|---|
| `machine_safety` | one machine, RKE2 path, template good or bad, every bootstrap document, three faults of any kind | types; finalizer before anything else; release only after termination; provider ID, condition and tracked VM agree; an accepted order keeps its credential and finds the token, an empty one only after a document without config file |
| `machine_accounts` | two machines (symmetric), rancher path, template good or bad, one refused order | each machine and its VM implement `ManagedResource`; no VM is lost, a recorded instance is stopped before termination, as long as no fault hides an accepted order |
| `machine_progress` | one machine, no Vault, two faults of any kind, `ReTerminate` | a labelled machine is ordered, a VM that is up is reported, deletion completes |
| `cluster_safety` | one cluster, one edit that replaces its datacenter, one fault of any kind, answers that name the tenant, three control-plane stages (offerings symmetric) | types; release only after termination of all recorded tenants; no reconciliation on a gone object; no full-object Update undoes an edit, the owner reference or the endpoint |
| `cluster_shared` | two clusters (symmetric) whose datacenters share a project, no faults | each datacenter and its tenant implement `ManagedResource`; a tenant is ordered in a project that exists; a cluster waits for others only; the last one removes the project |
| `cluster_progress` | one cluster, two faults that hide no accepted order, or one edit that replaces its datacenter | readiness follows the tenants, after refused orders too; the endpoint is published, although the edit may have its Update refused; deletion completes |
| `node_boot` | two machines, both Vault paths, every bootstrap document, template good or bad, a tenant not ready once, five secret_ids, two faults of any kind | the Vault client implements `VaultService`; the token is stable, is in no user_data and in every config whose fetch worked; ordered nodes can fetch it, unless a document without config file stored an empty one; leaked secret_ids are accounted for; agents start |
| `provider` | one control-plane machine, one datacenter, three orders on each side, one order that fails; node groups of up to three nodes, two groups, two flavors | endpoint comes up; a tenant outlives its VMs; a cluster that is gone has left nothing, and teardown gets there; limits equal the sum over the nodes |
| `provider_disturbed` | one machine, two offerings, two orders on each side; one edit that replaces the datacenter (the machine's or the other one), or one fault that hides an order | a VM is ordered in a finished tenant only, whatever was edited or lost before |

Bounds. One machine shows everything about one machine, since the controller
keeps no state across objects but the marketplace, the token secret and the
worker; `machine_accounts` takes two where those are shared. Three or four
orders let a creation be followed by a failed, a repeated and a last
termination; the cluster runs have one creation and one termination per tenant
plus a spare. Three faults allow a lost order, a failed patch and a restart in
one behaviour. One edit is the least that replaces a datacenter, and it leaves
two tenants in the status, so that the walk of a deletion has two to terminate
and can be interrupted between them. The walk of a provisioning over two
datacenters at once is explored by `cluster_count`; `cluster_safety` with
`Spec0 <- AnyDatacenters` and no edit passes too (4.2 million states), but two
datacenters and an edit together take too long to keep. `OrderScopes` has both
values in `cluster_shared`, `cluster_count` and `provider`, and one where both
would pass (as they do) but take more than five minutes: `CREATING` in
`cluster_safety`, `none` in `cluster_progress` and `provider_disturbed`.
`ProgressSpec` keeps `cluster_progress` to an edit or faults: an edit is
explored between any two steps, such as the status patch and the Update of the
endpoint, which it makes fail. Two clusters are the
least that share a project. In `node_boot` two machines are the least that race
for the token secret, and two faults allow an expired session and a lost answer
in one call; five secret_ids are one per machine, fault and early attempt. The `provider` runs
have one machine, because what they ask is how the two controllers depend on one
another, and one machine and its tenant are the least that do; the theorems on
`Provider` hold for any number of either. `OneMishap` keeps `provider_disturbed`
to an edit, or a fault with or without a tear-down; all of them in one behaviour
are five million states, and the theorem covers them. Two orders let the tenant
be created and terminated, which is what a late VM order must not meet. The
composed runs have no Vault, whose place is in the machine's own runs. When
`OrderIds` or `SecretIds` run out, orders can no longer be accepted, which only
ends behaviours; the liveness runs have enough for every retry their faults can
cause.

### Disagreements the runs show

Each violation run checks one statement a comment or message of the repository
makes, quoted in `PROJECT.json`:

* `machine_orphan`: "Never provisioned — nothing to clean up" is said of a
  machine with a VM, after a restart between order and patch.
* `machine_unreported`: an order that fails before its instance exists is never
  reported as a failure.
* `cluster_count`: readiness counts the tenant of a datacenter that is no longer
  in the spec in the place of one that has none.

The model also reaches the following, which no run states:

* The comment at `waldurmachine_controller.go:622` asks for a secret_id to be
  revoked when the order fails. It is not when the payload cannot be built, as
  while the tenant is not ready, and each retry makes another, every 15 s and
  without bound: `LeaksAccounted` counts one for each such attempt (`early`).
* With `ReadOwnWrites` FALSE a reconciliation that does not see the last status
  patch orders a second VM and overwrites the first one's UUID.
* A machine deleted before a refresh recorded its instance is terminated
  without the stop.
* The first node's bootstrap document without an rke2 config file stores an
  empty token, and later nodes skip the write: their fetch scripts fail, all of
  them. `FetchCanSucceed` and `AcceptedOrderUsable` say that this is the only
  way to an empty token.
* With `ReTerminate` FALSE, a failed patch of the termination order blocks
  deletion for good.
* A panic in the cluster's walk loses the tenant orders placed earlier in the
  walk; a refused or failed tenant order leaves its new project unknown to
  deletion, also when the whole cluster is torn down (`TornDown` therefore says
  nothing of projects).
* A datacenter removed while its tenant is being created is never refreshed
  again and keeps the cluster out of Ready; a tenant order that fails before the
  tenant exists does the same.
* Two clusters that share a project: the one deleted first destroys it under the
  other's tenants or, if Waldur refuses, retries until the other one is gone.
* A node whose fetch script fails starts its agent all the same, without a token:
  cloud-init does not stop at a failing `runcmd` entry. The script cannot be run
  again once its login has spent the single-use secret_id.
* On the rancher path the agent is started before the template's own commands
  (`cloudinit.go:189`), on the RKE2 path after them.
* The endpoint may be the address of a machine that is already being deleted
  (`waldurcluster_controller.go:639`), and is never changed afterwards.

From reading the code, outside what the models can say:

* Of the base template only `write_files`, `runcmd` and `bootcmd` survive
  (`cloudinit.go:29`), although the comments at lines 57 and 205 speak of disk
  setup and packages.
* A tenant's limits are fixed when it is ordered, and assume system disks of 20
  GB, whatever `WaldurMachine` asks for; the number of machines is not held to
  the node groups.
* `OpenstackInfrastructure.Uuid` ("uses this tenant directly",
  `waldurcluster_types.go:101`) is read nowhere.
* The HTTP clients of Vault and Waldur have no timeout (`vault/client.go:105`,
  `cmd/main.go:67`).
* Two datacenters with one offering slug share an entry of the status map: such
  a cluster can never become Ready.

### Fairness

`FairSpec` and `ClusterFairSpec` assume weak fairness of the running reconciliation (the worker is a
goroutine), strong fairness of taking an object up (the workqueue is FIFO, so an
object that is due again and again is taken, although the worker is busy with
others in between), delivery of watch events, Waldur working off each of its
orders, and Cluster API, bootstrap provider and tenant delivering what they owe.
That a running reconciliation goes on includes that every HTTP call ends, with
an answer or an error; as the clients have no timeout, the network has to see to
it. `NodeBoot` assumes the same of its worker and client, that a dead manager is
started again, and that an ordered VM boots. `SystemFairSpec` needs less: weak
fairness of each controller's worker and of taking its one object up, of each
informer, of each side of Waldur, and of Cluster API as one actor, since
everything it owes is done once. Nothing
obliges anybody to label a machine, to delete, to edit or to fail. The informer's
ten-hour resync is not relied upon. Faults are finite in number: retries are
given a chance, never a promise about a particular call.

## 4. The proofs

Every safety property and every refinement that a passing run checks is a
theorem, with one exception (`LimitsCoverNodes`, see below), for any machines,
placement, clusters, datacenters, shared projects, orders, secret_ids and bounds.
Where a theorem needs more than the named assumptions on the constants, it says so
after `ASSUME`:

* `ReadOwnWrites`: a reconciliation sees what earlier ones wrote (section 2).
  Without it a patch computed from a stale snapshot mixes fields of two orders,
  or a second VM replaces the first; the theorems that do not need it are marked
  *any cache*.
* a restriction of `Faults`, where those faults really break the property (the
  violation runs and the list after them show how). Everything else may fail,
  in any number.

| Theorem | Property | Needs |
|---|---|---|
| `TypeCorrect` | `TypeOK` | any cache |
| `FinalizerSafe`, `InFlightSafe` | `FinalizerGuards`, `InFlightExists` | any cache |
| `ReleaseSafe` | `ReleasedOnlyWhenTerminated` | `ReadOwnWrites` |
| `ProviderIDSafe`, `ReadySafe`, `TrackedSafe` | `ProviderIDMatchesTracked`, `ReadyConsistent`, `TrackedForever` | `ReadOwnWrites` |
| `StoppedFirst` | `StoppedBeforeTermination` | `ReadOwnWrites`, no `call`: a failed read of the instance is taken for one that does not run |
| `SecretSafe` | `AcceptedOrderUsable` | any cache |
| `NoVMOrphaned`, `ManagedVMImplemented` | `NoOrphan`, `ManagedVM` | `ReadOwnWrites`, no `crash`, `write`, `lost` |
| `ClusterTypeCorrect`, `OrderedSafe`, `EditsSafe` | `ClusterTypeOK`, `TenantOrderedInProject`, `EditsSurvive` | any cache |
| `ClusterInFlightSafe`, `ClusterReleaseSafe` | `ClusterInFlightExists`, `ClusterReleasedOnlyWhenTerminated` | `ReadOwnWrites` |
| `NoTenantOrphaned`, `WaitsSafe`, `ManagedTenantImplemented` | `NoOrphanTenant`, `WaitsForOthersOnly`, `ManagedTenant` | `ReadOwnWrites`, no `panic`, `write`, `crash`, `lost` |
| `ProjectsSafe` | `NoProjectLeft` | the same, no `call`, `reject` |
| `OrderedFinished` | `OrderedInFinishedTenant` | `ReadOwnWrites` |
| `TenantOutlives` | `TenantOutlivesVMs` | `ReadOwnWrites`, no `crash`, `write`, `lost` |
| `ClusterGoneClean` | `NothingLeftBehind` | `ReadOwnWrites`, no `panic`, `write`, `crash`, `lost` |
| `PromisesKept` | of the composed system: `ManagedVM` and `ManagedTenant` | the same |
| `ComponentsSafe` | of the composed system: `InFlightExists`, `ReleasedOnlyWhenTerminated`, `ProviderIDMatchesTracked`, `ReadyConsistent` and both of the cluster's | `ReadOwnWrites` |
| `NodeTypeCorrect`, `TokenSafe`, `FetchSafe`, `StartSafe`, `TokenWrittenOnce`, `LeakBounded` | `TypeOK`, `TokenOnlyInVault`, `FetchCanSucceed`, `StartsComplete`, `TokenStable`, `LeaksAccounted` | nothing |
| `ServiceImplemented` | `AtMostOnce` | nothing |

Each module proves that its invariant is inductive, one step per action, and
draws the theorems from it. Only a few facts about Waldur and the API server are
needed again and again; they are lemmas (what an accepted order changes, what
Waldur's own steps keep, what a patch writes).

### Machines

* `MachineProofs`: `TypeOK` is not inductive alone: that a worker at
  `refreshInstance` has a resource to ask about, or that one at `providerID`
  knows its VM, comes from `WorkerOK`, and `TypeInv` is both.
* `MachineSafetyProofs`: `FinalizerInv` says that an object or cached object with
  a recorded VM has the finalizer, that a cached finalizer of an existing object
  is really there, that a released object's cached view is deleting, and that a
  reconciliation in flight holds the finalizer. The argument: the finalizer is
  set and removed only by locked Updates, removed only when the worker is idle,
  and status is written only by a reconciliation that saw the finalizer.
  In the same module `ReleasedOnlyWhenTerminated` is strengthened by `OrdersInv` (a `Done` termination's resource is terminated, and stays so) and
  by `StatusTrue`: what a status, the in-memory object or the cache says of a
  finished termination order is true at Waldur and about the recorded resource.
  Waldur's steps keep both (`Stable`).
* `MachineTrackProofs`: `TrackInv` adds what a status claims of its own VM
  (`Recorded`) and what the worker may rely on at each `pc` (`InHand`): the
  object in hand still has the provider ID the server has, a snapshot's UUID is
  never replaced, `createVM` is only reached without one. Hence no later patch
  moves a machine to another VM.
* `MachineSecretProofs`: `SecretInv` says that a secret_id is embedded in one
  resource at most, and that the one in the hands of `createVM` is good and
  embedded in none: revoking it after a refused order can hurt no accepted one.
  That an empty token in Vault betrays a document without config file is
  inductive because documents, once delivered, stay (`DocumentsStay`).
* `MachineRefinementProofs`: `KnownInv` is the inductive form of `NoOrphan`: a
  creation order is recorded on the machine it was made for, or the worker is
  about to patch it, and a termination implies a deleting object. With it each
  step is a step of `ManagedResource` or a stutter. Calls may fail and even
  panic: after an accepted order `createVM` calls nobody before the patch.

### Clusters

`ClusterProofs`:

* `ClusterTypeInv` adds to `ClusterTypeOK` that a recorded tenant names its resource in every
  copy of the status (`StoreShape`), and that a walk only adds tenants to the
  snapshot it started from (`WalkShape`). A merge patch merges the fields of a
  tenant one by one; without `Extends` one computed from a stale snapshot could
  leave a tenant made of two.
* `HeldInv`: the object of a running reconciliation exists with its finalizer,
  its snapshot is the status the server has, and a deletion is never withdrawn.
* `ClusterReleaseInv`: every recorded tenant is true of Waldur (`Booked`), guarded by the
  finalizer until its termination is done (`Guarded`), and `allDone` stands for
  the tenants already visited (`DoneSoFar`), which is what makes one flag enough
  for a walk over many.
* `ClusterKnownInv` and `DoomedInv` do for tenants what the machine side's `KnownInv`
  does for VMs, with one difference: an order may wait for its patch while other
  datacenters are visited, ordered and fail. So a panic matters here.
* `ProjectInv`: a project is in use by a tenant, recorded or in hand, or by the
  order about to be placed in it; and a cluster in `deleteProjects` has already
  removed those it has visited. A call that fails or an order that is refused
  between `getOrCreateProject` and the order leaves a project nobody uses,
  which is why both are excluded.

### The controllers together

`ProviderProofs` takes the invariants of both components over instead of proving
them again. `SystemSteps` sorts the steps of `SystemNext`: a step of the machine
side that leaves the cluster side alone but for the queue and its view of the
control plane (`MachineMoves`), one of the cluster side that leaves the machines
alone (`ClusterMoves`), a look at the tenant (`Looks`), or a restart of both.
What the other side may do disturbs no component invariant (`MachineFrame`,
`ClusterFrame`, `KnownFrame`, `DoomedFrame`), so each side's own lemmas carry it
through each step. What neither component knows, and the composition needs:

* `FinishedInv`: a tenant whose creation is done stays OK until its termination
  is ordered, and no tenant goes down otherwise. `OK` in a status is old news by
  the time it is read; this is why it is still true.
* `SeenInv`: what the *cached* WaldurCluster says of a tenant is true of Waldur
  and still recorded in the real one. The component invariants speak of the
  server's status, but it is the cache the machine controller reads.
* `PlacedInv`: a machine that exists has a cluster that exists and is not being
  deleted, and while the worker is between the look-up and the order, the tenant
  it saw is recorded and finished. Its preservation is the heart of the matter:
  only `ClusterUserDelete` makes a cluster go (`FallingSteps`), Cluster API does
  it after the machines, and a machine that is gone does not come back. An edit
  that removes the machine's datacenter does no harm, because the code keeps its
  tenant in the status.

`SystemInv` is these with the invariants of both components, and is inductive
under any faults. `OrderedFinished` follows from it: the order is placed by a
worker for which `PlacedInv` names a finished tenant, whose termination would
need a cluster in deletion (`DoomedInv`). For `TenantOutlives` add the machine
side's `KnownInv`: a live VM has a machine that exists, hence a cluster not in
deletion, hence no termination of its tenant. For `ClusterGoneClean` add
`ClusterKnownInv` in the same way for tenants; here a panic in a walk has to be
excluded too. Under the same condition `PromisesKept` carries both refinements
over: a step of the system is, for each kind of object, a step of its controller
or invisible.

### Vault client, user_data and nodes

`NodeProofs`. Lemmas about `CloudInit` come first: what `stripRKE2Token` and
`mergeCloudInit` leave in a document, position by position (`Joins`, `FilesOf`,
`Rke2Run`, `RancherRun`), summed up in `Carries`, the description of a sent
user_data that the rest uses. `NodeInv` is `TypeOK` with

* `BuilderInv`: a call is open exactly while the user_data of an unordered
  machine is built;
* `TokenInv`: what the check for the secret answered is still so when the write
  is served, since one worker writes; once a secret_id is asked for, the token
  is there, and an empty one comes from a document without config file;
* `CredentialInv`: the secret_ids of the call in hand and of the machines are
  distinct; a machine's is never revoked and spent by its own login only;
* `BootInv`: how far a node has come and what its files and config hold by then.

`ServiceImplemented` maps `at` to `VaultService`'s phase; a login and the second
attempt stutter. `LeakBounded` counts: `LeakInv` says that the secret_ids nobody
holds any more, or whose revocation is bound to fail (`Doomed`), the refused
orders and the faults left are together at most `MaxFaults` and the early
attempts. A refused order costs a fault and leaks nothing of its own, which is
why it stands on the side of the leaks.

### Assumptions on the constants

`IdAssumption`, `NilAssumption`, `ReTerminateAssumption`, `ModeAssumption`,
`InputAssumption`, `FaultAssumption`, `SpecAssumption`, `KeyAssumption` (`Nil`,
which stands for an absent identifier, is no order and no datacenter),
`BoundAssumption`, `NodeAssumption`, `PlaceAssumption` (each machine is placed in
one datacenter of one cluster, and the cluster model's three control-plane stages
are all in range). TLC evaluates them in every run of the
component.

### Only model-checked

* Liveness, since fairness and `ENABLED` are outside the prover:
  `LabelledMachineOrdered`, `ProvisionCompletes`, `DeletionCompletes`,
  `ClusterDeletionCompletes`, `ReadyWhenTenantsUp`, `EndpointPublished`, `AgentsStart`,
  `EndpointComesUp`, `TornDown`.
* `LimitsCoverNodes`: what the fold of `calculateLimits` computes for every input
  is induction over data.
* That the statements of the violation runs fail: a counterexample is a matter
  for TLC.

## 5. Not modelled

* What the provider does not decide: the payload of an order (flavors, images,
  subnets, security groups), which appears as look-ups that fail or panic; YAML
  and shell text; the two login methods of the Vault client, which are one login
  that works or fails.
* Start-up plumbing of `cmd/main.go` (flags, TLS, metrics, probes, reading the
  AppRole secret), webhooks, RBAC and generated code.
* Two datacenters with one offering slug, and several managers at once without
  leader election.
* The calls to Vault request by request in the composed `Provider`: they are in
  `NodeBoot`.
* Types no controller code reads: topology, security rules, `WaldurMachineTemplate`.

## 6. Where the development stands

The state changes of the provider are modelled, and the safety of each component
and of their composition is proved, for any number of objects. Liveness is checked
on small instances (section 3), and so is what the fold of `calculateLimits`
computes. When the code changes, the
`map` in `PROJECT.json` names the definitions to revisit; a new branch of a
handler is a new disjunct and one more case in its lemmas.
