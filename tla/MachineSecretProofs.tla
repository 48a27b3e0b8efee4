------------------------ MODULE MachineSecretProofs ------------------------
(***************************************************************************)
(* The Vault credentials of the VMs: each accepted order carries a         *)
(* secret_id of its own that nobody has revoked, however stale the cache   *)
(* is and whatever fails.                                                  *)
(***************************************************************************)
EXTENDS MachineProofs

\* The secret_id s was not revoked, and no resource of Waldur embeds it.
Unused(s) == sids[s] = "live" /\ \A r \in OrderIds : resources[r].sid # s

\* The credentials embedded in the user_data that Waldur holds.
Embedded(r) ==
    /\ Live(r) => orders[r].type = "Create"
    /\ orders[r].type = "none" => resources[r].sid = Nil
    /\ orders[r].type = "Create" /\ VaultMode # "none" =>
          /\ resources[r].sid # Nil
          /\ VaultMode = "rke2" => kv # "absent"
    /\ resources[r].sid # Nil =>
          /\ sids[resources[r].sid] = "live"
          /\ \A q \in OrderIds : resources[q].sid = resources[r].sid => q = r

\* What createVM holds.
SecretInHand ==
    /\ pc \in {"createVM", "secretID"} => sid = Nil
    /\ pc = "secretID" => VaultMode # "none"
    /\ pc \in {"secretID", "submit"} /\ VaultMode = "rke2" => kv # "absent"
    /\ pc = "submit" => /\ VaultMode # "none" => sid # Nil
                        /\ sid # Nil => Unused(sid)

\* What is in Vault came from a bootstrap document.
TokenFromDocument == kv = "empty" => MayStoreEmpty

SecretInv == (\A r \in OrderIds : Embedded(r)) /\ SecretInHand /\ TokenFromDocument

LEMMA SecretInit == Init => SecretInv
BY DEF Init, WaldurInit, VaultInit, SecretInv, Embedded, SecretInHand, TokenFromDocument, Live

\* A bootstrap document stays as it was written.
LEMMA DocumentsStay ==
    ASSUME TypeInv, [Next]_vars, MayStoreEmpty
    PROVE  MayStoreEmpty'
<1>1. boot \in [Machines -> AllBootDocs \cup {"none"}]
  BY DEF TypeInv, TypeOK
<1>2. CASE \E m \in Machines : BootstrapReady(m)
  BY <1>1, <1>2 DEF BootstrapReady, MayStoreEmpty
<1>3. CASE ~\E m \in Machines : BootstrapReady(m)
  <2>1. CASE UNCHANGED vars \/ TenantReady \/ Marketplace \/ Crash
    BY <2>1 DEF vars, TenantReady, Marketplace, Crash, world, MayStoreEmpty
  <2>2. CASE \E m \in Machines : Reconcile(m) \/ CacheSync(m) \/ Environment(m)
    <3>1. boot' = boot
      BY <1>3, <2>2 DEF Reconcile, ReconcileGone, AddFinalizer, ReconcileWait, BeginCreate,
             BeginRefresh, DeleteNeverProvisioned, DeletePoll, DeleteDone, BeginTerminate, Release,
             Begin, Settle, CacheSync, Environment, UserDelete, SetOwnerRef, SetLabel, world
    <3>2. QED BY <3>1 DEF MayStoreEmpty
  <2>3. CASE Step
    <3>1. UNCHANGED world
      BY <2>3 DEF Step, WaitBootstrap, PassVerbatim, StripFails, StoreToken, RancherPath,
             NewSecretID, MergeFails, PayloadNotReady, CreateCallFails, VaultAnswerLost,
             SubmitAccepted, SubmitRejected, SubmitLost, RefreshOrder, RefreshInstance,
             RefreshFails, AnswerPanics, PatchProviderID, PatchStatus, WriteFails, StopVM,
             SubmitTermination, TerminationRefused, TerminationLost, TerminateCallFails
    <3>2. QED BY <3>1 DEF world, MayStoreEmpty
  <2>4. QED BY <2>1, <2>2, <2>3 DEF Next
<1>4. QED
  BY <1>2, <1>3

\* Waldur embeds no new credential and forgets none.
KeepsSecrets ==
    \A r \in OrderIds :
        /\ resources'[r].sid = resources[r].sid
        /\ \/ orders'[r].type = orders[r].type
           \/ orders[r].type = "none" /\ orders'[r].type = "Terminate"
        /\ Live(r)' => Live(r) \/ orders[r].type = "Create"

LEMMA TerminationKeepsSecrets ==
    ASSUME TypeInv, NEW o \in OrderIds, NEW r \in OrderIds, AcceptTermination(o, r)
    PROVE  KeepsSecrets
<1>1. /\ orders[o].type = "none" /\ orders'[o].type = "Terminate"
      /\ \A p \in OrderIds \ {o} : orders'[p] = orders[p]
  BY DEF AcceptTermination, FreshOrder, TypeInv, TypeOK, WaldurTypeOK
<1>2. \A p \in OrderIds : resources'[p].sid = resources[p].sid /\ (Live(p)' => Live(p))
  <2>1. CASE Live(r)
    BY <2>1 DEF AcceptTermination, Live, TypeInv, TypeOK, WaldurTypeOK, Resource
  <2>2. CASE ~Live(r)
    BY <2>2 DEF AcceptTermination, Live
  <2>3. QED BY <2>1, <2>2
<1>3. QED
  BY <1>1, <1>2 DEF KeepsSecrets

LEMMA ProgressKeepsSecrets ==
    ASSUME TypeInv, NEW o \in OrderIds,
           \/ StartOrder(o) \/ InstanceUp(o) \/ InstanceStopped(o)
           \/ FinishCreation(o) \/ FinishTermination(o)
           \/ FailOrder(o) \/ InstanceChange(o)
    PROVE  KeepsSecrets
<1>0. orders \in [OrderIds -> Order] /\ resources \in [OrderIds -> Resource]
  BY DEF TypeInv, TypeOK, WaldurTypeOK
<1>1. \A r \in OrderIds : /\ resources'[r].sid = resources[r].sid
                          /\ orders'[r].type = orders[r].type
  BY ProgressMakesNoOrder, ProgressKeepsIdentity
<1>2. \A r \in OrderIds : Live(r)' => Live(r) \/ orders[r].type = "Create"
  <2>1. CASE StartOrder(o)
    <3>1. resources' = resources \/ resources' = [resources EXCEPT ![o].core = "CREATING"]
      BY <2>1 DEF StartOrder
    <3>2. QED BY <1>0, <3>1 DEF Resource, Live
  <2>2. CASE InstanceUp(o)
    BY <1>0, <2>2 DEF InstanceUp, Resource, Live
  <2>3. CASE InstanceStopped(o)
    BY <1>0, <2>3 DEF InstanceStopped, Resource, Live
  <2>4. CASE InstanceChange(o)
    BY <1>0, <2>4 DEF InstanceChange, Resource, Live
  <2>5. CASE FinishCreation(o)
    BY <1>0, <2>5 DEF FinishCreation, Resource, Live
  <2>6. CASE FinishTermination(o)
    BY <1>0, <2>6 DEF FinishTermination, Resource, Live
  <2>7. CASE FailOrder(o)
    BY <1>0, <2>7 DEF FailOrder, Live
  <2>8. QED BY <2>1, <2>2, <2>3, <2>4, <2>5, <2>6, <2>7
<1>3. QED BY <1>1, <1>2 DEF KeepsSecrets

\* A step that leaves Vault alone and embeds no credential.
LEMMA SecretQuiet ==
    ASSUME SecretInv, KeepsSecrets, UNCHANGED vault,
           MayStoreEmpty => MayStoreEmpty',
           \/ pc' \notin {"createVM", "secretID", "submit"}
           \/ pc' = "createVM" /\ sid' = Nil
           \/ pc' = pc /\ sid' = sid
           \/ pc = "createVM" /\ pc' = "submit" /\ VaultMode = "none" /\ sid' = sid
           \/ pc = "createVM" /\ pc' = "secretID" /\ VaultMode = "rancher" /\ sid' = sid
    PROVE  SecretInv'
<1>1. \A r \in OrderIds : Embedded(r)'
  BY DEF SecretInv, Embedded, KeepsSecrets, vault
<1>2. \A s : Unused(s) => Unused(s)'
  BY DEF Unused, KeepsSecrets, vault
<1>3. SecretInHand'
  BY <1>2 DEF SecretInv, SecretInHand, vault
<1>4. QED
  BY <1>1, <1>3 DEF SecretInv, TokenFromDocument, vault

\* Waldur accepts the order whose user_data holds the secret_id in hand.
LEMMA SecretEmbedded ==
    ASSUME TypeInv, SecretInv, NEW o \in OrderIds, AcceptCreation(o, cur, sid, "none"),
           MayStoreEmpty => MayStoreEmpty',
           pc = "submit", pc' = "patchStatus", UNCHANGED vault
    PROVE  SecretInv'
<1>1. /\ orders[o].type = "none" /\ orders'[o].type = "Create" /\ resources'[o].sid = sid
      /\ \A p \in OrderIds \ {o} : orders'[p] = orders[p] /\ resources'[p] = resources[p]
  BY DEF AcceptCreation, FreshOrder, TypeInv, TypeOK, WaldurTypeOK
<1>2. /\ VaultMode # "none" => sid # Nil
      /\ VaultMode = "rke2" => kv # "absent"
      /\ sid # Nil => sids[sid] = "live" /\ \A r \in OrderIds : resources[r].sid # sid
  BY DEF SecretInv, SecretInHand, Unused
<1>3. \A r \in OrderIds : Embedded(r)'
  BY <1>1, <1>2 DEF SecretInv, Embedded, Live, vault
<1>4. QED
  BY <1>3 DEF SecretInv, SecretInHand, TokenFromDocument, vault

\* A secret_id is generated, or one that no order embeds is revoked.
LEMMA SecretVault ==
    ASSUME TypeInv, SecretInv, UNCHANGED waldur, UNCHANGED kv, pc' = "patchStatus",
           MayStoreEmpty => MayStoreEmpty',
           NEW s \in SecretIds \cup {Nil}, \A r \in OrderIds : s # Nil => resources[r].sid # s,
           \A t \in SecretIds \ {s} : sids'[t] = sids[t]
    PROVE  SecretInv'
<1>1. \A r \in OrderIds : resources[r].sid \in SecretIds \cup {Nil}
  BY DEF TypeInv, TypeOK, WaldurTypeOK, Resource
<1>2. \A r \in OrderIds : Embedded(r)'
  BY <1>1 DEF SecretInv, Embedded, Live, waldur
<1>3. QED
  BY <1>2 DEF SecretInv, SecretInHand, TokenFromDocument

LEMMA FreshIsUnembedded ==
    ASSUME TypeInv, SecretInv, NEW s \in SecretIds, FreshSecretID(s)
    PROVE  s # Nil /\ \A r \in OrderIds : resources[r].sid # s
BY NilAssumption DEF FreshSecretID, SecretInv, Embedded, TypeInv, TypeOK, WaldurTypeOK, Resource

LEMMA SecretCreate ==
    ASSUME TypeInv, SecretInv, MayStoreEmpty => MayStoreEmpty',
           \/ WaitBootstrap \/ PassVerbatim \/ StripFails \/ StoreToken \/ RancherPath
           \/ NewSecretID \/ MergeFails \/ PayloadNotReady \/ CreateCallFails \/ VaultAnswerLost
           \/ SubmitAccepted \/ SubmitRejected \/ SubmitLost
    PROVE  SecretInv'
<1> USE DEF Goto, Return, GoIdle, CreateFails
<1>0. /\ sids \in [SecretIds -> {"free", "live", "used", "revoked"}]
      /\ sid \in SecretIds \cup {Nil}
  BY DEF TypeInv, TypeOK, VaultTypeOK
<1>1. CASE WaitBootstrap \/ PassVerbatim \/ StripFails \/ RancherPath \/ PayloadNotReady
           \/ CreateCallFails
  <2>1. UNCHANGED waldur /\ UNCHANGED vault
    BY <1>1 DEF WaitBootstrap, PassVerbatim, StripFails, RancherPath, PayloadNotReady,
                CreateCallFails
  <2>2. \/ pc' \notin {"createVM", "secretID", "submit"}
        \/ pc = "createVM" /\ pc' = "submit" /\ VaultMode = "none" /\ sid' = sid
        \/ pc = "createVM" /\ pc' = "secretID" /\ VaultMode = "rancher" /\ sid' = sid
    BY <1>1 DEF WaitBootstrap, PassVerbatim, StripFails, RancherPath, PayloadNotReady,
                CreateCallFails
  <2>3. KeepsSecrets
    BY <2>1 DEF KeepsSecrets, waldur, Live
  <2>4. QED BY <2>1, <2>2, <2>3, SecretQuiet
<1>2. CASE StoreToken
  <2>1. /\ UNCHANGED waldur /\ sids' = sids /\ pc = "createVM" /\ pc' = "secretID"
        /\ sid' = sid /\ VaultMode = "rke2" /\ kv' # "absent"
    BY <1>2 DEF StoreToken, SecretExists, WriteSecret, StrippedToken
  <2>2. \A r \in OrderIds : Embedded(r)'
    BY <2>1 DEF SecretInv, Embedded, Live, waldur
  <2>3. TokenFromDocument'
    BY <1>2 DEF StoreToken, SecretExists, WriteSecret, StrippedToken, SecretInv,
                TokenFromDocument, MayStoreEmpty, TypeInv, TypeOK
  <2>4. QED BY <2>1, <2>2, <2>3 DEF SecretInv, SecretInHand
<1>3. CASE NewSecretID
  <2>1. PICK s \in SecretIds : GenerateSecretID(s) /\ sid' = s
    BY <1>3 DEF NewSecretID
  <2>2. s # Nil /\ \A r \in OrderIds : resources[r].sid # s
    BY <2>1, FreshIsUnembedded DEF GenerateSecretID
  <2>3. /\ UNCHANGED waldur /\ kv' = kv /\ pc = "secretID" /\ pc' = "submit"
        /\ sids'[s] = "live" /\ \A t \in SecretIds \ {s} : sids'[t] = sids[t]
    BY <1>0, <1>3, <2>1 DEF NewSecretID, GenerateSecretID
  <2>4. \A r \in OrderIds : resources[r].sid \in SecretIds \cup {Nil}
    BY DEF TypeInv, TypeOK, WaldurTypeOK, Resource
  <2>5. \A r \in OrderIds : Embedded(r)'
    BY <2>2, <2>3, <2>4 DEF SecretInv, Embedded, Live, waldur
  <2>6. Unused(sid)'
    BY <2>1, <2>2, <2>3 DEF Unused, waldur
  <2>7. QED BY <2>1, <2>2, <2>3, <2>5, <2>6 DEF SecretInv, SecretInHand, TokenFromDocument
<1>4. CASE MergeFails
  <2>1. PICK s \in SecretIds : MergeFailsRevoking(s) \/ GenerateSecretID(s)
    BY <1>4 DEF MergeFails
  <2>2. \A r \in OrderIds : resources[r].sid # s
    BY <2>1, FreshIsUnembedded DEF GenerateSecretID, MergeFailsRevoking
  <2>3. \A t \in SecretIds \ {s} : sids'[t] = sids[t]
    BY <1>0, <2>1 DEF GenerateSecretID, MergeFailsRevoking, RevokeSecretID
  <2>4. UNCHANGED waldur /\ UNCHANGED kv /\ pc' = "patchStatus"
    BY <1>4 DEF MergeFails
  <2>5. QED BY <2>2, <2>3, <2>4, SecretVault
<1>5. CASE VaultAnswerLost
  <2>1. UNCHANGED waldur /\ pc' = "patchStatus"
    BY <1>5 DEF VaultAnswerLost
  <2>2. CASE pc = "createVM"
    <3>1. sids' = sids /\ kv' # "absent"
      BY <1>5, <2>2 DEF VaultAnswerLost, WriteSecret, StrippedToken
    <3>2. \A r \in OrderIds : Embedded(r)'
      BY <2>1, <3>1 DEF SecretInv, Embedded, Live, waldur
    <3>3. TokenFromDocument'
      BY <1>5, <2>2 DEF VaultAnswerLost, WriteSecret, StrippedToken, TokenFromDocument,
                        MayStoreEmpty, TypeInv, TypeOK
    <3>4. QED BY <2>1, <3>2, <3>3 DEF SecretInv, SecretInHand
  <2>3. CASE pc = "secretID"
    <3>1. PICK s \in SecretIds : GenerateSecretID(s)
      BY <1>5, <2>3 DEF VaultAnswerLost
    <3>2. /\ kv' = kv /\ \A r \in OrderIds : resources[r].sid # s
          /\ \A t \in SecretIds \ {s} : sids'[t] = sids[t]
      BY <1>0, <1>5, <2>3, <3>1, FreshIsUnembedded DEF VaultAnswerLost, GenerateSecretID
    <3>3. QED BY <2>1, <3>2, SecretVault
  <2>4. QED BY <1>5, <2>2, <2>3 DEF VaultAnswerLost
<1>6. CASE SubmitAccepted \/ SubmitLost
  <2>1. PICK o \in OrderIds : AcceptCreation(o, cur, sid, "none")
    BY <1>6 DEF SubmitAccepted, SubmitLost
  <2>2. pc = "submit" /\ pc' = "patchStatus" /\ UNCHANGED vault
    BY <1>6 DEF SubmitAccepted, SubmitLost
  <2>3. QED BY <2>1, <2>2, SecretEmbedded
<1>7. CASE SubmitRejected
  <2>1. pc = "submit" /\ pc' = "patchStatus" /\ UNCHANGED waldur /\ UNCHANGED kv
    BY <1>7 DEF SubmitRejected
  <2>2. \A r \in OrderIds : sid # Nil => resources[r].sid # sid
    BY <2>1 DEF SecretInv, SecretInHand, Unused
  <2>3. \A t \in SecretIds \ {sid} : sids'[t] = sids[t]
    BY <1>0, <1>7 DEF SubmitRejected, RevokeSecretID
  <2>4. QED BY <1>0, <2>1, <2>2, <2>3, SecretVault
<1>8. QED
  BY <1>1, <1>2, <1>3, <1>4, <1>5, <1>6, <1>7

LEMMA SecretNext == TypeInv /\ SecretInv /\ [Next]_vars => SecretInv'
<1> SUFFICES ASSUME TypeInv, SecretInv, [Next]_vars PROVE SecretInv'
  OBVIOUS
<1> USE DEF Goto, Return, GoIdle
<1>d. MayStoreEmpty => MayStoreEmpty'
  BY DocumentsStay
<1>0. UNCHANGED waldur => KeepsSecrets
  BY DEF KeepsSecrets, waldur, Live
<1>1. CASE UNCHANGED vars \/ TenantReady
  <2>1. UNCHANGED waldur /\ UNCHANGED vault /\ pc' = pc /\ sid' = sid
    BY <1>1 DEF vars, TenantReady, waldur, vault, worker
  <2>2. QED BY <1>0, <1>d, <2>1, SecretQuiet
<1>2. CASE \E m \in Machines : Reconcile(m) \/ CacheSync(m) \/ Environment(m)
  <2>1. UNCHANGED waldur /\ UNCHANGED vault
    BY <1>2 DEF Reconcile, ReconcileGone, AddFinalizer, ReconcileWait, BeginCreate, BeginRefresh,
           DeleteNeverProvisioned, DeletePoll, DeleteDone, BeginTerminate, Release, Begin, Settle,
           CacheSync, Environment, UserDelete, SetOwnerRef, SetLabel, BootstrapReady
  <2>2. \/ pc' \in {"refreshOrder", "refreshInstance", "terminate"}
        \/ pc' = "createVM" /\ sid' = Nil
        \/ pc' = pc /\ sid' = sid
    BY <1>2 DEF Reconcile, ReconcileGone, AddFinalizer, ReconcileWait, BeginCreate, BeginRefresh,
           DeleteNeverProvisioned, DeletePoll, DeleteDone, BeginTerminate, Release, Begin, Settle,
           CacheSync, Environment, UserDelete, SetOwnerRef, SetLabel, BootstrapReady, RefreshAt,
           worker
  <2>3. QED BY <1>0, <1>d, <2>1, <2>2, SecretQuiet
<1>3. CASE \/ RefreshOrder \/ RefreshInstance \/ RefreshFails \/ AnswerPanics
           \/ PatchProviderID \/ PatchStatus \/ WriteFails \/ TerminationRefused
           \/ TerminateCallFails
  <2>1. UNCHANGED waldur /\ UNCHANGED vault /\ pc' \notin {"createVM", "secretID", "submit"}
    BY <1>3 DEF RefreshOrder, RefreshInstance, RefreshFails, AnswerPanics, PatchProviderID,
           PatchStatus, WriteFails, TerminationRefused, TerminateCallFails, AfterRefresh
  <2>2. QED BY <1>0, <1>d, <2>1, SecretQuiet
<1>4. CASE StopVM
  <2>1. UNCHANGED vault /\ pc' = "idle" /\ orders' = orders
    BY <1>4 DEF StopVM
  <2>2. \A r \in OrderIds : /\ resources'[r].sid = resources[r].sid
                            /\ resources'[r].state = resources[r].state
    BY <1>4 DEF StopVM, AcceptStop, TypeInv, TypeOK, WaldurTypeOK, Resource
  <2>3. KeepsSecrets
    BY <2>1, <2>2 DEF KeepsSecrets, Live
  <2>4. QED BY <1>d, <2>1, <2>3, SecretQuiet
<1>5. CASE SubmitTermination \/ TerminationLost
  <2>1. PICK o \in OrderIds : AcceptTermination(o, obj.st.uuid)
    BY <1>5 DEF SubmitTermination, TerminationLost
  <2>2. UNCHANGED vault /\ pc = "terminate" /\ pc' \in {"idle", "patchStatus"}
    BY <1>5 DEF SubmitTermination, TerminationLost
  <2>3. obj.st.uuid \in OrderIds
    BY <2>2 DEF TypeInv, TypeOK, WorkerOK, Object, Status
  <2>4. KeepsSecrets
    BY <2>1, <2>3, TerminationKeepsSecrets
  <2>5. QED BY <1>d, <2>2, <2>4, SecretQuiet
<1>6. CASE Marketplace
  <2>1. KeepsSecrets
    BY <1>6, ProgressKeepsSecrets DEF Marketplace, WaldurProgress, OrderProgress
  <2>2. UNCHANGED vault /\ pc' = pc /\ sid' = sid
    BY <1>6 DEF Marketplace, worker
  <2>3. QED BY <1>d, <2>1, <2>2, SecretQuiet
<1>7. CASE Crash
  BY <1>0, <1>d, <1>7, SecretQuiet DEF Crash
<1>8. QED
  BY <1>1, <1>2, <1>3, <1>4, <1>5, <1>6, <1>7, <1>d, SecretCreate DEF Next, Step

\* Whatever the cache shows and whatever fails, the VM of an accepted order can
\* join: the secret_id in its user_data is its own and not revoked, although
\* createVM revokes on a rejected order, and on the RKE2 path the join token is
\* in Vault, an empty one only if a bootstrap document has no config file.
THEOREM SecretSafe == Spec => []AcceptedOrderUsable
<1>1. TypeInv /\ SecretInv => AcceptedOrderUsable
  BY DEF TypeInv, TypeOK, WaldurTypeOK, VaultTypeOK, Resource, SecretInv, Embedded,
         TokenFromDocument, AcceptedOrderUsable
<1>2. QED
  BY TypeInit, TypeStep, SecretInit, SecretNext, <1>1, PTL DEF Spec

============================================================================
