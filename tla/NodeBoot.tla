----------------------------- MODULE NodeBoot -----------------------------
(***************************************************************************)
(* From bootstrap document to running node.  The machine controller builds *)
(* the user_data of one machine after the other, through its Vault client  *)
(* (buildUserDataWithVault, buildUserDataWithRancherAgent and the end of   *)
(* createVM), while machines whose order was accepted boot: cloud-init     *)
(* writes the files and runs the commands, and the fetch script that       *)
(* cloudinit.go put there logs in to Vault with the node's secret_id.      *)
(*                                                                         *)
(* What surrounds this in the controller (queue, cache, status, orders) is *)
(* MachineController; here a machine without user_data is simply tried     *)
(* again.                                                                  *)
(***************************************************************************)
EXTENDS VaultClient, CloudInit, FiniteSets

CONSTANTS
    Modes,       \* "rke2", "rancher": the paths the vault-config may choose
    BootDocs,    \* the bootstrap documents the machines may have
    Templates,   \* the base templates the manager may load, see CloudInit
    MaxEarly     \* how many attempts may find the tenant not ready

ASSUME NodeAssumption ==
    /\ Modes \subseteq {"rke2", "rancher"}
    /\ BootDocs \subseteq {"withToken", "noConfigFile", "malformed"}
    /\ Templates \subseteq {"none", "os", "bad"}
    /\ Faults \subseteq ClientFaults \cup {"reject", "crash", "node"}
    /\ MaxFaults \in Nat /\ MaxEarly \in Nat

VARIABLES
    mode, doc, template,   \* chosen at the start, then constant
    cur,                   \* the machine whose user_data is being built
    early, refused,        \* attempts so far that found the tenant not ready, or
                           \* had their order refused
    nodes                  \* the machines, from their order to a running node

choices == <<mode, doc, template>>
attempts == <<early, refused>>
vars == <<kv, sids, session, req, at, ans, faults, mode, doc, template, cur, early, refused, nodes>>

\* data is the user_data of the accepted order; next the runcmd entry to run,
\* 0 before write_files; fetch what the fetch script has achieved; creds the
\* secret_id on the disk; ready what is in place for the agent: the settings in
\* its config and the template's commands; began tells whether the agent was
\* started, with is what was in place then.
Node == [data : Document,
         next : Nat,
         fetch : {"none", "loggedIn", "done", "failed"},
         creds : SecretIds \cup {Nil},
         ready : SUBSET {"server", "token", "os"},
         began : BOOLEAN,
         with : SUBSET {"server", "token", "os"}]

NoNode == [data |-> Empty, next |-> 0, fetch |-> "none", creds |-> Nil,
           ready |-> {}, began |-> FALSE, with |-> {}]

TypeOK ==
    /\ VaultTypeOK
    /\ ClientTypeOK
    /\ mode \in Modes /\ doc \in [Machines -> BootDocs] /\ template \in Templates
    /\ cur \in Machines \cup {Nil} /\ early \in 0..MaxEarly /\ refused \in Nat
    /\ nodes \in [Machines -> Node]

\* On the rancher path the registration token is in Vault beforehand.
Init ==
    /\ mode \in Modes /\ doc \in [Machines -> BootDocs] /\ template \in Templates
    /\ kv = IF mode = "rancher" THEN "token" ELSE "absent"
    /\ sids = [s \in SecretIds |-> "free"]
    /\ ClientInit
    /\ cur = Nil /\ early = 0 /\ refused = 0
    /\ nodes = [m \in Machines |-> NoNode]

----------------------------------------------------------------------------
(* The controller builds user_data *)

\* The token is taken out of the document first; if that fails nothing else is
\* tried, a stutter.
BeginBuild(m) ==
    /\ cur = Nil /\ session # "none"
    /\ nodes[m].data = Empty
    /\ \/ /\ mode = "rke2"
          /\ ~stripFails(Bootstrap(doc[m]))
          /\ Send("exists", Nil, Nil)
       \/ /\ mode = "rancher"
          /\ Send("generate", Nil, Nil)
    /\ cur' = m
    /\ UNCHANGED <<vault, faults, choices, attempts, nodes>>

\* The client has answered the controller's request op.
Reply(op) == cur # Nil /\ at = "answered" /\ req.op = op

TokenChecked ==
    /\ Reply("exists")
    /\ \/ ans.code = "no" /\ Send("write", strippedToken(Bootstrap(doc[cur])), Nil)
       \/ ans.code = "yes" /\ Send("generate", Nil, Nil)
    /\ UNCHANGED <<vault, faults, choices, cur, attempts, nodes>>

TokenWrittenOrNot ==
    /\ Reply("write")
    /\ Send("generate", Nil, Nil)
    /\ UNCHANGED <<vault, faults, choices, cur, attempts, nodes>>

TokenWritten ==
    /\ Reply("write")
    /\ ans.code = "ok"
    /\ Send("generate", Nil, Nil)
    /\ UNCHANGED <<vault, faults, choices, cur, attempts, nodes>>

GiveUp == cur' = Nil /\ at' = "none" /\ UNCHANGED <<session, req, ans>>

\* Any error ends the attempt; so does the answer to a revocation.
Abandon ==
    /\ \/ Reply("revoke")
       \/ \E op \in {"exists", "write", "generate"} : Reply(op) /\ ans.code = "error"
    /\ GiveUp
    /\ UNCHANGED <<vault, faults, choices, attempts, nodes>>

HasSecretID == Reply("generate") /\ ans.code = "ok"

userData(m, s) ==
    IF mode = "rke2"
    THEN mergeCloudInit(Template(template), sanitised(Bootstrap(doc[m])), s)
    ELSE BuildRancherAgentUserData(Template(template), s)

\* The base template does not parse: the secret_id is given back.
MergeFails ==
    /\ HasSecretID
    /\ template = "bad"
    /\ Send("revoke", Nil, ans.sid)
    /\ UNCHANGED <<vault, faults, choices, cur, attempts, nodes>>

\* The tenant is missing from the cluster's status or not ready yet, which the
\* controller finds out only now: no fault, yet the secret_id is dropped.
TenantNotReady ==
    /\ HasSecretID
    /\ template # "bad"
    /\ early < MaxEarly
    /\ early' = early + 1 /\ UNCHANGED refused
    /\ GiveUp
    /\ UNCHANGED <<vault, faults, choices, nodes>>

\* A look-up for the payload fails, or the order cannot be sent: the secret_id
\* is dropped, too.
NotSubmitted ==
    /\ HasSecretID
    /\ template # "bad"
    /\ Fault("call")
    /\ GiveUp
    /\ UNCHANGED <<vault, choices, attempts, nodes>>

OrderRefusedKeeping ==
    /\ HasSecretID
    /\ template # "bad"
    /\ Fault("reject")
    /\ refused' = refused + 1 /\ UNCHANGED early
    /\ GiveUp
    /\ UNCHANGED <<vault, choices, nodes>>

\* Waldur refuses the order: the secret_id is given back, but a failure to do
\* so is ignored.
OrderRefused ==
    /\ HasSecretID
    /\ template # "bad"
    /\ Fault("reject")
    /\ refused' = refused + 1 /\ UNCHANGED early
    /\ Send("revoke", Nil, ans.sid)
    /\ UNCHANGED <<vault, choices, cur, nodes>>

OrderAccepted ==
    /\ HasSecretID
    /\ template # "bad"
    /\ nodes' = [nodes EXCEPT ![cur].data = userData(cur, ans.sid)]
    /\ GiveUp
    /\ UNCHANGED <<vault, faults, choices, attempts>>

\* The manager dies and starts again with a new client.
Crash ==
    /\ Fault("crash")
    /\ ClientCrash
    /\ cur' = Nil
    /\ UNCHANGED <<choices, attempts, nodes>>

----------------------------------------------------------------------------
(* A node boots (cloud-init, and the fetch scripts of cloudinit.go) *)

\* bootcmd, then write_files: the files are on the disk before any runcmd.
Boot(m) ==
    /\ nodes[m].data # Empty /\ nodes[m].next = 0
    /\ nodes' = [nodes EXCEPT ![m] =
          [@ EXCEPT !.next = 1,
                    !.creds = OnDisk(nodes[m].data, "secret-id").sid,
                    !.ready = OnDisk(nodes[m].data, "config").has]]
    /\ UNCHANGED <<vault, client, faults, choices, cur, attempts>>

Running(m, cmd) == /\ nodes[m].next \in DOMAIN nodes[m].data.run
                   /\ nodes[m].data.run[nodes[m].next] = cmd

FetchLogin(m) ==
    /\ Running(m, "fetch") /\ nodes[m].fetch = "none"
    /\ UseSecretID(nodes[m].creds)
    /\ nodes' = [nodes EXCEPT ![m].fetch = "loggedIn"]
    /\ UNCHANGED <<kv, client, faults, choices, cur, attempts>>

\* The RKE2 script appends the token to the config; the rancher script writes
\* a config of its own.  Both then remove the credentials.
Fetched == IF mode = "rke2" THEN {"token"} ELSE {"token", "server"}

FetchToken(m) ==
    /\ Running(m, "fetch") /\ nodes[m].fetch = "loggedIn"
    /\ kv = "token"
    /\ nodes' = [nodes EXCEPT ![m].fetch = "done", ![m].ready = @ \cup Fetched,
                              ![m].creds = Nil, ![m].next = @ + 1]
    /\ UNCHANGED <<vault, client, faults, choices, cur, attempts>>

\* Vault cannot be reached (after it took the login, perhaps), refuses the
\* secret_id, or has no token: the script exits, and cloud-init goes on with
\* the next command.
FetchFails(m) ==
    /\ Running(m, "fetch")
    /\ \/ /\ Fault("node")
          /\ UNCHANGED sids \/ UseSecretID(nodes[m].creds)
       \/ /\ IF nodes[m].fetch = "none" THEN sids[nodes[m].creds] # "live" ELSE kv # "token"
          /\ UNCHANGED <<sids, faults>>
    /\ nodes' = [nodes EXCEPT ![m].fetch = "failed", ![m].next = @ + 1]
    /\ UNCHANGED <<kv, client, choices, cur, attempts>>

PrepareOS(m) ==
    /\ Running(m, "os")
    /\ nodes' = [nodes EXCEPT ![m].ready = @ \cup {"os"}, ![m].next = @ + 1]
    /\ UNCHANGED <<vault, client, faults, choices, cur, attempts>>

StartAgent(m) ==
    /\ Running(m, "start")
    /\ nodes' = [nodes EXCEPT ![m].began = TRUE, ![m].with = nodes[m].ready,
                              ![m].next = @ + 1]
    /\ UNCHANGED <<vault, client, faults, choices, cur, attempts>>

----------------------------------------------------------------------------
(* The specification *)

Build == TokenChecked \/ TokenWritten \/ Abandon \/ MergeFails
            \/ TenantNotReady \/ NotSubmitted \/ OrderRefused \/ OrderAccepted

NodeStep(m) == Boot(m) \/ FetchLogin(m) \/ FetchToken(m) \/ FetchFails(m)
                  \/ PrepareOS(m) \/ StartAgent(m)

Next ==
    \/ \E m \in Machines : BeginBuild(m) \/ NodeStep(m)
    \/ Build
    \/ (ClientStep \/ NewClient \/ Expire) /\ UNCHANGED <<choices, cur, attempts, nodes>>
    \/ Crash

Spec == Init /\ [][Next]_vars

\* The manager is restarted, its worker and its HTTP calls go on, a machine
\* that is due is taken up, a VM boots; and the tenant is ready in the end
\* (MaxEarly).
Fairness ==
    /\ WF_vars(Build)
    /\ WF_vars(ClientStep /\ UNCHANGED <<choices, cur, attempts, nodes>>)
    /\ WF_vars(NewClient /\ UNCHANGED <<choices, cur, attempts, nodes>>)
    /\ \A m \in Machines : SF_vars(BeginBuild(m)) /\ WF_vars(NodeStep(m))

FairSpec == Spec /\ Fairness

----------------------------------------------------------------------------
(* Properties *)

SecretIDOf(m) == OnDisk(nodes[m].data, "secret-id").sid

Ordered(m) == nodes[m].data # Empty

\* An agent whose fetch script worked was started with exactly what the
\* bootstrap provider wrote, token included, after the template's commands
\* (on the RKE2 path), and no credential is left on its disk: although the
\* token travelled through Vault and the rest through three merged documents.
StartsComplete ==
    \A m \in Machines : LET n == nodes[m] IN
        n.fetch = "done" =>
            /\ n.creds = Nil
            /\ n.began => n.with = {"token"} \cup
                  IF mode = "rancher" THEN {"server"}
                  ELSE OnDisk(Bootstrap(doc[m]), "config").has \cup
                       IF template = "os" THEN {"os"} ELSE {}

\* No user_data that Waldur stores has the join token in it, whatever place its
\* config file has in the bootstrap document.
TokenOnlyInVault ==
    \A m \in Machines : \A i \in DOMAIN nodes[m].data.files :
        "token" \notin nodes[m].data.files[i].has

\* A document without the config file counts as one with an empty token.
MayStoreEmpty == mode = "rke2" /\ \E m \in Machines : doc[m] = "noConfigFile"

\* A node that boots finds what its fetch script needs: a secret_id of its own
\* that nobody has used or revoked, and the token at the path.  Only a machine
\* whose document lacks the config file may have put an empty token there, for
\* which every node's script exits with an error.
FetchCanSucceed ==
    \A m \in Machines : Ordered(m) /\ nodes[m].fetch = "none" =>
        /\ sids[SecretIDOf(m)] = "live"
        /\ kv = "token" \/ (kv = "empty" /\ MayStoreEmpty)
        /\ \A k \in Machines : Ordered(k) /\ SecretIDOf(k) = SecretIDOf(m) => k = m

\* The secret_ids that are good, belong to no ordered machine and are not in
\* the hands of the controller.
Dangling == {s \in SecretIds :
                /\ sids[s] = "live"
                /\ \A m \in Machines : SecretIDOf(m) # s
                /\ ~(req.op = "generate" /\ at \in {"served", "answered"} /\ ans.sid = s)
                /\ ~(req.op = "revoke" /\ at # "none" /\ req.sid = s)}

\* Every secret_id that dangles is paid for: by an attempt that found the tenant
\* not ready, or by a fault other than a refused order (a failed look-up, a lost
\* answer, a restart, a revocation that failed), one each.  A refused order and
\* a template that does not parse, however often retried, leave nothing behind
\* (revoke "if the VM creation order fails, to avoid leaving dangling
\* credentials in Vault").
LeaksAccounted == Cardinality(Dangling) + refused <= (MaxFaults - faults) + early

\* The token in Vault never changes once it is there: "first node writes, rest
\* skip" holds over failed checks, expired sessions and restarts.
TokenStable == [][kv # "absent" => kv' = kv]_vars

\* Every machine with a usable bootstrap document gets its user_data built and
\* starts its agent; an expired session heals itself.
AgentsStart ==
    \A m \in Machines :
        (mode = "rke2" => doc[m] # "malformed") /\ template # "bad"
            => <>(nodes[m].began)
============================================================================
