----------------------------- MODULE VaultStore -----------------------------
(***************************************************************************)
(* What the machine controller keeps in Vault for one cluster: the secret  *)
(* at vault_secret_path that holds the RKE2 join token, and the AppRole    *)
(* secret_ids it has generated.  The operators say what a request that     *)
(* reaches Vault does to the store and what Vault answers; login, retry    *)
(* and lost answers are the business of VaultClient.                       *)
(***************************************************************************)

EXTENDS MachineTypes

VARIABLES
    kv,     \* the secret: absent, or holding a token, or holding an empty one
    sids    \* secret_id -> free (never generated), live, used or revoked

vault == <<kv, sids>>

VaultTypeOK == /\ kv \in {"absent", "token", "empty"}
               /\ sids \in [SecretIds -> {"free", "live", "used", "revoked"}]

VaultInit == /\ kv = "absent"
             /\ sids = [s \in SecretIds |-> "free"]

\* True of any secret at the path, whatever it holds.
SecretExists == kv # "absent"

WriteSecret(token) == kv' = token

\* secret_ids, too, are handed out in order.
FreshSecretID(s) == /\ sids[s] = "free"
                    /\ \A t \in SecretIds : t < s => sids[t] # "free"

GenerateSecretID(s) == /\ FreshSecretID(s)
                       /\ sids' = [sids EXCEPT ![s] = "live"]

\* s may be absent: the controller then has nothing to revoke.
RevokeSecretID(s) == sids' = [t \in SecretIds |->
                                 IF t = s THEN "revoked" ELSE sids[t]]

\* A node logs in with its secret_id, which is good for one login.
UseSecretID(s) == /\ sids[s] = "live"
                  /\ sids' = [sids EXCEPT ![s] = "used"]

\* A request of the client: SecretExists, WriteSecret of the token tok,
\* GenerateSecretID or RevokeSecretID of sid.
Requests == [op : {"exists", "write", "generate", "revoke"},
             tok : {"token", "empty", Nil},
             sid : SecretIds \cup {Nil}]

Answers == [code : {"yes", "no", "ok", "error"}, sid : SecretIds \cup {Nil}]

Answer(code) == [code |-> code, sid |-> Nil]

\* Vault serves request q and answers a.
Serve(q, a) ==
    \/ /\ q.op = "exists"
       /\ a = Answer(IF SecretExists THEN "yes" ELSE "no")
       /\ UNCHANGED vault
    \/ /\ q.op = "write"
       /\ a = Answer("ok")
       /\ WriteSecret(q.tok) /\ UNCHANGED sids
    \/ /\ q.op = "generate"
       /\ \E s \in SecretIds : a = [code |-> "ok", sid |-> s] /\ GenerateSecretID(s)
       /\ UNCHANGED kv
    \/ /\ q.op = "revoke"
       /\ a = Answer("ok")
       /\ RevokeSecretID(q.sid) /\ UNCHANGED kv
=============================================================================
