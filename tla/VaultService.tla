--------------------------- MODULE VaultService ---------------------------
(***************************************************************************)
(* What internal/vault promises its caller, without tokens and retries:    *)
(* one call at a time; a call has its effect at most once; it reports      *)
(* success, with Vault's answer, only after the effect; it may report an   *)
(* error although the effect took place.                                   *)
(***************************************************************************)
EXTENDS VaultStore

VARIABLES
    phase,   \* of the call: none, open, served or answered
    req,     \* the operation and its argument
    ans      \* what Vault, or the client, answers

vars == <<kv, sids, phase, req, ans>>

Open == /\ phase \in {"none", "answered"}
        /\ phase' = "open"
        /\ req' \in Requests
        /\ UNCHANGED vault

ServeOnce == /\ phase = "open"
             /\ phase' = "served"
             /\ Serve(req, ans')
             /\ UNCHANGED req

Succeed == /\ phase = "served"
           /\ phase' = "answered"
           /\ UNCHANGED <<vault, req, ans>>

Fail == /\ phase \in {"open", "served"}
        /\ phase' = "answered"
        /\ ans' = Answer("error")
        /\ UNCHANGED <<vault, req>>

\* The caller takes the answer, or dies.
Close == /\ phase # "none"
         /\ phase' = "none"
         /\ UNCHANGED vault

\* The single-use secret_ids are spent by the nodes.
Spend == /\ \E s \in SecretIds : UseSecretID(s)
         /\ UNCHANGED <<kv, phase, req, ans>>

Init == phase = "none"

Next == Open \/ ServeOnce \/ Succeed \/ Fail \/ Close \/ Spend

Spec == Init /\ [][Next]_vars
============================================================================
