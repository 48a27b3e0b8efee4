---------------------------- MODULE VaultClient ----------------------------
(***************************************************************************)
(* internal/vault: the manager's client of Vault.  It logs in when the     *)
(* manager starts and keeps the token it gets.  A request that Vault       *)
(* answers 401 or 403 is sent once more after a new login; every other     *)
(* failure is an error to the caller.                                      *)
(*                                                                         *)
(* A request is sent (at "first" or "second"), served by Vault ("served"), *)
(* and answered; the token may expire and the connection may break at any  *)
(* point of that.                                                          *)
(***************************************************************************)
EXTENDS VaultStore

CONSTANTS
    Faults,      \* the kinds of fault that may happen
    MaxFaults    \* how many of them, in one behaviour

ClientFaults == {"call", "lost", "deny", "expire"}

VARIABLES
    session,     \* the client's token: none (no manager runs), live or expired
    req,         \* the request of the call
    at,          \* where the call is
    ans,         \* Vault's answer, or the error
    faults       \* faults that may still happen

client == <<session, req, at, ans>>

ClientTypeOK ==
    /\ session \in {"none", "live", "expired"}
    /\ req \in Requests
    /\ at \in {"none", "first", "login", "second", "served", "answered"}
    /\ ans \in Answers
    /\ faults \in 0..MaxFaults

ClientInit ==
    /\ session = "none"
    /\ req = [op |-> "exists", tok |-> Nil, sid |-> Nil]
    /\ at = "none"
    /\ ans = Answer("error")
    /\ faults = MaxFaults

Fault(k) == k \in Faults /\ faults > 0 /\ faults' = faults - 1

----------------------------------------------------------------------------
(* Start-up and login *)

\* NewClient or NewClientWithAppRole.  A login that fails ends the process,
\* which is started again: a stutter.
NewClient ==
    /\ session = "none"
    /\ session' = "live"
    /\ UNCHANGED <<vault, req, at, ans, faults>>

\* The token runs out at Vault; the client does not notice.
Expire ==
    /\ session = "live"
    /\ Fault("expire")
    /\ session' = "expired"
    /\ UNCHANGED <<vault, req, at, ans>>

----------------------------------------------------------------------------
(* do *)

\* The caller's part: send a request.
Send(op, tok, sid) ==
    /\ req' = [op |-> op, tok |-> tok, sid |-> sid]
    /\ at' = "first"
    /\ UNCHANGED <<session, ans>>

Sent == at \in {"first", "second"}

\* The token is good: Vault serves the request.
Served ==
    /\ Sent
    /\ session = "live"
    /\ Serve(req, ans')
    /\ at' = "served"
    /\ UNCHANGED <<session, req, faults>>

Answered ==
    /\ at = "served"
    /\ at' = "answered"
    /\ UNCHANGED <<vault, session, req, ans, faults>>

FailedAsAbsent == Answer(IF req.op = "exists" THEN "no" ELSE "error")

\* Every answer but the expected status is an error; for SecretExists only a
\* 404 means no.
Failed == Answer("error")

Fails == at' = "answered" /\ ans' = Failed

\* 401 or 403: the token has expired, or Vault denies it for another reason.
DeniedByVault == \/ session = "expired" /\ UNCHANGED faults
                 \/ session = "live" /\ Fault("deny")

DeniedWithoutLogin ==
    /\ Sent
    /\ DeniedByVault
    /\ Fails
    /\ UNCHANGED <<vault, session, req>>

\* The first time the client logs in and sends the request again.
Denied ==
    /\ Sent
    /\ DeniedByVault
    /\ IF at = "first" THEN at' = "login" /\ UNCHANGED ans ELSE Fails
    /\ UNCHANGED <<vault, session, req>>

Relogin ==
    /\ at = "login"
    /\ session' = "live"
    /\ at' = "second"
    /\ UNCHANGED <<vault, req, ans, faults>>

\* The login fails, or the request does: no connection, or a 5xx.
CallFails ==
    /\ at \in {"first", "login", "second"}
    /\ Fault("call")
    /\ Fails
    /\ UNCHANGED <<vault, session, req>>

AnswerLostRetried ==
    /\ at = "served"
    /\ Fault("lost")
    /\ at' = "login"
    /\ UNCHANGED <<vault, session, req, ans>>

\* The connection breaks after Vault served the request, or its answer has no
\* secret_id that can be decoded: no retry.
AnswerLost ==
    /\ at = "served"
    /\ Fault("lost")
    /\ Fails
    /\ UNCHANGED <<vault, session, req>>

\* The manager dies with the call, if there is one.
ClientCrash ==
    /\ session' = "none"
    /\ at' = "none"
    /\ UNCHANGED <<vault, req, ans>>

ClientStep == Served \/ Answered \/ Denied \/ Relogin \/ CallFails \/ AnswerLost

----------------------------------------------------------------------------
(* What the caller may rely on *)

Service == INSTANCE VaultService WITH
    phase <- IF at \in {"first", "login", "second"} THEN "open" ELSE at

\* The client implements VaultService: over expired tokens, denials, logins,
\* retries, lost answers and restarts of the manager, no request has its
\* effect twice (no second secret_id), and none is reported as done that Vault
\* has not served.
AtMostOnce == Service!Spec
============================================================================
