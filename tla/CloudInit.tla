----------------------------- MODULE CloudInit -----------------------------
(***************************************************************************)
(* internal/controller/cloudinit.go: taking the join token out of the      *)
(* bootstrap document, and building the user_data of a node from the base  *)
(* template, the bootstrap document and the node's Vault credentials.      *)
(*                                                                         *)
(* Of a cloud-init document only write_files, runcmd and bootcmd are kept, *)
(* as in the code's CloudInit type: whatever else a template says is gone  *)
(* after Unmarshal.  A file is a path, the settings it holds (server URL   *)
(* and token of an agent's config) and the secret_id in it, if any.        *)
(***************************************************************************)
EXTENDS MachineTypes, Sequences

File == [path : {"role-id", "secret-id", "fetch-script", "config", "cert", "os"},
         has : SUBSET {"server", "token"},
         sid : SecretIds \cup {Nil}]

\* "fetch" is the script below, "start" installs and starts RKE2 or the rancher
\* agent, "os" stands for the commands of the base template.
Commands == {"fetch", "start", "os"}

Document == [files : Seq(File), run : Seq(Commands), boot : Seq(Commands)]

Plain(path, has) == [path |-> path, has |-> has, sid |-> Nil]
Empty == [files |-> <<>>, run |-> <<>>, boot |-> <<>>]

\* What the RKE2 bootstrap provider writes: with its config file, without it,
\* or with a config file that has no token.
Bootstrap(kind) ==
    [files |-> CASE kind = "withToken" ->
                      <<Plain("cert", {}), Plain("config", {"server", "token"})>>
                 [] kind = "malformed" -> <<Plain("config", {"server"})>>
                 [] OTHER -> <<Plain("cert", {})>>,
     run |-> <<"start">>,
     boot |-> <<>>]

\* The base template in the ConfigMap: not there, or with a section of each
\* kind.  ("bad" does not parse and has no document.)
Template(kind) ==
    IF kind = "os"
    THEN [files |-> <<Plain("os", {})>>, run |-> <<"os">>, boot |-> <<"os">>]
    ELSE Empty

----------------------------------------------------------------------------
(* stripRKE2Token *)

ConfigEntries(doc) == {i \in DOMAIN doc.files : doc.files[i].path = "config"}

FirstConfig(doc) ==
    CHOOSE i \in ConfigEntries(doc) : \A j \in ConfigEntries(doc) : i <= j

\* A config entry without a token is an error; no entry at all is not.
stripFails(doc) ==
    ConfigEntries(doc) # {} /\ "token" \notin doc.files[FirstConfig(doc)].has

strippedTokenUnset(doc) == IF ConfigEntries(doc) = {} THEN Nil ELSE "token"

\* Without a config entry token keeps its zero value.
strippedToken(doc) == IF ConfigEntries(doc) = {} THEN "empty" ELSE "token"

sanitisedOnlyWhenFirst(doc) ==
    IF 1 \notin ConfigEntries(doc) THEN doc
    ELSE [doc EXCEPT !.files[1].has = @ \ {"token"}]

sanitised(doc) ==
    IF ConfigEntries(doc) = {} THEN doc
    ELSE [doc EXCEPT !.files[FirstConfig(doc)].has = @ \ {"token"}]

----------------------------------------------------------------------------
(* The user_data *)

vaultFiles(s) == <<Plain("role-id", {}),
                   [Plain("secret-id", {}) EXCEPT !.sid = s],
                   Plain("fetch-script", {})>>

mergeCloudInitFetchLast(static, bootstrap, s) ==
    [files |-> vaultFiles(s) \o static.files \o bootstrap.files,
     run |-> static.run \o bootstrap.run \o <<"fetch">>,
     boot |-> static.boot \o bootstrap.boot]

mergeCloudInit(static, bootstrap, s) ==
    [files |-> vaultFiles(s) \o static.files \o bootstrap.files,
     run |-> <<"fetch">> \o static.run \o bootstrap.run,
     boot |-> static.boot \o bootstrap.boot]

\* The rancher agent is started before the template's own commands.
BuildRancherAgentUserData(static, s) ==
    [files |-> vaultFiles(s) \o static.files,
     run |-> <<"fetch", "start">> \o static.run,
     boot |-> static.boot]

----------------------------------------------------------------------------
(* What write_files leaves on the disk (cloud-init: a later entry of the   *)
(* same path overwrites an earlier one)                                    *)

Entries(doc, path) == {i \in DOMAIN doc.files : doc.files[i].path = path}

OnDisk(doc, path) ==
    IF Entries(doc, path) = {} THEN Plain(path, {})
    ELSE doc.files[CHOOSE i \in Entries(doc, path) : \A j \in Entries(doc, path) : j <= i]
============================================================================
