----------------------------- MODULE NodeProofs -----------------------------
(***************************************************************************)
(* Proofs about NodeBoot: the documents cloudinit.go builds, what the      *)
(* Vault client promises its caller, and what a node finds when it boots.  *)
(***************************************************************************)
EXTENDS NodeBoot, FiniteSetTheorems, TLAPS

(***************************************************************************)
(* The documents.                                                          *)
(***************************************************************************)

\* r is the sequence s followed by the sequence t, position by position.
Joins(r, s, t) ==
    /\ Len(r) = Len(s) + Len(t)
    /\ \A i \in 1..Len(s) : r[i] = s[i]
    /\ \A i \in 1..Len(t) : r[Len(s) + i] = t[i]

LEMMA Joined ==
    ASSUME NEW S, NEW s \in Seq(S), NEW t \in Seq(S)
    PROVE  s \o t \in Seq(S) /\ Joins(s \o t, s, t)
BY DEF Joins

LEMMA PlainType ==
    ASSUME NEW p \in {"role-id", "secret-id", "fetch-script", "config", "cert", "os"},
           NEW h \in SUBSET {"server", "token"}
    PROVE  /\ Plain(p, h) \in File
           /\ Plain(p, h).path = p /\ Plain(p, h).has = h /\ Plain(p, h).sid = Nil
BY DEF Plain, File

LEMMA VaultFiles ==
    ASSUME NEW s \in SecretIds \cup {Nil}
    PROVE  /\ vaultFiles(s) \in Seq(File) /\ Len(vaultFiles(s)) = 3
           /\ vaultFiles(s)[1] = Plain("role-id", {})
           /\ vaultFiles(s)[2] = [path |-> "secret-id", has |-> {}, sid |-> s]
           /\ vaultFiles(s)[3] = Plain("fetch-script", {})
<1>1. [Plain("secret-id", {}) EXCEPT !.sid = s] = [path |-> "secret-id", has |-> {}, sid |-> s]
  BY DEF Plain
<1>2. [path |-> "secret-id", has |-> {}, sid |-> s] \in File
  BY DEF File
<1>3. Plain("role-id", {}) \in File /\ Plain("fetch-script", {}) \in File
  BY PlainType
<1>4. QED
  BY <1>1, <1>2, <1>3 DEF vaultFiles

\* The files of a bootstrap document as stripRKE2Token leaves it.
SafeFiles(f, kind) ==
    /\ f \in Seq(File)
    /\ \A i \in 1..Len(f) : f[i].path \in {"cert", "config"} /\ "token" \notin f[i].has
    /\ kind = "withToken" => /\ Len(f) = 2
                             /\ f[1] = Plain("cert", {})
                             /\ f[2] = Plain("config", {"server"})
    /\ kind = "noConfigFile" => Len(f) = 1 /\ f[1] = Plain("cert", {})

LEMMA WithToken ==
    /\ ConfigEntries(Bootstrap("withToken")) = {2}
    /\ FirstConfig(Bootstrap("withToken")) = 2
<1>1. ConfigEntries(Bootstrap("withToken")) = {2}
  BY DEF ConfigEntries, Bootstrap, Plain
<1>2. QED
  BY <1>1 DEF FirstConfig

LEMMA Malformed == stripFails(Bootstrap("malformed"))
<1>1. Bootstrap("malformed").files = <<Plain("config", {"server"})>>
  BY DEF Bootstrap
<1>2. ConfigEntries(Bootstrap("malformed")) = {1}
  BY <1>1 DEF ConfigEntries, Plain
<1>3. FirstConfig(Bootstrap("malformed")) = 1
  BY <1>2 DEF FirstConfig
<1>4. QED
  BY <1>1, <1>2, <1>3 DEF stripFails, Plain

LEMMA EmptyToken ==
    ASSUME NEW kind \in {"withToken", "noConfigFile", "malformed"},
           strippedToken(Bootstrap(kind)) = "empty"
    PROVE  kind = "noConfigFile"
<1>1. ConfigEntries(Bootstrap(kind)) = {}
  BY DEF strippedToken
<1>2. CASE kind = "withToken"
  <2>1. Bootstrap(kind).files = <<Plain("cert", {}), Plain("config", {"server", "token"})>>
    BY <1>2 DEF Bootstrap
  <2>2. 2 \in ConfigEntries(Bootstrap(kind))
    BY <2>1 DEF ConfigEntries, Plain
  <2>3. QED BY <1>1, <2>2
<1>3. CASE kind = "malformed"
  <2>1. Bootstrap(kind).files = <<Plain("config", {"server"})>>
    BY <1>3 DEF Bootstrap
  <2>2. 1 \in ConfigEntries(Bootstrap(kind))
    BY <2>1 DEF ConfigEntries, Plain
  <2>3. QED BY <1>1, <2>2
<1>4. QED
  BY <1>2, <1>3

LEMMA Sanitised ==
    ASSUME NEW kind \in {"withToken", "noConfigFile"}
    PROVE  /\ SafeFiles(sanitised(Bootstrap(kind)).files, kind)
           /\ sanitised(Bootstrap(kind)).run = <<"start">>
           /\ sanitised(Bootstrap(kind)).boot = <<>>
<1>1. CASE kind = "withToken"
  <2> DEFINE d == Bootstrap("withToken")
             g == [d.files EXCEPT ![2] = [d.files[2] EXCEPT !.has = d.files[2].has \ {"token"}]]
  <2>1. d = [files |-> <<Plain("cert", {}), Plain("config", {"server", "token"})>>,
             run |-> <<"start">>, boot |-> <<>>]
    BY DEF Bootstrap
  <2>2. sanitised(d) = [d EXCEPT !.files[2].has = @ \ {"token"}]
    BY WithToken DEF sanitised
  <2>3. sanitised(d) = [d EXCEPT !.files = g]
    BY <2>2
  <2>4. sanitised(d).files = g /\ sanitised(d).run = <<"start">> /\ sanitised(d).boot = <<>>
    <3> HIDE DEF g
    <3>1. QED BY <2>1, <2>3
  <2>5. d.files[1] = Plain("cert", {}) /\ d.files[2] = Plain("config", {"server", "token"})
        /\ Len(d.files) = 2 /\ d.files \in Seq(File)
    <3>1. Plain("cert", {}) \in File /\ Plain("config", {"server", "token"}) \in File
      BY PlainType
    <3>2. d.files = <<Plain("cert", {}), Plain("config", {"server", "token"})>>
      BY <2>1
    <3>3. QED
      <4> HIDE DEF d
      <4>1. QED BY <3>1, <3>2
  <2>6. [d.files[2] EXCEPT !.has = d.files[2].has \ {"token"}] = Plain("config", {"server"})
    <3> DEFINE c == Plain("config", {"server", "token"})
    <3>1. [c EXCEPT !.has = c.has \ {"token"}] = Plain("config", {"server"})
      <4>1. {"server", "token"} \ {"token"} = {"server"}
        OBVIOUS
      <4>2. QED BY <4>1 DEF Plain
    <3>2. QED
      <4> HIDE DEF d
      <4>1. QED BY <2>5, <3>1
  <2>7. g \in Seq(File) /\ Len(g) = 2 /\ g[1] = Plain("cert", {}) /\ g[2] = Plain("config", {"server"})
    <3> HIDE DEF d
    <3>1. Plain("config", {"server"}) \in File
      BY PlainType
    <3>2. QED BY <2>5, <2>6, <3>1
  <2>8. QED
    <3> HIDE DEF d, g
    <3>1. SafeFiles(g, kind)
      BY <1>1, <2>7 DEF SafeFiles, Plain
    <3>2. QED BY <3>1, <2>4, <1>1 DEF d
<1>2. CASE kind = "noConfigFile"
  <2>1. Bootstrap(kind).files = <<Plain("cert", {})>>
    BY <1>2 DEF Bootstrap
  <2>2. ConfigEntries(Bootstrap(kind)) = {}
    BY <2>1 DEF ConfigEntries, Plain
  <2>3. sanitised(Bootstrap(kind)) = Bootstrap(kind)
    BY <2>2 DEF sanitised
  <2>4. Plain("cert", {}) \in File
    BY PlainType
  <2>5. SafeFiles(Bootstrap(kind).files, kind)
    <3> DEFINE f == Bootstrap(kind).files
    <3>1. f \in Seq(File) /\ Len(f) = 1 /\ f[1] = Plain("cert", {})
      BY <2>1, <2>4
    <3>2. Plain("cert", {}).path = "cert" /\ Plain("cert", {}).has = {}
      BY DEF Plain
    <3>3. QED
      <4> HIDE DEF f
      <4>1. SafeFiles(f, kind)
        BY <1>2, <3>1, <3>2 DEF SafeFiles
      <4>2. QED BY <4>1 DEF f
  <2>6. QED
    BY <2>3, <2>5 DEF Bootstrap
<1>3. QED
  BY <1>1, <1>2
\* The k-th entry is the last one of that path.
LastOf(d, path, k) ==
    /\ d.files \in Seq(File) /\ k \in 1..Len(d.files)
    /\ d.files[k].path = path
    /\ \A i \in 1..Len(d.files) : i > k => d.files[i].path # path

LEMMA LastOnDisk ==
    ASSUME NEW d, NEW path, NEW k, LastOf(d, path, k)
    PROVE  OnDisk(d, path) = d.files[k]
<1> DEFINE E == Entries(d, path)
           P(i) == \A j \in E : j <= i
<1>1. k \in E /\ P(k) /\ \A i \in E : P(i) => i = k
  BY DEF Entries, LastOf
<1>2. (CHOOSE i \in E : P(i)) = k
  <2> HIDE DEF E, P
  <2>1. (CHOOSE i \in E : P(i)) \in E /\ P(CHOOSE i \in E : P(i))
    BY <1>1
  <2>2. QED BY <2>1, <1>1
<1>3. QED
  BY <1>1, <1>2 DEF OnDisk

LEMMA NotOnDisk ==
    ASSUME NEW d, d.files \in Seq(File), NEW path,
           \A i \in 1..Len(d.files) : d.files[i].path # path
    PROVE  OnDisk(d, path) = Plain(path, {})
BY DEF OnDisk, Entries

LEMMA TemplateType ==
    ASSUME NEW t \in {"none", "os", "bad"}
    PROVE  /\ Template(t).files \in Seq(File)
           /\ Len(Template(t).files) \in 0..1
           /\ \A i \in 1..Len(Template(t).files) : Template(t).files[i] = Plain("os", {})
           /\ Template(t).run \in Seq(Commands) /\ Template(t).boot \in Seq(Commands)
           /\ Len(Template(t).run) = IF t = "os" THEN 1 ELSE 0
           /\ \A i \in 1..Len(Template(t).run) : Template(t).run[i] = "os"
<1>1. Plain("os", {}) \in File /\ "os" \in Commands
  BY PlainType DEF Commands
<1>2. CASE t = "os"
  <2>1. /\ Template(t).files = <<Plain("os", {})>>
        /\ Template(t).run = <<"os">> /\ Template(t).boot = <<"os">>
    BY <1>2 DEF Template
  <2>2. Template(t).files \in Seq(File) /\ Len(Template(t).files) = 1
        /\ Template(t).files[1] = Plain("os", {})
    BY <1>1, <2>1
  <2>3. /\ Template(t).run \in Seq(Commands) /\ Template(t).boot \in Seq(Commands)
        /\ Len(Template(t).run) = 1 /\ Template(t).run[1] = "os"
    BY <1>1, <2>1
  <2>4. QED BY <1>2, <2>2, <2>3
<1>3. CASE t # "os"
  <2>1. Template(t).files = <<>> /\ Template(t).run = <<>> /\ Template(t).boot = <<>>
    BY <1>3 DEF Template, Empty
  <2>2. QED BY <1>3, <2>1
<1>4. QED
  BY <1>2, <1>3

\* What the proofs below need to know of the user_data d of machine m with
\* secret_id s: it holds the credentials, no token, and the commands in order.
Carries(d, m, s) ==
    /\ d \in Document /\ d # Empty
    /\ mode = "rke2" => doc[m] # "malformed"
    /\ OnDisk(d, "secret-id").sid = s
    /\ OnDisk(d, "config").has =
          IF mode = "rke2" /\ doc[m] = "withToken" THEN {"server"} ELSE {}
    /\ \A i \in 1..Len(d.files) : "token" \notin d.files[i].has
    /\ Len(d.run) >= 2 /\ d.run[1] = "fetch"
    /\ \A i \in 2..Len(d.run) : d.run[i] \in {"os", "start"}
    /\ IF mode = "rke2" /\ template = "os"
       THEN Len(d.run) = 3 /\ d.run[2] = "os" /\ d.run[3] = "start"
       ELSE d.run[2] = "start" /\ \A i \in 3..Len(d.run) : d.run[i] = "os"

OnlyOS(f) == \A i \in 1..Len(f) : f[i] = Plain("os", {})

NoToken(g) ==
    \A i \in 1..Len(g) : g[i].path \in {"cert", "config"} /\ "token" \notin g[i].has

\* The write_files entries that d has from Vault, the template's f and the
\* bootstrap document's g.
FilesOf(d, f, g, s) ==
    /\ d.files \in Seq(File)
    /\ Len(d.files) = 3 + Len(f) + Len(g)
    /\ OnDisk(d, "secret-id").sid = s
    /\ \A i \in 1..Len(d.files) : "token" \notin d.files[i].has
    /\ \A i \in 1..Len(d.files) : i <= 3 + Len(f) => d.files[i].path # "config"
    /\ \A i \in 1..Len(g) : d.files[3 + Len(f) + i] = g[i]

LEMMA UserDataFiles ==
    ASSUME NEW s \in SecretIds, NEW f \in Seq(File), NEW g \in Seq(File), NEW d,
           d.files = (vaultFiles(s) \o f) \o g, OnlyOS(f), NoToken(g)
    PROVE  FilesOf(d, f, g, s)
<1> DEFINE v == vaultFiles(s)
           vf == v \o f
<1>1. /\ v \in Seq(File) /\ Len(v) = 3
      /\ v[1] = Plain("role-id", {}) /\ v[3] = Plain("fetch-script", {})
      /\ v[2] = [path |-> "secret-id", has |-> {}, sid |-> s]
  BY VaultFiles
<1> HIDE DEF v
<1>2. /\ vf \in Seq(File) /\ Len(vf) = 3 + Len(f)
      /\ \A i \in 1..3 : vf[i] = v[i]
      /\ \A i \in 1..Len(f) : vf[3 + i] = Plain("os", {})
  <2>1. vf \in Seq(File) /\ Joins(vf, v, f)
    BY <1>1, Joined
  <2> HIDE DEF vf
  <2>2. QED BY <1>1, <2>1 DEF OnlyOS, Joins
<1> HIDE DEF vf
<1>3. /\ d.files \in Seq(File) /\ Len(d.files) = 3 + Len(f) + Len(g)
      /\ \A i \in 1..(3 + Len(f)) : d.files[i] = vf[i]
      /\ \A i \in 1..Len(g) : d.files[3 + Len(f) + i] = g[i]
  <2>1. d.files = vf \o g
    BY DEF vf, v
  <2>2. vf \o g \in Seq(File) /\ Joins(vf \o g, vf, g)
    BY <1>2, Joined
  <2>3. d.files \in Seq(File) /\ Joins(d.files, vf, g)
    BY <2>1, <2>2
  <2>4. QED BY <1>2, <2>3 DEF Joins
<1>4. /\ Plain("role-id", {}).path = "role-id" /\ Plain("role-id", {}).has = {}
      /\ Plain("fetch-script", {}).path = "fetch-script" /\ Plain("fetch-script", {}).has = {}
      /\ Plain("os", {}).path = "os" /\ Plain("os", {}).has = {}
  BY DEF Plain
<1>5. ASSUME NEW i \in 1..Len(d.files)
      PROVE  /\ i # 2 => d.files[i].path # "secret-id"
             /\ "token" \notin d.files[i].has
             /\ i <= 3 + Len(f) => d.files[i].path # "config"
  <2>1. CASE i \in 1..3
    <3>1. d.files[i] = v[i] /\ i \in {1, 2, 3}
      BY <1>2, <1>3, <2>1
    <3>2. QED BY <1>1, <1>4, <3>1
  <2>2. CASE i > 3 /\ i <= 3 + Len(f)
    <3>1. i - 3 \in 1..Len(f) /\ 3 + (i - 3) = i
      BY <2>2
    <3>2. d.files[i] = Plain("os", {})
      BY <1>2, <1>3, <2>2, <3>1
    <3>3. QED BY <1>4, <2>2, <3>2
  <2>3. CASE i > 3 + Len(f)
    <3> DEFINE j == i - (3 + Len(f))
    <3>1. j \in 1..Len(g) /\ i = 3 + Len(f) + j
      BY <1>3, <2>3
    <3> HIDE DEF j
    <3>2. d.files[i] = g[j]
      BY <1>3, <3>1
    <3>3. QED BY <3>1, <3>2, <2>3 DEF NoToken
  <2>4. QED BY <2>1, <2>2, <2>3, <1>3
<1>6. OnDisk(d, "secret-id").sid = s
  <2>1. 2 \in 1..Len(d.files) /\ d.files[2] = v[2]
    BY <1>2, <1>3
  <2>2. d.files[2].path = "secret-id" /\ d.files[2].sid = s
    BY <1>1, <2>1
  <2>3. \A i \in 1..Len(d.files) : i > 2 => d.files[i].path # "secret-id"
    BY <1>5
  <2>4. OnDisk(d, "secret-id") = d.files[2]
    <3>1. LastOf(d, "secret-id", 2)
      BY <1>3, <2>1, <2>2, <2>3 DEF LastOf
    <3>2. QED BY <3>1, LastOnDisk
  <2>5. QED BY <2>2, <2>4
<1>7. QED
  BY <1>3, <1>5, <1>6 DEF FilesOf

\* The commands of an RKE2 node: fetch, the template's t, start; and of a
\* rancher node: fetch, start, the template's t.
Rke2Run(r, t) ==
    /\ r \in Seq(Commands) /\ Len(r) = 2 + Len(t) /\ r[1] = "fetch"
    /\ \A i \in 1..Len(t) : r[1 + i] = t[i]
    /\ r[2 + Len(t)] = "start"

RancherRun(r, t) ==
    /\ r \in Seq(Commands) /\ Len(r) = 2 + Len(t)
    /\ r[1] = "fetch" /\ r[2] = "start"
    /\ \A i \in 1..Len(t) : r[2 + i] = t[i]

LEMMA Rke2Order ==
    ASSUME NEW t \in Seq(Commands)
    PROVE  Rke2Run(<<"fetch">> \o t \o <<"start">>, t)
<1> DEFINE f == <<"fetch">>
           e == <<"start">>
           q == f \o t
           r == q \o e
<1>1. f \in Seq(Commands) /\ e \in Seq(Commands)
  BY DEF Commands
<1>2. Len(f) = 1 /\ f[1] = "fetch" /\ Len(e) = 1 /\ e[1] = "start"
  OBVIOUS
<1> HIDE DEF f, e
<1>3. q \in Seq(Commands) /\ Joins(q, f, t)
  BY <1>1, Joined
<1> HIDE DEF q
<1>4. r \in Seq(Commands) /\ Joins(r, q, e)
  BY <1>1, <1>3, Joined
<1> HIDE DEF r
<1>5. Len(q) = 1 + Len(t) /\ q[1] = "fetch" /\ \A i \in 1..Len(t) : q[1 + i] = t[i]
  BY <1>2, <1>3 DEF Joins
<1>6. Len(r) = 2 + Len(t) /\ r[1] = "fetch" /\ r[2 + Len(t)] = "start"
  <2>1. Len(r) = Len(q) + 1 /\ r[1] = q[1] /\ r[Len(q) + 1] = e[1]
    BY <1>2, <1>4, <1>5 DEF Joins
  <2>2. Len(q) + 1 = 2 + Len(t)
    BY <1>5
  <2>3. QED BY <1>2, <1>5, <2>1, <2>2
<1>7. ASSUME NEW i \in 1..Len(t)
      PROVE  r[1 + i] = t[i]
  <2>1. 1 + i \in 1..Len(q)
    BY <1>5
  <2>2. QED BY <1>4, <1>5, <2>1 DEF Joins
<1>8. Rke2Run(r, t)
  BY <1>4, <1>6, <1>7 DEF Rke2Run
<1>9. QED
  BY <1>8 DEF r, q, f, e

LEMMA RancherOrder ==
    ASSUME NEW t \in Seq(Commands)
    PROVE  RancherRun(<<"fetch", "start">> \o t, t)
<1> DEFINE f == <<"fetch", "start">>
           r == f \o t
<1>1. f \in Seq(Commands)
  BY DEF Commands
<1>2. Len(f) = 2 /\ f[1] = "fetch" /\ f[2] = "start"
  OBVIOUS
<1> HIDE DEF f
<1>3. r \in Seq(Commands) /\ Joins(r, f, t)
  BY <1>1, Joined
<1> HIDE DEF r
<1>4. RancherRun(r, t)
  BY <1>2, <1>3 DEF Joins, RancherRun
<1>5. QED
  BY <1>4 DEF r, f

LEMMA UserData ==
    ASSUME NodeAssumption, mode \in Modes, template \in Templates,
           NEW m, doc[m] \in BootDocs, mode = "rke2" => doc[m] # "malformed",
           NEW s \in SecretIds
    PROVE  Carries(userData(m, s), m, s)
<1> DEFINE t == Template(template)
           d == userData(m, s)
<1>1. /\ t.files \in Seq(File) /\ OnlyOS(t.files)
      /\ t.run \in Seq(Commands) /\ t.boot \in Seq(Commands)
      /\ Len(t.run) = (IF template = "os" THEN 1 ELSE 0)
      /\ \A i \in 1..Len(t.run) : t.run[i] = "os"
  BY TemplateType DEF NodeAssumption, OnlyOS
<1> HIDE DEF t, d
<1>2. mode \in {"rke2", "rancher"}
  BY DEF NodeAssumption
<1>3. CASE mode = "rke2"
  <2> DEFINE b == sanitised(Bootstrap(doc[m]))
  <2>1. SafeFiles(b.files, doc[m]) /\ b.run = <<"start">> /\ b.boot = <<>>
    <3>1. doc[m] \in {"withToken", "noConfigFile"}
      BY <1>3 DEF NodeAssumption
    <3>2. QED BY <3>1, Sanitised
  <2> HIDE DEF b
  <2>2. d = [files |-> vaultFiles(s) \o t.files \o b.files,
             run |-> <<"fetch">> \o t.run \o b.run,
             boot |-> t.boot \o b.boot]
    BY <1>3 DEF d, t, b, userData, mergeCloudInit
  <2>3. /\ d.files = (vaultFiles(s) \o t.files) \o b.files
        /\ d.run = (<<"fetch">> \o t.run) \o b.run /\ d.boot = t.boot \o b.boot
    BY <2>2
  <2>4. b.files \in Seq(File) /\ NoToken(b.files)
    BY <2>1 DEF SafeFiles, NoToken
  <2>5. FilesOf(d, t.files, b.files, s)
    BY <1>1, <2>3, <2>4, UserDataFiles
  <2>6. OnDisk(d, "config").has = IF doc[m] = "withToken" THEN {"server"} ELSE {}
    <3>1. CASE doc[m] = "withToken"
      <4> DEFINE k == 3 + Len(t.files) + 2
      <4>1. Len(b.files) = 2 /\ b.files[2] = Plain("config", {"server"})
        BY <2>1, <3>1 DEF SafeFiles
      <4>2. d.files[k] = b.files[2] /\ k = Len(d.files) /\ k \in 1..Len(d.files)
        BY <1>1, <2>5, <4>1 DEF FilesOf
      <4> HIDE DEF k
      <4>3. d.files[k].path = "config" /\ d.files[k].has = {"server"}
        BY <4>1, <4>2 DEF Plain
      <4>4. LastOf(d, "config", k)
        <5>1. d.files \in Seq(File)
          BY <2>5 DEF FilesOf
        <5>2. \A i \in 1..Len(d.files) : ~(i > k)
          BY <4>2, <5>1
        <5>3. QED BY <4>2, <4>3, <5>1, <5>2 DEF LastOf
      <4>5. OnDisk(d, "config") = d.files[k]
        BY <4>4, LastOnDisk
      <4>6. QED BY <3>1, <4>3, <4>5
    <3>2. CASE doc[m] = "noConfigFile"
      <4>1. Len(b.files) = 1 /\ b.files[1] = Plain("cert", {})
        BY <2>1, <3>2 DEF SafeFiles
      <4>2. d.files[3 + Len(t.files) + 1] = b.files[1] /\ Len(d.files) = 3 + Len(t.files) + 1
        BY <1>1, <2>5, <4>1 DEF FilesOf
      <4>3. b.files[1].path = "cert"
        BY <4>1 DEF Plain
      <4>4. \A i \in 1..Len(d.files) : d.files[i].path # "config"
        <5>1. ASSUME NEW i \in 1..Len(d.files)
              PROVE  d.files[i].path # "config"
          <6>1. i <= 3 + Len(t.files) \/ i = 3 + Len(t.files) + 1
            BY <1>1, <4>2
          <6>2. QED BY <2>5, <4>2, <4>3, <6>1 DEF FilesOf
        <5>2. QED BY <5>1
      <4>5. d.files \in Seq(File)
        BY <2>5 DEF FilesOf
      <4>6. OnDisk(d, "config") = Plain("config", {})
        BY <4>4, <4>5, NotOnDisk, Zenon
      <4>7. QED BY <3>2, <4>6 DEF Plain
    <3>3. QED BY <1>3, <3>1, <3>2 DEF NodeAssumption
  <2>7. Rke2Run(d.run, t.run) /\ d.boot \in Seq(Commands)
    <3>1. d.run = <<"fetch">> \o t.run \o <<"start">> /\ t.run \in Seq(Commands)
      BY <1>1, <2>1, <2>3
    <3>2. t.boot \in Seq(Commands) /\ <<>> \in Seq(Commands) /\ d.boot = t.boot \o <<>>
      BY <1>1, <2>1, <2>3
    <3>3. d.boot \in Seq(Commands)
      BY <3>2, Joined
    <3>4. QED
      BY <3>1, <3>3, Rke2Order
  <2>8. d \in Document /\ d # Empty
    <3>1. d.files \in Seq(File) /\ d.run \in Seq(Commands) /\ d.boot \in Seq(Commands)
      BY <2>5, <2>7 DEF FilesOf, Rke2Run
    <3>2. d = [files |-> d.files, run |-> d.run, boot |-> d.boot]
      BY <2>2, <2>3
    <3>3. Len(d.run) # 0
      BY <1>1, <2>7 DEF Rke2Run
    <3>4. QED BY <3>1, <3>2, <3>3 DEF Document, Empty
  <2>9. /\ Len(d.run) >= 2 /\ d.run[1] = "fetch"
        /\ \A i \in 2..Len(d.run) : d.run[i] \in {"os", "start"}
        /\ IF template = "os"
           THEN Len(d.run) = 3 /\ d.run[2] = "os" /\ d.run[3] = "start"
           ELSE d.run[2] = "start" /\ \A i \in 3..Len(d.run) : d.run[i] = "os"
    <3>1. CASE template = "os"
      <4>1. Len(t.run) = 1 /\ t.run[1] = "os"
        BY <1>1, <3>1
      <4>2. Len(d.run) = 3 /\ d.run[1] = "fetch" /\ d.run[2] = "os" /\ d.run[3] = "start"
        BY <2>7, <4>1 DEF Rke2Run
      <4>3. QED BY <3>1, <4>2
    <3>2. CASE template # "os"
      <4>1. Len(d.run) = 2 /\ d.run[1] = "fetch" /\ d.run[2] = "start"
        BY <1>1, <2>7, <3>2 DEF Rke2Run
      <4>2. QED BY <3>2, <4>1
    <3>3. QED BY <3>1, <3>2
  <2>10. QED
    BY <1>3, <2>5, <2>6, <2>8, <2>9 DEF Carries, d, FilesOf
<1>4. CASE mode = "rancher"
  <2>1. d = [files |-> vaultFiles(s) \o t.files,
             run |-> <<"fetch", "start">> \o t.run,
             boot |-> t.boot]
    BY <1>4 DEF d, t, userData, BuildRancherAgentUserData
  <2>2. d.files = (vaultFiles(s) \o t.files) \o <<>>
    <3>1. vaultFiles(s) \o t.files \in Seq(File)
      BY <1>1, VaultFiles, Joined
    <3>2. QED BY <2>1, <3>1
  <2>3. FilesOf(d, t.files, <<>>, s)
    <3>1. <<>> \in Seq(File) /\ NoToken(<<>>)
      BY DEF NoToken
    <3>2. QED BY <1>1, <2>2, <3>1, UserDataFiles
  <2>4. OnDisk(d, "config").has = {}
    <3>1. d.files \in Seq(File) /\ Len(d.files) \in Nat /\ Len(t.files) \in Nat
      BY <1>1, <2>3 DEF FilesOf
    <3>2. Len(d.files) = 3 + Len(t.files)
      BY <2>3, <3>1 DEF FilesOf
    <3>3. \A i \in 1..Len(d.files) : i <= 3 + Len(t.files) => d.files[i].path # "config"
      BY <2>3, Zenon DEF FilesOf
    <3>4. \A i \in 1..Len(d.files) : d.files[i].path # "config"
      BY <3>1, <3>2, <3>3
    <3>5. OnDisk(d, "config") = Plain("config", {})
      BY <3>1, <3>4, NotOnDisk, Zenon
    <3>6. QED BY <3>5 DEF Plain
  <2>5. RancherRun(d.run, t.run)
    <3>1. t.run \in Seq(Commands) /\ d.run = <<"fetch", "start">> \o t.run
      BY <1>1, <2>1
    <3>2. QED BY <3>1, RancherOrder
  <2>6. d \in Document /\ d # Empty
    <3>1. d.files \in Seq(File) /\ d.run \in Seq(Commands) /\ d.boot \in Seq(Commands)
      BY <1>1, <2>1, <2>3, <2>5 DEF FilesOf, RancherRun
    <3>2. d = [files |-> d.files, run |-> d.run, boot |-> d.boot]
      BY <2>1
    <3>3. Len(d.run) # 0
      BY <1>1, <2>5 DEF RancherRun
    <3>4. QED BY <3>1, <3>2, <3>3 DEF Document, Empty
  <2>7. QED
    BY <1>1, <1>4, <2>3, <2>4, <2>5, <2>6 DEF Carries, d, FilesOf, RancherRun
<1>5. QED
  BY <1>2, <1>3, <1>4


(***************************************************************************)
(* The inductive invariant.                                                *)
(***************************************************************************)

InFlight == at \in {"first", "login", "second"}

\* The controller builds the user_data of a machine that has none, from a
\* document that could be stripped; it has a call open exactly then.
BuilderInv ==
    /\ cur = Nil <=> at = "none"
    /\ \A m \in Machines : cur = m =>
          /\ nodes[m].data = Empty
          /\ mode = "rke2" => doc[m] # "malformed"

\* The call in hand agrees with what Vault holds: nobody else writes the token,
\* and an empty one comes from a document without the config file.
TokenInv ==
    /\ kv = "empty" => MayStoreEmpty
    /\ mode = "rancher" => kv = "token"
    /\ req.op = "exists" /\ at \in {"served", "answered"} =>
          /\ ans.code = "yes" => kv # "absent"
          /\ ans.code = "no" => kv = "absent"
    /\ req.op = "write" /\ at # "none" =>
          /\ req.tok \in {"token", "empty"}
          /\ req.tok = "empty" => MayStoreEmpty
          /\ InFlight => kv = "absent"
          /\ at = "served" \/ (at = "answered" /\ ans.code = "ok") => kv # "absent"
    /\ req.op \in {"generate", "revoke"} /\ at # "none" => kv # "absent"
    /\ \A m \in Machines : Ordered(m) => kv # "absent"

\* s is good and in nobody's user_data.
Unused(s) == sids[s] = "live" /\ \A m \in Machines : SecretIDOf(m) # s

\* The secret_ids of the call in hand and of the machines are distinct; a
\* machine's is not revoked, and spent only by its own login.
CredentialInv ==
    /\ ans.code = "error" => ans.sid = Nil
    /\ req.op = "generate" /\ at = "served" => ans.code = "ok"
    /\ req.op = "generate" /\ at \in {"served", "answered"} /\ ans.code = "ok" =>
          ans.sid \in SecretIds /\ Unused(ans.sid)
    /\ req.op = "revoke" /\ at # "none" =>
          /\ req.sid \in SecretIds
          /\ \A m \in Machines : SecretIDOf(m) # req.sid
          /\ at = "served" \/ (at = "answered" /\ ans.code # "error") => sids[req.sid] # "live"
    /\ \A m \in Machines : Ordered(m) =>
          /\ sids[SecretIDOf(m)] # "free"
          /\ nodes[m].fetch = "none" => sids[SecretIDOf(m)] = "live"
          /\ \A k \in Machines : Ordered(k) /\ SecretIDOf(k) = SecretIDOf(m) => k = m

Settings(m) == OnDisk(nodes[m].data, "config").has

\* How far node n has come, and what is in place by then: its user_data gave it
\* the settings c and the secret_id s.
Stage(n, c, s) ==
    /\ n.next = 0 => n.fetch = "none" /\ ~n.began
    /\ n.next = 1 => /\ n.fetch \in {"none", "loggedIn"} /\ ~n.began
                     /\ n.creds = s /\ n.ready = c
    /\ n.next >= 2 => n.fetch \in {"done", "failed"}
    /\ n.fetch = "done" =>
          /\ n.creds = Nil
          /\ n.next = 2 => n.ready = c \cup Fetched
          /\ n.next = 3 /\ mode = "rke2" /\ template = "os" =>
                n.ready = c \cup Fetched \cup {"os"}
          /\ n.began => n.with = c \cup Fetched \cup
                           IF mode = "rke2" /\ template = "os" THEN {"os"} ELSE {}

BootInv(m) ==
    /\ \/ nodes[m] = NoNode
       \/ \E s \in SecretIds : Carries(nodes[m].data, m, s)
    /\ Stage(nodes[m], Settings(m), SecretIDOf(m))

NodeInv ==
    /\ TypeOK
    /\ BuilderInv
    /\ TokenInv
    /\ CredentialInv
    /\ \A m \in Machines : BootInv(m)

\* The good secret_ids nobody holds, or whose revocation is bound to fail.
InHand(s) == \/ req.op = "generate" /\ at \in {"served", "answered"} /\ ans.sid = s
             \/ /\ req.op = "revoke" /\ req.sid = s
                /\ at \in {"first", "login"} \/ (at = "second" /\ session # "expired")

Doomed == {s \in SecretIds : Unused(s) /\ ~InHand(s)}

LeakInv == IsFiniteSet(Doomed) /\ Cardinality(Doomed) + faults + refused <= MaxFaults + early


LEMMA EmptyDisk ==
    OnDisk(Empty, "secret-id").sid = Nil /\ OnDisk(Empty, "config").has = {}
<1>1. Empty.files = <<>> /\ Empty.files \in Seq(File)
  BY DEF Empty
<1>2. Entries(Empty, "secret-id") = {} /\ Entries(Empty, "config") = {}
  BY <1>1 DEF Entries
<1>3. QED
  BY <1>2 DEF OnDisk, Plain

LEMMA EmptyType == Empty \in Document
BY DEF Empty, Document

LEMMA NoNodeType ==
    /\ NoNode \in Node /\ NoNode.data = Empty
    /\ NoNode.next = 0 /\ NoNode.fetch = "none" /\ NoNode.began = FALSE
BY EmptyType DEF NoNode, Node

\* A machine either has no user_data yet, or carries its own.
LEMMA BootCases ==
    ASSUME NEW m \in Machines, BootInv(m)
    PROVE  \/ /\ ~Ordered(m) /\ nodes[m] = NoNode
              /\ SecretIDOf(m) = Nil /\ SecretIDOf(m) \notin SecretIds
           \/ /\ Ordered(m) /\ SecretIDOf(m) \in SecretIds
              /\ Carries(nodes[m].data, m, SecretIDOf(m))
<1>1. CASE nodes[m] = NoNode
  <2>1. nodes[m].data = Empty
    BY <1>1 DEF NoNode
  <2>2. QED BY <1>1, <2>1, EmptyDisk, NilAssumption DEF Ordered, SecretIDOf
<1>2. CASE \E s \in SecretIds : Carries(nodes[m].data, m, s)
  <2>1. PICK s \in SecretIds : Carries(nodes[m].data, m, s)
    BY <1>2
  <2>2. nodes[m].data # Empty /\ SecretIDOf(m) = s
    BY <2>1 DEF Carries, SecretIDOf
  <2>3. QED BY <2>1, <2>2 DEF Ordered
<1>3. QED
  BY <1>1, <1>2 DEF BootInv

LEMMA NodeInit == Init => NodeInv
<1> SUFFICES ASSUME Init PROVE NodeInv
  OBVIOUS
<1> USE NodeAssumption DEF NodeAssumption
<1>1. \A m \in Machines : nodes[m] = NoNode
  BY DEF Init
<1>2. \A m \in Machines : ~Ordered(m) /\ SecretIDOf(m) = Nil
  <2>1. \A m \in Machines : nodes[m].data = Empty
    BY <1>1, NoNodeType
  <2>2. QED BY <2>1, EmptyDisk DEF Ordered, SecretIDOf
<1>3. TypeOK
  <2>1. nodes \in [Machines -> Node]
    BY NoNodeType DEF Init
  <2>2. VaultTypeOK
    BY DEF Init, VaultTypeOK
  <2>3. ClientTypeOK
    BY DEF Init, ClientInit, ClientTypeOK, Requests, Answers, Answer
  <2>4. QED BY <2>1, <2>2, <2>3 DEF Init, TypeOK
<1>4. BuilderInv
  BY NilAssumption DEF Init, ClientInit, BuilderInv
<1>5. TokenInv
  BY <1>2 DEF Init, ClientInit, TokenInv
<1>6. CredentialInv
  BY <1>2 DEF Init, ClientInit, CredentialInv, Answer
<1>7. ASSUME NEW m \in Machines
      PROVE  BootInv(m)
  <2>1. /\ nodes[m] = NoNode /\ nodes[m].next = 0
        /\ nodes[m].fetch = "none" /\ nodes[m].began = FALSE
    BY <1>1, NoNodeType
  <2>2. QED BY <2>1 DEF BootInv, Stage
<1>8. QED
  BY <1>3, <1>4, <1>5, <1>6, <1>7 DEF NodeInv


\* A step that leaves the nodes alone.
LEMMA NodesQuiet ==
    ASSUME \A m \in Machines : BootInv(m), UNCHANGED <<choices, nodes>>
    PROVE  /\ MayStoreEmpty' = MayStoreEmpty
           /\ \A m \in Machines : /\ BootInv(m)'
                                  /\ SecretIDOf(m)' = SecretIDOf(m)
                                  /\ Ordered(m)' = Ordered(m)
BY DEF MayStoreEmpty, choices, BootInv, Stage, Carries, SecretIDOf, Settings, Fetched, Ordered

LEMMA FaultType ==
    ASSUME faults \in 0..MaxFaults, NEW k, Fault(k)
    PROVE  faults' \in 0..MaxFaults
BY NodeAssumption DEF NodeAssumption, Fault

LEMMA ServedKeeps ==
    ASSUME NodeInv, Served, UNCHANGED <<choices, cur, attempts, nodes>>
    PROVE  NodeInv'
<1>1. /\ MayStoreEmpty' = MayStoreEmpty
      /\ \A m \in Machines : BootInv(m)' /\ SecretIDOf(m)' = SecretIDOf(m) /\ Ordered(m)' = Ordered(m)
  BY NodesQuiet DEF NodeInv
<1>2. /\ at \in {"first", "second"} /\ at' = "served"
      /\ UNCHANGED <<session, req, faults, mode, doc, template, cur, attempts, nodes>>
  BY DEF Served, Sent, choices
<1>3. BuilderInv'
  BY <1>2 DEF NodeInv, BuilderInv
<1>4. VaultTypeOK /\ ClientTypeOK /\ InFlight
  BY <1>2 DEF NodeInv, TypeOK, InFlight
<1>5. \A m \in Machines : Ordered(m) => SecretIDOf(m) \in SecretIds
  BY BootCases DEF NodeInv
<1>6. CASE /\ req.op = "exists"
           /\ ans' = Answer(IF SecretExists THEN "yes" ELSE "no") /\ UNCHANGED vault
  <2>1. ans'.sid = Nil /\ ans'.code = (IF kv # "absent" THEN "yes" ELSE "no") /\ ans' \in Answers
    BY <1>6 DEF Answer, SecretExists, Answers
  <2>2. kv' = kv /\ sids' = sids
    BY <1>6 DEF vault
  <2>3. TypeOK'
    BY <1>2, <1>4, <2>1, <2>2 DEF NodeInv, TypeOK, VaultTypeOK, ClientTypeOK, attempts
  <2>4. TokenInv'
    BY <1>1, <1>2, <1>6, <2>1, <2>2 DEF NodeInv, TokenInv
  <2>5. CredentialInv'
    BY <1>1, <1>2, <1>6, <2>1, <2>2 DEF NodeInv, CredentialInv
  <2>6. QED BY <1>1, <1>3, <2>3, <2>4, <2>5 DEF NodeInv
<1>7. CASE req.op = "write" /\ ans' = Answer("ok") /\ kv' = req.tok /\ UNCHANGED sids
  <2>1. ans'.sid = Nil /\ ans'.code = "ok" /\ ans' \in Answers
    BY <1>7 DEF Answer, Answers
  <2>2. kv' \in {"token", "empty"}
    BY <1>2, <1>7 DEF NodeInv, TokenInv
  <2>3. TypeOK'
    BY <1>2, <1>4, <1>7, <2>1, <2>2 DEF NodeInv, TypeOK, VaultTypeOK, ClientTypeOK, attempts
  <2>4. TokenInv'
    BY <1>1, <1>2, <1>7, <2>1, <2>2 DEF NodeInv, TokenInv, InFlight
  <2>5. CredentialInv'
    BY <1>1, <1>2, <1>7, <2>1 DEF NodeInv, CredentialInv
  <2>6. QED BY <1>1, <1>3, <2>3, <2>4, <2>5 DEF NodeInv
<1>8. CASE /\ req.op = "generate" /\ UNCHANGED kv
           /\ \E s \in SecretIds : ans' = [code |-> "ok", sid |-> s] /\ GenerateSecretID(s)
  <2>1. PICK s \in SecretIds : ans' = [code |-> "ok", sid |-> s] /\ GenerateSecretID(s)
    BY <1>8
  <2>2. /\ ans'.sid = s /\ ans'.code = "ok" /\ ans' \in Answers
    BY <2>1 DEF Answers
  <2>3. /\ sids[s] = "free" /\ sids' = [sids EXCEPT ![s] = "live"]
        /\ sids'[s] = "live" /\ \A t \in SecretIds : t # s => sids'[t] = sids[t]
    BY <1>4, <2>1 DEF GenerateSecretID, FreshSecretID, VaultTypeOK
  <2>4. TypeOK'
    BY <1>2, <1>4, <1>8, <2>2, <2>3 DEF NodeInv, TypeOK, VaultTypeOK, ClientTypeOK, attempts
  <2>5. TokenInv'
    BY <1>1, <1>2, <1>8, <2>2 DEF NodeInv, TokenInv
  <2>6. \A m \in Machines : SecretIDOf(m) # s
    <3>1. ASSUME NEW m \in Machines PROVE SecretIDOf(m) # s
      <4>1. CASE Ordered(m)
        BY <2>3, <4>1 DEF NodeInv, CredentialInv
      <4>2. CASE ~Ordered(m)
        BY <4>2, BootCases DEF NodeInv
      <4>3. QED BY <4>1, <4>2
    <3>2. QED BY <3>1
  <2>7. CredentialInv'
    BY <1>1, <1>2, <1>5, <1>8, <2>2, <2>3, <2>6 DEF NodeInv, CredentialInv, Unused
  <2>8. QED BY <1>1, <1>3, <2>4, <2>5, <2>7 DEF NodeInv
<1>9. CASE /\ req.op = "revoke" /\ ans' = Answer("ok") /\ UNCHANGED kv
           /\ RevokeSecretID(req.sid)
  <2>1. ans'.sid = Nil /\ ans'.code = "ok" /\ ans' \in Answers
    BY <1>9 DEF Answer, Answers
  <2>2. /\ \A t \in SecretIds : sids'[t] = IF t = req.sid THEN "revoked" ELSE sids[t]
        /\ sids' \in [SecretIds -> {"free", "live", "used", "revoked"}]
    BY <1>4, <1>9 DEF RevokeSecretID, VaultTypeOK
  <2>3. TypeOK'
    BY <1>2, <1>4, <1>9, <2>1, <2>2 DEF NodeInv, TypeOK, VaultTypeOK, ClientTypeOK, attempts
  <2>4. TokenInv'
    BY <1>1, <1>2, <1>9, <2>1 DEF NodeInv, TokenInv
  <2>5. CredentialInv'
    BY <1>1, <1>2, <1>5, <1>9, <2>1, <2>2 DEF NodeInv, CredentialInv
  <2>6. QED BY <1>1, <1>3, <2>3, <2>4, <2>5 DEF NodeInv
<1>10. QED
  BY <1>6, <1>7, <1>8, <1>9 DEF Served, Serve, WriteSecret


\* Vault, the nodes and the choices are left alone: what remains to be shown is
\* about the call and the machine in hand.
LEMMA CallOnly ==
    ASSUME NodeInv, UNCHANGED <<vault, choices, nodes>>,
           ClientTypeOK', cur' \in Machines \cup {Nil},
           early' \in 0..MaxEarly, refused' \in Nat
    PROVE  /\ TypeOK' /\ \A m \in Machines : BootInv(m)'
           /\ kv' = kv /\ sids' = sids /\ mode' = mode /\ doc' = doc /\ nodes' = nodes
           /\ MayStoreEmpty' = MayStoreEmpty
           /\ \A m \in Machines : SecretIDOf(m)' = SecretIDOf(m) /\ Ordered(m)' = Ordered(m)
BY NodesQuiet DEF NodeInv, TypeOK, VaultTypeOK, vault, choices

LEMMA ClientKeeps ==
    ASSUME NodeInv, ClientStep \/ NewClient \/ Expire, UNCHANGED <<choices, cur, attempts, nodes>>
    PROVE  NodeInv'
<1> USE DEF NodeInv
<1>1. ClientTypeOK /\ cur \in Machines \cup {Nil} /\ early \in 0..MaxEarly /\ refused \in Nat
  BY DEF TypeOK
<1>2. Failed = [code |-> "error", sid |-> Nil] /\ Failed \in Answers
  BY DEF Failed, Answer, Answers
<1>3. CASE Served
  BY <1>3, ServedKeeps
<1>4. ASSUME UNCHANGED <<vault, req>>, ClientTypeOK', at # "none", at' # "none",
             \/ at' = "answered" /\ ans' = Failed
             \/ at' = "answered" /\ at = "served" /\ UNCHANGED ans
             \/ InFlight /\ InFlight' /\ UNCHANGED ans
      PROVE  NodeInv'
  <2>1. /\ TypeOK' /\ \A m \in Machines : BootInv(m)'
        /\ kv' = kv /\ sids' = sids /\ mode' = mode /\ doc' = doc /\ nodes' = nodes
        /\ MayStoreEmpty' = MayStoreEmpty
        /\ \A m \in Machines : SecretIDOf(m)' = SecretIDOf(m) /\ Ordered(m)' = Ordered(m)
    BY <1>1, <1>4, CallOnly DEF attempts
  <2>2. BuilderInv'
    BY <1>4, <2>1 DEF BuilderInv
  <2>3. TokenInv'
    BY <1>2, <1>4, <2>1 DEF TokenInv, InFlight
  <2>4. CredentialInv'
    BY <1>2, <1>4, <2>1 DEF CredentialInv, Unused, InFlight
  <2>5. QED BY <2>1, <2>2, <2>3, <2>4
<1>5. CASE Answered
  <2>1. ClientTypeOK'
    BY <1>1, <1>5 DEF Answered, ClientTypeOK
  <2>2. QED BY <1>4, <1>5, <2>1 DEF Answered
<1>6. CASE Denied
  <2>1. faults' \in 0..MaxFaults
    BY <1>1, <1>6, FaultType DEF Denied, DeniedByVault, ClientTypeOK
  <2>2. \/ at = "first" /\ at' = "login" /\ UNCHANGED ans
        \/ at = "second" /\ at' = "answered" /\ ans' = Failed
    BY <1>6 DEF Denied, Sent, Fails
  <2>3. UNCHANGED <<vault, session, req>>
    BY <1>6 DEF Denied
  <2>4. ClientTypeOK'
    BY <1>1, <1>2, <2>1, <2>2, <2>3 DEF ClientTypeOK
  <2>5. QED BY <1>4, <2>2, <2>3, <2>4 DEF InFlight
<1>7. CASE Relogin
  <2>1. ClientTypeOK'
    BY <1>1, <1>7 DEF Relogin, ClientTypeOK
  <2>2. QED BY <1>4, <1>7, <2>1 DEF Relogin, InFlight
<1>8. CASE CallFails \/ AnswerLost
  <2>1. faults' \in 0..MaxFaults
    BY <1>1, <1>8, FaultType DEF CallFails, AnswerLost, ClientTypeOK
  <2>2. at # "none" /\ at' = "answered" /\ ans' = Failed /\ UNCHANGED <<vault, session, req>>
    BY <1>8 DEF CallFails, AnswerLost, Fails
  <2>3. ClientTypeOK'
    BY <1>1, <1>2, <2>1, <2>2 DEF ClientTypeOK
  <2>4. QED BY <1>4, <2>2, <2>3
<1>9. CASE NewClient \/ Expire
  <2>1. faults' \in 0..MaxFaults
    BY <1>1, <1>9, FaultType DEF NewClient, Expire, ClientTypeOK
  <2>2. session' \in {"live", "expired"} /\ UNCHANGED <<vault, req, at, ans>>
    BY <1>9 DEF NewClient, Expire
  <2>3. ClientTypeOK'
    BY <1>1, <2>1, <2>2 DEF ClientTypeOK
  <2>4. /\ TypeOK' /\ \A m \in Machines : BootInv(m)'
        /\ kv' = kv /\ sids' = sids /\ mode' = mode /\ doc' = doc /\ nodes' = nodes
        /\ MayStoreEmpty' = MayStoreEmpty
        /\ \A m \in Machines : SecretIDOf(m)' = SecretIDOf(m) /\ Ordered(m)' = Ordered(m)
    BY <1>1, <2>2, <2>3, CallOnly DEF attempts
  <2>5. BuilderInv' /\ TokenInv' /\ CredentialInv'
    BY <2>2, <2>4 DEF BuilderInv, TokenInv, CredentialInv, InFlight, Unused
  <2>6. QED BY <2>4, <2>5
<1>10. QED
  BY <1>3, <1>5, <1>6, <1>7, <1>8, <1>9 DEF ClientStep

LEMMA StripFails ==
    ASSUME NEW m \in Machines, TypeOK, ~stripFails(Bootstrap(doc[m]))
    PROVE  doc[m] # "malformed"
BY Malformed

\* The controller's own steps but the accepted order, and the restart.
LEMMA BuildKeeps ==
    ASSUME NodeInv,
           \/ \E m \in Machines : BeginBuild(m)
           \/ TokenChecked \/ TokenWritten \/ Abandon \/ MergeFails
           \/ TenantNotReady \/ NotSubmitted \/ OrderRefused \/ Crash
    PROVE  NodeInv'
<1> USE DEF NodeInv
<1>1. /\ session \in {"none", "live", "expired"} /\ req \in Requests /\ ans \in Answers
      /\ faults \in 0..MaxFaults /\ cur \in Machines \cup {Nil} /\ early \in 0..MaxEarly /\ refused \in Nat
  BY DEF TypeOK, ClientTypeOK
<1>2. UNCHANGED <<vault, choices, nodes>> /\ UNCHANGED ans
  BY DEF BeginBuild, TokenChecked, TokenWritten, Abandon, MergeFails, TenantNotReady,
         NotSubmitted,
         OrderRefused, Crash, ClientCrash, Send, GiveUp
<1>3. faults' \in 0..MaxFaults
  BY <1>1, FaultType
  DEF BeginBuild, TokenChecked, TokenWritten, Abandon, MergeFails, TenantNotReady,
         NotSubmitted,
         OrderRefused, Crash
<1>3e. early' \in 0..MaxEarly /\ refused' \in Nat
  BY <1>1, NodeAssumption
  DEF NodeAssumption, BeginBuild, TokenChecked, TokenWritten, Abandon, MergeFails, TenantNotReady,
         NotSubmitted, OrderRefused, Crash, attempts
<1>4. ASSUME NEW op \in {"exists", "write", "generate", "revoke"},
             NEW tok \in {"token", "empty", Nil}, NEW sid \in SecretIds \cup {Nil},
             Send(op, tok, sid), cur' \in Machines,
             nodes[cur'].data = Empty, mode = "rke2" => doc[cur'] # "malformed",
             op = "write" => /\ tok \in {"token", "empty"} /\ kv = "absent"
                             /\ tok = "empty" => MayStoreEmpty,
             op \in {"generate", "revoke"} => kv # "absent",
             op = "revoke" => sid \in SecretIds /\ \A m \in Machines : SecretIDOf(m) # sid
      PROVE  NodeInv'
  <2>1. /\ req' = [op |-> op, tok |-> tok, sid |-> sid] /\ at' = "first" /\ session' = session
        /\ req' \in Requests
    BY <1>4 DEF Send, Requests
  <2>2. ClientTypeOK'
    BY <1>1, <1>2, <1>3, <2>1 DEF ClientTypeOK
  <2>3. /\ TypeOK' /\ \A m \in Machines : BootInv(m)'
        /\ kv' = kv /\ sids' = sids /\ mode' = mode /\ doc' = doc /\ nodes' = nodes
        /\ MayStoreEmpty' = MayStoreEmpty
        /\ \A m \in Machines : SecretIDOf(m)' = SecretIDOf(m) /\ Ordered(m)' = Ordered(m)
    BY <1>2, <1>3e, <1>4, <2>2, CallOnly
  <2>4. BuilderInv'
    BY <1>4, <2>1, <2>3, NilAssumption DEF BuilderInv
  <2>5. TokenInv'
    BY <1>4, <2>1, <2>3 DEF TokenInv
  <2>6. CredentialInv'
    BY <1>2, <1>4, <2>1, <2>3 DEF CredentialInv
  <2>7. QED BY <2>3, <2>4, <2>5, <2>6
<1>5. ASSUME cur' = Nil, at' = "none", UNCHANGED req, session' \in {"none", "live", "expired"}
      PROVE  NodeInv'
  <2>1. ClientTypeOK'
    BY <1>1, <1>2, <1>3, <1>5 DEF ClientTypeOK
  <2>2. /\ TypeOK' /\ \A m \in Machines : BootInv(m)'
        /\ kv' = kv /\ sids' = sids /\ mode' = mode /\ doc' = doc /\ nodes' = nodes
        /\ MayStoreEmpty' = MayStoreEmpty
        /\ \A m \in Machines : SecretIDOf(m)' = SecretIDOf(m) /\ Ordered(m)' = Ordered(m)
    BY <1>2, <1>3e, <1>5, <2>1, CallOnly
  <2>3. BuilderInv' /\ TokenInv' /\ CredentialInv'
    BY <1>2, <1>5, <2>2, NilAssumption DEF BuilderInv, TokenInv, CredentialInv
  <2>4. QED BY <2>2, <2>3
<1>6. CASE \E m \in Machines : BeginBuild(m)
  <2>1. PICK m \in Machines : BeginBuild(m)
    BY <1>6
  <2>2. cur' = m /\ nodes[m].data = Empty
    BY <2>1 DEF BeginBuild
  <2>3. CASE mode = "rke2" /\ ~stripFails(Bootstrap(doc[m])) /\ Send("exists", Nil, Nil)
    BY <1>4, <2>2, <2>3, StripFails
  <2>4. CASE mode = "rancher" /\ Send("generate", Nil, Nil)
    BY <1>4, <2>2, <2>4 DEF TokenInv
  <2>5. QED BY <2>1, <2>3, <2>4 DEF BeginBuild
<1>7. ASSUME cur # Nil
      PROVE  /\ cur \in Machines /\ nodes[cur].data = Empty
             /\ mode = "rke2" => doc[cur] # "malformed"
  BY <1>1, <1>7 DEF BuilderInv
<1>8. CASE TokenChecked
  <2>1. cur # Nil /\ cur' = cur /\ at = "answered" /\ req.op = "exists"
    BY <1>8 DEF TokenChecked, Reply
  <2>2. CASE ans.code = "no" /\ Send("write", strippedToken(Bootstrap(doc[cur])), Nil)
    <3>1. strippedToken(Bootstrap(doc[cur])) \in {"token", "empty"}
      BY DEF strippedToken
    <3>2. kv = "absent"
      BY <2>1, <2>2 DEF TokenInv
    <3>3. strippedToken(Bootstrap(doc[cur])) = "empty" => MayStoreEmpty
      <4>1. mode = "rke2" /\ doc[cur] \in {"withToken", "noConfigFile", "malformed"}
        BY <1>7, <2>1, <3>2, NodeAssumption DEF NodeAssumption, TokenInv, TypeOK
      <4>2. QED BY <1>7, <2>1, <4>1, EmptyToken DEF MayStoreEmpty
    <3>4. QED BY <1>4, <1>7, <2>1, <2>2, <3>1, <3>2, <3>3
  <2>3. CASE ans.code = "yes" /\ Send("generate", Nil, Nil)
    <3>1. kv # "absent"
      BY <2>1, <2>3 DEF TokenInv
    <3>2. QED BY <1>4, <1>7, <2>1, <2>3, <3>1
  <2>4. QED BY <1>8, <2>2, <2>3 DEF TokenChecked
<1>9. CASE TokenWritten
  <2>1. cur # Nil /\ cur' = cur /\ Send("generate", Nil, Nil) /\ kv # "absent"
    BY <1>9 DEF TokenWritten, Reply, TokenInv
  <2>2. QED BY <1>4, <1>7, <2>1
<1>10. CASE Abandon \/ TenantNotReady \/ NotSubmitted
  BY <1>1, <1>5, <1>10 DEF Abandon, TenantNotReady, NotSubmitted, GiveUp
<1>11. CASE MergeFails \/ OrderRefused
  <2>1. /\ cur # Nil /\ cur' = cur /\ at = "answered" /\ req.op = "generate" /\ ans.code = "ok"
        /\ Send("revoke", Nil, ans.sid)
    BY <1>11 DEF MergeFails, OrderRefused, HasSecretID, Reply
  <2>2. ans.sid \in SecretIds /\ kv # "absent" /\ \A m \in Machines : SecretIDOf(m) # ans.sid
    BY <2>1 DEF TokenInv, CredentialInv, Unused
  <2>3. QED BY <1>4, <1>7, <2>1, <2>2
<1>12. CASE Crash
  BY <1>5, <1>12 DEF Crash, ClientCrash
<1>13. QED
  BY <1>6, <1>8, <1>9, <1>10, <1>11, <1>12


\* The accepted order: the machine's user_data carries the secret_id in hand.
LEMMA AcceptKeeps ==
    ASSUME NodeInv, OrderAccepted
    PROVE  NodeInv'
<1> USE DEF NodeInv
<1> DEFINE s == ans.sid
           d == userData(cur, s)
<1>1. /\ cur # Nil /\ at = "answered" /\ req.op = "generate" /\ ans.code = "ok"
      /\ cur' = Nil /\ at' = "none" /\ UNCHANGED <<kv, sids, session, req, ans, faults, attempts>>
      /\ UNCHANGED <<mode, doc, template>> /\ MayStoreEmpty' = MayStoreEmpty
      /\ nodes' = [nodes EXCEPT ![cur].data = d]
  BY DEF OrderAccepted, HasSecretID, Reply, GiveUp, vault, choices, MayStoreEmpty
<1>2. /\ cur \in Machines /\ nodes[cur].data = Empty
      /\ mode = "rke2" => doc[cur] # "malformed"
  BY <1>1 DEF TypeOK, BuilderInv
<1>3. s \in SecretIds /\ Unused(s) /\ kv # "absent"
  BY <1>1 DEF CredentialInv, TokenInv
<1>4. Carries(d, cur, s)
  BY <1>2, <1>3, UserData, NodeAssumption DEF TypeOK
<1>5. /\ nodes[cur] = NoNode /\ nodes[cur].fetch = "none"
      /\ nodes[cur].next = 0 /\ nodes[cur].began = FALSE /\ nodes[cur] \in Node
  BY <1>2, BootCases, NoNodeType DEF Ordered
<1> HIDE DEF d
<1>6. /\ nodes'[cur].data = d /\ nodes'[cur].fetch = "none"
      /\ nodes'[cur].next = 0 /\ nodes'[cur].began = FALSE /\ nodes'[cur] \in Node
  BY <1>1, <1>2, <1>4, <1>5 DEF TypeOK, Node, Carries
<1>7. \A m \in Machines : m # cur => nodes'[m] = nodes[m]
  BY <1>1 DEF TypeOK
<1>8. /\ \A m \in Machines : m # cur => /\ SecretIDOf(m)' = SecretIDOf(m)
                                        /\ Ordered(m)' = Ordered(m)
      /\ \A m \in Machines : m = cur => SecretIDOf(m)' = s /\ Ordered(m)'
  BY <1>4, <1>6, <1>7 DEF SecretIDOf, Ordered, Carries
<1>9. TypeOK'
  <2>1. nodes' \in [Machines -> Node]
    BY <1>1, <1>6, <1>7 DEF TypeOK
  <2>2. QED BY <1>1, <2>1 DEF TypeOK, VaultTypeOK, ClientTypeOK, attempts
<1>10. BuilderInv'
  BY <1>1, NilAssumption DEF BuilderInv
<1>11. TokenInv'
  BY <1>1, <1>3 DEF TokenInv
<1>12. CredentialInv'
  <2>1. ASSUME NEW m \in Machines, Ordered(m)'
        PROVE  /\ sids'[SecretIDOf(m)'] # "free"
               /\ nodes'[m].fetch = "none" => sids'[SecretIDOf(m)'] = "live"
               /\ \A k \in Machines : Ordered(k)' /\ SecretIDOf(k)' = SecretIDOf(m)' => k = m
    <3>1. CASE m = cur
      BY <1>1, <1>3, <1>8, <3>1 DEF Unused
    <3>2. CASE m # cur
      BY <1>1, <1>2, <1>3, <1>7, <1>8, <2>1, <3>2 DEF CredentialInv, Unused
    <3>3. QED BY <3>1, <3>2
  <2>2. QED BY <1>1, <2>1 DEF CredentialInv
<1>13. ASSUME NEW m \in Machines
       PROVE  BootInv(m)'
  <2>1. CASE m = cur
    <3>1. (\E t \in SecretIds : Carries(nodes[m].data, m, t))'
      BY <1>1, <1>3, <1>4, <1>6, <2>1 DEF Carries
    <3>2. QED BY <1>6, <2>1, <3>1 DEF BootInv, Stage
  <2>2. CASE m # cur
    BY <1>1, <1>7, <2>2 DEF BootInv, Stage, Carries, SecretIDOf, Settings, Fetched
  <2>3. QED BY <2>1, <2>2
<1>14. QED
  BY <1>9, <1>10, <1>11, <1>12, <1>13

\* What running the command cmd says about node m.
LEMMA RunningCases ==
    ASSUME NodeInv, NEW m \in Machines, NEW cmd \in {"fetch", "os", "start"}, Running(m, cmd)
    PROVE  /\ Ordered(m) /\ SecretIDOf(m) \in SecretIds
           /\ Carries(nodes[m].data, m, SecretIDOf(m))
           /\ cmd = "fetch" => nodes[m].next = 1
           /\ cmd # "fetch" => nodes[m].next >= 2
           /\ cmd = "start" => nodes[m].next = IF mode = "rke2" /\ template = "os" THEN 3 ELSE 2
           /\ cmd = "os" => IF mode = "rke2" /\ template = "os"
                            THEN nodes[m].next = 2 ELSE nodes[m].next >= 3
<1> DEFINE d == nodes[m].data
           i == nodes[m].next
<1>1. i \in DOMAIN d.run /\ d.run[i] = cmd /\ d \in Document /\ i \in Nat
  BY DEF Running, NodeInv, TypeOK, Node
<1>2. i \in 1..Len(d.run)
  BY <1>1 DEF Document
<1>3. Ordered(m)
  <2>1. SUFFICES ASSUME d = Empty PROVE FALSE
    BY DEF Ordered
  <2>2. QED BY <1>2, <2>1 DEF Empty
<1>4. Carries(d, m, SecretIDOf(m)) /\ SecretIDOf(m) \in SecretIds
  BY <1>3, BootCases DEF NodeInv
<1> HIDE DEF d, i
<1>5. /\ d.run[1] = "fetch"
      /\ \A j \in 2..Len(d.run) : d.run[j] \in {"os", "start"}
      /\ IF mode = "rke2" /\ template = "os"
         THEN Len(d.run) = 3 /\ d.run[2] = "os" /\ d.run[3] = "start"
         ELSE d.run[2] = "start" /\ \A j \in 3..Len(d.run) : d.run[j] = "os"
  BY <1>4 DEF Carries
<1>6. i = 1 \/ i \in 2..Len(d.run)
  BY <1>2
<1>7. (cmd = "fetch" => i = 1) /\ (cmd # "fetch" => i >= 2)
  BY <1>1, <1>5, <1>6
<1>8. ASSUME mode = "rke2" /\ template = "os", cmd # "fetch"
      PROVE  i = IF cmd = "start" THEN 3 ELSE 2
  <2>1. i = 2 \/ i = 3
    BY <1>2, <1>5, <1>7, <1>8
  <2>2. QED BY <1>1, <1>5, <1>8, <2>1
<1>9. ASSUME ~(mode = "rke2" /\ template = "os"), cmd # "fetch"
      PROVE  (cmd = "start" => i = 2) /\ (cmd = "os" => i >= 3)
  <2>1. i = 2 \/ i \in 3..Len(d.run)
    BY <1>2, <1>7, <1>9
  <2>2. QED BY <1>1, <1>5, <1>9, <2>1
<1>10. QED
  BY <1>3, <1>4, <1>7, <1>8, <1>9 DEF d, i

\* A step of node m that moves only m, spends no other machine's secret_id and
\* leaves m's user_data alone.
LEMMA NodeMoves ==
    ASSUME NodeInv, NEW m \in Machines, NEW n \in Node,
           nodes' = [nodes EXCEPT ![m] = n], n.data = nodes[m].data,
           UNCHANGED <<kv, session, req, at, ans, choices, cur, attempts>>, faults' \in 0..MaxFaults,
           \/ UNCHANGED sids
           \/ /\ Ordered(m) /\ SecretIDOf(m) \in SecretIds
              /\ sids' = [sids EXCEPT ![SecretIDOf(m)] = "used"],
           n.fetch = "none" => nodes[m].fetch = "none" /\ UNCHANGED sids,
           BootInv(m)'
    PROVE  NodeInv'
<1> USE DEF NodeInv
<1>1. nodes'[m] = n /\ \A k \in Machines : k # m => nodes'[k] = nodes[k]
  BY DEF TypeOK
<1>2. \A k \in Machines : nodes'[k].data = nodes[k].data
  BY <1>1
<1>3. \A k \in Machines : SecretIDOf(k)' = SecretIDOf(k) /\ Ordered(k)' = Ordered(k)
  BY <1>2 DEF SecretIDOf, Ordered
<1>4. /\ kv' = kv /\ session' = session /\ req' = req /\ at' = at /\ ans' = ans /\ cur' = cur
      /\ mode' = mode /\ doc' = doc /\ template' = template /\ UNCHANGED attempts
  BY DEF choices
<1>4e. MayStoreEmpty' = MayStoreEmpty
  BY <1>4 DEF MayStoreEmpty
<1>5. /\ sids' \in [SecretIds -> {"free", "live", "used", "revoked"}]
      /\ \A t \in SecretIds : \/ sids'[t] = sids[t]
                              \/ Ordered(m) /\ t = SecretIDOf(m) /\ sids'[t] = "used"
  BY DEF TypeOK, VaultTypeOK
<1>6. TypeOK'
  BY <1>1, <1>4, <1>5 DEF TypeOK, VaultTypeOK, ClientTypeOK, attempts
<1>7. BuilderInv' /\ TokenInv'
  BY <1>2, <1>3, <1>4, <1>4e DEF BuilderInv, TokenInv, InFlight
<1>8. \A k \in Machines : Ordered(k) => SecretIDOf(k) \in SecretIds
  BY BootCases
<1>9. ASSUME NEW k \in Machines, Ordered(k)
      PROVE  /\ sids'[SecretIDOf(k)] # "free"
             /\ nodes'[k].fetch = "none" => sids'[SecretIDOf(k)] = "live"
  <2>1. CASE k = m
    BY <1>1, <1>5, <1>8, <1>9, <2>1 DEF CredentialInv
  <2>2. CASE k # m
    BY <1>1, <1>5, <1>8, <1>9, <2>2 DEF CredentialInv
  <2>3. QED BY <2>1, <2>2
<1>10. CredentialInv'
  BY <1>3, <1>4, <1>5, <1>9 DEF CredentialInv, Unused
<1>11. ASSUME NEW k \in Machines PROVE BootInv(k)'
  <2>1. CASE k # m
    <3>1. nodes'[k] = nodes[k] /\ BootInv(k)
      BY <1>1, <2>1
    <3> HIDE DEF NodeInv
    <3>2. Settings(k)' = Settings(k) /\ Fetched' = Fetched /\ SecretIDOf(k)' = SecretIDOf(k)
      BY <1>3, <1>4, <3>1 DEF Settings, Fetched
    <3>3. \A t \in SecretIds : Carries(nodes[k].data, k, t)' <=> Carries(nodes[k].data, k, t)
      BY <1>4, <3>1, SMTT(30) DEF Carries
    <3>4. QED BY <1>4, <3>1, <3>2, <3>3 DEF BootInv, Stage
  <2>2. QED BY <2>1
<1>12. QED
  BY <1>6, <1>7, <1>10, <1>11


LEMMA StageMoves ==
    ASSUME NodeInv, NEW m \in Machines, NEW n, nodes' = [nodes EXCEPT ![m] = n],
           n.data = nodes[m].data, Ordered(m), UNCHANGED choices,
           Stage(n, Settings(m), SecretIDOf(m))
    PROVE  BootInv(m)'
<1>1. nodes'[m] = n /\ mode' = mode /\ doc' = doc /\ template' = template
  BY DEF NodeInv, TypeOK, choices
<1>2. Settings(m)' = Settings(m) /\ SecretIDOf(m)' = SecretIDOf(m) /\ Fetched' = Fetched
  BY <1>1 DEF Settings, SecretIDOf, Fetched
<1>3. PICK s \in SecretIds : Carries(nodes[m].data, m, s)
  BY BootCases DEF NodeInv
<1>4. Carries(nodes[m].data, m, s)'
  BY <1>1, <1>3 DEF Carries
<1>5. Stage(nodes[m], Settings(m), SecretIDOf(m))'
  BY <1>1, <1>2 DEF Stage
<1>6. QED
  BY <1>4, <1>5 DEF BootInv

LEMMA NodeStepKeeps ==
    ASSUME NodeInv, NEW m \in Machines, NodeStep(m)
    PROVE  NodeInv'
<1> DEFINE o == nodes[m]
           c == Settings(m)
           s == SecretIDOf(m)
<1>1. /\ o \in Node /\ o.data \in Document /\ o.next \in Nat /\ o.creds \in SecretIds \cup {Nil}
      /\ o.fetch \in {"none", "loggedIn", "done", "failed"}
      /\ o.ready \in SUBSET {"server", "token", "os"} /\ o.began \in BOOLEAN
      /\ o.with \in SUBSET {"server", "token", "os"}
      /\ faults \in 0..MaxFaults /\ sids \in [SecretIds -> {"free", "live", "used", "revoked"}]
  BY DEF NodeInv, TypeOK, ClientTypeOK, VaultTypeOK, Node
<1>2. Stage(o, c, s)
  BY DEF NodeInv, BootInv
<1>3. ASSUME Ordered(m)
      PROVE  s \in SecretIds /\ c \in SUBSET {"server", "token", "os"}
  BY <1>3, BootCases DEF NodeInv, Carries, Settings
<1>4. Fetched \in SUBSET {"server", "token", "os"}
  BY DEF Fetched
<1> HIDE DEF c, s
<1>5. CASE Boot(m)
  <2> DEFINE n == [o EXCEPT !.next = 1, !.creds = s, !.ready = c]
  <2>1. Ordered(m) /\ o.next = 0
    BY <1>5 DEF Boot, Ordered
  <2>2. nodes' = [nodes EXCEPT ![m] = n]
    BY <1>5 DEF Boot, s, c, SecretIDOf, Settings
  <2>3. /\ n \in Node /\ n.data = o.data /\ n.next = 1 /\ n.creds = s /\ n.ready = c
        /\ n.fetch = o.fetch /\ n.began = o.began
    BY <1>1, <1>3, <2>1 DEF Node
  <2> HIDE DEF n
  <2>4. Stage(n, c, s)
    BY <1>2, <2>1, <2>3 DEF Stage
  <2>5. UNCHANGED <<kv, sids, session, req, at, ans, choices, cur, attempts, faults>>
    BY <1>5 DEF Boot, vault, client
  <2>6. BootInv(m)'
    BY <2>1, <2>2, <2>3, <2>4, <2>5, StageMoves DEF c, s
  <2>7. QED BY <1>1, <2>1, <2>2, <2>3, <2>5, <2>6, NodeMoves
<1>6. CASE FetchLogin(m)
  <2> DEFINE n == [o EXCEPT !.fetch = "loggedIn"]
  <2>1. Ordered(m) /\ o.next = 1
    BY <1>6, RunningCases DEF FetchLogin
  <2>2. nodes' = [nodes EXCEPT ![m] = n]
    BY <1>6 DEF FetchLogin
  <2>3. /\ n \in Node /\ n.data = o.data /\ n.next = 1 /\ n.creds = o.creds
        /\ n.ready = o.ready /\ n.fetch = "loggedIn" /\ n.began = o.began
    BY <1>1, <2>1 DEF Node
  <2> HIDE DEF n
  <2>4. Stage(n, c, s) /\ o.creds = s
    BY <1>2, <2>1, <2>3 DEF Stage
  <2>5. /\ UNCHANGED <<kv, session, req, at, ans, choices, cur, attempts, faults>>
        /\ sids' = [sids EXCEPT ![s] = "used"]
    BY <1>6, <2>4 DEF FetchLogin, UseSecretID, client
  <2>6. BootInv(m)'
    BY <2>1, <2>2, <2>3, <2>4, <2>5, StageMoves DEF c, s
  <2>7. QED BY <1>1, <1>3, <2>1, <2>2, <2>3, <2>5, <2>6, NodeMoves DEF s
<1>7. CASE FetchToken(m)
  <2> DEFINE r == o.ready \cup Fetched
             k == o.next + 1
             n == [o EXCEPT !.fetch = "done", !.ready = r, !.creds = Nil, !.next = k]
  <2>1. Ordered(m) /\ o.next = 1
    BY <1>7, RunningCases DEF FetchToken
  <2>2. nodes' = [nodes EXCEPT ![m] = n]
    BY <1>1, <1>7 DEF FetchToken, NodeInv, TypeOK
  <2>3. /\ n \in Node /\ n.data = o.data /\ n.next = 2 /\ n.creds = Nil
        /\ n.ready = o.ready \cup Fetched /\ n.fetch = "done" /\ n.began = o.began
    <3>1. k \in Nat /\ k = 2
      BY <1>1, <2>1
    <3>2. r \in SUBSET {"server", "token", "os"}
      BY <1>1, <1>4, Zenon
    <3>3. r = o.ready \cup Fetched
      OBVIOUS
    <3> HIDE DEF r, k
    <3>4. QED BY <1>1, <3>1, <3>2, <3>3 DEF Node
  <2> HIDE DEF n
  <2>4. Stage(n, c, s)
    BY <1>2, <2>1, <2>3 DEF Stage
  <2>5. UNCHANGED <<kv, sids, session, req, at, ans, choices, cur, attempts, faults>>
    BY <1>7 DEF FetchToken, vault, client
  <2>6. BootInv(m)'
    BY <2>1, <2>2, <2>3, <2>4, <2>5, StageMoves DEF c, s
  <2>7. QED BY <1>1, <2>1, <2>2, <2>3, <2>5, <2>6, NodeMoves
<1>8. CASE FetchFails(m)
  <2> DEFINE k == o.next + 1
             n == [o EXCEPT !.fetch = "failed", !.next = k]
  <2>1. Ordered(m) /\ o.next = 1 /\ o.creds = s
    BY <1>2, <1>8, RunningCases DEF FetchFails, Stage
  <2>2. nodes' = [nodes EXCEPT ![m] = n]
    BY <1>1, <1>8 DEF FetchFails, NodeInv, TypeOK
  <2>3. n \in Node /\ n.data = o.data /\ n.next = 2 /\ n.fetch = "failed"
    <3>1. k \in Nat /\ k = 2
      BY <1>1, <2>1
    <3> HIDE DEF k
    <3>2. QED BY <1>1, <3>1 DEF Node
  <2> HIDE DEF n
  <2>4. Stage(n, c, s)
    BY <2>3 DEF Stage
  <2>5. /\ UNCHANGED <<kv, session, req, at, ans, choices, cur, attempts>>
        /\ UNCHANGED sids \/ sids' = [sids EXCEPT ![s] = "used"]
    BY <1>8, <2>1 DEF FetchFails, UseSecretID, client
  <2>6. faults' \in 0..MaxFaults
    BY <1>1, <1>8, FaultType DEF FetchFails
  <2>7. BootInv(m)'
    BY <2>1, <2>2, <2>3, <2>4, <2>5, StageMoves DEF c, s
  <2>8. QED BY <1>3, <2>1, <2>2, <2>3, <2>5, <2>6, <2>7, NodeMoves DEF s
<1>9. CASE PrepareOS(m)
  <2> DEFINE r == o.ready \cup {"os"}
             k == o.next + 1
             n == [o EXCEPT !.ready = r, !.next = k]
  <2>1. /\ Ordered(m) /\ o.next >= 2
        /\ IF mode = "rke2" /\ template = "os" THEN o.next = 2 ELSE o.next >= 3
    BY <1>9, RunningCases DEF PrepareOS
  <2>2. nodes' = [nodes EXCEPT ![m] = n]
    BY <1>1, <1>9 DEF PrepareOS, NodeInv, TypeOK
  <2>3. /\ n \in Node /\ n.data = o.data /\ n.next = o.next + 1 /\ n.creds = o.creds
        /\ n.ready = o.ready \cup {"os"} /\ n.fetch = o.fetch /\ n.began = o.began
        /\ n.with = o.with
    <3>1. r \in SUBSET {"server", "token", "os"} /\ k \in Nat
      BY <1>1
    <3>2. r = o.ready \cup {"os"} /\ k = o.next + 1
      OBVIOUS
    <3> HIDE DEF r, k
    <3>3. QED BY <1>1, <3>1, <3>2 DEF Node
  <2> HIDE DEF n
  <2>4. Stage(n, c, s) /\ n.fetch # "none"
    BY <1>1, <1>2, <2>1, <2>3 DEF Stage
  <2>5. UNCHANGED <<kv, sids, session, req, at, ans, choices, cur, attempts, faults>>
    BY <1>9 DEF PrepareOS, vault, client
  <2>6. BootInv(m)'
    BY <2>1, <2>2, <2>3, <2>4, <2>5, StageMoves DEF c, s
  <2>7. QED BY <1>1, <2>2, <2>3, <2>4, <2>5, <2>6, NodeMoves
<1>10. CASE StartAgent(m)
  <2> DEFINE k == o.next + 1
             n == [o EXCEPT !.began = TRUE, !.with = o.ready, !.next = k]
  <2>1. Ordered(m) /\ o.next = IF mode = "rke2" /\ template = "os" THEN 3 ELSE 2
    BY <1>10, RunningCases DEF StartAgent
  <2>2. nodes' = [nodes EXCEPT ![m] = n]
    BY <1>1, <1>10 DEF StartAgent, NodeInv, TypeOK
  <2>3. /\ n \in Node /\ n.data = o.data /\ n.next = o.next + 1 /\ n.creds = o.creds
        /\ n.ready = o.ready /\ n.fetch = o.fetch /\ n.began = TRUE
        /\ n.with = o.ready
    <3>1. k \in Nat /\ k = o.next + 1
      BY <1>1
    <3> HIDE DEF k
    <3>2. QED BY <1>1, <3>1 DEF Node
  <2> HIDE DEF n
  <2>4. Stage(n, c, s) /\ n.fetch # "none"
    BY <1>1, <1>2, <2>1, <2>3 DEF Stage
  <2>5. UNCHANGED <<kv, sids, session, req, at, ans, choices, cur, attempts, faults>>
    BY <1>10 DEF StartAgent, vault, client
  <2>6. BootInv(m)'
    BY <2>1, <2>2, <2>3, <2>4, <2>5, StageMoves DEF c, s
  <2>7. QED BY <1>1, <2>2, <2>3, <2>4, <2>5, <2>6, NodeMoves
<1>11. QED
  BY <1>5, <1>6, <1>7, <1>8, <1>9, <1>10 DEF NodeStep


LEMMA NodeNext == NodeInv /\ [Next]_vars => NodeInv'
<1> SUFFICES ASSUME NodeInv, [Next]_vars PROVE NodeInv'
  OBVIOUS
<1>1. CASE UNCHANGED vars
  <2>1. UNCHANGED <<vault, choices, nodes>> /\ UNCHANGED <<session, req, at, ans, faults, cur, attempts>>
    BY <1>1 DEF vars, vault, choices, attempts
  <2>2. ClientTypeOK' /\ cur' \in Machines \cup {Nil} /\ early' \in 0..MaxEarly /\ refused' \in Nat
    BY <2>1 DEF NodeInv, TypeOK, ClientTypeOK, attempts
  <2>3. /\ TypeOK' /\ \A m \in Machines : BootInv(m)'
        /\ kv' = kv /\ sids' = sids /\ mode' = mode /\ doc' = doc /\ nodes' = nodes
        /\ MayStoreEmpty' = MayStoreEmpty
        /\ \A m \in Machines : SecretIDOf(m)' = SecretIDOf(m) /\ Ordered(m)' = Ordered(m)
    BY <2>1, <2>2, CallOnly
  <2>4. BuilderInv' /\ TokenInv' /\ CredentialInv'
    BY <2>1, <2>3 DEF NodeInv, BuilderInv, TokenInv, CredentialInv, InFlight, Unused
  <2>5. QED BY <2>3, <2>4 DEF NodeInv
<1>2. CASE \E m \in Machines : NodeStep(m)
  BY <1>2, NodeStepKeeps
<1>3. CASE OrderAccepted
  BY <1>3, AcceptKeeps
<1>4. CASE (ClientStep \/ NewClient \/ Expire) /\ UNCHANGED <<choices, cur, attempts, nodes>>
  BY <1>4, ClientKeeps
<1>5. CASE \/ \E m \in Machines : BeginBuild(m)
           \/ TokenChecked \/ TokenWritten \/ Abandon \/ MergeFails
           \/ TenantNotReady \/ NotSubmitted \/ OrderRefused \/ Crash
  BY <1>5, BuildKeeps
<1>6. QED
  BY <1>1, <1>2, <1>3, <1>4, <1>5 DEF Next, Build

LEMMA NodeInductive == Spec => []NodeInv
<1>1. QED
  BY NodeInit, NodeNext, PTL DEF Spec

(***************************************************************************)
(* What follows from it.                                                   *)
(***************************************************************************)

\* The state of Vault, of the client's call and of every node is well typed, in
\* particular every user_data the controller sends is a cloud-init document.
THEOREM NodeTypeCorrect == Spec => []TypeOK
<1>1. NodeInv => TypeOK
  BY DEF NodeInv
<1>2. QED
  BY NodeInductive, <1>1, PTL

\* No user_data holds the join token: stripRKE2Token takes it out before
\* anything is merged, and neither the template nor the Vault files bring it.
THEOREM TokenSafe == Spec => []TokenOnlyInVault
<1>1. NodeInv => TokenOnlyInVault
  <2> SUFFICES ASSUME NodeInv, NEW m \in Machines, NEW i \in DOMAIN nodes[m].data.files
               PROVE  "token" \notin nodes[m].data.files[i].has
    BY DEF TokenOnlyInVault
  <2>1. CASE nodes[m] = NoNode
    <3>1. nodes[m].data.files = <<>>
      BY <2>1, NoNodeType DEF Empty
    <3>2. QED BY <3>1
  <2>2. CASE Carries(nodes[m].data, m, SecretIDOf(m))
    <3>1. nodes[m].data.files \in Seq(File)
      BY <2>2 DEF Carries, Document
    <3>2. i \in 1..Len(nodes[m].data.files)
      BY <3>1
    <3>3. QED BY <2>2, <3>2 DEF Carries
  <2>3. QED BY <2>1, <2>2, BootCases DEF NodeInv
<1>2. QED
  BY NodeInductive, <1>1, PTL

\* A node that has not logged in yet finds its own secret_id good and the
\* token written, an empty one only if a document had no config file: no revocation, no login of another node and no restart of
\* the manager takes them away.
THEOREM FetchSafe == Spec => []FetchCanSucceed
<1>1. NodeInv => FetchCanSucceed
  BY DEF NodeInv, TypeOK, VaultTypeOK, TokenInv, CredentialInv, FetchCanSucceed
<1>2. QED
  BY NodeInductive, <1>1, PTL

LEMMA BootstrapConfig ==
    /\ OnDisk(Bootstrap("withToken"), "config").has = {"server", "token"}
    /\ OnDisk(Bootstrap("noConfigFile"), "config").has = {}
<1>1. OnDisk(Bootstrap("withToken"), "config").has = {"server", "token"}
  <2> DEFINE d == Bootstrap("withToken")
             f == d.files
  <2>1. f = <<Plain("cert", {}), Plain("config", {"server", "token"})>>
    BY DEF Bootstrap
  <2>2. Plain("cert", {}) \in File /\ Plain("config", {"server", "token"}) \in File
    BY PlainType
  <2>3. f \in Seq(File) /\ Len(f) = 2 /\ f[2] = Plain("config", {"server", "token"})
    <3> HIDE DEF f
    <3>1. QED BY <2>1, <2>2
  <2>4. f[2].path = "config" /\ f[2].has = {"server", "token"}
    BY <2>3 DEF Plain
  <2> HIDE DEF d
  <2>5. LastOf(d, "config", 2)
    BY <2>3, <2>4 DEF LastOf
  <2>6. OnDisk(d, "config") = f[2]
    BY <2>5, LastOnDisk
  <2>7. QED BY <2>4, <2>6 DEF d
<1>2. OnDisk(Bootstrap("noConfigFile"), "config").has = {}
  <2>1. Bootstrap("noConfigFile").files = <<Plain("cert", {})>>
    BY DEF Bootstrap
  <2>2. Entries(Bootstrap("noConfigFile"), "config") = {}
    BY <2>1 DEF Entries, Plain
  <2>3. QED BY <2>2 DEF OnDisk, Plain
<1>3. QED
  BY <1>1, <1>2

\* Every agent whose fetch worked starts with the settings of its bootstrap
\* document, the token and (on the RKE2 path) the template's preparation: the
\* merge keeps the order in which fetch, preparation and start depend on each
\* other.
THEOREM StartSafe == Spec => []StartsComplete
<1>1. NodeInv => StartsComplete
  <2> SUFFICES ASSUME NodeInv, NEW m \in Machines, nodes[m].fetch = "done"
               PROVE  /\ nodes[m].creds = Nil
                      /\ nodes[m].began => nodes[m].with = {"token"} \cup
                            IF mode = "rancher" THEN {"server"}
                            ELSE OnDisk(Bootstrap(doc[m]), "config").has \cup
                                 IF template = "os" THEN {"os"} ELSE {}
    BY DEF StartsComplete
  <2>1. Carries(nodes[m].data, m, SecretIDOf(m))
    BY BootCases, NoNodeType DEF NodeInv
  <2>2. Stage(nodes[m], Settings(m), SecretIDOf(m))
    BY DEF NodeInv, BootInv
  <2>3. Settings(m) = IF mode = "rke2" /\ doc[m] = "withToken" THEN {"server"} ELSE {}
    BY <2>1 DEF Carries, Settings
  <2>4. /\ nodes[m].creds = Nil
        /\ nodes[m].began => nodes[m].with = Settings(m) \cup Fetched \cup
                                IF mode = "rke2" /\ template = "os" THEN {"os"} ELSE {}
    BY <2>2 DEF Stage
  <2>5. CASE mode = "rancher"
    BY <2>3, <2>4, <2>5 DEF Fetched
  <2>6. CASE mode = "rke2" /\ doc[m] = "withToken"
    <3>1. OnDisk(Bootstrap(doc[m]), "config").has = {"server", "token"}
      BY <2>6, BootstrapConfig
    <3>2. QED BY <2>3, <2>4, <2>6, <3>1 DEF Fetched
  <2>7. CASE mode = "rke2" /\ doc[m] = "noConfigFile"
    <3>1. OnDisk(Bootstrap(doc[m]), "config").has = {}
      BY <2>7, BootstrapConfig
    <3>2. QED BY <2>3, <2>4, <2>7, <3>1 DEF Fetched
  <2>8. QED
    BY <2>1, <2>5, <2>6, <2>7, NodeAssumption DEF NodeAssumption, NodeInv, TypeOK, Carries
<1>2. QED
  BY NodeInductive, <1>1, PTL

\* The token in Vault is written once: a check that another node's write
\* overtakes, a lost answer or a restart never leads to a second write.
THEOREM TokenWrittenOnce == Spec => TokenStable
<1>1. NodeInv /\ [Next]_vars => [kv # "absent" => kv' = kv]_vars
  <2> SUFFICES ASSUME NodeInv, Next, kv # "absent" PROVE kv' = kv
    BY DEF vars
  <2>1. CASE Served
    <3>1. req.op # "write"
      BY <2>1 DEF Served, Sent, NodeInv, TokenInv, InFlight
    <3>2. QED BY <2>1, <3>1 DEF Served, Serve, vault
  <2>2. CASE ~Served
    BY <2>2 DEF Next, BeginBuild, NodeStep, Boot, FetchLogin, FetchToken, FetchFails, PrepareOS,
      StartAgent, Build, TokenChecked, TokenWritten, Abandon, MergeFails, TenantNotReady,
         NotSubmitted,
      OrderRefused, OrderAccepted, ClientStep, Answered, Denied, Relogin, CallFails, AnswerLost,
      NewClient, Expire, Crash, ClientCrash, vault
  <2>3. QED BY <2>1, <2>2
<1>2. QED
  BY NodeInductive, <1>1, PTL DEF TokenStable, Spec


(***************************************************************************)
(* The client implements VaultService.                                     *)
(***************************************************************************)

\* The phase of the call that VaultService speaks of.
Phase == IF at \in {"first", "login", "second"} THEN "open" ELSE at

\* A request is sent while no call is open.
LEMMA SendOpens ==
    ASSUME NodeInv, at \in {"none", "answered"}, UNCHANGED vault,
           NEW op \in {"exists", "write", "generate", "revoke"},
           NEW tok \in {"token", "empty", Nil}, NEW sid \in SecretIds \cup {Nil},
           Send(op, tok, sid)
    PROVE  Service!Open
<1>1. req' = [op |-> op, tok |-> tok, sid |-> sid] /\ at' = "first"
  BY DEF Send
<1>2. req' \in Requests
  BY <1>1 DEF Requests
<1>3. QED
  BY <1>1, <1>2 DEF Service!Open, Service!Requests, Requests, Service!vault, vault

\* VaultService sees nothing of a step that leaves the phase, the request, the
\* answer and Vault alone.
LEMMA ServiceStutters ==
    ASSUME UNCHANGED <<vault, req, ans>>, Phase' = Phase
    PROVE  UNCHANGED Service!vars
BY DEF Service!vars, vault, Phase

LEMMA ServiceSteps == NodeInv /\ [Next]_vars => [Service!Next]_(Service!vars)
<1> SUFFICES ASSUME NodeInv, [Next]_vars PROVE Service!Next \/ UNCHANGED Service!vars
  OBVIOUS
<1>1. /\ at \in {"none", "first", "login", "second", "served", "answered"}
      /\ ans \in Answers /\ (cur = Nil <=> at = "none")
  BY DEF NodeInv, TypeOK, ClientTypeOK, BuilderInv
<1>2. CASE UNCHANGED vars
  BY <1>2, ServiceStutters DEF vars, vault, Phase
<1>3. CASE \E m \in Machines : BeginBuild(m)
  <2>1. PICK m \in Machines : BeginBuild(m)
    BY <1>3
  <2>2. at = "none" /\ UNCHANGED vault
    BY <1>1, <2>1 DEF BeginBuild
  <2>3. Send("exists", Nil, Nil) \/ Send("generate", Nil, Nil)
    BY <2>1 DEF BeginBuild
  <2>4. Service!Open
    BY <2>2, <2>3, SendOpens
  <2>5. QED BY <2>4 DEF Service!Next
<1>4. CASE TokenChecked \/ TokenWritten \/ MergeFails \/ OrderRefused
  <2>1. at = "answered" /\ UNCHANGED vault
    BY <1>4 DEF TokenChecked, TokenWritten, MergeFails, OrderRefused, HasSecretID, Reply
  <2>2. \/ Send("write", strippedToken(Bootstrap(doc[cur])), Nil)
        \/ Send("generate", Nil, Nil) \/ Send("revoke", Nil, ans.sid)
    BY <1>4 DEF TokenChecked, TokenWritten, MergeFails, OrderRefused
  <2>3. /\ strippedToken(Bootstrap(doc[cur])) \in {"token", "empty"}
        /\ ans.sid \in SecretIds \cup {Nil}
    BY <1>1 DEF strippedToken, Answers
  <2>4. Service!Open
    BY <2>1, <2>2, <2>3, SendOpens
  <2>5. QED BY <2>4 DEF Service!Next
<1>5. CASE Abandon \/ TenantNotReady \/ NotSubmitted \/ OrderAccepted
  <2>1. at = "answered" /\ at' = "none" /\ UNCHANGED vault
    BY <1>5 DEF Abandon, TenantNotReady, NotSubmitted, OrderAccepted, HasSecretID, Reply, GiveUp
  <2>2. Service!Close
    BY <2>1 DEF Service!Close, Service!vault, vault
  <2>3. QED BY <2>2 DEF Service!Next
<1>6. CASE Crash
  <2>1. at' = "none" /\ UNCHANGED <<vault, req, ans>>
    BY <1>6 DEF Crash, ClientCrash
  <2>2. CASE at = "none"
    BY <2>1, <2>2, ServiceStutters DEF Phase
  <2>3. CASE at # "none"
    <3>1. Service!Close
      BY <1>1, <2>1, <2>3 DEF Service!Close, Service!vault, vault
    <3>2. QED BY <3>1 DEF Service!Next
  <2>4. QED BY <2>2, <2>3
<1>7. CASE Served
  <2>1. Service!ServeOnce
    BY <1>7
    DEF Served, Sent, Service!ServeOnce, Serve, Service!Serve, Answer, Service!Answer,
        SecretExists, Service!SecretExists, WriteSecret, Service!WriteSecret,
        GenerateSecretID, Service!GenerateSecretID, FreshSecretID, Service!FreshSecretID,
        RevokeSecretID, Service!RevokeSecretID, vault, Service!vault
  <2>2. QED BY <2>1 DEF Service!Next
<1>8. CASE Answered
  <2>1. Service!Succeed
    BY <1>8 DEF Answered, Service!Succeed, vault, Service!vault
  <2>2. QED BY <2>1 DEF Service!Next
<1>9. CASE Denied \/ CallFails \/ AnswerLost
  <2>1. UNCHANGED <<vault, req>>
    BY <1>9 DEF Denied, CallFails, AnswerLost
  <2>2. CASE at = "first" /\ at' = "login" /\ UNCHANGED ans
    BY <2>1, <2>2, ServiceStutters DEF Phase
  <2>3. CASE at \in {"first", "login", "second", "served"} /\ at' = "answered" /\ ans' = Failed
    <3>1. Service!Fail
      BY <2>1, <2>3 DEF Service!Fail, Failed, Answer, Service!Answer, vault, Service!vault
    <3>2. QED BY <3>1 DEF Service!Next
  <2>4. QED
    BY <1>9, <2>2, <2>3 DEF Denied, CallFails, AnswerLost, Sent, Fails
<1>10. CASE Relogin \/ NewClient \/ Expire
  <2>1. UNCHANGED <<vault, req, ans>> /\ Phase' = Phase
    BY <1>10 DEF Relogin, NewClient, Expire, Phase
  <2>2. QED BY <2>1, ServiceStutters
<1>11. CASE \E m \in Machines : NodeStep(m)
  <2>1. PICK m \in Machines : NodeStep(m)
    BY <1>11
  <2>2. UNCHANGED <<kv, session, req, at, ans>> /\ Phase' = Phase
    BY <2>1 DEF NodeStep, Boot, FetchLogin, FetchToken, FetchFails, PrepareOS, StartAgent,
                vault, client, Phase
  <2>3. CASE UNCHANGED sids
    BY <2>2, <2>3, ServiceStutters DEF vault
  <2>4. CASE Running(m, "fetch") /\ UseSecretID(nodes[m].creds)
    <3>1. nodes[m].next = 1 /\ SecretIDOf(m) \in SecretIds
      BY <2>4, RunningCases
    <3>2. nodes[m].creds \in SecretIds
      BY <3>1 DEF NodeInv, BootInv, Stage
    <3>3. Service!Spend
      BY <2>2, <2>4, <3>2 DEF Service!Spend, UseSecretID, Service!UseSecretID, Phase
    <3>4. QED BY <3>3 DEF Service!Next
  <2>5. QED
    BY <2>1, <2>3, <2>4
    DEF NodeStep, Boot, FetchLogin, FetchToken, FetchFails, PrepareOS, StartAgent, vault
<1>12. QED
  BY <1>2, <1>3, <1>4, <1>5, <1>6, <1>7, <1>8, <1>9, <1>10, <1>11
  DEF Next, Build, ClientStep

\* The Vault client implements VaultService: over expired sessions, denials,
\* logins, retries, lost answers and restarts no request takes effect twice and
\* none is reported as done that Vault has not served.
THEOREM ServiceImplemented == Spec => AtMostOnce
<1>1. Init => Service!Init
  BY DEF Init, ClientInit, Service!Init
<1>2. QED
  BY NodeInductive, <1>1, ServiceSteps, PTL DEF Spec, AtMostOnce, Service!Spec


(***************************************************************************)
(* The secret_ids that are left behind.                                    *)
(***************************************************************************)

\* A step that dooms no further secret_id costs nothing ...
LEMMA NoLeak ==
    ASSUME LeakInv, Doomed' \subseteq Doomed, faults \in Nat, faults' \in Nat,
           early \in Nat, refused \in Nat, UNCHANGED early,
           \/ refused' = refused /\ faults' <= faults
           \/ refused' = refused + 1 /\ faults' = faults - 1
    PROVE  LeakInv'
<1>1. /\ IsFiniteSet(Doomed') /\ Cardinality(Doomed') <= Cardinality(Doomed)
      /\ Cardinality(Doomed) \in Nat /\ Cardinality(Doomed') \in Nat
  BY FS_Subset, FS_CardinalityType DEF LeakInv
<1>2. Cardinality(Doomed) + faults + refused <= MaxFaults + early /\ MaxFaults \in Nat
  BY NodeAssumption DEF LeakInv, NodeAssumption
<1>3. Cardinality(Doomed') + faults' + refused' <= MaxFaults + early'
  BY <1>1, <1>2
<1>4. QED
  BY <1>1, <1>3 DEF LeakInv

\* ... and one fault, or one attempt that comes too early, dooms at most one.
LEMMA OneLeak ==
    ASSUME LeakInv, NEW s, Doomed' \subseteq Doomed \cup {s},
           faults \in Nat, early \in Nat, faults' \in Nat, early' \in Nat, refused \in Nat, UNCHANGED refused,
           \/ faults' = faults - 1 /\ early' = early
           \/ faults' = faults /\ early' = early + 1
    PROVE  LeakInv'
<1> DEFINE D == Doomed \cup {s}
<1>1. IsFiniteSet(Doomed) /\ Cardinality(Doomed) \in Nat
  BY FS_CardinalityType DEF LeakInv
<1>2. /\ IsFiniteSet(D)
      /\ Cardinality(D) = Cardinality(Doomed) \/ Cardinality(D) = Cardinality(Doomed) + 1
  BY <1>1, FS_AddElement
<1> HIDE DEF D
<1>3. Doomed' \subseteq D
  BY DEF D
<1>4. IsFiniteSet(Doomed') /\ Cardinality(Doomed') <= Cardinality(D)
  BY <1>2, <1>3, FS_Subset
<1>5. Cardinality(Doomed') \in Nat
  BY <1>4, FS_CardinalityType
<1>6. Cardinality(Doomed') <= Cardinality(Doomed) + 1 /\ MaxFaults \in Nat
  BY <1>1, <1>2, <1>4, <1>5, NodeAssumption DEF NodeAssumption
<1>7. Cardinality(Doomed) + faults + refused <= MaxFaults + early
  BY DEF LeakInv
<1>8. Cardinality(Doomed') + faults' + refused' <= MaxFaults + early'
  BY <1>1, <1>5, <1>6, <1>7
<1>9. QED
  BY <1>4, <1>8 DEF LeakInv


\* A node's step changes nobody's user_data.
LEMMA NodeStepKeepsData ==
    ASSUME NodeInv, NEW m \in Machines, NodeStep(m)
    PROVE  \A k \in Machines : SecretIDOf(k)' = SecretIDOf(k)
<1>1. nodes \in [Machines -> Node]
  BY DEF NodeInv, TypeOK
<1>2. \A k \in Machines : nodes'[k].data = nodes[k].data
  <2>1. CASE Boot(m)
    BY <1>1, <2>1 DEF Boot, Node
  <2>2. CASE FetchLogin(m)
    BY <1>1, <2>2 DEF FetchLogin, Node
  <2>3. CASE FetchToken(m)
    BY <1>1, <2>3 DEF FetchToken, Node
  <2>4. CASE FetchFails(m)
    BY <1>1, <2>4 DEF FetchFails, Node
  <2>5. CASE PrepareOS(m)
    BY <1>1, <2>5 DEF PrepareOS, Node
  <2>6. CASE StartAgent(m)
    BY <1>1, <2>6 DEF StartAgent, Node
  <2>7. QED BY <2>1, <2>2, <2>3, <2>4, <2>5, <2>6 DEF NodeStep
<1>3. QED
  BY <1>2 DEF SecretIDOf

LEMMA LeakNext == NodeInv /\ LeakInv /\ [Next]_vars => LeakInv'
<1> SUFFICES ASSUME NodeInv, LeakInv, [Next]_vars PROVE LeakInv'
  OBVIOUS
<1>1. /\ faults \in 0..MaxFaults /\ faults \in Nat /\ early \in 0..MaxEarly /\ refused \in Nat /\ early \in Nat /\ sids \in [SecretIds -> {"free", "live", "used", "revoked"}]
      /\ at \in {"none", "first", "login", "second", "served", "answered"}
  BY NodeAssumption DEF NodeAssumption, NodeInv, TypeOK, ClientTypeOK, VaultTypeOK
<1>2. \A k : Fault(k) => faults > 0 /\ faults' = faults - 1 /\ faults' \in Nat /\ faults' <= faults
  BY <1>1 DEF Fault
\* The steps that pay nothing, or more than they must.
<1>3. ASSUME \A m \in Machines : SecretIDOf(m)' = SecretIDOf(m),
             \A s \in SecretIds : sids'[s] = "live" /\ ~InHand(s)' => sids[s] = "live" /\ ~InHand(s),
             UNCHANGED faults \/ \E k : Fault(k), UNCHANGED attempts
      PROVE  LeakInv'
  <2>1. Doomed' \subseteq Doomed
    BY <1>3 DEF Doomed, Unused
  <2>2. faults' \in Nat /\ UNCHANGED early /\ refused' = refused /\ faults' <= faults
    BY <1>1, <1>2, <1>3 DEF attempts
  <2>3. QED BY <1>1, <1>3, <2>1, <2>2, NoLeak
\* The faults that may leave one secret_id behind.
<1>4. ASSUME \A m \in Machines : SecretIDOf(m)' = SecretIDOf(m), UNCHANGED sids,
             NEW k, Fault(k), UNCHANGED attempts, NEW s, \A t \in SecretIds : InHand(t) => t = s
      PROVE  LeakInv'
  <2>1. Doomed' \subseteq Doomed \cup {s}
    BY <1>4 DEF Doomed, Unused
  <2>2. QED BY <1>1, <1>2, <1>4, <2>1, OneLeak DEF attempts
<1>5. ASSUME UNCHANGED nodes PROVE \A m \in Machines : SecretIDOf(m)' = SecretIDOf(m)
  BY <1>5 DEF SecretIDOf
<1>6. \A s \in SecretIds : InHand(s) => s = IF req.op = "generate" THEN ans.sid ELSE req.sid
  BY DEF InHand
<1>7. CASE UNCHANGED vars
  BY <1>3, <1>5, <1>7 DEF vars, InHand, attempts
<1>8. CASE \E m \in Machines : BeginBuild(m)
  <2>1. at = "none" /\ at' = "first" /\ req'.op \in {"exists", "generate"}
        /\ UNCHANGED <<sids, faults, attempts, nodes>>
    BY <1>8 DEF BeginBuild, Send, NodeInv, BuilderInv, vault
  <2>2. QED BY <1>3, <1>5, <2>1 DEF InHand
<1>9. CASE TokenChecked \/ TokenWritten
  <2>1. req.op \in {"exists", "write"} /\ req'.op \in {"write", "generate"} /\ at' = "first"
        /\ UNCHANGED <<sids, faults, attempts, nodes>>
    BY <1>9 DEF TokenChecked, TokenWritten, Reply, Send, vault
  <2>2. QED BY <1>3, <1>5, <2>1 DEF InHand
<1>10. CASE Abandon
  <2>1. /\ at = "answered" /\ at' = "none" /\ UNCHANGED <<sids, faults, attempts, nodes, req, ans>>
        /\ req.op # "generate" \/ ans.sid = Nil
    BY <1>10 DEF Abandon, Reply, GiveUp, vault, NodeInv, CredentialInv
  <2>2. \A s \in SecretIds : ~InHand(s)
    BY <2>1, NilAssumption DEF InHand
  <2>3. QED BY <1>3, <1>5, <2>1, <2>2
<1>11. CASE MergeFails \/ OrderRefused
  <2>1. /\ at = "answered" /\ req.op = "generate" /\ at' = "first"
        /\ req'.op = "revoke" /\ req'.sid = ans.sid /\ UNCHANGED <<sids, early, nodes>>
        /\ \/ UNCHANGED <<faults, refused>>
           \/ refused' = refused + 1 /\ \E k : Fault(k)
    BY <1>11 DEF MergeFails, OrderRefused, HasSecretID, Reply, Send, vault, attempts
  <2>2. Doomed' \subseteq Doomed
    BY <1>5, <2>1 DEF Doomed, Unused, InHand
  <2>3. /\ faults' \in Nat
        /\ \/ refused' = refused /\ faults' <= faults
           \/ refused' = refused + 1 /\ faults' = faults - 1
    BY <1>1, <1>2, <2>1
  <2>4. QED BY <1>1, <2>1, <2>2, <2>3, NoLeak
<1>12. CASE NotSubmitted \/ Crash
  <2>1. UNCHANGED <<sids, attempts, nodes>> /\ \E k : Fault(k)
    BY <1>12 DEF NotSubmitted, Crash, ClientCrash, vault
  <2>2. QED BY <1>4, <1>5, <1>6, <2>1
<1>12e. CASE TenantNotReady
  <2>1. UNCHANGED <<sids, faults, refused, nodes>> /\ early' = early + 1
    BY <1>12e DEF TenantNotReady, vault
  <2>2. PICK s : \A t \in SecretIds : InHand(t) => t = s
    BY <1>6
  <2>3. Doomed' \subseteq Doomed \cup {s}
    BY <1>5, <2>1, <2>2 DEF Doomed, Unused
  <2>4. QED BY <1>1, <2>1, <2>3, OneLeak
<1>13. CASE OrderAccepted
  <2>1. /\ at = "answered" /\ req.op = "generate" /\ ans.code = "ok"
        /\ cur # Nil /\ UNCHANGED <<sids, faults, attempts, mode, doc, template>>
        /\ nodes' = [nodes EXCEPT ![cur].data = userData(cur, ans.sid)]
    BY <1>13 DEF OrderAccepted, HasSecretID, Reply, GiveUp, vault, choices
  <2>2. /\ cur \in Machines /\ nodes[cur].data = Empty
        /\ mode = "rke2" => doc[cur] # "malformed"
    BY <2>1 DEF NodeInv, TypeOK, BuilderInv
  <2>3. ans.sid \in SecretIds
    BY <2>1 DEF NodeInv, CredentialInv
  <2>4. Carries(userData(cur, ans.sid), cur, ans.sid)
    BY <2>2, <2>3, UserData, NodeAssumption DEF NodeInv, TypeOK
  <2>5. \A m \in Machines : SecretIDOf(m)' = IF m = cur THEN ans.sid ELSE SecretIDOf(m)
    BY <2>1, <2>2, <2>4 DEF SecretIDOf, Carries, NodeInv, TypeOK, Node
  <2>6. SecretIDOf(cur) = Nil
    BY <2>2, BootCases DEF NodeInv, Ordered
  <2>7. Doomed' \subseteq Doomed
    <3>1. ASSUME NEW s \in SecretIds, Unused(s)' PROVE Unused(s) /\ ~InHand(s)
      <4>1. s # ans.sid
        BY <2>2, <2>5, <3>1 DEF Unused
      <4>2. Unused(s)
        BY <2>1, <2>5, <2>6, <3>1, NilAssumption DEF Unused
      <4>3. QED BY <1>6, <2>1, <4>1, <4>2
    <3>2. QED BY <3>1 DEF Doomed
  <2>8. QED BY <1>1, <2>1, <2>7, NoLeak DEF attempts
<1>14. CASE Served /\ UNCHANGED <<attempts, nodes>>
  <2>1. at \in {"first", "second"} /\ at' = "served" /\ UNCHANGED <<req, faults, session>> /\ session = "live"
    BY <1>14 DEF Served, Sent
  <2>2. \A s \in SecretIds : sids'[s] = "live" /\ ~InHand(s)' => sids[s] = "live" /\ ~InHand(s)
    <3>1. CASE req.op \in {"exists", "write"}
      BY <1>14, <2>1, <3>1 DEF Served, Serve, InHand, vault
    <3>2. CASE req.op = "generate"
      <4>1. PICK t \in SecretIds : ans' = [code |-> "ok", sid |-> t] /\ GenerateSecretID(t)
        BY <1>14, <3>2 DEF Served, Serve
      <4>2. ans'.sid = t /\ \A s \in SecretIds : s # t => sids'[s] = sids[s]
        BY <1>1, <4>1 DEF GenerateSecretID
      <4>3. QED BY <2>1, <3>2, <4>2 DEF InHand
    <3>3. CASE req.op = "revoke"
      <4>1. \A s \in SecretIds : sids'[s] = IF s = req.sid THEN "revoked" ELSE sids[s]
        BY <1>14, <3>3 DEF Served, Serve, RevokeSecretID
      <4>2. QED BY <3>3, <4>1 DEF InHand
    <3>4. QED BY <3>1, <3>2, <3>3 DEF NodeInv, TypeOK, ClientTypeOK, Requests
  <2>3. QED BY <1>3, <1>5, <1>14, <2>1, <2>2
<1>15. CASE (Answered \/ Relogin \/ NewClient) /\ UNCHANGED <<attempts, nodes>>
  <2>1. UNCHANGED <<sids, req, ans, faults>>
    BY <1>15 DEF Answered, Relogin, NewClient, vault
  <2>2. ASSUME NEW s \in SecretIds, sids[s] = "live", InHand(s) PROVE InHand(s)'
    <3>1. CASE Answered
      BY <2>1, <2>2, <3>1 DEF Answered, InHand
    <3>2. CASE Relogin
      BY <2>1, <2>2, <3>2 DEF Relogin, InHand
    <3>3. CASE NewClient
      BY <2>1, <2>2, <3>3 DEF NewClient, InHand
    <3>4. QED BY <1>15, <3>1, <3>2, <3>3
  <2>3. QED BY <1>3, <1>5, <1>15, <2>1, <2>2
<1>16. CASE (CallFails \/ AnswerLost \/ Expire) /\ UNCHANGED <<attempts, nodes>>
  <2>1. UNCHANGED sids /\ \E k : Fault(k)
    BY <1>16 DEF CallFails, AnswerLost, Expire, vault
  <2>2. QED BY <1>4, <1>5, <1>6, <1>16, <2>1
<1>17. CASE Denied /\ UNCHANGED <<attempts, nodes>>
  <2>1. UNCHANGED <<sids, req, session>> /\ at \in {"first", "second"}
        /\ (at = "first" => at' = "login" /\ UNCHANGED ans)
    BY <1>17 DEF Denied, Sent, vault
  <2>2. CASE session = "live" /\ Fault("deny")
    BY <1>4, <1>5, <1>6, <1>17, <2>1, <2>2
  <2>3. CASE session = "expired" /\ UNCHANGED faults
    <3>1. \A s \in SecretIds : InHand(s) => InHand(s)'
      BY <2>1, <2>3 DEF InHand
    <3>2. QED BY <1>3, <1>5, <1>17, <2>1, <2>3, <3>1
  <2>4. QED BY <1>17, <2>2, <2>3 DEF Denied, DeniedByVault
<1>18. CASE \E m \in Machines : NodeStep(m)
  <2>1. PICK m \in Machines : NodeStep(m)
    BY <1>18
  <2>2. \A k \in Machines : SecretIDOf(k)' = SecretIDOf(k)
    BY <2>1, NodeStepKeepsData
  <2>3. UNCHANGED <<session, req, at, ans, attempts>> /\ (UNCHANGED faults \/ \E k : Fault(k))
    BY <2>1 DEF NodeStep, Boot, FetchLogin, FetchToken, FetchFails, PrepareOS, StartAgent, client
  <2>4. UNCHANGED sids \/ sids' = [sids EXCEPT ![nodes[m].creds] = "used"]
    BY <2>1 DEF NodeStep, Boot, FetchLogin, FetchToken, FetchFails, PrepareOS, StartAgent,
                vault, UseSecretID
  <2>5. \A s \in SecretIds : sids'[s] = "live" => sids[s] = "live"
    BY <1>1, <2>4
  <2>6. QED BY <1>3, <2>2, <2>3, <2>5 DEF InHand
<1>19. QED
  BY <1>7, <1>8, <1>9, <1>10, <1>11, <1>12, <1>12e, <1>13, <1>14, <1>15, <1>16, <1>17, <1>18
  DEF Next, Build, ClientStep

\* A secret_id is left behind only by a fault or by an attempt that found the
\* tenant not ready, one each: a template that does not parse and a refused
\* order give theirs back, however many attempts there are.
THEOREM LeakBounded == Spec => []LeaksAccounted
<1>1. Init => LeakInv
  <2> SUFFICES ASSUME Init PROVE LeakInv
    OBVIOUS
  <2>1. Doomed = {}
    BY DEF Init, Doomed, Unused
  <2>2. QED
    BY <2>1, FS_EmptySet, NodeAssumption DEF Init, ClientInit, LeakInv, NodeAssumption
<1>2. NodeInv /\ LeakInv => LeaksAccounted
  <2> SUFFICES ASSUME NodeInv, LeakInv PROVE LeaksAccounted
    OBVIOUS
  <2>1. Dangling \subseteq Doomed
    BY DEF Dangling, Doomed, Unused, InHand
  <2>2. /\ Cardinality(Dangling) <= Cardinality(Doomed)
        /\ Cardinality(Dangling) \in Nat /\ Cardinality(Doomed) \in Nat
    BY <2>1, FS_Subset, FS_CardinalityType DEF LeakInv
  <2>3. faults \in Nat /\ early \in Nat /\ refused \in Nat
    BY NodeAssumption DEF NodeAssumption, NodeInv, TypeOK, ClientTypeOK
  <2>4. QED
    BY <2>2, <2>3, NodeAssumption DEF LeakInv, LeaksAccounted, NodeAssumption
<1>3. QED
  BY NodeInductive, LeakNext, <1>1, <1>2, PTL DEF Spec

=============================================================================
