----------------------------- MODULE Federation -----------------------------
(***************************************************************************)
(* Identity providers.  An administrator's changes go to two files one     *)
(* after the other (secrets.json, then services.json), a Reload builds the *)
(* OIDC clients from what it has read of them, and a login leaves for the  *)
(* identity provider and comes back while all this changes                 *)
(* (handlers/providers.go, handlers/oidc.go, providers/oidc.go).  Requests *)
(* of administrators, renewals and the Reloads of both run side by side:   *)
(* each reads a file, and writes it or acts on it later, under no lock.    *)
(*                                                                         *)
(* A flow stands for the state and the nonce drawn for one login: they are *)
(* compared, never read.  An issuer stands for issuer and client id.       *)
(***************************************************************************)
EXTENDS Naturals, Sequences, FiniteSets

CONSTANTS
  Ids,         \* provider ids
  Base,        \* those of config.json
  BaseCfg,     \* what config.json says of them
  Issuers,     \* the identity providers
  Blank,       \* an issuer or client id left empty
  Emails,      \* the identities they vouch for, and the users' names
  Browsers,
  Workers,     \* requests of administrators and renewals
  Secrets,     \* the client secrets a form may carry
  NoSecret,    \* an empty one: an empty field, an absent entry
  Local,       \* the provider of a user with a password
  Torn,        \* a services.json that does not parse
  None,
  InitSecret,  \* the one found in secrets.json at first
  Forms,       \* what a form may say of a provider
  MaxFlows,    \* bound: logins started
  MaxCodes,    \* bound: codes issued
  MaxChanges,  \* bound: changes begun by requests and commands
  MaxFails     \* bound: failed reads and writes, crashes

Cfgs == [issuer : Issuers \cup {Blank}, enabled : BOOLEAN]
Clients == [issuer : Issuers, secret : Secrets \cup {NoSecret}]
Services == [Ids -> Cfgs \cup {None}]
SecretSets == [Ids -> Secrets \cup {NoSecret}]
Directories == [Emails -> Ids \cup {Local, None}]

ASSUME FederationAssumption ==
  /\ Base \subseteq Ids
  /\ BaseCfg \in [Base -> Cfgs]
  /\ NoSecret \notin Secrets /\ InitSecret \in Secrets
  /\ Forms \subseteq Cfgs
  /\ Blank \notin Issuers
  /\ None \notin Cfgs \cup Clients \cup Ids
  /\ Local \notin Ids
  /\ {MaxFlows, MaxCodes, MaxChanges, MaxFails} \subseteq Nat

ASSUME TornAssumption == Torn \notin Services

VARIABLES
  services,    \* the providers of services.json
  secrets,     \* the client secrets of secrets.json
  live,        \* Server.OIDC
  req,         \* req[w]: how far request w has got and what it has read
  behind,      \* history: the clients may be older than the files
  left,        \* history: ids whose removal or addition broke off half way
  stale,       \* history: a file was written from a copy older than it was
  users,       \* the provider each user of the directory is declared for
  usersFile,   \* and of users.json, which a command writes too
  draft,       \* draft[w]: the directory a request is about to save
  up,          \* the program runs
  cookie,      \* cookie[b]: the flow in the browser's state cookie, or 0
  began,       \* began[f]: who started the flow, with which provider and issuer
  codes,       \* the authorization codes the identity providers have issued
  spent,       \* those exchanged
  callback,    \* callback[b]: the callback under way for the browser; declared is
               \* history: its user has been, for its provider, since it began
  sessions,    \* the sessions opened by callbacks
  changes, fails

files == <<services, secrets, live, behind, left, stale>>
people == <<users, usersFile, draft>>
login == <<cookie, began, codes, spent, callback, sessions>>
bounds == <<changes, fails>>
vars == <<files, req, people, up, login, bounds>>

-----------------------------------------------------------------------------
(* The effective providers and their clients.                              *)

\* A runtime entry replaces that of config.json.
mergeProviders(runtime) ==
  [id \in Ids |-> IF runtime[id] = None /\ id \in Base THEN BaseCfg[id] ELSE runtime[id]]

\* Disabled and incomplete providers get no client.
BuildOIDC(provs, sec) ==
  [id \in Ids |->
     IF provs[id] # None /\ provs[id].enabled /\ provs[id].issuer # Blank
       THEN [issuer |-> provs[id].issuer, secret |-> sec[id]]
       ELSE None]

\* What Reload makes of the two files.
Reloaded(svc, sec) == BuildOIDC(mergeProviders(svc), sec)

\* Validate: only providers of config.json may be declared.
Validate(file) == \A e \in Emails : file[e] \in Base \cup {Local, None}

-----------------------------------------------------------------------------
Idle == [pc |-> "idle"]

\* Stations in setProviderSecret, and in mutateServices and Reload.
InSecrets == {"loadsecret", "savesecret", "loadclear", "saveclear"}
InServices == {"load", "save", "reload", "secrets", "swap"}

\* A handler of a provider; another handler that saves services.json, or a renewal,
\* which only reloads.  svc and sec: the files as read; fresh: they still are so.
Requests == {Idle} \cup
  [pc : InSecrets \cup InServices, op : {"add", "edit", "toggle", "del"}, id : Ids, cfg : Cfgs,
   secret : Secrets \cup {NoSecret}, svc : Services \cup {None}, sec : SecretSets \cup {None},
   fresh : BOOLEAN] \cup
  [pc : InServices, op : {"other", "renew"}, id : {None}, cfg : Cfgs,
   secret : {NoSecret}, svc : Services \cup {None}, sec : SecretSets \cup {None},
   fresh : BOOLEAN]

\* What a request works on at a station it has read before.
HasRead(r) ==
  /\ r.pc \in {"save", "secrets", "swap"} => r.svc \in Services
  /\ r.pc \in {"savesecret", "saveclear", "swap"} => r.sec \in SecretSets

Drafts == [pc : {"save", "replace"}, dir : Directories]
Flows == [browser : Browsers, id : Ids, issuer : Issuers]
Codes == [flow : 1..MaxFlows, issuer : Issuers, email : Emails]
Callbacks == [pc : {"exchange", "lookup", "create"}, id : Ids, client : Clients,
              flow : 1..MaxFlows, code : Codes, declared : BOOLEAN]

TypeOK ==
  /\ services \in Services \cup {Torn}
  /\ secrets \in SecretSets
  /\ live \in [Ids -> Clients \cup {None}]
  /\ req \in [Workers -> Requests]
  /\ \A w \in Workers : HasRead(req[w])
  /\ behind \in BOOLEAN /\ stale \in BOOLEAN
  /\ left \subseteq Ids
  /\ users \in Directories
  /\ usersFile \in Directories
  /\ draft \in [Workers -> Drafts \cup {None}]
  /\ up \in BOOLEAN
  /\ cookie \in [Browsers -> 0..MaxFlows]
  /\ began \in Seq(Flows)
  /\ Len(began) <= MaxFlows
  /\ codes \subseteq Codes
  /\ spent \subseteq Codes
  /\ callback \in [Browsers -> Callbacks \cup {None}]
  /\ {changes, fails} \subseteq Nat

Init ==
  /\ services \in [Ids -> {None} \cup {[issuer |-> i, enabled |-> TRUE] : i \in Issuers}]
  /\ secrets = [id \in Ids |-> IF id \in Base \/ services[id] # None THEN InitSecret ELSE NoSecret]
  /\ live = Reloaded(services, secrets)
  /\ req = [w \in Workers |-> Idle]
  /\ behind = FALSE /\ stale = FALSE
  /\ left = {}
  /\ users \in [Emails -> Base \cup {Local}]
  /\ usersFile = users
  /\ draft = [w \in Workers |-> None]
  /\ up = TRUE
  /\ cookie = [b \in Browsers |-> 0]
  /\ began = <<>>
  /\ codes = {} /\ spent = {}
  /\ callback = [b \in Browsers |-> None]
  /\ sessions = {}
  /\ changes = 0 /\ fails = 0

-----------------------------------------------------------------------------
(* The handlers begin.                                                     *)

Start(w, pc, op, id, cfg, secret) ==
  /\ up /\ req[w] = Idle
  /\ req' = [req EXCEPT ![w] = [pc |-> pc, op |-> op, id |-> id, cfg |-> cfg, secret |-> secret,
                               svc |-> None, sec |-> None, fresh |-> TRUE]]
  /\ UNCHANGED <<files, people, up, login, fails>>

Begin(w, pc, op, id, cfg, secret) ==
  /\ changes < MaxChanges
  /\ changes' = changes + 1
  /\ Start(w, pc, op, id, cfg, secret)

Complete(cfg) == cfg.enabled => cfg.issuer # Blank

\* A secret is written first, so that the Reload finds it.
FirstStep(secret) == IF secret = NoSecret THEN "load" ELSE "loadsecret"

\* handleProviderAdd: an id of config.json is refused at once, one of
\* services.json only once the secret is written.
ProviderAdd(w, id, cfg, secret) ==
  /\ id \notin Base /\ Complete(cfg)
  /\ Begin(w, FirstStep(secret), "add", id, cfg, secret)

\* handleProviderEdit; the provider may be gone by the time the form is sent.
ProviderEdit(w, id, cfg, secret) ==
  /\ Complete(cfg)
  /\ Begin(w, FirstStep(secret), "edit", id, cfg, secret)

NoForm == [issuer |-> Blank, enabled |-> FALSE]

ProviderToggle(w, id) == Begin(w, "load", "toggle", id, NoForm, NoSecret)

ProviderDel(w, id) == Begin(w, "load", "del", id, NoForm, NoSecret)

\* A handler that changes something else in services.json.
OtherChange(w) == Begin(w, "load", "other", None, NoForm, NoSecret)

\* A renewal, or the reload button.
Renew(w) ==
  /\ Start(w, "reload", "renew", None, NoForm, NoSecret)
  /\ UNCHANGED changes

-----------------------------------------------------------------------------
(* The two files.                                                          *)

\* Request r at another station, with what it has just read.
To(r, pc, svc, sec) == [r EXCEPT !.pc = pc, !.svc = svc, !.sec = sec, !.fresh = TRUE]

\* Request w goes on as next; what others at these stations have read is old now.
Outdates(w, next, stations) ==
  req' = [v \in Workers |->
            IF v = w THEN next
            ELSE IF req[v].pc \in stations THEN [req[v] EXCEPT !.fresh = FALSE]
            ELSE req[v]]

\* Where a request that ends now leaves a secret without a provider: its secret is
\* written and the provider is not, or the provider is gone and its secret is not.
Half(r) ==
  \/ r.pc \in {"load", "save"} /\ r.secret # NoSecret
  \/ r.pc \in {"reload", "secrets", "swap", "loadclear", "saveclear"} /\ r.op = "del"

LeftBy(ws) == {req[w].id : w \in {v \in ws : Half(req[v])}}

\* setProviderSecret reads the whole file ...
LoadSecrets(w) ==
  /\ req[w].pc \in {"loadsecret", "loadclear"}
  /\ req' = [req EXCEPT ![w] =
       To(@, IF @.pc = "loadsecret" THEN "savesecret" ELSE "saveclear", None, secrets)]
  /\ UNCHANGED <<files, people, up, login, bounds>>

\* ... and writes it, with one entry changed.
SaveSecrets(w) ==
  /\ req[w].pc = "savesecret"
  /\ secrets' = [req[w].sec EXCEPT ![req[w].id] = req[w].secret]
  /\ Outdates(w, To(req[w], "load", None, None), {"savesecret", "saveclear", "swap"})
  /\ stale' = (stale \/ ~ req[w].fresh)
  /\ UNCHANGED <<services, live, behind, left, people, up, login, bounds>>

\* handleProviderDel, once the provider is gone.  Where the id has a provider all
\* the same, of config.json or added since, its client goes on with the old secret.
ClearSecret(w) ==
  LET id == req[w].id
  IN  /\ req[w].pc = "saveclear"
      /\ secrets' = [req[w].sec EXCEPT ![id] = NoSecret]
      /\ Outdates(w, Idle, {"savesecret", "saveclear", "swap"})
      /\ left' = left \ {id}
      /\ stale' = (stale \/ ~ req[w].fresh)
      /\ behind' = (behind \/ ~ req[w].fresh \/ services = Torn
                    \/ id \in Base \/ services[id] # None)
      /\ UNCHANGED <<services, live, people, up, login, bounds>>

\* secrets.json cannot be read or written: the handler ends.
SecretsFail(w) ==
  /\ req[w].pc \in InSecrets /\ fails < MaxFails
  /\ fails' = fails + 1
  /\ req' = [req EXCEPT ![w] = Idle]
  /\ left' = left \cup LeftBy({w})
  /\ UNCHANGED <<services, secrets, live, behind, stale, people, up, login, changes>>

\* mutateServices reads the whole file ...
LoadServices(w) ==
  /\ req[w].pc = "load" /\ services # Torn
  /\ req' = [req EXCEPT ![w] = To(@, "save", services, None)]
  /\ UNCHANGED <<files, people, up, login, bounds>>

\* ... the handler looks for its provider in it ...
Refused(r) ==
  \/ r.op = "add" /\ r.svc[r.id] # None
  \/ r.op \in {"edit", "toggle"} /\ r.svc[r.id] = None

Edited(r) ==
  IF r.op \in {"add", "edit"} THEN [r.svc EXCEPT ![r.id] = r.cfg]
  ELSE IF r.op = "toggle" THEN [r.svc EXCEPT ![r.id].enabled = ~ @]
  ELSE IF r.op = "del" THEN [r.svc EXCEPT ![r.id] = None]
  ELSE r.svc

\* Mutant: the clients are left for the next Reload.
SaveServicesOnly(w) ==
  /\ req[w].pc = "save" /\ ~ Refused(req[w])
  /\ services' = Edited(req[w])
  /\ Outdates(w, Idle, {"save", "secrets", "swap"})
  /\ stale' = (stale \/ ~ req[w].fresh)
  /\ UNCHANGED <<secrets, live, behind, left, people, up, login, bounds>>

\* ... and it is written, and Reload called.
SaveServices(w) ==
  /\ req[w].pc = "save" /\ ~ Refused(req[w])
  /\ services' = Edited(req[w])
  /\ Outdates(w, To(req[w], "reload", None, None), {"save", "secrets", "swap"})
  /\ stale' = (stale \/ ~ req[w].fresh)
  /\ UNCHANGED <<secrets, live, behind, left, people, up, login, bounds>>

\* Nothing is saved: the file does not parse, the handler refuses, an operation
\* fails.  A secret that was written stays.
NotSaved(w) ==
  /\ req[w].pc \in {"load", "save"}
  /\ \/ req[w].pc = "load" /\ services = Torn /\ UNCHANGED fails
     \/ req[w].pc = "save" /\ Refused(req[w]) /\ UNCHANGED fails
     \/ fails < MaxFails /\ fails' = fails + 1
  /\ req' = [req EXCEPT ![w] = Idle]
  /\ behind' = (behind \/ req[w].secret # NoSecret)
  /\ left' = left \cup LeftBy({w})
  /\ UNCHANGED <<services, secrets, live, stale, people, up, login, changes>>

\* The file is written in place, and the write breaks off.
SaveBreaks(w) ==
  /\ req[w].pc = "save" /\ ~ Refused(req[w]) /\ fails < MaxFails
  /\ fails' = fails + 1
  /\ services' = Torn
  /\ Outdates(w, Idle, {"save", "secrets", "swap"})
  /\ behind' = (behind \/ req[w].secret # NoSecret)
  /\ left' = left \cup LeftBy({w})
  /\ UNCHANGED <<secrets, live, stale, people, up, login, changes>>

-----------------------------------------------------------------------------
(* Reload.                                                                 *)

ReloadReads(w) ==
  /\ req[w].pc = "reload" /\ services # Torn
  /\ req' = [req EXCEPT ![w] = To(@, "secrets", services, None)]
  /\ UNCHANGED <<files, people, up, login, bounds>>

\* An error is dropped, and no provider has a secret.
ReloadSecrets(w) ==
  /\ req[w].pc = "secrets"
  /\ \/ /\ req' = [req EXCEPT ![w] = [@ EXCEPT !.pc = "swap", !.sec = secrets]]
        /\ UNCHANGED fails
     \/ /\ fails < MaxFails /\ fails' = fails + 1
        /\ req' = [req EXCEPT ![w] = [@ EXCEPT !.pc = "swap", !.fresh = FALSE,
                                               !.sec = [id \in Ids |-> NoSecret]]]
  /\ UNCHANGED <<files, people, up, login, changes>>

\* Mutant: the secret stays.
AfterReloadEnds(r) == Idle

\* handleProviderDel goes on to the secret.
AfterReload(r) ==
  IF r.op = "del" THEN To(r, "loadclear", None, None) ELSE Idle

\* The clients are swapped; then NGINX's file is written, and if that fails the
\* handler ends there.
ReloadSwaps(w) ==
  /\ req[w].pc = "swap"
  /\ live' = Reloaded(req[w].svc, req[w].sec)
  /\ behind' = ~ req[w].fresh
  /\ \/ /\ req' = [req EXCEPT ![w] = AfterReload(req[w])]
        /\ UNCHANGED <<left, fails>>
     \/ /\ fails < MaxFails /\ fails' = fails + 1
        /\ req' = [req EXCEPT ![w] = Idle]
        /\ left' = left \cup LeftBy({w})
  /\ UNCHANGED <<services, secrets, stale, people, up, login, changes>>

\* The file does not parse, or not yet: another request is writing it.
ReloadFails(w) ==
  /\ req[w].pc = "reload"
  /\ \/ services = Torn /\ UNCHANGED fails
     \/ fails < MaxFails /\ fails' = fails + 1
  /\ req' = [req EXCEPT ![w] = Idle]
  /\ behind' = TRUE
  /\ left' = left \cup LeftBy({w})
  /\ UNCHANGED <<services, secrets, live, stale, people, up, login, changes>>

-----------------------------------------------------------------------------
(* Users: mutateUsers copies the directory, saves the copy and replaces    *)
(* the directory by it.                                                    *)

Mutate(w, dir) ==
  /\ up /\ draft[w] = None
  /\ changes < MaxChanges
  /\ changes' = changes + 1
  /\ draft' = [draft EXCEPT ![w] = [pc |-> "save", dir |-> dir]]
  /\ UNCHANGED <<files, req, users, usersFile, up, login, fails>>

\* handleUserAdd: the panel adds users with a password only.
UserAdd(w, e) ==
  /\ users[e] = None
  /\ Mutate(w, [users EXCEPT ![e] = Local])

UserDel(w, e) == Mutate(w, [users EXCEPT ![e] = None])

\* handleUserEmail: whoever the user is declared for.
UserEmail(w, old, neu) ==
  /\ users[old] # None /\ users[neu] = None
  /\ Mutate(w, [users EXCEPT ![neu] = users[old], ![old] = None])

SaveUsers(w) ==
  /\ draft[w] # None /\ draft[w].pc = "save"
  /\ usersFile' = draft[w].dir
  /\ draft' = [draft EXCEPT ![w].pc = "replace"]
  /\ UNCHANGED <<files, req, users, up, login, bounds>>

SaveUsersFails(w) ==
  /\ draft[w] # None /\ draft[w].pc = "save" /\ fails < MaxFails
  /\ fails' = fails + 1
  /\ draft' = [draft EXCEPT ![w] = None]
  /\ UNCHANGED <<files, req, users, usersFile, up, login, changes>>

\* The callbacks under way, with note taken of whom dir declares.
Noted(dir) ==
  [b \in Browsers |->
     IF callback[b] = None THEN None
     ELSE [callback[b] EXCEPT !.declared = @ \/ dir[callback[b].code.email] = callback[b].id]]

\* Directory.Replace: also a user deleted or renamed since the copy was made is back.
Replace(w) ==
  /\ draft[w] # None /\ draft[w].pc = "replace"
  /\ users' = draft[w].dir
  /\ draft' = [draft EXCEPT ![w] = None]
  /\ callback' = Noted(draft[w].dir)
  /\ UNCHANGED <<files, req, usersFile, up, cookie, began, codes, spent, sessions, bounds>>

\* The user command: "Restart the service to apply".
UserCommand(e, id) ==
  /\ changes < MaxChanges
  /\ usersFile' = [usersFile EXCEPT ![e] = id]
  /\ changes' = changes + 1
  /\ UNCHANGED <<files, req, users, draft, up, login, fails>>

-----------------------------------------------------------------------------
(* Crashes and boots.                                                      *)

\* A crash or a restart: requests and clients are gone, cookies are not.
Crash ==
  /\ up /\ fails < MaxFails
  /\ fails' = fails + 1
  /\ up' = FALSE
  /\ left' = left \cup LeftBy(Workers)
  /\ req' = [w \in Workers |-> Idle]
  /\ draft' = [w \in Workers |-> None]
  /\ live' = [id \in Ids |-> None]
  /\ callback' = [b \in Browsers |-> None]
  /\ UNCHANGED <<services, secrets, behind, stale, users, usersFile, cookie, began, codes, spent,
                 sessions, changes>>

\* Load, which needs a services.json that parses and a users.json that passes
\* Validate, and the first Reload.
Boot ==
  /\ ~ up /\ services # Torn /\ Validate(usersFile)
  /\ up' = TRUE
  /\ users' = usersFile
  /\ live' = Reloaded(services, secrets)
  /\ behind' = FALSE
  /\ UNCHANGED <<services, secrets, req, left, stale, usersFile, draft, login, bounds>>

\* Refused until a command has put users.json right.
BootRefused ==
  /\ ~ up /\ ~ Validate(usersFile)
  /\ \E e \in Emails : /\ usersFile[e] \notin Base \cup {Local, None}
                       /\ usersFile' = [usersFile EXCEPT ![e] = Local]
  /\ UNCHANGED <<files, req, users, draft, up, login, bounds>>

-----------------------------------------------------------------------------
(* The login.                                                              *)

\* handleOIDCStart: the cookie of an earlier login is overwritten.
OIDCStart(b, id) ==
  /\ up /\ live[id] # None /\ Len(began) < MaxFlows
  /\ began' = Append(began, [browser |-> b, id |-> id, issuer |-> live[id].issuer])
  /\ cookie' = [cookie EXCEPT ![b] = Len(began) + 1]
  /\ UNCHANGED <<files, req, people, up, codes, spent, callback, sessions, bounds>>

\* The identity provider sends the browser back with a code.
Consent(f, e) ==
  /\ Cardinality(codes) < MaxCodes
  /\ codes' = codes \cup {[flow |-> f, issuer |-> began[f].issuer, email |-> e]}
  /\ UNCHANGED <<files, req, people, up, cookie, began, spent, callback, sessions,
                 bounds>>

\* The cookie as readOIDCState finds it, compared as the handler does.
StateMatches(b, id, state) ==
  cookie[b] # 0 /\ began[cookie[b]].id = id /\ state = cookie[b]

\* handleOIDCCallback up to the exchange: it keeps the client it found, whatever
\* a Reload does to the map meanwhile, and clears the cookie.
OIDCCallback(b, id, state, code) ==
  /\ up /\ live[id] # None /\ callback[b] = None
  /\ cookie' = [cookie EXCEPT ![b] = 0]
  /\ callback' = [callback EXCEPT ![b] =
       IF StateMatches(b, id, state)
         THEN [pc |-> "exchange", id |-> id, client |-> live[id], flow |-> cookie[b],
               code |-> code, declared |-> users[code.email] = id]
         ELSE None]
  /\ UNCHANGED <<files, req, people, up, began, codes, spent, sessions, bounds>>

\* Exchange: the identity provider knows the code and has not exchanged it, and
\* the token it returns has the nonce of the flow.
Accepted(c) ==
  /\ c.code \notin spent
  /\ c.code.issuer = c.client.issuer
  /\ c.code.flow = c.flow

Exchange(b) ==
  /\ callback[b] # None /\ callback[b].pc = "exchange"
  /\ Accepted(callback[b])
  /\ spent' = spent \cup {callback[b].code}
  /\ callback' = [callback EXCEPT ![b].pc = "lookup"]
  /\ UNCHANGED <<files, req, people, up, cookie, began, codes, sessions, bounds>>

\* Any error denies the login: the code, the nonce, the secret, the network.
ExchangeFails(b) ==
  /\ callback[b] # None /\ callback[b].pc = "exchange"
  /\ callback' = [callback EXCEPT ![b] = None]
  /\ UNCHANGED <<files, req, people, up, cookie, began, codes, spent, sessions,
                 bounds>>

\* Mutant: any user the directory knows.
LookupAny(b) ==
  /\ callback[b] # None /\ callback[b].pc = "lookup"
  /\ callback' = [callback EXCEPT ![b] =
       IF users[callback[b].code.email] # None THEN [callback[b] EXCEPT !.pc = "create"]
       ELSE None]
  /\ UNCHANGED <<files, req, people, up, cookie, began, codes, spent, sessions,
                 bounds>>

\* No provisioning: the user exists and is declared for this provider.
Lookup(b) ==
  /\ callback[b] # None /\ callback[b].pc = "lookup"
  /\ callback' = [callback EXCEPT ![b] =
       IF users[callback[b].code.email] = callback[b].id THEN [callback[b] EXCEPT !.pc = "create"]
       ELSE None]
  /\ UNCHANGED <<files, req, people, up, cookie, began, codes, spent, sessions,
                 bounds>>

\* Sessions.Create and Complete2FA.
CreateSession(b) ==
  /\ callback[b] # None /\ callback[b].pc = "create"
  /\ sessions' = sessions \cup
       {[browser |-> b, id |-> callback[b].id, flow |-> callback[b].flow,
         email |-> callback[b].code.email,
         declared |-> callback[b].declared]}
  /\ callback' = [callback EXCEPT ![b] = None]
  /\ UNCHANGED <<files, req, people, up, cookie, began, codes, spent, bounds>>

Next ==
  \/ \E w \in Workers, id \in Ids, cfg \in Forms, secret \in Secrets \cup {NoSecret} :
       ProviderAdd(w, id, cfg, secret) \/ ProviderEdit(w, id, cfg, secret)
  \/ \E w \in Workers, id \in Ids : ProviderToggle(w, id) \/ ProviderDel(w, id)
  \/ \E w \in Workers :
       \/ OtherChange(w) \/ Renew(w)
       \/ LoadSecrets(w) \/ SaveSecrets(w) \/ ClearSecret(w) \/ SecretsFail(w)
       \/ LoadServices(w) \/ SaveServices(w) \/ NotSaved(w) \/ SaveBreaks(w)
       \/ ReloadReads(w) \/ ReloadSecrets(w) \/ ReloadSwaps(w) \/ ReloadFails(w)
       \/ SaveUsers(w) \/ SaveUsersFails(w) \/ Replace(w)
  \/ \E w \in Workers, e \in Emails :
       UserAdd(w, e) \/ UserDel(w, e) \/ \E neu \in Emails : UserEmail(w, e, neu)
  \/ \E e \in Emails, id \in Ids : UserCommand(e, id)
  \/ Crash \/ Boot \/ BootRefused
  \/ \E b \in Browsers, id \in Ids : OIDCStart(b, id)
  \/ \E f \in 1..Len(began), e \in Emails : Consent(f, e)
  \/ \E b \in Browsers, id \in Ids, f \in 1..Len(began), code \in codes :
       OIDCCallback(b, id, f, code)
  \/ \E b \in Browsers : Exchange(b) \/ ExchangeFails(b) \/ Lookup(b) \/ CreateSession(b)

Spec == Init /\ [][Next]_vars

-----------------------------------------------------------------------------
Quiet == \A w \in Workers : req[w] = Idle

\* Once no request is under way the clients are those of the two files, although
\* they were built from what a Reload read at two other moments.  Not so after a
\* Reload that failed, or that swapped in what it had read before another's write
\* (ReloadSafe in Publishing shows that race), and not where a secret was written
\* for a change that was then refused, or cleared under a provider that is still
\* there (handlers/server.go:122-153, handlers/providers.go:182-285).
ClientsCurrent ==
  up /\ Quiet /\ ~ behind /\ services # Torn => live = Reloaded(services, secrets)

\* A removed provider leaves no secret behind for the next one of its id, also when
\* others add, change and remove it at the same time, unless a step of a change
\* failed, or a file was written from a copy older than another's write
\* (handlers/providers.go:165-179, 266-285).
NoOrphanSecret ==
  Quiet /\ ~ stale /\ services # Torn =>
    \A id \in Ids \ Base : services[id] = None /\ secrets[id] # NoSecret => id \in left

\* A session rests on the login its own browser started, with that provider, at
\* the issuer the browser was sent to, and on a user who was declared for the
\* provider at some moment since the callback began: however providers, users and
\* other logins change under it, users renamed and brought back by racing saves
\* included (handlers/oidc.go:100-156, providers/oidc.go:98-135).
SessionVouched ==
  \A s \in sessions :
    /\ began[s.flow].browser = s.browser
    /\ began[s.flow].id = s.id
    /\ [flow |-> s.flow, issuer |-> began[s.flow].issuer, email |-> s.email] \in spent
    /\ s.declared

=============================================================================
