-------------------------- MODULE FederationProofs --------------------------
(***************************************************************************)
(* Providers, their two files and the logins through them, for any number  *)
(* of providers, browsers, users, changes and failures.                    *)
(***************************************************************************)
EXTENDS Federation, TLAPS

\* What BuildOIDC makes of any two files is a client or nothing, for each id.
LEMMA ReloadedType ==
  ASSUME NEW svc \in Services, NEW sec \in SecretSets
  PROVE  Reloaded(svc, sec) \in [Ids -> Clients \cup {None}]
<1>1. mergeProviders(svc) \in [Ids -> Cfgs \cup {None}]
  BY FederationAssumption DEF mergeProviders, Services
<1>2. ASSUME NEW provs \in [Ids -> Cfgs \cup {None}]
      PROVE  BuildOIDC(provs, sec) \in [Ids -> Clients \cup {None}]
  <2> SUFFICES ASSUME NEW id \in Ids, provs[id] # None, provs[id].issuer # Blank
               PROVE  [issuer |-> provs[id].issuer, secret |-> sec[id]] \in Clients
    BY DEF BuildOIDC
  <2> QED
    BY DEF Cfgs, Clients, SecretSets
<1> QED
  BY <1>1, <1>2 DEF Reloaded

\* A request under way has all its fields, and names a provider where it needs one.
LEMMA Fields ==
  ASSUME NEW r \in Requests, r.pc \in InSecrets \cup InServices
  PROVE  /\ r.op \in {"add", "edit", "toggle", "del", "other", "renew"}
         /\ r.id \in Ids \cup {None} /\ r.cfg \in Cfgs /\ r.secret \in Secrets \cup {NoSecret}
         /\ r.svc \in Services \cup {None} /\ r.sec \in SecretSets \cup {None}
         /\ r.fresh \in BOOLEAN
         /\ r.pc \in InSecrets \/ r.op \in {"add", "edit", "toggle", "del"} => r.id \in Ids
         /\ r.op \in {"other", "renew"} => r.id = None /\ r.secret = NoSecret
BY DEF Requests, Idle, InSecrets, InServices

\* It stays one at the next station, and remains what it is.
LEMMA ToTyped ==
  ASSUME NEW r \in Requests, r.pc \in InSecrets \cup InServices,
         NEW pc \in InSecrets \cup InServices, pc \in InSecrets => r.id \in Ids,
         NEW svc \in Services \cup {None}, NEW sec \in SecretSets \cup {None}
  PROVE  /\ To(r, pc, svc, sec) \in Requests
         /\ To(r, pc, svc, sec).pc = pc
         /\ To(r, pc, svc, sec).svc = svc
         /\ To(r, pc, svc, sec).sec = sec
         /\ To(r, pc, svc, sec).op = r.op
         /\ To(r, pc, svc, sec).id = r.id
         /\ To(r, pc, svc, sec).secret = r.secret
<1>1. r # Idle
  BY DEF Idle, InSecrets, InServices
<1>2. To(r, pc, svc, sec) \in Requests
  BY <1>1, FederationAssumption DEF To, Requests
<1> QED
  BY <1>1, <1>2 DEF To, Requests

\* Request x is r, when Reload has read secrets.json, or could not.
Swap(r, sec, x) ==
  \/ x = [r EXCEPT !.pc = "swap", !.sec = sec]
  \/ x = [r EXCEPT !.pc = "swap", !.fresh = FALSE, !.sec = sec]

\* It, too, stays what it is.
LEMMA SwapTyped ==
  ASSUME NEW r \in Requests, r.pc = "secrets", NEW sec \in SecretSets, NEW x, Swap(r, sec, x)
  PROVE  /\ x \in Requests /\ x.pc = "swap" /\ x.svc = r.svc /\ x.sec = sec
         /\ x.op = r.op /\ x.id = r.id /\ x.secret = r.secret
         /\ x.fresh => r.fresh
<1>1. r # Idle /\ "swap" \in InServices
  BY DEF Idle, InServices
<1>2. CASE x = [r EXCEPT !.pc = "swap", !.sec = sec]
  BY <1>1, <1>2 DEF Requests
<1>3. CASE x = [r EXCEPT !.pc = "swap", !.fresh = FALSE, !.sec = sec]
  BY <1>1, <1>3 DEF Requests
<1> QED
  BY <1>2, <1>3 DEF Swap

\* A handler's edit of the services.json it has read is a services.json, and
\* concerns its own provider alone.
LEMMA EditedType ==
  ASSUME NEW r \in Requests, r.pc = "save", HasRead(r), ~ Refused(r)
  PROVE  /\ Edited(r) \in Services
         /\ \A id \in Ids : id # r.id => Edited(r)[id] = r.svc[id]
         /\ r.op = "del" => Edited(r)[r.id] = None
         /\ r.op \in {"add", "edit", "toggle"} => Edited(r)[r.id] # None
         /\ r.op \in {"other", "renew"} => Edited(r) = r.svc
<1>1. /\ r.op \in {"add", "edit", "toggle", "del", "other", "renew"}
      /\ r.op \in {"add", "edit", "toggle", "del"} => r.id \in Ids
      /\ r.cfg \in Cfgs /\ r.svc \in Services
  BY Fields DEF InServices, HasRead
<1>2. CASE r.op \in {"add", "edit"}
  BY <1>1, <1>2, FederationAssumption DEF Edited, Services
<1>3. CASE r.op = "toggle"
  <2> DEFINE x == [r.svc[r.id] EXCEPT !.enabled = ~ @]
  <2>1. r.svc[r.id] \in Cfgs
    BY <1>1, <1>3 DEF Refused, Services
  <2>2. x \in Cfgs
    BY <2>1 DEF Cfgs
  <2>3. Edited(r) = [r.svc EXCEPT ![r.id] = x]
    BY <1>3 DEF Edited
  <2> HIDE DEF x
  <2> QED
    BY <1>1, <1>3, <2>2, <2>3, FederationAssumption DEF Services
<1>4. CASE r.op = "del"
  BY <1>1, <1>4 DEF Edited, Services
<1>5. CASE r.op \in {"other", "renew"}
  BY <1>1, <1>5 DEF Edited
<1> QED
  BY <1>1, <1>2, <1>3, <1>4, <1>5

\* What becomes of request v when another takes a step: at most, what it has read
\* is older than the file.
Same(v) ==
  /\ req'[v] \in Requests
  /\ req'[v].pc = req[v].pc
  /\ req[v].pc # "idle" =>
       /\ req'[v].op = req[v].op /\ req'[v].id = req[v].id /\ req'[v].secret = req[v].secret
       /\ req'[v].svc = req[v].svc /\ req'[v].sec = req[v].sec
       /\ req'[v].fresh => req[v].fresh

\* Only what is written by others outdates a request.
LEMMA OthersOutdated ==
  ASSUME TypeOK, NEW w \in Workers, NEW x, NEW stations \in SUBSET (InSecrets \cup InServices),
         Outdates(w, x, stations)
  PROVE  /\ req'[w] = x /\ req' = [v \in Workers |-> req'[v]]
         /\ \A v \in Workers \ {w} :
              Same(v) /\ (req[v].pc \in stations => ~ req'[v].fresh)
<1>1. req'[w] = x /\ req' = [v \in Workers |-> req'[v]]
  BY DEF Outdates
<1>2. ASSUME NEW v \in Workers \ {w}, req[v].pc \in stations
      PROVE  Same(v) /\ ~ req'[v].fresh
  <2>1. req'[v] = [req[v] EXCEPT !.fresh = FALSE] /\ req[v] \in Requests
    BY <1>2 DEF Outdates, TypeOK
  <2>2. req[v].pc \in InSecrets \cup InServices
    BY <1>2
  <2>3. req[v] # Idle /\ req[v].pc # "idle"
    BY <2>2 DEF Idle, InSecrets, InServices
  <2>4. ~ req'[v].fresh /\ req'[v].pc = req[v].pc /\ req'[v] \in Requests
    BY <2>1, <2>3 DEF Requests
  <2>5. /\ req'[v].op = req[v].op /\ req'[v].id = req[v].id /\ req'[v].secret = req[v].secret
        /\ req'[v].svc = req[v].svc /\ req'[v].sec = req[v].sec
    BY <2>1, <2>3 DEF Requests
  <2> QED
    BY <2>4, <2>5 DEF Same
<1>3. ASSUME NEW v \in Workers \ {w}, req[v].pc \notin stations
      PROVE  Same(v)
  BY <1>3 DEF Outdates, TypeOK, Same
<1> QED
  BY <1>1, <1>2, <1>3

\* A step on a request's own account leaves the others as they are.
LEMMA OthersSame ==
  ASSUME TypeOK, NEW w \in Workers, NEW x, req' = [req EXCEPT ![w] = x]
  PROVE  /\ req'[w] = x /\ req' = [v \in Workers |-> req'[v]]
         /\ \A v \in Workers \ {w} : req'[v] = req[v] /\ Same(v)
BY DEF TypeOK, Same

\* So the requests keep their type if the one that moves does.
LEMMA RequestsTyped ==
  ASSUME TypeOK, NEW w \in Workers, req' = [v \in Workers |-> req'[v]],
         req'[w] \in Requests, HasRead(req'[w]), \A v \in Workers \ {w} : Same(v)
  PROVE  req' \in [Workers -> Requests] /\ \A v \in Workers : HasRead(req'[v])
<1>1. \A v \in Workers : req'[v] \in Requests
  BY DEF Same
<1>2. \A v \in Workers \ {w} : HasRead(req'[v])
  BY DEF Same, HasRead, TypeOK
<1> QED
  BY <1>1, <1>2

\* An idle request is one.
LEMMA IdleTyped == Idle \in Requests /\ HasRead(Idle)
BY DEF Requests, Idle, HasRead

\* The variables keep their types (handlers/providers.go, handlers/oidc.go).
THEOREM TypeCorrect == Spec => []TypeOK
<1>1. Init => TypeOK
  <2> SUFFICES ASSUME Init PROVE TypeOK
    OBVIOUS
  <2>1. services \in Services
    <3>1. \A i \in Issuers : [issuer |-> i, enabled |-> TRUE] \in Cfgs
      BY DEF Cfgs
    <3> QED
      BY <3>1 DEF Init, Services
  <2>2. secrets \in SecretSets
    BY FederationAssumption DEF Init, SecretSets
  <2>3. live \in [Ids -> Clients \cup {None}]
    BY <2>1, <2>2, ReloadedType DEF Init
  <2>4. users \in Directories
    BY FederationAssumption DEF Init, Directories
  <2>5. cookie \in [Browsers -> 0..MaxFlows]
    BY FederationAssumption DEF Init
  <2>6. began \in Seq(Flows) /\ Len(began) <= MaxFlows
    BY FederationAssumption DEF Init
  <2>7. callback \in [Browsers -> Callbacks \cup {None}]
    BY DEF Init
  <2>8. req \in [Workers -> Requests] /\ \A w \in Workers : HasRead(req[w])
    BY IdleTyped DEF Init
  <2>9. behind \in BOOLEAN /\ up \in BOOLEAN /\ stale \in BOOLEAN /\ left \subseteq Ids
    BY DEF Init
  <2>10. codes \subseteq Codes /\ spent \subseteq Codes /\ {changes, fails} \subseteq Nat
    BY DEF Init
  <2>11. usersFile = users /\ draft \in [Workers -> Drafts \cup {None}]
    BY DEF Init
  <2> QED
    BY <2>1, <2>2, <2>3, <2>4, <2>5, <2>6, <2>7, <2>8, <2>9, <2>10, <2>11 DEF TypeOK
<1>2. TypeOK /\ [Next]_vars => TypeOK'
  <2> SUFFICES ASSUME TypeOK, [Next]_vars PROVE TypeOK'
    OBVIOUS
  <2>1. ASSUME NEW w \in Workers, NEW pc \in InSecrets \cup InServices,
               NEW op \in {"add", "edit", "toggle", "del"}, NEW id \in Ids, NEW cfg \in Cfgs,
               NEW secret \in Secrets \cup {NoSecret}, Begin(w, pc, op, id, cfg, secret),
               pc \in {"load", "loadsecret"}
        PROVE  TypeOK'
    <3> DEFINE x == [pc |-> pc, op |-> op, id |-> id, cfg |-> cfg, secret |-> secret,
                     svc |-> None, sec |-> None, fresh |-> TRUE]
    <3>1. x \in Requests /\ HasRead(x)
      BY <2>1 DEF Requests, HasRead
    <3>2. req' = [req EXCEPT ![w] = x]
      BY <2>1 DEF Begin, Start
    <3> HIDE DEF x
    <3>3. req' \in [Workers -> Requests] /\ \A v \in Workers : HasRead(req'[v])
      BY <3>1, <3>2, OthersSame, RequestsTyped
    <3>4. changes' = changes + 1 /\ UNCHANGED <<files, people, up, login, fails>>
      BY <2>1 DEF Begin, Start
    <3>5. changes' \in Nat /\ fails' \in Nat
      BY <3>4 DEF TypeOK
    <3> QED
      BY <3>3, <3>4, <3>5 DEF TypeOK, files, people, login
  <2>2. NoForm \in Cfgs
    BY DEF NoForm, Cfgs
  <2>3. \A secret : FirstStep(secret) \in {"load", "loadsecret"}
    BY DEF FirstStep
  <2>4. {"load", "loadsecret"} \subseteq InSecrets \cup InServices
    BY DEF InSecrets, InServices
  <2>5. ASSUME NEW w \in Workers, NEW id \in Ids, NEW cfg \in Forms,
               NEW secret \in Secrets \cup {NoSecret},
               ProviderAdd(w, id, cfg, secret) \/ ProviderEdit(w, id, cfg, secret)
        PROVE  TypeOK'
    BY <2>1, <2>3, <2>4, <2>5, FederationAssumption DEF ProviderAdd, ProviderEdit
  <2>6. ASSUME NEW w \in Workers, NEW id \in Ids, ProviderToggle(w, id) \/ ProviderDel(w, id)
        PROVE  TypeOK'
    BY <2>1, <2>2, <2>4, <2>6 DEF ProviderToggle, ProviderDel
  <2>7. ASSUME NEW w \in Workers, OtherChange(w) \/ Renew(w) PROVE TypeOK'
    <3> DEFINE x(pc, op) == [pc |-> pc, op |-> op, id |-> None, cfg |-> NoForm,
                             secret |-> NoSecret, svc |-> None, sec |-> None, fresh |-> TRUE]
    <3>1. /\ x("load", "other") \in Requests /\ HasRead(x("load", "other"))
          /\ x("reload", "renew") \in Requests /\ HasRead(x("reload", "renew"))
      BY <2>2 DEF Requests, HasRead, InServices
    <3>2. \/ req' = [req EXCEPT ![w] = x("load", "other")]
          \/ req' = [req EXCEPT ![w] = x("reload", "renew")]
      BY <2>7 DEF OtherChange, Renew, Begin, Start
    <3>3. req' \in [Workers -> Requests] /\ \A v \in Workers : HasRead(req'[v])
      <4> HIDE DEF x
      <4> QED
        BY <3>1, <3>2, OthersSame, RequestsTyped
    <3>4. changes' \in {changes, changes + 1} /\ UNCHANGED <<files, people, up, login, fails>>
      BY <2>7 DEF OtherChange, Renew, Begin, Start
    <3>5. changes' \in Nat /\ fails' \in Nat
      BY <3>4 DEF TypeOK
    <3> HIDE DEF x
    <3> QED
      BY <3>3, <3>4, <3>5 DEF TypeOK, files, people, login
  <2>8. ASSUME NEW w \in Workers, req[w].pc \in InSecrets \cup InServices
        PROVE  /\ req[w].op \in {"add", "edit", "toggle", "del", "other", "renew"}
               /\ req[w].secret \in Secrets \cup {NoSecret}
               /\ req[w].fresh \in BOOLEAN
               /\ req[w].pc \in InSecrets \/ req[w].op \in {"add", "edit", "toggle", "del"}
                    => req[w].id \in Ids
               /\ req[w].op \in {"other", "renew"} => req[w].secret = NoSecret
               /\ HasRead(req[w]) /\ req[w] \in Requests
    <3>1. req[w] \in Requests /\ HasRead(req[w])
      BY DEF TypeOK
    <3> QED
      BY <2>8, <3>1, Fields
  <2>9. ASSUME NEW w \in Workers PROVE LeftBy({w}) \subseteq Ids
    <3>1. ASSUME Half(req[w]) PROVE req[w].id \in Ids
      <4>1. req[w].pc \in InSecrets \cup InServices
        BY <3>1 DEF Half, InSecrets, InServices
      <4> QED
        BY <3>1, <4>1, <2>8, FederationAssumption DEF Half
    <3> QED
      BY <3>1 DEF LeftBy
  <2>10. ASSUME NEW w \in Workers, req' = [req EXCEPT ![w] = Idle]
         PROVE  req' \in [Workers -> Requests] /\ \A v \in Workers : HasRead(req'[v])
    BY <2>10, IdleTyped, OthersSame, RequestsTyped
  <2>11. ASSUME NEW w \in Workers, LoadSecrets(w) PROVE TypeOK'
    <3>1. req[w].pc \in InSecrets \cup InServices
      BY <2>11 DEF LoadSecrets, InSecrets, InServices
    <3>2. req' \in [Workers -> Requests] /\ \A v \in Workers : HasRead(req'[v])
      <4> DEFINE x == To(req[w], (IF req[w].pc = "loadsecret" THEN "savesecret" ELSE "saveclear"), None, secrets)
      <4>0. /\ req[w] \in Requests
            /\ (IF req[w].pc = "loadsecret" THEN "savesecret" ELSE "saveclear") \in InSecrets \cup InServices /\ ((IF req[w].pc = "loadsecret" THEN "savesecret" ELSE "saveclear") \in InSecrets => req[w].id \in Ids)
            /\ None \in Services \cup {None} /\ secrets \in SecretSets \cup {None}
        BY <2>11, <2>8, <3>1 DEF LoadSecrets, TypeOK, InServices, InSecrets
      <4>1. x \in Requests /\ x.pc = (IF req[w].pc = "loadsecret" THEN "savesecret" ELSE "saveclear") /\ x.svc = None /\ x.sec = secrets
        BY <3>1, <4>0, ToTyped
      <4>2. req' = [req EXCEPT ![w] = x]
        BY <2>11 DEF LoadSecrets
      <4> HIDE DEF x
      <4>3. HasRead(x)
        BY <2>11, <2>8, <3>1, <4>1 DEF LoadSecrets, HasRead, TypeOK
      <4> QED
        BY <4>1, <4>2, <4>3, OthersSame, RequestsTyped
    <3> QED
      BY <2>11, <3>1, <3>2 DEF LoadSecrets, TypeOK, files, people, login, bounds
  <2>12. ASSUME NEW w \in Workers, SaveSecrets(w) PROVE TypeOK'
    <3>1. req[w].pc \in InSecrets \cup InServices
      BY <2>12 DEF SaveSecrets, InSecrets, InServices
    <3>2. req' \in [Workers -> Requests] /\ \A v \in Workers : HasRead(req'[v])
      <4> DEFINE x == To(req[w], "load", None, None)
      <4>0. /\ req[w] \in Requests
            /\ "load" \in InSecrets \cup InServices /\ ("load" \in InSecrets => req[w].id \in Ids)
            /\ None \in Services \cup {None} /\ None \in SecretSets \cup {None}
        BY <2>12, <2>8, <3>1 DEF SaveSecrets, TypeOK, InServices, InSecrets
      <4>1. x \in Requests /\ x.pc = "load" /\ x.svc = None /\ x.sec = None
        BY <3>1, <4>0, ToTyped
      <4>2. Outdates(w, x, {"savesecret", "saveclear", "swap"})
        BY <2>12 DEF SaveSecrets
      <4> HIDE DEF x
      <4>3. HasRead(x)
        BY <2>12, <2>8, <3>1, <4>1 DEF SaveSecrets, HasRead, TypeOK
      <4>4. {"savesecret", "saveclear", "swap"} \subseteq InSecrets \cup InServices
        BY DEF InSecrets, InServices
      <4> QED
        BY <4>1, <4>2, <4>3, <4>4, OthersOutdated, RequestsTyped
    <3>3. secrets' \in SecretSets /\ stale' \in BOOLEAN
      BY <2>12, <2>8, <3>1 DEF SaveSecrets, HasRead, SecretSets, InSecrets, TypeOK
    <3> QED
      BY <2>12, <3>1, <3>2, <3>3 DEF SaveSecrets, TypeOK, files, people, login, bounds
  <2>13. ASSUME NEW w \in Workers, ClearSecret(w) PROVE TypeOK'
    <3>1. req[w].pc \in InSecrets \cup InServices
      BY <2>13 DEF ClearSecret, InSecrets, InServices
    <3>2. req' \in [Workers -> Requests] /\ \A v \in Workers : HasRead(req'[v])
      <4> DEFINE x == Idle
      <4>1. x \in Requests /\ HasRead(x)
        BY IdleTyped
      <4>2. Outdates(w, x, {"savesecret", "saveclear", "swap"})
        BY <2>13 DEF ClearSecret
      <4> HIDE DEF x
      <4>4. {"savesecret", "saveclear", "swap"} \subseteq InSecrets \cup InServices
        BY DEF InSecrets, InServices
      <4> QED
        BY <4>1, <4>2, <4>4, OthersOutdated, RequestsTyped
    <3>3. secrets' \in SecretSets /\ left' \subseteq Ids
      BY <2>13, <2>8, <3>1 DEF ClearSecret, HasRead, SecretSets, InSecrets, TypeOK
    <3>4. stale' \in BOOLEAN /\ behind' \in BOOLEAN
      BY <2>13 DEF ClearSecret, TypeOK
    <3> QED
      BY <2>13, <3>1, <3>2, <3>3, <3>4 DEF ClearSecret, TypeOK, files, people, login, bounds
  <2>14. ASSUME NEW w \in Workers, SecretsFail(w) PROVE TypeOK'
    <3>1. req' \in [Workers -> Requests] /\ \A v \in Workers : HasRead(req'[v])
      BY <2>14, <2>10 DEF SecretsFail
    <3>2. left' \subseteq Ids /\ behind' \in BOOLEAN /\ fails' \in Nat /\ changes' \in Nat
      BY <2>14, <2>9 DEF SecretsFail, TypeOK
    <3> QED
      BY <2>14, <3>1, <3>2 DEF SecretsFail, TypeOK, files, people, login, bounds
  <2>15. ASSUME NEW w \in Workers, LoadServices(w) PROVE TypeOK'
    <3>1. req[w].pc \in InSecrets \cup InServices
      BY <2>15 DEF LoadServices, InSecrets, InServices
    <3>2. req' \in [Workers -> Requests] /\ \A v \in Workers : HasRead(req'[v])
      <4> DEFINE x == To(req[w], "save", services, None)
      <4>0. /\ req[w] \in Requests
            /\ "save" \in InSecrets \cup InServices /\ ("save" \in InSecrets => req[w].id \in Ids)
            /\ services \in Services \cup {None} /\ None \in SecretSets \cup {None}
        BY <2>15, <2>8, <3>1 DEF LoadServices, TypeOK, InServices, InSecrets
      <4>1. x \in Requests /\ x.pc = "save" /\ x.svc = services /\ x.sec = None
        BY <3>1, <4>0, ToTyped
      <4>2. req' = [req EXCEPT ![w] = x]
        BY <2>15 DEF LoadServices
      <4> HIDE DEF x
      <4>3. HasRead(x)
        BY <2>15, <2>8, <3>1, <4>1 DEF LoadServices, HasRead, TypeOK
      <4> QED
        BY <4>1, <4>2, <4>3, OthersSame, RequestsTyped
    <3> QED
      BY <2>15, <3>1, <3>2 DEF LoadServices, TypeOK, files, people, login, bounds
  <2>16. ASSUME NEW w \in Workers, SaveServices(w) PROVE TypeOK'
    <3>1. req[w].pc \in InSecrets \cup InServices
      BY <2>16 DEF SaveServices, InSecrets, InServices
    <3>2. req' \in [Workers -> Requests] /\ \A v \in Workers : HasRead(req'[v])
      <4> DEFINE x == To(req[w], "reload", None, None)
      <4>0. /\ req[w] \in Requests
            /\ "reload" \in InSecrets \cup InServices /\ ("reload" \in InSecrets => req[w].id \in Ids)
            /\ None \in Services \cup {None} /\ None \in SecretSets \cup {None}
        BY <2>16, <2>8, <3>1 DEF SaveServices, TypeOK, InServices, InSecrets
      <4>1. x \in Requests /\ x.pc = "reload" /\ x.svc = None /\ x.sec = None
        BY <3>1, <4>0, ToTyped
      <4>2. Outdates(w, x, {"save", "secrets", "swap"})
        BY <2>16 DEF SaveServices
      <4> HIDE DEF x
      <4>3. HasRead(x)
        BY <2>16, <2>8, <3>1, <4>1 DEF SaveServices, HasRead, TypeOK
      <4>4. {"save", "secrets", "swap"} \subseteq InSecrets \cup InServices
        BY DEF InSecrets, InServices
      <4> QED
        BY <4>1, <4>2, <4>3, <4>4, OthersOutdated, RequestsTyped
    <3>3. services' \in Services /\ stale' \in BOOLEAN
      BY <2>16, <2>8, <3>1, EditedType DEF SaveServices, TypeOK
    <3> QED
      BY <2>16, <3>1, <3>2, <3>3 DEF SaveServices, TypeOK, files, people, login, bounds
  <2>17. ASSUME NEW w \in Workers, NotSaved(w) PROVE TypeOK'
    <3>1. req' \in [Workers -> Requests] /\ \A v \in Workers : HasRead(req'[v])
      BY <2>17, <2>10 DEF NotSaved
    <3>2. left' \subseteq Ids /\ behind' \in BOOLEAN /\ fails' \in Nat /\ changes' \in Nat
      BY <2>17, <2>9 DEF NotSaved, TypeOK
    <3> QED
      BY <2>17, <3>1, <3>2 DEF NotSaved, TypeOK, files, people, login, bounds
  <2>18. ASSUME NEW w \in Workers, SaveBreaks(w) PROVE TypeOK'
    <3>1. req[w].pc \in InSecrets \cup InServices
      BY <2>18 DEF SaveBreaks, InSecrets, InServices
    <3>2. req' \in [Workers -> Requests] /\ \A v \in Workers : HasRead(req'[v])
      <4> DEFINE x == Idle
      <4>1. x \in Requests /\ HasRead(x)
        BY IdleTyped
      <4>2. Outdates(w, x, {"save", "secrets", "swap"})
        BY <2>18 DEF SaveBreaks
      <4> HIDE DEF x
      <4>4. {"save", "secrets", "swap"} \subseteq InSecrets \cup InServices
        BY DEF InSecrets, InServices
      <4> QED
        BY <4>1, <4>2, <4>4, OthersOutdated, RequestsTyped
    <3>3. left' \subseteq Ids /\ behind' \in BOOLEAN /\ fails' \in Nat /\ changes' \in Nat
      BY <2>18, <2>9 DEF SaveBreaks, TypeOK
    <3> QED
      BY <2>18, <3>1, <3>2, <3>3 DEF SaveBreaks, TypeOK, files, people, login, bounds
  <2>19. ASSUME NEW w \in Workers, ReloadReads(w) PROVE TypeOK'
    <3>1. req[w].pc \in InSecrets \cup InServices
      BY <2>19 DEF ReloadReads, InSecrets, InServices
    <3>2. req' \in [Workers -> Requests] /\ \A v \in Workers : HasRead(req'[v])
      <4> DEFINE x == To(req[w], "secrets", services, None)
      <4>0. /\ req[w] \in Requests
            /\ "secrets" \in InSecrets \cup InServices /\ ("secrets" \in InSecrets => req[w].id \in Ids)
            /\ services \in Services \cup {None} /\ None \in SecretSets \cup {None}
        BY <2>19, <2>8, <3>1 DEF ReloadReads, TypeOK, InServices, InSecrets
      <4>1. x \in Requests /\ x.pc = "secrets" /\ x.svc = services /\ x.sec = None
        BY <3>1, <4>0, ToTyped
      <4>2. req' = [req EXCEPT ![w] = x]
        BY <2>19 DEF ReloadReads
      <4> HIDE DEF x
      <4>3. HasRead(x)
        BY <2>19, <2>8, <3>1, <4>1 DEF ReloadReads, HasRead, TypeOK
      <4> QED
        BY <4>1, <4>2, <4>3, OthersSame, RequestsTyped
    <3> QED
      BY <2>19, <3>1, <3>2 DEF ReloadReads, TypeOK, files, people, login, bounds
  <2>20. ASSUME NEW w \in Workers, ReloadSecrets(w) PROVE TypeOK'
    <3>1. req[w].pc \in InSecrets \cup InServices
      BY <2>20 DEF ReloadSecrets, InSecrets, InServices
    <3>2. req' \in [Workers -> Requests] /\ \A v \in Workers : HasRead(req'[v])
      <4>1. [id \in Ids |-> NoSecret] \in SecretSets /\ secrets \in SecretSets
        BY DEF SecretSets, TypeOK
      <4>2. PICK sec \in SecretSets : \E x : req' = [req EXCEPT ![w] = x] /\ Swap(req[w], sec, x)
        BY <2>20, <4>1 DEF ReloadSecrets, Swap
      <4>3. PICK x : req' = [req EXCEPT ![w] = x] /\ Swap(req[w], sec, x)
        BY <4>2
      <4>4. req[w] \in Requests /\ req[w].svc \in Services /\ req[w].pc = "secrets"
        BY <2>20, <2>8, <3>1 DEF ReloadSecrets, HasRead
      <4>5. x \in Requests /\ x.pc = "swap" /\ x.svc = req[w].svc /\ x.sec = sec
        BY <4>4, <4>3, SwapTyped
      <4>6. HasRead(x)
        BY <4>4, <4>5 DEF HasRead
      <4> QED
        BY <4>5, <4>3, <4>6, OthersSame, RequestsTyped
    <3>3. fails' \in {fails, fails + 1} /\ changes' = changes
      BY <2>20 DEF ReloadSecrets
    <3>4. fails' \in Nat /\ changes' \in Nat
      BY <3>3 DEF TypeOK
    <3> QED
      BY <2>20, <3>1, <3>2, <3>3, <3>4 DEF ReloadSecrets, TypeOK, files, people, login, bounds
  <2>21. ASSUME NEW w \in Workers, ReloadSwaps(w) PROVE TypeOK'
    <3>1. req[w].pc \in InSecrets \cup InServices
      BY <2>21 DEF ReloadSwaps, InSecrets, InServices
    <3>2. req' \in [Workers -> Requests] /\ \A v \in Workers : HasRead(req'[v])
      <4> DEFINE x == AfterReload(req[w])
      <4>1. x \in Requests /\ HasRead(x)
        <5>1. CASE req[w].op = "del"
          <6> DEFINE y == To(req[w], "loadclear", None, None)
          <6>0. req[w] \in Requests /\ req[w].id \in Ids /\ "loadclear" \in InSecrets
            BY <5>1, <2>8, <3>1 DEF InSecrets
          <6>1. y \in Requests /\ y.pc = "loadclear"
            BY <3>1, <6>0, ToTyped
          <6>2. x = y
            BY <5>1 DEF AfterReload
          <6> HIDE DEF x, y
          <6> QED
            BY <6>1, <6>2 DEF HasRead
        <5> QED
          BY <5>1, IdleTyped DEF AfterReload
      <4>2. req' = [req EXCEPT ![w] = x] \/ req' = [req EXCEPT ![w] = Idle]
        BY <2>21 DEF ReloadSwaps
      <4> HIDE DEF x
      <4> QED
        BY <4>1, <4>2, IdleTyped, OthersSame, RequestsTyped
    <3>3. live' \in [Ids -> Clients \cup {None}] /\ behind' \in BOOLEAN
      BY <2>21, <2>8, <3>1, ReloadedType DEF ReloadSwaps, HasRead
    <3>4. left' \subseteq Ids /\ fails' \in Nat /\ changes' \in Nat
      BY <2>21, <2>9 DEF ReloadSwaps, TypeOK
    <3> QED
      BY <2>21, <3>1, <3>2, <3>3, <3>4 DEF ReloadSwaps, TypeOK, files, people, login, bounds
  <2>22. ASSUME NEW w \in Workers, ReloadFails(w) PROVE TypeOK'
    <3>1. req' \in [Workers -> Requests] /\ \A v \in Workers : HasRead(req'[v])
      BY <2>22, <2>10 DEF ReloadFails
    <3>2. left' \subseteq Ids /\ behind' \in BOOLEAN /\ fails' \in Nat /\ changes' \in Nat
      BY <2>22, <2>9 DEF ReloadFails, TypeOK
    <3> QED
      BY <2>22, <3>1, <3>2 DEF ReloadFails, TypeOK, files, people, login, bounds
  <2>23. ASSUME NEW w \in Workers, NEW dir \in Directories, Mutate(w, dir) PROVE TypeOK'
    BY <2>23 DEF Mutate, TypeOK, Drafts, files, login
  <2>24. ASSUME NEW w \in Workers, NEW e \in Emails,
                UserAdd(w, e) \/ UserDel(w, e) \/ \E neu \in Emails : UserEmail(w, e, neu)
         PROVE  TypeOK'
    <3>1. /\ \A p \in Ids \cup {Local, None} : [users EXCEPT ![e] = p] \in Directories
          /\ \A neu \in Emails : [users EXCEPT ![neu] = users[e], ![e] = None] \in Directories
      BY DEF TypeOK, Directories
    <3> QED
      BY <2>23, <2>24, <3>1 DEF UserAdd, UserDel, UserEmail
  <2>25. ASSUME NEW w \in Workers, SaveUsers(w) \/ SaveUsersFails(w) PROVE TypeOK'
    <3>1. draft[w] \in Drafts
      BY <2>25 DEF SaveUsers, SaveUsersFails, TypeOK
    <3>2. [draft[w] EXCEPT !.pc = "replace"] \in Drafts /\ draft[w].dir \in Directories
      BY <3>1 DEF Drafts
    <3>3. draft' \in [Workers -> Drafts \cup {None}] /\ usersFile' \in Directories
      BY <2>25, <3>2 DEF SaveUsers, SaveUsersFails, TypeOK
    <3>4. /\ fails' \in Nat /\ changes' \in Nat
          /\ UNCHANGED <<files, req, users, up, login>>
      BY <2>25 DEF SaveUsers, SaveUsersFails, TypeOK, bounds
    <3> QED
      BY <3>3, <3>4 DEF TypeOK, files, login
  <2>26. ASSUME NEW w \in Workers, Replace(w) PROVE TypeOK'
    <3>1. draft[w] \in Drafts
      BY <2>26 DEF Replace, TypeOK
    <3>2. users' \in Directories
      BY <2>26, <3>1 DEF Replace, Drafts
    <3>3. callback' \in [Browsers -> Callbacks \cup {None}]
      <4> SUFFICES ASSUME NEW b \in Browsers, callback[b] # None
                   PROVE  Noted(draft[w].dir)[b] \in Callbacks
        BY <2>26 DEF Replace, Noted
      <4>1. callback[b] \in Callbacks
        BY DEF TypeOK
      <4>2. (callback[b].declared \/ draft[w].dir[callback[b].code.email] = callback[b].id)
              \in BOOLEAN
        OBVIOUS
      <4>3. PICK d \in BOOLEAN : Noted(draft[w].dir)[b] = [callback[b] EXCEPT !.declared = d]
        BY <4>2 DEF Noted
      <4> QED
        BY <4>1, <4>3 DEF Callbacks
    <3>4. draft' \in [Workers -> Drafts \cup {None}]
      BY <2>26 DEF Replace, TypeOK
    <3> QED
      BY <2>26, <3>2, <3>3, <3>4 DEF Replace, TypeOK, files, bounds
  <2>27. ASSUME NEW e \in Emails, NEW id \in Ids, UserCommand(e, id) PROVE TypeOK'
    BY <2>27 DEF UserCommand, TypeOK, Directories, files, login
  <2>28. CASE Crash
    <3>1. left' \subseteq Ids
      <4>1. ASSUME NEW w \in Workers, Half(req[w]) PROVE req[w].id \in Ids
        BY <4>1, <2>9 DEF LeftBy
      <4> QED
        BY <2>28, <4>1 DEF Crash, LeftBy, TypeOK
    <3>2. req' \in [Workers -> Requests] /\ \A v \in Workers : HasRead(req'[v])
      BY <2>28, IdleTyped DEF Crash
    <3>3. /\ live' \in [Ids -> Clients \cup {None}]
          /\ callback' \in [Browsers -> Callbacks \cup {None}]
          /\ draft' \in [Workers -> Drafts \cup {None}]
      BY <2>28 DEF Crash
    <3>4. fails' \in Nat /\ changes' \in Nat
      BY <2>28 DEF Crash, TypeOK
    <3> QED
      BY <2>28, <3>1, <3>2, <3>3, <3>4 DEF Crash, TypeOK
  <2>29. CASE Boot
    <3>1. services \in Services
      BY <2>29 DEF Boot, TypeOK
    <3>2. live' \in [Ids -> Clients \cup {None}]
      BY <2>29, <3>1, ReloadedType DEF Boot, TypeOK
    <3> QED
      BY <2>29, <3>2 DEF Boot, TypeOK, login, bounds
  <2>30. CASE BootRefused
    BY <2>30 DEF BootRefused, TypeOK, Directories, files, login, bounds
  <2>31. ASSUME NEW b \in Browsers, NEW id \in Ids, OIDCStart(b, id) PROVE TypeOK'
    <3>1. live[id] \in Clients
      BY <2>31 DEF OIDCStart, TypeOK
    <3>2. [browser |-> b, id |-> id, issuer |-> live[id].issuer] \in Flows
      BY <3>1 DEF Clients, Flows
    <3>3. began' \in Seq(Flows) /\ Len(began') = Len(began) + 1
      BY <2>31, <3>2 DEF OIDCStart, TypeOK
    <3>4. Len(began) + 1 \in 0..MaxFlows
      BY <2>31, FederationAssumption DEF OIDCStart, TypeOK
    <3> QED
      BY <2>31, <3>3, <3>4 DEF OIDCStart, TypeOK, files, people, bounds
  <2>32. ASSUME NEW f \in 1..Len(began), NEW e \in Emails, Consent(f, e) PROVE TypeOK'
    <3>1. f \in 1..MaxFlows
      BY FederationAssumption DEF TypeOK
    <3>2. began[f] \in Flows
      BY DEF TypeOK
    <3>3. [flow |-> f, issuer |-> began[f].issuer, email |-> e] \in Codes
      BY <3>1, <3>2 DEF Codes, Flows
    <3> QED
      BY <2>32, <3>3 DEF Consent, TypeOK, files, people, bounds
  <2>33. ASSUME NEW b \in Browsers, NEW id \in Ids, NEW f \in 1..Len(began), NEW code \in codes,
                OIDCCallback(b, id, f, code)
         PROVE  TypeOK'
    <3>1. live[id] \in Clients
      BY <2>33 DEF OIDCCallback, TypeOK
    <3>2. StateMatches(b, id, f) => cookie[b] \in 1..MaxFlows
      BY FederationAssumption DEF StateMatches, TypeOK
    <3>3. (users[code.email] = id) \in BOOLEAN
      OBVIOUS
    <3>4. callback' \in [Browsers -> Callbacks \cup {None}]
      BY <2>33, <3>1, <3>2, <3>3 DEF OIDCCallback, TypeOK, Callbacks
    <3>5. cookie' \in [Browsers -> 0..MaxFlows]
      BY <2>33, FederationAssumption DEF OIDCCallback, TypeOK
    <3> QED
      BY <2>33, <3>4, <3>5 DEF OIDCCallback, TypeOK, files, people, bounds
  <2>34. ASSUME NEW b \in Browsers, callback[b] # None,
                NEW pc \in {"exchange", "lookup", "create"}
         PROVE  [callback EXCEPT ![b].pc = pc] \in [Browsers -> Callbacks \cup {None}]
    BY <2>34 DEF TypeOK, Callbacks
  <2>35. ASSUME NEW b \in Browsers, Exchange(b) PROVE TypeOK'
    <3>1. callback[b].code \in Codes
      BY <2>35 DEF Exchange, TypeOK, Callbacks
    <3> QED
      BY <2>34, <2>35, <3>1 DEF Exchange, TypeOK, files, people, bounds
  <2>36. ASSUME NEW b \in Browsers, ExchangeFails(b) PROVE TypeOK'
    BY <2>36 DEF ExchangeFails, TypeOK, files, people, bounds
  <2>37. ASSUME NEW b \in Browsers, Lookup(b) PROVE TypeOK'
    BY <2>34, <2>37 DEF Lookup, TypeOK, files, people, bounds, Callbacks
  <2>38. ASSUME NEW b \in Browsers, CreateSession(b) PROVE TypeOK'
    BY <2>38 DEF CreateSession, TypeOK, files, people, bounds
  <2>39. CASE UNCHANGED vars
    BY <2>39 DEF vars, files, people, login, bounds, TypeOK
  <2> QED
    BY <2>5, <2>6, <2>7, <2>11, <2>12, <2>13, <2>14, <2>15, <2>16, <2>17, <2>18, <2>19, <2>20, <2>21, <2>22,
       <2>24, <2>25, <2>26, <2>27, <2>28, <2>29, <2>30, <2>31, <2>32, <2>33, <2>35, <2>36, <2>37,
       <2>38, <2>39 DEF Next
<1> QED
  BY <1>1, <1>2, PTL DEF Spec

-----------------------------------------------------------------------------
(* The login.  SessionVouched speaks of finished logins; the parts below   *)
(* say what is already known of one at each of its stations.               *)

\* A state cookie belongs to a login of the browser that holds it.
CookieOwn ==
  \A b \in Browsers : cookie[b] # 0 =>
    cookie[b] \in 1..Len(began) /\ began[cookie[b]].browser = b

\* A code was issued by the issuer its login was sent to.
CodesTrue ==
  \A c \in codes : c.flow \in 1..Len(began) /\ c.issuer = began[c.flow].issuer

\* A callback serves a login of its own browser and provider; once exchanged, its
\* code is of that very login; and note is taken of its user, if declared for the
\* provider now.
CallbackOwn(b, c) ==
  /\ up
  /\ c.flow \in 1..Len(began)
  /\ began[c.flow].browser = b /\ began[c.flow].id = c.id
  /\ c.code \in codes
  /\ c.pc # "exchange" => c.code.flow = c.flow /\ c.code \in spent
  /\ c.pc = "create" \/ users[c.code.email] = c.id => c.declared

CallbacksOwn == \A b \in Browsers : callback[b] # None => CallbackOwn(b, callback[b])

SessionsKnown == \A s \in sessions : s.flow \in 1..Len(began)

LoginInv == CookieOwn /\ CodesTrue /\ CallbacksOwn /\ SessionsKnown /\ SessionVouched

\* Administrators, Reload and commands leave the logins alone.
LEMMA LoginFrame ==
  ASSUME LoginInv, UNCHANGED <<login, users, up>>
  PROVE  LoginInv'
BY DEF LoginInv, CookieOwn, CodesTrue, CallbacksOwn, CallbackOwn, SessionsKnown,
       SessionVouched, login

\* One more login is begun: those before it keep their place.
LEMMA BeganGrows ==
  ASSUME NEW s \in Seq(Flows), NEW x \in Flows
  PROVE  /\ Len(Append(s, x)) = Len(s) + 1
         /\ \A f \in 1..Len(s) : f \in 1..Len(Append(s, x)) /\ Append(s, x)[f] = s[f]
         /\ Append(s, x)[Len(s) + 1] = x
         /\ Len(s) + 1 \in 1..Len(Append(s, x))
OBVIOUS

\* Every step keeps what is known of the logins under way.
LEMMA LoginStep ==
  ASSUME TypeOK, LoginInv, [Next]_vars
  PROVE  LoginInv'
<1> USE DEF LoginInv
<1>1. ASSUME NEW w \in Workers, NEW pc, NEW op, NEW id, NEW cfg, NEW secret,
             Start(w, pc, op, id, cfg, secret)
      PROVE  LoginInv'
  BY <1>1, LoginFrame DEF Start, people
<1>2. CASE \E w \in Workers, id \in Ids, cfg \in Forms, secret \in Secrets \cup {NoSecret} :
             ProviderAdd(w, id, cfg, secret) \/ ProviderEdit(w, id, cfg, secret)
  BY <1>1, <1>2 DEF ProviderAdd, ProviderEdit, Begin
<1>3. ASSUME NEW w \in Workers, \/ \E id \in Ids : ProviderToggle(w, id) \/ ProviderDel(w, id)
                                \/ OtherChange(w) \/ Renew(w)
      PROVE  LoginInv'
  BY <1>1, <1>3 DEF ProviderToggle, ProviderDel, OtherChange, Renew, Begin
<1>4. ASSUME NEW w \in Workers,
             \/ LoadSecrets(w) \/ SaveSecrets(w) \/ ClearSecret(w) \/ SecretsFail(w)
             \/ LoadServices(w) \/ SaveServices(w) \/ NotSaved(w) \/ SaveBreaks(w)
             \/ ReloadReads(w) \/ ReloadSecrets(w) \/ ReloadSwaps(w) \/ ReloadFails(w)
             \/ SaveUsers(w) \/ SaveUsersFails(w)
      PROVE  LoginInv'
  <2>1. UNCHANGED <<login, users, up>>
    BY <1>4 DEF LoadSecrets, SaveSecrets, ClearSecret, SecretsFail, LoadServices, SaveServices,
                NotSaved, SaveBreaks, ReloadReads, ReloadSecrets, ReloadSwaps, ReloadFails,
                SaveUsers, SaveUsersFails, people
  <2> QED
    BY <2>1, LoginFrame
<1>5. CASE \/ \E e \in Emails, id \in Ids : UserCommand(e, id)
           \/ \E w \in Workers, e \in Emails :
                UserAdd(w, e) \/ UserDel(w, e) \/ \E neu \in Emails : UserEmail(w, e, neu)
  <2>1. UNCHANGED <<login, users, up>>
    BY <1>5 DEF UserCommand, UserAdd, UserDel, UserEmail, Mutate
  <2> QED
    BY <2>1, LoginFrame
<1>6. CASE BootRefused
  BY <1>6, LoginFrame DEF BootRefused
<1>7. ASSUME NEW w \in Workers, Replace(w) PROVE LoginInv'
  <2>1. ASSUME NEW b \in Browsers, callback'[b] # None
        PROVE  CallbackOwn(b, callback[b])'
    <3>1. callback[b] # None /\ CallbackOwn(b, callback[b])
      BY <1>7, <2>1 DEF Replace, Noted, CallbacksOwn
    <3>2. callback[b] \in Callbacks
      BY <3>1 DEF TypeOK
    <3> DEFINE c == callback[b]
               d == c.declared \/ draft[w].dir[c.code.email] = c.id
    <3>3. callback'[b] = [c EXCEPT !.declared = d]
      BY <1>7, <3>1 DEF Replace, Noted
    <3>4. d \in BOOLEAN
      OBVIOUS
    <3>5. PICK t \in BOOLEAN : callback'[b] = [c EXCEPT !.declared = t] /\ (t <=> d)
      BY <3>3, <3>4
    <3>6. /\ callback'[b].pc = c.pc /\ callback'[b].flow = c.flow /\ callback'[b].id = c.id
          /\ callback'[b].code = c.code /\ (callback'[b].declared <=> t)
      BY <3>2, <3>5 DEF Callbacks
    <3>7. c.declared \/ users'[c.code.email] = c.id => callback'[b].declared
      BY <1>7, <3>5, <3>6 DEF Replace
    <3>8. c.pc = "create" \/ users'[c.code.email] = c.id => callback'[b].declared
      BY <3>1, <3>7 DEF CallbackOwn
    <3> QED
      BY <1>7, <3>1, <3>6, <3>8 DEF Replace, CallbackOwn
  <2>2. CallbacksOwn'
    BY <2>1 DEF CallbacksOwn
  <2> QED
    BY <1>7, <2>2 DEF Replace, CookieOwn, CodesTrue, SessionsKnown, SessionVouched
<1>8. CASE Crash
  BY <1>8 DEF Crash, CookieOwn, CodesTrue, CallbacksOwn, SessionsKnown, SessionVouched
<1>9. CASE Boot
  <2>1. \A b \in Browsers : callback[b] = None
    BY <1>9 DEF Boot, people, CallbacksOwn, CallbackOwn
  <2> QED
    BY <1>9, <2>1 DEF Boot, login, CookieOwn, CodesTrue, CallbacksOwn, SessionsKnown, SessionVouched
<1>10. ASSUME NEW b \in Browsers, NEW id \in Ids, OIDCStart(b, id) PROVE LoginInv'
  <2> DEFINE x == [browser |-> b, id |-> id, issuer |-> live[id].issuer]
  <2>1. x \in Flows /\ began \in Seq(Flows) /\ began' = Append(began, x)
    BY <1>10 DEF OIDCStart, TypeOK, Flows, Clients
  <2>2. \A f \in 1..Len(began) : f \in 1..Len(began') /\ began'[f] = began[f]
    BY <2>1, BeganGrows
  <2>3. Len(began) + 1 \in 1..Len(began') /\ began'[Len(began) + 1].browser = b
    BY <2>1, BeganGrows
  <2>4. CookieOwn'
    BY <1>10, <2>2, <2>3 DEF OIDCStart, CookieOwn, TypeOK
  <2>5. CodesTrue'
    BY <1>10, <2>2 DEF OIDCStart, CodesTrue
  <2>6. CallbacksOwn'
    BY <1>10, <2>2 DEF OIDCStart, people, CallbacksOwn, CallbackOwn
  <2>7. SessionsKnown' /\ SessionVouched'
    BY <1>10, <2>2 DEF OIDCStart, SessionsKnown, SessionVouched
  <2> QED
    BY <2>4, <2>5, <2>6, <2>7
<1>11. ASSUME NEW f \in 1..Len(began), NEW e \in Emails, Consent(f, e) PROVE LoginInv'
  BY <1>11 DEF Consent, CookieOwn, CodesTrue, people, CallbacksOwn, CallbackOwn, SessionsKnown,
               SessionVouched
<1>12. ASSUME NEW b \in Browsers, NEW id \in Ids, NEW f \in 1..Len(began), NEW code \in codes,
              OIDCCallback(b, id, f, code)
       PROVE  LoginInv'
  <2>1. CookieOwn'
    BY <1>12 DEF OIDCCallback, CookieOwn, TypeOK
  <2>2. CallbacksOwn'
    BY <1>12 DEF OIDCCallback, StateMatches, CookieOwn, people, CallbacksOwn, CallbackOwn, TypeOK
  <2> QED
    BY <1>12, <2>1, <2>2 DEF OIDCCallback, CodesTrue, SessionsKnown, SessionVouched
<1>13. ASSUME NEW b \in Browsers, Exchange(b) PROVE LoginInv'
  <2>1. CallbacksOwn'
    BY <1>13 DEF Exchange, Accepted, people, CallbacksOwn, CallbackOwn, TypeOK, Callbacks
  <2> QED
    BY <1>13, <2>1 DEF Exchange, CookieOwn, CodesTrue, SessionsKnown, SessionVouched
<1>14. ASSUME NEW b \in Browsers, ExchangeFails(b) PROVE LoginInv'
  BY <1>14 DEF ExchangeFails, CookieOwn, CodesTrue, people, CallbacksOwn, CallbackOwn, SessionsKnown,
               SessionVouched, TypeOK
<1>15. ASSUME NEW b \in Browsers, Lookup(b) PROVE LoginInv'
  <2>1. CallbacksOwn'
    BY <1>15 DEF Lookup, people, CallbacksOwn, CallbackOwn, TypeOK, Callbacks
  <2> QED
    BY <1>15, <2>1 DEF Lookup, CookieOwn, CodesTrue, SessionsKnown, SessionVouched
<1>16. ASSUME NEW b \in Browsers, CreateSession(b) PROVE LoginInv'
  <2> DEFINE c == callback[b]
  <2>1. c \in Callbacks /\ CallbackOwn(b, c) /\ c.pc = "create"
    BY <1>16 DEF CreateSession, CallbacksOwn, TypeOK
  <2>2. c.code \in Codes /\ c.code.flow = c.flow /\ c.code.issuer = began[c.flow].issuer
    BY <2>1 DEF CallbackOwn, CodesTrue, TypeOK
  <2>3. c.code = [flow |-> c.flow, issuer |-> began[c.flow].issuer, email |-> c.code.email]
    BY <2>2 DEF Codes
  <2>4. SessionsKnown' /\ SessionVouched'
    BY <1>16, <2>1, <2>3 DEF CreateSession, CallbackOwn, SessionsKnown, SessionVouched
  <2>5. CallbacksOwn'
    BY <1>16 DEF CreateSession, people, CallbacksOwn, CallbackOwn, TypeOK
  <2> QED
    BY <1>16, <2>4, <2>5 DEF CreateSession, CookieOwn, CodesTrue
<1>17. CASE UNCHANGED vars
  BY <1>17, LoginFrame DEF vars, people
<1> QED
  BY <1>2, <1>3, <1>4, <1>5, <1>6, <1>7, <1>8, <1>9, <1>10, <1>11, <1>12, <1>13, <1>14, <1>15,
     <1>16, <1>17 DEF Next

\* A session rests on the login its own browser started and on a user declared for
\* that provider since the callback began, for any number of logins, browsers,
\* providers, requests and racing changes (handlers/oidc.go:100-156).
THEOREM SessionsCorrect == Spec => []SessionVouched
<1>1. Init => LoginInv
  BY DEF Init, LoginInv, CookieOwn, CodesTrue, CallbacksOwn, SessionsKnown, SessionVouched
<1>2. LoginInv => SessionVouched
  BY DEF LoginInv
<1> QED
  BY <1>1, <1>2, LoginStep, TypeCorrect, PTL DEF Spec

-----------------------------------------------------------------------------
(* The two files.                                                          *)

\* A request that will reload, with a file changed or about to be: its own Reload
\* sees to the clients.
Ahead(r) ==
  \/ r.pc \in {"load", "save"} /\ r.secret # NoSecret
  \/ r.pc \in {"reload", "secrets", "swap"}

\* What a request has read is what the files say, while it is fresh; and only a
\* form with a secret goes to secrets.json first.
Current(r) ==
  /\ r.pc \in {"save", "secrets", "swap"} /\ r.fresh => r.svc = services
  /\ r.pc \in {"savesecret", "saveclear", "swap"} /\ r.fresh => r.sec = secrets
  /\ r.pc \in {"loadsecret", "savesecret"} => r.secret # NoSecret

\* The clients are those of the files unless a request is ahead of them.
ClientsInv ==
  up /\ ~ behind /\ services # Torn /\ (\A w \in Workers : ~ Ahead(req[w]))
    => live = Reloaded(services, secrets)

\* The id is left over, or a request is at work on it.
Covered(id) == id \in left \/ \E w \in Workers : Half(req[w]) /\ req[w].id = id

OrphanInv ==
  ~ stale /\ services # Torn =>
    \A id \in Ids \ Base : services[id] = None /\ secrets[id] # NoSecret => Covered(id)

FilesInv == (\A w \in Workers : Current(req[w])) /\ ClientsInv /\ OrphanInv

\* Logins and users leave the files alone.
LEMMA FilesFrame ==
  ASSUME FilesInv, UNCHANGED <<files, req, up>>
  PROVE  FilesInv'
BY DEF FilesInv, Current, ClientsInv, OrphanInv, Covered, files

\* A provider that services.json alone has and does not list gets no client,
\* whatever secret is kept for it.
LEMMA GoneHasNoClient ==
  ASSUME NEW svc \in Services, NEW sec \in SecretSets, NEW new \in SecretSets,
         NEW id \in Ids \ Base, svc[id] = None, \A i \in Ids \ {id} : new[i] = sec[i]
  PROVE  Reloaded(svc, new) = Reloaded(svc, sec)
<1>1. mergeProviders(svc)[id] = None
  BY DEF mergeProviders
<1> QED
  BY <1>1 DEF Reloaded, BuildOIDC

\* The steps of others change nothing of what a request stands for.
LEMMA SameMeans ==
  ASSUME NEW v, Same(v)
  PROVE  /\ Half(req'[v]) <=> Half(req[v])
         /\ Ahead(req'[v]) <=> Ahead(req[v])
         /\ Half(req[v]) => req'[v].id = req[v].id
BY DEF Same, Half, Ahead

\* What others have read stays current, or is known to be old.
LEMMA CurrentKept ==
  ASSUME NEW v, Same(v), Current(req[v]),
         services' = services \/ (req[v].pc \in {"save", "secrets", "swap"} => ~ req'[v].fresh),
         secrets' = secrets \/ (req[v].pc \in {"savesecret", "saveclear", "swap"} => ~ req'[v].fresh)
  PROVE  Current(req[v])'
BY DEF Same, Current

\* A step of request w that writes neither file keeps the invariant, if the request
\* stays ahead, or covers its id, or leaves word that it did not.
LEMMA QuietStep ==
  ASSUME FilesInv, NEW w \in Workers, \A v \in Workers \ {w} : Same(v), Current(req[w])',
         UNCHANGED <<services, secrets, live, stale, up>>,
         left \subseteq left', behind => behind',
         Ahead(req[w]) => behind' \/ Ahead(req'[w]),
         Half(req[w]) => req[w].id \in left' \/ (Half(req'[w]) /\ req'[w].id = req[w].id)
  PROVE  FilesInv'
<1>1. ASSUME NEW v \in Workers PROVE Current(req[v])'
  BY CurrentKept DEF FilesInv
<1>2. ClientsInv'
  BY SameMeans DEF FilesInv, ClientsInv
<1>3. ASSUME NEW id, Covered(id) PROVE Covered(id)'
  BY <1>3, SameMeans DEF Covered
<1>4. OrphanInv'
  BY <1>3 DEF FilesInv, OrphanInv
<1> QED
  BY <1>1, <1>2, <1>4 DEF FilesInv

\* Every step keeps the two files and the clients together.
LEMMA FilesStep ==
  ASSUME TypeOK, FilesInv, [Next]_vars
  PROVE  FilesInv'
<1>1. ASSUME NEW w \in Workers, NEW pc \in {"load", "loadsecret", "reload"}, NEW op, NEW id,
             NEW cfg, NEW secret \in Secrets \cup {NoSecret}, Start(w, pc, op, id, cfg, secret),
             pc = "loadsecret" => secret # NoSecret
      PROVE  FilesInv'
  <2> DEFINE x == [pc |-> pc, op |-> op, id |-> id, cfg |-> cfg, secret |-> secret,
                   svc |-> None, sec |-> None, fresh |-> TRUE]
  <2>1. x.pc = pc /\ x.secret = secret /\ req' = [req EXCEPT ![w] = x]
    BY <1>1 DEF Start
  <2> HIDE DEF x
  <2>2. req'[w] = x /\ \A v \in Workers \ {w} : Same(v)
    BY <2>1, OthersSame
  <2>3. Current(req[w])'
    BY <1>1, <2>1, <2>2 DEF Current
  <2>4. ~ Ahead(req[w]) /\ ~ Half(req[w])
    BY <1>1 DEF Start, Idle, Ahead, Half
  <2>5. UNCHANGED <<services, secrets, live, stale, up, left, behind>>
    BY <1>1 DEF Start, files
  <2> QED
    BY <2>2, <2>3, <2>4, <2>5, QuietStep
<1>2. ASSUME NEW w \in Workers, NEW id \in Ids, NEW cfg \in Forms,
             NEW secret \in Secrets \cup {NoSecret},
             ProviderAdd(w, id, cfg, secret) \/ ProviderEdit(w, id, cfg, secret)
      PROVE  FilesInv'
  <2>1. /\ FirstStep(secret) \in {"load", "loadsecret", "reload"}
        /\ FirstStep(secret) = "loadsecret" => secret # NoSecret
    BY DEF FirstStep
  <2> QED
    BY <1>1, <1>2, <2>1 DEF ProviderAdd, ProviderEdit, Begin
<1>3. ASSUME NEW w \in Workers, \/ \E id \in Ids : ProviderToggle(w, id) \/ ProviderDel(w, id)
                                \/ OtherChange(w) \/ Renew(w)
      PROVE  FilesInv'
  BY <1>1, <1>3 DEF ProviderToggle, ProviderDel, OtherChange, Renew, Begin
<1>4. ASSUME NEW w \in Workers, req[w].pc \in InSecrets \cup InServices
      PROVE  /\ req[w] \in Requests /\ HasRead(req[w]) /\ Current(req[w])
             /\ req[w].op \in {"add", "edit", "toggle", "del", "other", "renew"}
             /\ req[w].id \in Ids \cup {None} /\ req[w].secret \in Secrets \cup {NoSecret}
             /\ req[w].pc \in InSecrets \/ req[w].op \in {"add", "edit", "toggle", "del"}
                  => req[w].id \in Ids
             /\ req[w].op \in {"other", "renew"} => req[w].id = None /\ req[w].secret = NoSecret
  <2>1. req[w] \in Requests /\ HasRead(req[w]) /\ Current(req[w])
    BY DEF TypeOK, FilesInv
  <2> QED
    BY <1>4, <2>1, Fields
<1>5. ASSUME NEW w \in Workers, req[w].pc \in InSecrets \cup InServices,
             NEW pc \in InSecrets \cup InServices, pc \in InSecrets => req[w].id \in Ids,
             NEW svc \in Services \cup {None}, NEW sec \in SecretSets \cup {None},
             NEW x, x = To(req[w], pc, svc, sec)
      PROVE  /\ x.pc = pc /\ x.svc = svc /\ x.sec = sec
             /\ x.op = req[w].op /\ x.id = req[w].id /\ x.secret = req[w].secret
  BY <1>4, <1>5, ToTyped
<1>6. ASSUME NEW w \in Workers, Half(req[w]) PROVE req[w].id \in LeftBy({w})
  BY <1>6 DEF LeftBy
<1>7. ASSUME NEW w \in Workers, req' = [req EXCEPT ![w] = Idle]
      PROVE  (\A v \in Workers \ {w} : Same(v)) /\ req'[w] = Idle /\ Current(req[w])'
  <2>1. (\A v \in Workers \ {w} : Same(v)) /\ req'[w] = Idle
    BY <1>7, OthersSame
  <2> QED
    BY <2>1 DEF Current, Idle
<1>8. ASSUME NEW w \in Workers, LoadSecrets(w) PROVE FilesInv'
  <2>1. PICK pc \in {"savesecret", "saveclear"} :
          /\ req' = [req EXCEPT ![w] = To(req[w], pc, None, secrets)]
          /\ pc = "savesecret" => req[w].pc = "loadsecret"
          /\ pc = "saveclear" => req[w].pc = "loadclear"
    BY <1>8 DEF LoadSecrets
  <2>2. /\ req[w].pc \in InSecrets /\ pc \in InSecrets /\ secrets \in SecretSets
        /\ req[w].pc \in {"loadsecret", "loadclear"}
    BY <1>8 DEF LoadSecrets, InSecrets, TypeOK
  <2>3. req'[w] = To(req[w], pc, None, secrets) /\ \A v \in Workers \ {w} : Same(v)
    BY <2>1, OthersSame
  <2>4. /\ req'[w].pc = pc /\ req'[w].sec = secrets
        /\ req'[w].op = req[w].op /\ req'[w].id = req[w].id /\ req'[w].secret = req[w].secret
    BY <1>4, <1>5, <2>2, <2>3
  <2>5. UNCHANGED <<services, secrets, live, stale, up, left, behind>>
    BY <1>8 DEF LoadSecrets, files
  <2>6. Current(req[w])'
    BY <1>4, <2>1, <2>2, <2>4, <2>5 DEF Current
  <2>7. ~ Ahead(req[w]) /\ (Half(req[w]) => Half(req'[w]))
    BY <2>1, <2>2, <2>4 DEF Ahead, Half
  <2> QED
    BY <2>3, <2>4, <2>5, <2>6, <2>7, QuietStep
<1>9. ASSUME NEW w \in Workers, SecretsFail(w) PROVE FilesInv'
  <2>1. ~ Ahead(req[w])
    BY <1>9 DEF SecretsFail, InSecrets, Ahead
  <2>2. UNCHANGED <<services, secrets, live, stale, up, behind>> /\ left' = left \cup LeftBy({w})
    BY <1>9 DEF SecretsFail
  <2>3. (\A v \in Workers \ {w} : Same(v)) /\ Current(req[w])'
    BY <1>7, <1>9 DEF SecretsFail
  <2> QED
    BY <1>6, <2>1, <2>2, <2>3, QuietStep
<1>10. ASSUME NEW w \in Workers, LoadServices(w) PROVE FilesInv'
  <2>1. /\ req[w].pc = "load" /\ req[w].pc \in InServices /\ "save" \in InServices \ InSecrets
        /\ services \in Services /\ req' = [req EXCEPT ![w] = To(req[w], "save", services, None)]
    BY <1>10 DEF LoadServices, InServices, InSecrets, TypeOK
  <2>2. req'[w] = To(req[w], "save", services, None) /\ \A v \in Workers \ {w} : Same(v)
    BY <2>1, OthersSame
  <2>3. /\ req'[w].pc = "save" /\ req'[w].svc = services
        /\ req'[w].op = req[w].op /\ req'[w].id = req[w].id /\ req'[w].secret = req[w].secret
    BY <1>5, <2>1, <2>2
  <2>4. UNCHANGED <<services, secrets, live, stale, up, left, behind>>
    BY <1>10 DEF LoadServices, files
  <2>5. Current(req[w])'
    BY <2>3, <2>4 DEF Current
  <2>6. (Ahead(req[w]) => Ahead(req'[w])) /\ (Half(req[w]) => Half(req'[w]))
    BY <2>1, <2>3 DEF Ahead, Half
  <2> QED
    BY <2>2, <2>3, <2>4, <2>5, <2>6, QuietStep
<1>11. ASSUME NEW w \in Workers, NotSaved(w) PROVE FilesInv'
  <2>1. /\ UNCHANGED <<services, secrets, live, stale, up>> /\ left' = left \cup LeftBy({w})
        /\ req[w].pc \in {"load", "save"}
        /\ behind => behind'
        /\ req[w].secret # NoSecret => behind'
    BY <1>11 DEF NotSaved
  <2>2. Ahead(req[w]) => behind'
    BY <2>1 DEF Ahead
  <2>3. (\A v \in Workers \ {w} : Same(v)) /\ Current(req[w])'
    BY <1>7, <1>11 DEF NotSaved
  <2> QED
    BY <1>6, <2>1, <2>2, <2>3, QuietStep
<1>12. ASSUME NEW w \in Workers, ReloadReads(w) PROVE FilesInv'
  <2>1. /\ req[w].pc = "reload" /\ req[w].pc \in InServices /\ "secrets" \in InServices \ InSecrets
        /\ services \in Services /\ req' = [req EXCEPT ![w] = To(req[w], "secrets", services, None)]
    BY <1>12 DEF ReloadReads, InServices, InSecrets, TypeOK
  <2>2. req'[w] = To(req[w], "secrets", services, None) /\ \A v \in Workers \ {w} : Same(v)
    BY <2>1, OthersSame
  <2>3. /\ req'[w].pc = "secrets" /\ req'[w].svc = services
        /\ req'[w].op = req[w].op /\ req'[w].id = req[w].id
    BY <1>5, <2>1, <2>2
  <2>4. UNCHANGED <<services, secrets, live, stale, up, left, behind>>
    BY <1>12 DEF ReloadReads, files
  <2>5. Current(req[w])'
    BY <2>3, <2>4 DEF Current
  <2>6. Ahead(req'[w]) /\ (Half(req[w]) => Half(req'[w]))
    BY <2>1, <2>3 DEF Ahead, Half
  <2> QED
    BY <2>2, <2>3, <2>4, <2>5, <2>6, QuietStep
<1>13. ASSUME NEW w \in Workers, ReloadSecrets(w) PROVE FilesInv'
  <2>1. req[w].pc = "secrets" /\ req[w].pc \in InServices
    BY <1>13 DEF ReloadSecrets, InServices
  <2>2. UNCHANGED <<services, secrets, live, stale, up, left, behind>>
    BY <1>13 DEF ReloadSecrets, files
  <2>3. [id \in Ids |-> NoSecret] \in SecretSets /\ secrets \in SecretSets
    BY DEF SecretSets, TypeOK
  <2>4. PICK sec \in SecretSets :
          \E x : /\ req' = [req EXCEPT ![w] = x] /\ Swap(req[w], sec, x)
                 /\ x.fresh => sec = secrets
    <3>1. CASE req' = [req EXCEPT ![w] = [req[w] EXCEPT !.pc = "swap", !.sec = secrets]]
      BY <2>3, <3>1 DEF Swap
    <3>2. CASE req' = [req EXCEPT ![w] = [req[w] EXCEPT !.pc = "swap", !.fresh = FALSE,
                                                   !.sec = [id \in Ids |-> NoSecret]]]
      <4> DEFINE x == [req[w] EXCEPT !.pc = "swap", !.fresh = FALSE,
                                     !.sec = [id \in Ids |-> NoSecret]]
      <4>1. ~ x.fresh
        BY <1>4, <2>1 DEF Requests, Idle
      <4> QED
        BY <2>3, <3>2, <4>1 DEF Swap
    <3> QED
      BY <1>13, <3>1, <3>2 DEF ReloadSecrets
  <2>5. PICK x : /\ req' = [req EXCEPT ![w] = x] /\ Swap(req[w], sec, x)
                 /\ x.fresh => sec = secrets
    BY <2>4
  <2>6. /\ x.pc = "swap" /\ x.svc = req[w].svc /\ x.sec = sec
        /\ x.op = req[w].op /\ x.id = req[w].id /\ (x.fresh => req[w].fresh)
    BY <1>4, <2>1, <2>5, SwapTyped
  <2>7. req'[w] = x /\ \A v \in Workers \ {w} : Same(v)
    BY <2>5, OthersSame
  <2>8. Current(req[w])'
    BY <1>4, <2>1, <2>2, <2>5, <2>6, <2>7 DEF Current
  <2>9. Ahead(req'[w]) /\ (Half(req[w]) => Half(req'[w]))
    BY <2>1, <2>6, <2>7 DEF Ahead, Half
  <2> QED
    BY <2>2, <2>6, <2>7, <2>8, <2>9, QuietStep
<1>14. ASSUME NEW w \in Workers, ReloadFails(w) PROVE FilesInv'
  <2>1. /\ UNCHANGED <<services, secrets, live, stale, up>> /\ left' = left \cup LeftBy({w})
        /\ behind'
    BY <1>14 DEF ReloadFails
  <2>2. (\A v \in Workers \ {w} : Same(v)) /\ Current(req[w])'
    BY <1>7, <1>14 DEF ReloadFails
  <2> QED
    BY <1>6, <2>1, <2>2, QuietStep
<1>15. ASSUME NEW w \in Workers, NEW x, NEW stations \in SUBSET (InSecrets \cup InServices),
              Outdates(w, x, stations)
       PROVE  /\ req'[w] = x /\ \A v \in Workers \ {w} : Same(v)
              /\ \A v \in Workers \ {w} : req[v].pc \in stations => ~ req'[v].fresh
  BY <1>15, OthersOutdated
<1>16. /\ {"savesecret", "saveclear", "swap"} \in SUBSET (InSecrets \cup InServices)
       /\ {"save", "secrets", "swap"} \in SUBSET (InSecrets \cup InServices)
  BY DEF InSecrets, InServices
<1>17. ASSUME NEW w \in Workers, SaveSecrets(w) PROVE FilesInv'
  <2> DEFINE x == To(req[w], "load", None, None)
  <2>1. /\ req[w].pc = "savesecret" /\ req[w].pc \in InSecrets
        /\ "load" \in InServices \ InSecrets
        /\ Outdates(w, x, {"savesecret", "saveclear", "swap"})
    BY <1>17 DEF SaveSecrets, InSecrets, InServices
  <2>2. /\ x.pc = "load" /\ x.op = req[w].op /\ x.id = req[w].id /\ x.secret = req[w].secret
    BY <1>5, <2>1
  <2> HIDE DEF x
  <2>3. /\ req'[w] = x /\ \A v \in Workers \ {w} : Same(v)
        /\ \A v \in Workers \ {w} : req[v].pc \in {"savesecret", "saveclear", "swap"}
                                      => ~ req'[v].fresh
    BY <1>15, <1>16, <2>1
  <2>4. /\ req[w].id \in Ids /\ req[w].sec \in SecretSets /\ req[w].secret # NoSecret
        /\ Current(req[w])
    BY <1>4, <2>1 DEF HasRead, Current
  <2>5. services' = services /\ left' = left
    BY <1>17 DEF SaveSecrets
  <2>6. ASSUME NEW v \in Workers PROVE Current(req[v])'
    <3>1. CASE v = w
      BY <2>2, <2>3, <3>1 DEF Current
    <3>2. CASE v # w
      BY <2>3, <2>5, <3>2, CurrentKept DEF FilesInv
    <3> QED
      BY <3>1, <3>2
  <2>7. ClientsInv'
    BY <2>2, <2>3, <2>4 DEF ClientsInv, Ahead
  <2>8. ASSUME ~ stale', services # Torn, NEW id \in Ids \ Base, services[id] = None,
               secrets'[id] # NoSecret
        PROVE  Covered(id)'
    <3>1. ~ stale /\ req[w].fresh /\ secrets' = [req[w].sec EXCEPT ![req[w].id] = req[w].secret]
      BY <1>17, <2>8 DEF SaveSecrets
    <3>2. req[w].sec = secrets
      BY <2>1, <2>4, <3>1 DEF Current
    <3>3. CASE id = req[w].id
      BY <2>2, <2>3, <2>4, <3>3 DEF Covered, Half
    <3>4. CASE id # req[w].id
      <4>1. secrets[id] # NoSecret
        BY <2>4, <2>8, <3>1, <3>2, <3>4 DEF SecretSets
      <4>2. Covered(id)
        BY <2>8, <3>1, <4>1 DEF FilesInv, OrphanInv
      <4> QED
        BY <2>3, <2>5, <3>4, <4>2, SameMeans DEF Covered
    <3> QED
      BY <3>3, <3>4
  <2>9. OrphanInv'
    BY <2>5, <2>8 DEF OrphanInv
  <2> QED
    BY <2>6, <2>7, <2>9 DEF FilesInv
<1>18. ASSUME NEW w \in Workers, ClearSecret(w) PROVE FilesInv'
  <2>1. /\ req[w].pc = "saveclear" /\ req[w].pc \in InSecrets
        /\ Outdates(w, Idle, {"savesecret", "saveclear", "swap"})
    BY <1>18 DEF ClearSecret, InSecrets
  <2>2. /\ req'[w] = Idle /\ \A v \in Workers \ {w} : Same(v)
        /\ \A v \in Workers \ {w} : req[v].pc \in {"savesecret", "saveclear", "swap"}
                                      => ~ req'[v].fresh
    BY <1>15, <1>16, <2>1
  <2>3. req[w].id \in Ids /\ req[w].sec \in SecretSets /\ Current(req[w])
    BY <1>4, <2>1 DEF HasRead
  <2>4. /\ services' = services /\ left' = left \ {req[w].id} /\ live' = live /\ up' = up
        /\ secrets' = [req[w].sec EXCEPT ![req[w].id] = NoSecret]
    BY <1>18 DEF ClearSecret
  <2>5. ASSUME NEW v \in Workers PROVE Current(req[v])'
    <3>1. CASE v = w
      BY <2>2, <3>1 DEF Current, Idle
    <3>2. CASE v # w
      BY <2>2, <2>4, <3>2, CurrentKept DEF FilesInv
    <3> QED
      BY <3>1, <3>2
  <2>6. req[w].fresh => req[w].sec = secrets
    BY <2>1, <2>3 DEF Current
  <2>7. ClientsInv'
    <3> SUFFICES ASSUME up, ~ behind', services # Torn, \A v \in Workers : ~ Ahead(req'[v])
                 PROVE  live = Reloaded(services, secrets')
      BY <2>4 DEF ClientsInv
    <3>1. ~ behind /\ req[w].fresh /\ req[w].id \notin Base /\ services[req[w].id] = None
      BY <1>18 DEF ClearSecret
    <3>2. \A v \in Workers : ~ Ahead(req[v])
      BY <2>1, <2>2, SameMeans DEF Ahead
    <3>3. live = Reloaded(services, secrets)
      BY <3>1, <3>2 DEF FilesInv, ClientsInv
    <3>4. /\ services \in Services /\ secrets \in SecretSets /\ secrets' \in SecretSets
          /\ \A i \in Ids \ {req[w].id} : secrets'[i] = secrets[i]
      BY <2>3, <2>4, <2>6, <3>1 DEF TypeOK, SecretSets
    <3> QED
      BY <2>3, <3>1, <3>3, <3>4, GoneHasNoClient
  <2>8. ASSUME ~ stale', services # Torn, NEW id \in Ids \ Base, services[id] = None,
               secrets'[id] # NoSecret
        PROVE  Covered(id)'
    <3>1. ~ stale /\ req[w].fresh
      BY <1>18, <2>8 DEF ClearSecret
    <3>2. id # req[w].id /\ secrets[id] # NoSecret
      BY <2>3, <2>4, <2>6, <2>8, <3>1 DEF SecretSets
    <3>3. Covered(id)
      BY <2>8, <3>1, <3>2 DEF FilesInv, OrphanInv
    <3> QED
      BY <2>2, <2>4, <3>2, <3>3, SameMeans DEF Covered
  <2>9. OrphanInv'
    BY <2>4, <2>8 DEF OrphanInv
  <2> QED
    BY <2>5, <2>7, <2>9 DEF FilesInv
<1>19. ASSUME NEW w \in Workers, SaveServices(w) PROVE FilesInv'
  <2> DEFINE x == To(req[w], "reload", None, None)
  <2>1. /\ req[w].pc = "save" /\ req[w].pc \in InServices /\ ~ Refused(req[w])
        /\ "reload" \in InServices \ InSecrets
        /\ Outdates(w, x, {"save", "secrets", "swap"})
    BY <1>19 DEF SaveServices, InSecrets, InServices
  <2>2. /\ x.pc = "reload" /\ x.op = req[w].op /\ x.id = req[w].id
    BY <1>5, <2>1
  <2> HIDE DEF x
  <2>3. /\ req'[w] = x /\ \A v \in Workers \ {w} : Same(v)
        /\ \A v \in Workers \ {w} : req[v].pc \in {"save", "secrets", "swap"} => ~ req'[v].fresh
    BY <1>15, <1>16, <2>1
  <2>4. /\ req[w] \in Requests /\ HasRead(req[w]) /\ Current(req[w])
        /\ req[w].op \in {"add", "edit", "toggle", "del", "other", "renew"}
    BY <1>4, <2>1
  <2>5. services' = Edited(req[w]) /\ secrets' = secrets /\ left' = left
    BY <1>19 DEF SaveServices
  <2>6. ASSUME NEW v \in Workers PROVE Current(req[v])'
    <3>1. CASE v = w
      BY <2>2, <2>3, <3>1 DEF Current
    <3>2. CASE v # w
      BY <2>3, <2>5, <3>2, CurrentKept DEF FilesInv
    <3> QED
      BY <3>1, <3>2
  <2>7. ClientsInv'
    BY <2>2, <2>3 DEF ClientsInv, Ahead
  <2>8. ASSUME ~ stale', NEW id \in Ids \ Base, services'[id] = None, secrets[id] # NoSecret
        PROVE  Covered(id)'
    <3>1. ~ stale /\ req[w].fresh
      BY <1>19, <2>8 DEF SaveServices
    <3>2. req[w].svc = services /\ services # Torn
      BY <2>1, <2>4, <3>1, TornAssumption DEF Current, HasRead
    <3>3. CASE id = req[w].id
      <4>1. req[w].op = "del"
        BY <1>4, <2>1, <2>4, <2>5, <2>8, <3>3, EditedType, FederationAssumption
      <4> QED
        BY <2>2, <2>3, <3>3, <4>1 DEF Covered, Half
    <3>4. CASE id # req[w].id
      <4>1. services[id] = None
        BY <2>1, <2>4, <2>5, <2>8, <3>2, <3>4, EditedType
      <4>2. Covered(id)
        BY <2>8, <3>1, <3>2, <4>1 DEF FilesInv, OrphanInv
      <4> QED
        BY <2>3, <2>5, <3>4, <4>2, SameMeans DEF Covered
    <3> QED
      BY <3>3, <3>4
  <2>9. OrphanInv'
    BY <2>5, <2>8 DEF OrphanInv
  <2> QED
    BY <2>6, <2>7, <2>9 DEF FilesInv
<1>20. ASSUME NEW w \in Workers, SaveBreaks(w) PROVE FilesInv'
  <2>1. Outdates(w, Idle, {"save", "secrets", "swap"}) /\ services' = Torn /\ secrets' = secrets
    BY <1>20 DEF SaveBreaks
  <2>2. /\ req'[w] = Idle /\ \A v \in Workers \ {w} : Same(v)
        /\ \A v \in Workers \ {w} : req[v].pc \in {"save", "secrets", "swap"} => ~ req'[v].fresh
    BY <1>15, <1>16, <2>1
  <2>3. ASSUME NEW v \in Workers PROVE Current(req[v])'
    <3>1. CASE v = w
      BY <2>2, <3>1 DEF Current, Idle
    <3>2. CASE v # w
      BY <2>1, <2>2, <3>2, CurrentKept DEF FilesInv
    <3> QED
      BY <3>1, <3>2
  <2> QED
    BY <2>1, <2>3 DEF FilesInv, ClientsInv, OrphanInv
<1>21. ASSUME NEW w \in Workers, ReloadSwaps(w) PROVE FilesInv'
  <2>1. /\ req[w].pc = "swap" /\ req[w].pc \in InServices
        /\ services' = services /\ secrets' = secrets /\ stale' = stale /\ up' = up
        /\ live' = Reloaded(req[w].svc, req[w].sec) /\ left \subseteq left'
        /\ ~ behind' => req[w].fresh
    BY <1>21 DEF ReloadSwaps, InServices
  <2>2. ClientsInv'
    BY <1>4, <2>1 DEF ClientsInv, Current
  <2>3. /\ \A v \in Workers \ {w} : Same(v)
        /\ req'[w].pc \in {"idle", "loadclear"}
        /\ Half(req[w]) => req[w].id \in left' \/ (Half(req'[w]) /\ req'[w].id = req[w].id)
    <3>1. CASE req' = [req EXCEPT ![w] = Idle] /\ left' = left \cup LeftBy({w})
      <4>1. (\A v \in Workers \ {w} : Same(v)) /\ req'[w] = Idle
        BY <1>7, <3>1
      <4>2. req'[w].pc = "idle"
        BY <4>1 DEF Idle
      <4> QED
        BY <1>6, <3>1, <4>1, <4>2
    <3>2. CASE req' = [req EXCEPT ![w] = AfterReload(req[w])] /\ req[w].op = "del"
      <4> DEFINE x == To(req[w], "loadclear", None, None)
      <4>1. req[w].id \in Ids /\ "loadclear" \in InSecrets /\ req' = [req EXCEPT ![w] = x]
        BY <1>4, <2>1, <3>2 DEF InSecrets, AfterReload
      <4>2. x.pc = "loadclear" /\ x.op = req[w].op /\ x.id = req[w].id
        BY <1>5, <2>1, <4>1
      <4> HIDE DEF x
      <4>3. req'[w] = x /\ \A v \in Workers \ {w} : Same(v)
        BY <4>1, OthersSame
      <4> QED
        BY <3>2, <4>2, <4>3 DEF Half
    <3>3. CASE req' = [req EXCEPT ![w] = AfterReload(req[w])] /\ req[w].op # "del"
      <4>1. ~ Half(req[w]) /\ req' = [req EXCEPT ![w] = Idle]
        BY <2>1, <3>3 DEF Half, AfterReload
      <4>2. (\A v \in Workers \ {w} : Same(v)) /\ req'[w] = Idle
        BY <1>7, <4>1
      <4>3. req'[w].pc = "idle"
        BY <4>2 DEF Idle
      <4> QED
        BY <4>1, <4>2, <4>3
    <3> QED
      BY <1>21, <3>1, <3>2, <3>3 DEF ReloadSwaps
  <2>4. ASSUME NEW v \in Workers PROVE Current(req[v])'
    <3>1. CASE v = w
      BY <2>3, <3>1 DEF Current
    <3>2. CASE v # w
      BY <2>1, <2>3, <3>2, CurrentKept DEF FilesInv
    <3> QED
      BY <3>1, <3>2
  <2>5. ASSUME NEW id, Covered(id) PROVE Covered(id)'
    BY <2>1, <2>3, <2>5, SameMeans DEF Covered
  <2>6. OrphanInv'
    BY <2>1, <2>5 DEF FilesInv, OrphanInv
  <2> QED
    BY <2>2, <2>4, <2>6 DEF FilesInv
<1>22. CASE Crash
  <2>1. /\ req' = [w \in Workers |-> Idle] /\ ~ up' /\ left' = left \cup LeftBy(Workers)
        /\ services' = services /\ secrets' = secrets /\ stale' = stale
    BY <1>22 DEF Crash
  <2>2. \A w \in Workers : Current(req[w])'
    BY <2>1 DEF Current, Idle
  <2>3. ASSUME NEW id, Covered(id) PROVE Covered(id)'
    BY <2>1, <2>3 DEF Covered, LeftBy
  <2>4. OrphanInv'
    BY <2>1, <2>3 DEF FilesInv, OrphanInv
  <2> QED
    BY <2>1, <2>2, <2>4 DEF FilesInv, ClientsInv
<1>23. CASE Boot
  BY <1>23 DEF Boot, FilesInv, Current, ClientsInv, OrphanInv, Covered
<1>24. CASE \/ \E e \in Emails, id \in Ids : UserCommand(e, id)
            \/ \E w \in Workers, e \in Emails :
                 UserAdd(w, e) \/ UserDel(w, e) \/ \E neu \in Emails : UserEmail(w, e, neu)
            \/ \E w \in Workers : SaveUsers(w) \/ SaveUsersFails(w) \/ Replace(w)
            \/ BootRefused
  <2>1. UNCHANGED <<files, req, up>>
    BY <1>24 DEF UserCommand, UserAdd, UserDel, UserEmail, Mutate, SaveUsers, SaveUsersFails,
                 Replace, BootRefused
  <2> QED
    BY <2>1, FilesFrame
<1>25. CASE \E b \in Browsers :
              \/ \E id \in Ids : OIDCStart(b, id)
              \/ Exchange(b) \/ ExchangeFails(b) \/ Lookup(b) \/ CreateSession(b)
  BY <1>25, FilesFrame DEF OIDCStart, Exchange, ExchangeFails, Lookup, CreateSession
<1>26. CASE \E f \in 1..Len(began), e \in Emails : Consent(f, e)
  BY <1>26, FilesFrame DEF Consent
<1>27. CASE \E b \in Browsers, id \in Ids, f \in 1..Len(began), code \in codes :
              OIDCCallback(b, id, f, code)
  BY <1>27, FilesFrame DEF OIDCCallback
<1>28. CASE UNCHANGED vars
  BY <1>28, FilesFrame DEF vars
<1> QED
  BY <1>2, <1>3, <1>8, <1>9, <1>10, <1>11, <1>12, <1>13, <1>14, <1>17, <1>18, <1>19, <1>20,
     <1>21, <1>22, <1>23, <1>24, <1>25, <1>26, <1>27, <1>28 DEF Next

\* The inductive invariant of the two files holds (handlers/providers.go).
THEOREM FilesCorrect == Spec => []FilesInv
<1>1. Init => FilesInv
  BY DEF Init, FilesInv, Current, ClientsInv, OrphanInv, Idle
<1> QED
  BY <1>1, FilesStep, TypeCorrect, PTL DEF Spec

\* When no request is under way the clients are those of the two files, for any
\* number of requests, renewals and Reloads side by side, changes and failures,
\* unless a Reload failed or came too late (handlers/server.go:122-153).
THEOREM ClientsCorrect == Spec => []ClientsCurrent
<1>1. FilesInv => ClientsCurrent
  BY DEF FilesInv, ClientsInv, Ahead, ClientsCurrent, Quiet, Idle
<1> QED
  BY <1>1, FilesCorrect, PTL

\* A removed provider leaves no secret behind, for any number of requests side by
\* side, unless a step failed or a file was written from an old copy
\* (handlers/providers.go:165-179, 266-285).
THEOREM SecretsCorrect == Spec => []NoOrphanSecret
<1>1. FilesInv => NoOrphanSecret
  BY DEF FilesInv, OrphanInv, Covered, Half, NoOrphanSecret, Quiet, Idle
<1> QED
  BY <1>1, FilesCorrect, PTL
=============================================================================
