----------------------------- MODULE Publishing -----------------------------
(***************************************************************************)
(* How a published service reaches the gate and NGINX: services.json,      *)
(* Reload (the resolver, the state under Server.mu, the generated          *)
(* backends.conf), the certificate pair of a host, and NGINX itself, which *)
(* loads those files when its poller sees them change (Docker) or when the *)
(* core runs the reload command (host).  Handlers, the boot and the        *)
(* renewal goroutine call Reload on their own, with no lock around it.     *)
(***************************************************************************)
EXTENDS Naturals

CONSTANTS
  Ids,           \* the backends an administrator may publish
  Settings,      \* what a backend's entry says (host, routes, rule, www...)
  None,          \* no entry under this id
  Panels,        \* the links, monitors, admin IPs and providers of services.json
  NoPanel,       \* none of them
  Handlers,      \* the admin requests that may be at work together
  Main,          \* the main goroutine: boot, then the renewal loop
  Empty, Torn,   \* services.json truncated, or not parsing
  Modes,         \* the deployments considered, among "docker" and "host"
  MaxCerts,      \* bound: certificates issued for the host
  MaxEdits,      \* bound: changes an administrator starts
  MaxCrashes     \* bound: crashes of the core

ASSUME PublishingAssumption ==
  /\ Main \notin Handlers
  /\ NoPanel \in Panels
  /\ Modes \subseteq {"docker", "host"}
  /\ MaxCerts \in Nat \ {0} /\ MaxEdits \in Nat /\ MaxCrashes \in Nat

Workers == Handlers \cup {Main}

Entry == [on : BOOLEAN, set : Settings]
Services == [backends : [Ids -> Entry \cup {None}], panel : Panels]

\* An absent entry is no entry, and a file that does not parse is no services.
ASSUME FilesAssumption == None \notin Entry /\ {Empty, Torn} \cap Services = {}

\* The enabled backends: what the resolver and backends.conf are built from.
On(svc) == {<<id, svc.backends[id].set>> :
              id \in {i \in Ids : svc.backends[i] # None /\ svc.backends[i].on}}

Routes == SUBSET (Ids \X Settings)
Conf == [routes : Routes, tls : BOOLEAN]
Idle == [pc |-> "idle"]

VARIABLES
  phase,      \* "down", "starting" or "up"
  mode,       \* DEPLOY_MODE
  services,   \* services.json
  resolver,   \* Resolver.backends
  shared,     \* the fields under Server.mu
  conf,       \* backends.conf
  crt, key,   \* the pair of the host: the number of the issue, 0 for no file
  issued,     \* the number of the last certificate obtained
  running,    \* the configuration and certificate NGINX runs with
  last,       \* the poller's last hash: of backends.conf and the certificate
  polling,    \* the poller has seen a change and is about to load it
  job,        \* job[w]: how far worker w has got
  reloadOK,   \* whether the last Reload returned no error
  nginxOK,    \* whether NGINX accepted what it was last told to load
  late,       \* history: the poller's last load found other files than it hashed
  raced,      \* history: two workers have been at work at the same time
  edits, crashes

files == <<services, conf, crt, key, issued>>
gate == <<resolver, shared>>
nginx == <<running, last, polling, nginxOK, late>>
bounds == <<edits, crashes>>
vars == <<phase, mode, files, gate, nginx, job, reloadOK, raced, bounds>>

Readable == services \in Services
Served == [routes : Routes, cert : 0..MaxCerts]

Steps == {"open", "write", "crt", "key", "rmcrt", "rmkey", "load", "resolver",
          "shared", "generate", "conf", "signal"}

\* The step a worker is at, what it has read or will write, whether a certificate
\* is still to come, and the number of the one it is writing.
Job == [pc : Steps, svc : Services, tls : BOOLEAN, issue : BOOLEAN, pair : 0..MaxCerts]

TypeOK ==
  /\ phase \in {"down", "starting", "up"}
  /\ mode \in Modes
  /\ services \in Services \cup {Empty, Torn}
  /\ resolver \in Routes
  /\ shared \in Panels
  /\ conf \in Conf
  /\ {crt, key, issued} \subseteq 0..MaxCerts
  /\ running \in Served
  /\ last \in Conf \X (0..MaxCerts)
  /\ job \in [Workers -> Job \cup {Idle}]
  /\ {reloadOK, nginxOK, late, raced, polling} \subseteq BOOLEAN
  /\ edits \in 0..MaxEdits /\ crashes \in 0..MaxCrashes

\* A core that has booted on the backends it found, with no links or monitors
\* yet, with or without a certificate, and NGINX running what it wrote.
Init ==
  /\ phase = "up"
  /\ mode \in Modes
  /\ services \in {svc \in Services : svc.panel = NoPanel}
  /\ resolver = On(services)
  /\ shared = services.panel
  /\ crt \in 0..1 /\ key = crt /\ issued = crt
  /\ conf = [routes |-> On(services), tls |-> crt # 0]
  /\ running = [routes |-> On(services), cert |-> crt]
  /\ last = <<conf, crt>>
  /\ job = [w \in Workers |-> Idle]
  /\ reloadOK = TRUE /\ nginxOK = TRUE /\ polling = FALSE
  /\ late = FALSE
  /\ raced = FALSE
  /\ edits = 0 /\ crashes = 0

-----------------------------------------------------------------------------
(* Workers.                                                                *)

Goto(w, pc) == job' = [job EXCEPT ![w].pc = pc]

\* Mutant: the worker's record is not cleared.
DoneKeeps(w) ==
  /\ job' = [job EXCEPT ![w].pc = "idle"]
  /\ phase' = IF phase = "starting" THEN "up" ELSE phase

\* The worker returns; the server listens once the boot has.
Done(w) ==
  /\ job' = [job EXCEPT ![w] = Idle]
  /\ phase' = IF phase = "starting" THEN "up" ELSE phase

Begin(w, pc, svc, issue) ==
  /\ job[w] = Idle
  /\ job' = [job EXCEPT ![w] =
       [pc |-> pc, svc |-> svc, tls |-> FALSE, issue |-> issue, pair |-> 0]]
  /\ raced' = (raced \/ \E v \in Workers : job[v] # Idle)
  /\ UNCHANGED <<phase, mode, files, gate, nginx, reloadOK>>

\* A worker that has not read services.json.
Blank == [backends |-> [id \in Ids |-> None], panel |-> NoPanel]

\* The end of a mutateServices or a Reload: handleTLSIssue goes on to the
\* certificate whatever came of its www flag, everyone else returns.
Proceed(w) ==
  IF job[w].issue
    THEN job' = [job EXCEPT ![w].pc = "crt", ![w].issue = FALSE] /\ UNCHANGED phase
    ELSE Done(w)

\* An administrator's request.
Request(w, pc, svc, issue) ==
  /\ phase = "up"
  /\ edits < MaxEdits
  /\ edits' = edits + 1
  /\ Begin(w, pc, svc, issue)
  /\ UNCHANGED crashes

-----------------------------------------------------------------------------
(* mutateServices: LoadServices, the handler's change, SaveServices in     *)
(* place, then Reload.  A file that does not parse refuses every change.   *)

SetBackend(w, id, entry, issue) ==
  Request(w, "open", [services EXCEPT !.backends[id] = entry], issue)

\* An id that is taken is refused, or shown for editing.
BackendAdd(w, id, set) ==
  /\ Readable
  /\ services.backends[id] = None
  /\ SetBackend(w, id, [on |-> TRUE, set |-> set], FALSE)

\* A container found by discovery; it is published like any other backend.
DiscoverAdd(w, id, set) == BackendAdd(w, id, set)

\* The selected host ports, all in one change; taken ids are skipped.
HostScanAdd(w, S, set) ==
  /\ Readable
  /\ Request(w, "open",
       [services EXCEPT !.backends = [id \in Ids |->
          IF id \in S /\ @[id] = None THEN [on |-> TRUE, set |-> set] ELSE @[id]]],
       FALSE)

BackendDel(w, id) ==
  /\ Readable
  /\ SetBackend(w, id, None, FALSE)

BackendToggle(w, id) ==
  /\ Readable
  /\ services.backends[id] # None
  /\ SetBackend(w, id, [services.backends[id] EXCEPT !.on = ~ @], FALSE)

\* handleBackendEdit; the grants it commits after that are changes of the user
\* directory (UserStore).
BackendEdit(w, id, set) ==
  /\ Readable
  /\ services.backends[id] # None
  /\ SetBackend(w, id, [services.backends[id] EXCEPT !.set = set], FALSE)

SetPanel(w, panel) ==
  /\ Readable
  /\ Request(w, "open", [services EXCEPT !.panel = panel], FALSE)

\* handleLinkAdd, handleLinkDel.
LinkEdit(w, panel) == SetPanel(w, panel)

LinkToggle(w, panel) == SetPanel(w, panel)

\* handleMonitorAdd, handleMonitorDel.
MonitorEdit(w, panel) == SetPanel(w, panel)

\* handleAdminIPs; a list without the caller's address is refused.
AdminIPs(w, panel) == SetPanel(w, panel)

\* SaveServices truncates the file ...
Open(w) ==
  /\ job[w].pc = "open"
  /\ services' = Empty
  /\ Goto(w, "write")
  /\ UNCHANGED <<phase, mode, conf, crt, key, issued, gate, nginx, reloadOK, raced, bounds>>

\* ... and writes; what another handler wrote since may stick out behind.
Write(w) ==
  /\ job[w].pc = "write"
  /\ services' \in IF services = Empty THEN {job[w].svc} ELSE {job[w].svc, Torn}
  /\ Goto(w, "load")
  /\ UNCHANGED <<phase, mode, conf, crt, key, issued, gate, nginx, reloadOK, raced, bounds>>

WriteFails(w) ==
  /\ job[w].pc = "write"
  /\ services' \in {Empty, Torn}
  /\ Proceed(w)
  /\ UNCHANGED <<mode, conf, crt, key, issued, gate, nginx, reloadOK, raced, bounds>>

-----------------------------------------------------------------------------
(* Reload.                                                                 *)

Reloaded(w, ok) ==
  /\ reloadOK' = ok
  /\ Proceed(w)

LoadServices(w) ==
  /\ job[w].pc = "load"
  /\ \/ /\ Readable
        /\ job' = [job EXCEPT ![w].pc = "resolver", ![w].svc = services]
        /\ UNCHANGED <<phase, reloadOK>>
     \/ /\ ~ Readable
        /\ Reloaded(w, FALSE)
  /\ UNCHANGED <<mode, files, gate, nginx, raced, bounds>>

\* Mutant: backends that are switched off are merged too.
SetResolverAll(w) ==
  /\ job[w].pc = "resolver"
  /\ resolver' = {<<id, job[w].svc.backends[id].set>> :
                    id \in {i \in Ids : job[w].svc.backends[i] # None}}
  /\ Goto(w, "shared")
  /\ UNCHANGED <<phase, mode, files, shared, nginx, reloadOK, raced, bounds>>

SetResolver(w) ==
  /\ job[w].pc = "resolver"
  /\ resolver' = On(job[w].svc)
  /\ Goto(w, "shared")
  /\ UNCHANGED <<phase, mode, files, shared, nginx, reloadOK, raced, bounds>>

SetShared(w) ==
  /\ job[w].pc = "shared"
  /\ shared' = job[w].svc.panel
  /\ Goto(w, "generate")
  /\ UNCHANGED <<phase, mode, files, resolver, nginx, reloadOK, raced, bounds>>

\* proxy.Generate: one vhost per enabled backend, with TLS if HasCert finds both
\* files.
Generate(w) ==
  /\ job[w].pc = "generate"
  /\ job' = [job EXCEPT ![w].pc = "conf", ![w].tls = (crt # 0 /\ key # 0)]
  /\ UNCHANGED <<phase, mode, files, gate, nginx, reloadOK, raced, bounds>>

\* Mutant: on the host too, the file is written and NGINX is not told.
ApplySilently(w) ==
  /\ job[w].pc = "conf"
  /\ conf' = [routes |-> On(job[w].svc), tls |-> job[w].tls]
  /\ Reloaded(w, TRUE)
  /\ UNCHANGED <<mode, services, crt, key, issued, gate, nginx, raced, bounds>>

\* Manager.Apply writes backends.conf by rename; in a directory it may not
\* write to, nothing happens but the error.
Apply(w) ==
  /\ job[w].pc = "conf"
  /\ conf' = [routes |-> On(job[w].svc), tls |-> job[w].tls]
  /\ IF mode = "host" THEN Goto(w, "signal") /\ UNCHANGED <<phase, reloadOK>>
                      ELSE Reloaded(w, TRUE)
  /\ UNCHANGED <<mode, services, crt, key, issued, gate, nginx, raced, bounds>>

ApplyFails(w) ==
  /\ job[w].pc = "conf"
  /\ Reloaded(w, FALSE)
  /\ UNCHANGED <<mode, files, gate, nginx, raced, bounds>>

\* nginx -t: a vhost with TLS needs a certificate and its own key.
Valid == conf.tls => crt # 0 /\ crt = key

NginxLoads ==
  IF Valid
    THEN running' = [routes |-> conf.routes, cert |-> IF conf.tls THEN crt ELSE 0]
    ELSE UNCHANGED running

\* Manager.reload: the command's failure is Reload's failure.
Signal(w) ==
  /\ job[w].pc = "signal"
  /\ NginxLoads
  /\ nginxOK' = Valid
  /\ Reloaded(w, Valid)
  /\ UNCHANGED <<mode, files, gate, last, polling, late, raced, bounds>>

-----------------------------------------------------------------------------
(* Certificates.                                                           *)

\* handleTLSIssue: first the www flag of the host's backend, then the pair.
TLSIssue(w, id, set) ==
  /\ Readable
  /\ services.backends[id] # None
  /\ issued < MaxCerts
  /\ SetBackend(w, id, [services.backends[id] EXCEPT !.set = set], TRUE)

\* handleTLSRenew; handleTLSIssue when services.json cannot be read.
TLSRenew(w) ==
  /\ issued < MaxCerts
  /\ Request(w, "crt", Blank, FALSE)

\* handleTLSDelete, for a host with or without a certificate.
TLSDelete(w) ==
  Request(w, "rmcrt", Blank, FALSE)

\* renewDue: an ACME certificate close to its end.
Renew ==
  /\ phase = "up"
  /\ crt # 0
  /\ issued < MaxCerts
  /\ Begin(Main, "crt", Blank, FALSE)
  /\ UNCHANGED bounds

\* writePair: the certificate, then the key, each by rename, then Reload.
WriteCrt(w) ==
  /\ job[w].pc = "crt"
  /\ issued < MaxCerts
  /\ issued' = issued + 1
  /\ crt' = issued + 1
  /\ job' = [job EXCEPT ![w].pc = "key", ![w].pair = issued + 1]
  /\ UNCHANGED <<phase, mode, services, conf, key, gate, nginx, reloadOK, raced, bounds>>

WriteKey(w) ==
  /\ job[w].pc = "key"
  /\ key' = job[w].pair
  /\ Goto(w, "load")
  /\ UNCHANGED <<phase, mode, services, conf, crt, issued, gate, nginx, reloadOK, raced, bounds>>

\* The issuer refuses, or a file cannot be written: no Reload.
IssueFails(w) ==
  /\ job[w].pc \in {"crt", "key"}
  /\ Done(w)
  /\ UNCHANGED <<mode, files, gate, nginx, reloadOK, raced, bounds>>

RemoveCrt(w) ==
  /\ job[w].pc = "rmcrt"
  /\ crt' = 0
  /\ Goto(w, "rmkey")
  /\ UNCHANGED <<phase, mode, services, conf, key, issued, gate, nginx, reloadOK, raced, bounds>>

RemoveKey(w) ==
  /\ job[w].pc = "rmkey"
  /\ key' = 0
  /\ Goto(w, "load")
  /\ UNCHANGED <<phase, mode, services, conf, crt, issued, gate, nginx, reloadOK, raced, bounds>>

-----------------------------------------------------------------------------
(* nginx/entrypoint.sh (Docker): every two seconds the hash of conf.d and  *)
(* of the certificates is compared and recorded; the keys are not in it.   *)

\* Mutant: only the certificates are hashed.
PollHashCerts ==
  /\ mode = "docker"
  /\ ~ polling
  /\ last[2] # crt
  /\ last' = <<conf, crt>>
  /\ polling' = TRUE
  /\ UNCHANGED <<phase, mode, files, gate, running, nginxOK, late, job, reloadOK, raced, bounds>>

\* Mutant: only the configuration is hashed.
PollHashConf ==
  /\ mode = "docker"
  /\ ~ polling
  /\ last[1] # conf
  /\ last' = <<conf, crt>>
  /\ polling' = TRUE
  /\ UNCHANGED <<phase, mode, files, gate, running, nginxOK, late, job, reloadOK, raced, bounds>>

PollHash ==
  /\ mode = "docker"
  /\ ~ polling
  /\ last # <<conf, crt>>
  /\ last' = <<conf, crt>>
  /\ polling' = TRUE
  /\ UNCHANGED <<phase, mode, files, gate, running, nginxOK, late, job, reloadOK, raced, bounds>>

\* nginx -t, then nginx -s reload, on the files as they are by now.
PollLoad ==
  /\ polling
  /\ polling' = FALSE
  /\ NginxLoads
  /\ nginxOK' = Valid
  /\ late' = (last # <<conf, crt>>)
  /\ UNCHANGED <<phase, mode, files, gate, last, job, reloadOK, raced, bounds>>

-----------------------------------------------------------------------------
(* The core stops anywhere; it starts again only on a services.json that   *)
(* parses, and listens once its first Reload has returned.                 *)

Crash ==
  /\ phase # "down"
  /\ crashes < MaxCrashes
  /\ crashes' = crashes + 1
  /\ phase' = "down"
  /\ job' = [w \in Workers |-> Idle]
  /\ UNCHANGED <<mode, files, gate, nginx, reloadOK, raced, edits>>

Boot ==
  /\ phase = "down"
  /\ Readable
  /\ phase' = "starting"
  /\ resolver' = {}
  /\ shared' = NoPanel
  /\ job' = [job EXCEPT ![Main] =
       [pc |-> "load", svc |-> Blank, tls |-> FALSE, issue |-> FALSE, pair |-> 0]]
  /\ UNCHANGED <<mode, files, nginx, reloadOK, raced, bounds>>

-----------------------------------------------------------------------------
Handle(w) ==
  \/ \E id \in Ids :
       \/ BackendDel(w, id)
       \/ BackendToggle(w, id)
       \/ \E set \in Settings :
            \/ BackendAdd(w, id, set)
            \/ DiscoverAdd(w, id, set)
            \/ BackendEdit(w, id, set)
            \/ TLSIssue(w, id, set)
  \/ \E S \in SUBSET Ids, set \in Settings : HostScanAdd(w, S, set)
  \/ \E panel \in Panels :
       \/ LinkEdit(w, panel) \/ LinkToggle(w, panel)
       \/ MonitorEdit(w, panel) \/ AdminIPs(w, panel)
  \/ TLSRenew(w)
  \/ TLSDelete(w)

Save(w) == Open(w) \/ Write(w) \/ WriteFails(w)

Reload(w) ==
  \/ LoadServices(w) \/ SetResolver(w) \/ SetShared(w)
  \/ Generate(w) \/ Apply(w) \/ ApplyFails(w) \/ Signal(w)

Issue(w) == WriteCrt(w) \/ WriteKey(w) \/ IssueFails(w) \/ RemoveCrt(w) \/ RemoveKey(w)

Work(w) == Save(w) \/ Reload(w) \/ Issue(w)

Next ==
  \/ \E w \in Handlers : Handle(w)
  \/ \E w \in Workers : Work(w)
  \/ Renew
  \/ PollHash
  \/ PollLoad
  \/ Crash
  \/ Boot

\* Goroutines run on, the poller polls, and a stopped core is started again
\* (restart: unless-stopped).  Nobody has to make a change.
Fairness ==
  /\ \A w \in Workers : WF_vars(Work(w))
  /\ WF_vars(PollHash)
  /\ WF_vars(PollLoad)
  /\ WF_vars(Boot)

Spec == Init /\ [][Next]_vars /\ Fairness

-----------------------------------------------------------------------------
Quiet == phase = "up" /\ \A w \in Workers : job[w] = Idle

\* Nothing went wrong that anybody was told of.
Reported == Readable /\ reloadOK

\* Between changes the gate decides by what services.json says, through any
\* crash between two of Reload's steps, as long as no two workers met
\* (server.go:122-153).
GateCurrent ==
  Quiet /\ Reported /\ ~ raced => resolver = On(services) /\ shared = services.panel

\* The same whoever met: "Safe to call at runtime.", server.go:121.
ReloadSafe == Quiet /\ Reported => resolver = On(services)

\* Nothing is going on any more, and nothing was refused.
Settled == Quiet /\ Reported /\ ~ raced /\ nginxOK

\* The poller has seen the files as they are, and has loaded them.
Rested == mode = "docker" => ~ polling /\ last = <<conf, crt>>

\* Whenever NGINX has nothing left to load it serves exactly the enabled backends
\* of services.json, with the certificate on disk if its key is there too, in
\* either deployment and whatever crashed, failed or was renewed before: under the
\* conditions of Published (server.go:122-153, manager.go:37, entrypoint.sh:22).
NginxCurrent ==
  Settled /\ ~ late /\ Rested =>
    /\ running.routes = On(services)
    /\ crt # 0 /\ crt = key => running.cert = crt

\* Once changes stop, NGINX comes to serve exactly the enabled backends of
\* services.json, whatever crashed in between, unless workers met, nginx -t
\* refused the last load, or that load was of other files than the poller had
\* hashed (server.go:149, manager.go:37, entrypoint.sh:22).
Published ==
  <>[](Settled /\ ~ late) => <>[](Readable /\ running.routes = On(services))

\* Under the same conditions NGINX comes to serve the certificate on disk, once
\* it is there with its key: "certs must be watched too or NGINX would keep
\* serving the old certificate", nginx/entrypoint.sh:14.
CertServed ==
  <>[](Settled /\ ~ late /\ crt # 0 /\ crt = key) => <>[](running.cert = crt)
=============================================================================
