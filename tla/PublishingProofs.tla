-------------------------- MODULE PublishingProofs --------------------------
(***************************************************************************)
(* Reload and publication, for any backends, handlers, changes, issued     *)
(* certificates and crashes, in either deployment.                         *)
(***************************************************************************)
EXTENDS Publishing, TLAPS

(* Types.                                                                  *)

\* What a worker at a step carries, and that it may go on to any other step.
LEMMA AtStep ==
  ASSUME job \in [Workers -> Job \cup {Idle}], NEW w \in Workers, job[w].pc \in Steps
  PROVE  /\ job[w] \in Job /\ job[w] # Idle
         /\ job[w].svc \in Services /\ job[w].tls \in BOOLEAN /\ job[w].issue \in BOOLEAN
         /\ job[w].pair \in 0..MaxCerts
         /\ \A pc \in Steps : [job[w] EXCEPT !.pc = pc] \in Job
<1>1. Idle.pc \notin Steps
  BY DEF Idle, Steps
<1>2. job[w] \in Job
  BY <1>1
<1> QED
  BY <1>1, <1>2 DEF Job

\* Every step is one of the steps.
LEMMA StepNames ==
  /\ "open" \in Steps /\ "write" \in Steps /\ "crt" \in Steps /\ "key" \in Steps
  /\ "rmcrt" \in Steps /\ "rmkey" \in Steps /\ "load" \in Steps /\ "resolver" \in Steps
  /\ "shared" \in Steps /\ "generate" \in Steps /\ "conf" \in Steps /\ "signal" \in Steps
BY DEF Steps

LEMMA GotoType ==
  ASSUME job \in [Workers -> Job \cup {Idle}], NEW w \in Workers, job[w].pc \in Steps,
         NEW pc \in Steps, Goto(w, pc)
  PROVE  job' \in [Workers -> Job \cup {Idle}]
BY AtStep DEF Goto

LEMMA DoneType ==
  ASSUME TypeOK, NEW w \in Workers, Done(w)
  PROVE  /\ job' \in [Workers -> Job \cup {Idle}]
         /\ phase' \in {"down", "starting", "up"}
BY DEF Done, TypeOK

LEMMA ProceedType ==
  ASSUME TypeOK, NEW w \in Workers, job[w].pc \in Steps, Proceed(w)
  PROVE  /\ job' \in [Workers -> Job \cup {Idle}]
         /\ phase' \in {"down", "starting", "up"}
<1>1. CASE job[w].issue
  <2>1. job[w] \in Job
    BY AtStep DEF TypeOK
  <2>2. [job[w] EXCEPT !.pc = "crt", !.issue = FALSE] \in Job
    BY <2>1, StepNames DEF Job
  <2> QED
    BY <1>1, <2>2 DEF Proceed, TypeOK
<1>2. CASE ~ job[w].issue
  BY <1>2, DoneType DEF Proceed
<1> QED
  BY <1>1, <1>2

\* The enabled backends are routes.
LEMMA OnType ==
  ASSUME NEW svc \in Services
  PROVE  On(svc) \in Routes
<1> SUFFICES ASSUME NEW id \in Ids, svc.backends[id] # None
             PROVE  <<id, svc.backends[id].set>> \in Ids \X Settings
  BY DEF On, Routes
<1>1. svc.backends[id] \in Entry
  BY DEF Services
<1> QED
  BY <1>1 DEF Entry

LEMMA BeginType ==
  ASSUME TypeOK, NEW w \in Workers, NEW pc \in Steps, NEW svc \in Services,
         NEW issue \in BOOLEAN, Begin(w, pc, svc, issue)
  PROVE  /\ job' \in [Workers -> Job \cup {Idle}] /\ raced' \in BOOLEAN
         /\ UNCHANGED <<phase, mode, files, gate, nginx, reloadOK>>
<1>1. [pc |-> pc, svc |-> svc, tls |-> FALSE, issue |-> issue, pair |-> 0] \in Job
  BY PublishingAssumption DEF Job
<1> QED
  BY <1>1 DEF Begin, TypeOK

LEMMA BlankType == Blank \in Services
BY PublishingAssumption DEF Blank, Services

LEMMA RequestType ==
  ASSUME TypeOK, NEW w \in Workers, NEW pc \in Steps, NEW svc \in Services,
         NEW issue \in BOOLEAN, Request(w, pc, svc, issue)
  PROVE  TypeOK'
<1>1. edits' \in 0..MaxEdits
  BY PublishingAssumption DEF Request, TypeOK
<1>2. Begin(w, pc, svc, issue) /\ UNCHANGED crashes
  BY DEF Request
<1> QED
  BY <1>1, <1>2, BeginType DEF TypeOK, files, gate, nginx

\* The services an administrator's request asks for.
LEMMA EditedType ==
  ASSUME Readable, NEW id \in Ids, NEW entry \in Entry \cup {None}
  PROVE  [services EXCEPT !.backends[id] = entry] \in Services
BY DEF Readable, Services

LEMMA EntryType ==
  ASSUME Readable, NEW id \in Ids
  PROVE  /\ \A set \in Settings : [on |-> TRUE, set |-> set] \in Entry
         /\ services.backends[id] # None =>
              /\ \A set \in Settings : [services.backends[id] EXCEPT !.set = set] \in Entry
              /\ [services.backends[id] EXCEPT !.on = ~ @] \in Entry
<1>1. services.backends[id] # None => services.backends[id] \in Entry
  BY DEF Readable, Services
<1> QED
  BY <1>1 DEF Entry

\* Whatever an administrator asks for begins a change of services.json, or of the
\* certificate, with services that are some.
LEMMA HandleIsRequest ==
  ASSUME NEW w \in Handlers, Handle(w)
  PROVE  \E pc \in {"open", "crt", "rmcrt"}, svc \in Services, issue \in BOOLEAN :
           Request(w, pc, svc, issue)
<1>1. ASSUME NEW id \in Ids, BackendDel(w, id) \/ BackendToggle(w, id)
      PROVE  \E svc \in Services : Request(w, "open", svc, FALSE)
  BY <1>1, EditedType, EntryType DEF BackendDel, BackendToggle, SetBackend
<1>2. ASSUME NEW id \in Ids, NEW set \in Settings,
             BackendAdd(w, id, set) \/ DiscoverAdd(w, id, set) \/ BackendEdit(w, id, set)
      PROVE  \E svc \in Services : Request(w, "open", svc, FALSE)
  BY <1>2, EditedType, EntryType DEF BackendAdd, DiscoverAdd, BackendEdit, SetBackend
<1>3. ASSUME NEW id \in Ids, NEW set \in Settings, TLSIssue(w, id, set)
      PROVE  \E svc \in Services : Request(w, "open", svc, TRUE)
  BY <1>3, EditedType, EntryType DEF TLSIssue, SetBackend
<1>4. ASSUME NEW S \in SUBSET Ids, NEW set \in Settings, HostScanAdd(w, S, set)
      PROVE  \E svc \in Services : Request(w, "open", svc, FALSE)
  <2> DEFINE bs == [id \in Ids |-> IF id \in S /\ services.backends[id] = None
                                     THEN [on |-> TRUE, set |-> set]
                                     ELSE services.backends[id]]
             svc == [services EXCEPT !.backends = bs]
  <2>1. Readable /\ services \in Services
    BY <1>4 DEF HostScanAdd, Readable
  <2>2. bs \in [Ids -> Entry \cup {None}]
    BY <2>1, EntryType DEF Services
  <2> HIDE DEF bs
  <2>3. svc \in Services
    BY <2>1, <2>2 DEF Services
  <2>4. Request(w, "open", svc, FALSE)
    BY <1>4 DEF HostScanAdd, bs
  <2> QED
    BY <2>3, <2>4
<1>5. ASSUME NEW panel \in Panels,
             \/ LinkEdit(w, panel) \/ LinkToggle(w, panel)
             \/ MonitorEdit(w, panel) \/ AdminIPs(w, panel)
      PROVE  \E svc \in Services : Request(w, "open", svc, FALSE)
  <2>1. SetPanel(w, panel)
    BY <1>5 DEF LinkEdit, LinkToggle, MonitorEdit, AdminIPs
  <2>2. Readable => [services EXCEPT !.panel = panel] \in Services
    BY DEF Readable, Services
  <2> QED
    BY <2>1, <2>2 DEF SetPanel
<1>6. CASE TLSRenew(w) \/ TLSDelete(w)
  BY <1>6, BlankType DEF TLSRenew, TLSDelete
<1> QED
  BY <1>1, <1>2, <1>3, <1>4, <1>5, <1>6 DEF Handle

\* Every step keeps the types.
LEMMA TypeStep ==
  ASSUME TypeOK, [Next]_vars
  PROVE  TypeOK'
<1> USE StepNames
<1>1. ASSUME NEW w \in Handlers, Handle(w) PROVE TypeOK'
  BY <1>1, HandleIsRequest, RequestType DEF Workers
<1>2. ASSUME NEW w \in Workers, Save(w) PROVE TypeOK'
  <2>1. CASE Open(w)
    BY <2>1, GotoType DEF Open, TypeOK, gate, nginx, bounds
  <2>2. CASE Write(w)
    <3>1. job[w].svc \in Services
      BY <2>2, AtStep DEF Write, TypeOK
    <3> QED
      BY <2>2, <3>1, GotoType DEF Write, TypeOK, gate, nginx, bounds
  <2>3. CASE WriteFails(w)
    BY <2>3, ProceedType DEF WriteFails, TypeOK, gate, nginx, bounds
  <2> QED
    BY <1>2, <2>1, <2>2, <2>3 DEF Save
<1>3. ASSUME NEW w \in Workers, Reload(w) PROVE TypeOK'
  <2>1. CASE LoadServices(w)
    <3>1. CASE Readable
      <4>1. [job[w] EXCEPT !.pc = "resolver", !.svc = services] \in Job
        BY <2>1, <3>1, AtStep DEF LoadServices, TypeOK, Readable, Job
      <4> QED
        BY <2>1, <3>1, <4>1 DEF LoadServices, TypeOK, files, gate, nginx, bounds
    <3>2. CASE ~ Readable
      BY <2>1, <3>2, ProceedType DEF LoadServices, Reloaded, TypeOK, files, gate, nginx, bounds
    <3> QED
      BY <3>1, <3>2
  <2>2. CASE SetResolver(w)
    <3>1. On(job[w].svc) \in Routes
      BY <2>2, AtStep, OnType DEF SetResolver, TypeOK
    <3> QED
      BY <2>2, <3>1, GotoType DEF SetResolver, TypeOK, files, nginx, bounds
  <2>3. CASE SetShared(w)
    <3>1. job[w].svc.panel \in Panels
      BY <2>3, AtStep DEF SetShared, TypeOK, Services
    <3> QED
      BY <2>3, <3>1, GotoType DEF SetShared, TypeOK, files, nginx, bounds
  <2>4. CASE Generate(w)
    <3>1. [job[w] EXCEPT !.pc = "conf", !.tls = (crt # 0 /\ key # 0)] \in Job
      BY <2>4, AtStep DEF Generate, TypeOK, Job
    <3> QED
      BY <2>4, <3>1 DEF Generate, TypeOK, files, gate, nginx, bounds
  <2>5. CASE Apply(w)
    <3>1. On(job[w].svc) \in Routes /\ job[w].tls \in BOOLEAN
      BY <2>5, AtStep, OnType DEF Apply, TypeOK
    <3>2. conf' \in Conf
      BY <2>5, <3>1 DEF Apply, Conf
    <3>3. /\ job' \in [Workers -> Job \cup {Idle}] /\ phase' \in {"down", "starting", "up"}
          /\ reloadOK' \in BOOLEAN
      BY <2>5, GotoType, ProceedType DEF Apply, Reloaded, TypeOK
    <3> QED
      BY <2>5, <3>2, <3>3 DEF Apply, TypeOK, gate, nginx, bounds
  <2>6. CASE ApplyFails(w)
    BY <2>6, ProceedType DEF ApplyFails, Reloaded, TypeOK, files, gate, nginx, bounds
  <2>7. CASE Signal(w)
    <3>1. running' \in Served
      BY <2>7, PublishingAssumption DEF Signal, NginxLoads, TypeOK, Served, Conf
    <3>2. Valid \in BOOLEAN
      BY DEF Valid, TypeOK
    <3>3. /\ job' \in [Workers -> Job \cup {Idle}] /\ phase' \in {"down", "starting", "up"}
      BY <2>7, ProceedType DEF Signal, Reloaded
    <3> QED
      BY <2>7, <3>1, <3>2, <3>3 DEF Signal, Reloaded, TypeOK, files, gate, bounds
  <2> QED
    BY <1>3, <2>1, <2>2, <2>3, <2>4, <2>5, <2>6, <2>7 DEF Reload
<1>4. ASSUME NEW w \in Workers, Issue(w) PROVE TypeOK'
  <2>1. CASE WriteCrt(w)
    <3>1. issued + 1 \in 0..MaxCerts
      BY <2>1, PublishingAssumption DEF WriteCrt, TypeOK
    <3>2. [job[w] EXCEPT !.pc = "key", !.pair = issued + 1] \in Job
      BY <2>1, <3>1, AtStep DEF WriteCrt, TypeOK, Job
    <3> QED
      BY <2>1, <3>1, <3>2 DEF WriteCrt, TypeOK, gate, nginx, bounds
  <2>2. CASE WriteKey(w)
    <3>1. job[w].pair \in 0..MaxCerts
      BY <2>2, AtStep DEF WriteKey, TypeOK
    <3> QED
      BY <2>2, <3>1, GotoType DEF WriteKey, TypeOK, gate, nginx, bounds
  <2>3. CASE IssueFails(w)
    BY <2>3, DoneType DEF IssueFails, TypeOK, files, gate, nginx, bounds
  <2>4. CASE RemoveCrt(w)
    BY <2>4, GotoType, PublishingAssumption DEF RemoveCrt, TypeOK, gate, nginx, bounds
  <2>5. CASE RemoveKey(w)
    BY <2>5, GotoType, PublishingAssumption DEF RemoveKey, TypeOK, gate, nginx, bounds
  <2> QED
    BY <1>4, <2>1, <2>2, <2>3, <2>4, <2>5 DEF Issue
<1>5. CASE Renew
  BY <1>5, BeginType, BlankType DEF Renew, Workers, TypeOK, files, gate, nginx, bounds
<1>6. CASE PollHash
  BY <1>6 DEF PollHash, TypeOK, files, gate, bounds
<1>7. CASE PollLoad
  <2>1. running' \in Served
    BY <1>7, PublishingAssumption DEF PollLoad, NginxLoads, TypeOK, Served, Conf
  <2>2. Valid \in BOOLEAN
    BY DEF Valid, TypeOK
  <2> QED
    BY <1>7, <2>1, <2>2 DEF PollLoad, TypeOK, files, gate, bounds
<1>8. CASE Crash
  BY <1>8, PublishingAssumption DEF Crash, TypeOK, files, gate, nginx
<1>9. CASE Boot
  <2>1. [pc |-> "load", svc |-> Blank, tls |-> FALSE, issue |-> FALSE, pair |-> 0] \in Job
    BY BlankType, PublishingAssumption DEF Job
  <2>2. {} \in Routes /\ NoPanel \in Panels
    BY PublishingAssumption DEF Routes
  <2> QED
    BY <1>9, <2>1, <2>2 DEF Boot, TypeOK, files, nginx, bounds
<1>10. CASE UNCHANGED vars
  BY <1>10 DEF vars, TypeOK, files, gate, nginx, bounds
<1> QED
  BY <1>1, <1>2, <1>3, <1>4, <1>5, <1>6, <1>7, <1>8, <1>9, <1>10 DEF Next, Work

LEMMA TypeInit == Init => TypeOK
<1> SUFFICES ASSUME Init PROVE TypeOK
  OBVIOUS
<1>1. On(services) \in Routes /\ services \in Services /\ services.panel \in Panels
  BY OnType DEF Init, Services
<1>2. crt \in 0..MaxCerts /\ key \in 0..MaxCerts /\ issued \in 0..MaxCerts
  BY PublishingAssumption DEF Init
<1>3. conf \in Conf /\ running \in Served
  BY <1>1, <1>2 DEF Init, Conf, Served
<1>4. edits \in 0..MaxEdits /\ crashes \in 0..MaxCrashes
  BY PublishingAssumption DEF Init
<1> QED
  BY <1>1, <1>2, <1>3, <1>4 DEF Init, TypeOK

\* Files, gate, NGINX and workers keep their types (handlers/server.go,
\* handlers/admin.go, certmgr/manager.go, nginx/entrypoint.sh).
THEOREM TypeCorrect == Spec => []TypeOK
BY TypeInit, TypeStep, PTL DEF Spec

-----------------------------------------------------------------------------
(* The gate.                                                               *)

\* The gate decides by services.json.
Current == resolver = On(services) /\ shared = services.panel

\* What a worker's step says of the gate, if nobody else is at work: from the
\* moment Reload has read the file its copy is the file, the resolver follows,
\* then the fields under the lock; a worker at a certificate has left the gate
\* as it found it, or has gone through Reload.
FarAlong(w) ==
  LET pc == job[w].pc
      tail == {"generate", "conf", "signal"}
  IN  /\ pc \in {"resolver", "shared"} \cup tail => Readable /\ job[w].svc = services
      /\ pc \in {"shared"} \cup tail => resolver = On(services)
      /\ pc \in tail => shared = services.panel
      /\ pc \in {"crt", "key"} => (Reported => Current)

\* At most one worker is at work.
Alone == \A v, w \in Workers : job[v] # Idle /\ job[w] # Idle => v = w

\* While the core starts, its main goroutine is at work, on Reload and nothing
\* else; while it is down nobody is.
Starting ==
  /\ phase = "down" => \A w \in Workers : job[w] = Idle
  /\ phase = "starting" =>
       /\ job[Main] # Idle /\ ~ job[Main].issue
       /\ job[Main].pc \in {"load", "resolver", "shared", "generate", "conf", "signal"}

GateInv ==
  ~ raced =>
    /\ Alone
    /\ Starting
    /\ \A w \in Workers : job[w] # Idle => FarAlong(w)
    /\ GateCurrent

ReloadSteps == {"load", "resolver", "shared", "generate", "conf", "signal"}

\* A worker that is alone takes a step: what is left to show concerns that worker
\* only, and the gate if it returns.
LEMMA LoneStep ==
  ASSUME TypeOK, GateInv, ~ raced, NEW w \in Workers, job[w] # Idle,
         \A v \in Workers : v # w => job'[v] = job[v],
         UNCHANGED raced,
         Starting',
         job'[w] # Idle => FarAlong(w)',
         job'[w] = Idle => (Reported => Current)'
  PROVE  GateInv'
<1>1. \A v \in Workers : v # w => job'[v] = Idle
  BY DEF GateInv, Alone
<1>2. Alone'
  BY <1>1 DEF Alone
<1>3. \A v \in Workers : job'[v] # Idle => FarAlong(v)'
  BY <1>1
<1>4. GateCurrent'
  BY DEF GateCurrent, Quiet, Current
<1> QED
  BY <1>2, <1>3, <1>4 DEF GateInv

\* Going on to the next step of Reload, or returning, is what a start does.
LEMMA StartGoes ==
  ASSUME TypeOK, GateInv, ~ raced, NEW w \in Workers, job[w].pc \in Steps, UNCHANGED phase,
         \A v \in Workers : v # w => job'[v] = job[v],
         job'[w] # Idle, job'[w].issue = job[w].issue,
         job[w].pc \in ReloadSteps => job'[w].pc \in ReloadSteps
  PROVE  Starting'
<1>1. job[w] # Idle /\ phase # "down"
  BY AtStep DEF TypeOK, GateInv, Starting
<1>2. phase = "starting" => w = Main
  BY <1>1 DEF GateInv, Starting, Alone, Workers
<1> QED
  BY <1>1, <1>2 DEF GateInv, Starting, ReloadSteps

LEMMA StartReturns ==
  ASSUME TypeOK, GateInv, ~ raced, NEW w \in Workers, job[w].pc \in Steps, Proceed(w) \/ Done(w)
  PROVE  /\ Starting'
         /\ \A v \in Workers : v # w => job'[v] = job[v]
         /\ job'[w] = Idle \/ job'[w].pc = "crt"
<1>1. job[w] \in Job /\ job[w] # Idle /\ phase # "down"
  BY AtStep DEF TypeOK, GateInv, Starting
<1>2. phase = "starting" => w = Main /\ ~ job[w].issue
  BY <1>1 DEF GateInv, Starting, Alone, Workers
<1>3. CASE Done(w)
  BY <1>1, <1>3 DEF Done, Starting, TypeOK
<1>4. CASE Proceed(w) /\ job[w].issue
  BY <1>1, <1>2, <1>4 DEF Proceed, Starting, TypeOK, Job
<1> QED
  BY <1>3, <1>4 DEF Proceed

\* A request, or the renewal, that finds nobody at work.
LEMMA LoneBegin ==
  ASSUME TypeOK, GateInv, NEW w \in Workers, NEW pc \in {"open", "crt", "rmcrt"},
         NEW svc, NEW issue, phase = "up", Begin(w, pc, svc, issue)
  PROVE  GateInv'
<1> SUFFICES ASSUME ~ raced' PROVE GateInv'
  BY DEF GateInv
<1>1. ~ raced /\ \A v \in Workers : job[v] = Idle
  BY DEF Begin, TypeOK
<1>2. Reported => Current
  BY <1>1 DEF GateInv, GateCurrent, Quiet, Current
<1>3. job'[w].pc = pc /\ \A v \in Workers : v # w => job'[v] = Idle
  BY <1>1 DEF Begin, TypeOK
<1>4. job'[w] # Idle
  BY <1>3 DEF Idle
<1>5. UNCHANGED <<phase, files, gate, reloadOK>>
  BY DEF Begin
<1>6. Alone'
  BY <1>3 DEF Alone
<1>7. Starting'
  BY <1>5 DEF Starting
<1>8. (Reported => Current)'
  BY <1>2, <1>5 DEF Reported, Readable, Current, files, gate
<1>9. \A v \in Workers : job'[v] # Idle => FarAlong(v)'
  BY <1>3, <1>8 DEF FarAlong
<1>10. GateCurrent'
  BY <1>4 DEF GateCurrent, Quiet
<1> QED
  BY <1>6, <1>7, <1>9, <1>10 DEF GateInv

\* A worker that goes on with its job, past services.json as this step leaves it.
LEMMA LoneGoto ==
  ASSUME TypeOK, GateInv, ~ raced, NEW w \in Workers, job[w].pc \in Steps, NEW pc \in Steps,
         Goto(w, pc), job[w].pc \in ReloadSteps => pc \in ReloadSteps,
         UNCHANGED <<phase, raced>>, FarAlong(w)'
  PROVE  GateInv'
<1>1. job[w] \in Job /\ job[w] # Idle
  BY AtStep DEF TypeOK
<1>2. job'[w] = [job[w] EXCEPT !.pc = pc] /\ \A v \in Workers : v # w => job'[v] = job[v]
  BY DEF Goto, TypeOK
<1>3. job'[w].pc = pc /\ job'[w].issue = job[w].issue /\ job'[w] # Idle
  BY <1>1, <1>2 DEF Job, Idle, Steps
<1>4. Starting'
  BY <1>2, <1>3, StartGoes
<1> QED
  BY <1>1, <1>2, <1>3, <1>4, LoneStep

\* A worker that returns, or goes on to the certificate, after a step that leaves
\* the gate as services.json has it, or with an error.
LEMMA LoneReturn ==
  ASSUME TypeOK, GateInv, ~ raced, NEW w \in Workers, job[w].pc \in Steps,
         Proceed(w) \/ Done(w), UNCHANGED raced, (Reported => Current)'
  PROVE  GateInv'
<1>1. job[w] # Idle
  BY AtStep DEF TypeOK
<1>2. /\ Starting'
      /\ \A v \in Workers : v # w => job'[v] = job[v]
      /\ job'[w] = Idle \/ job'[w].pc = "crt"
  BY StartReturns
<1>3. job'[w] # Idle => FarAlong(w)'
  BY <1>2 DEF FarAlong
<1> QED
  BY <1>1, <1>2, <1>3, LoneStep

\* Every step keeps what is known of the gate.
LEMMA GateStep ==
  ASSUME TypeOK, GateInv, [Next]_vars
  PROVE  GateInv'
<1> USE StepNames
<1>1. ASSUME NEW w \in Handlers, Handle(w) PROVE GateInv'
  <2>1. PICK pc \in {"open", "crt", "rmcrt"}, svc \in Services, issue \in BOOLEAN :
          Request(w, pc, svc, issue)
    BY <1>1, HandleIsRequest
  <2> QED
    BY <2>1, LoneBegin DEF Request, Workers
<1>2. CASE Renew
  BY <1>2, LoneBegin DEF Renew, Workers
<1>3. ASSUME NEW w \in Workers, Work(w) PROVE GateInv'
  <2>0. UNCHANGED raced
    BY <1>3 DEF Work, Save, Reload, Issue, Open, Write, WriteFails, LoadServices, SetResolver,
       SetShared, Generate, Apply, ApplyFails, Signal, WriteCrt, WriteKey, IssueFails,
       RemoveCrt, RemoveKey
  <2> SUFFICES ASSUME ~ raced PROVE GateInv'
    BY <2>0 DEF GateInv
  <2>f. job[w].pc \in Steps => FarAlong(w)
    BY AtStep DEF GateInv, TypeOK
  <2>g. ASSUME NEW pc, Goto(w, pc), job[w].pc \in Steps
        PROVE  job'[w].pc = pc /\ job'[w].svc = job[w].svc
    BY <2>g, AtStep DEF Goto, TypeOK, Job
  <2>1. CASE Open(w)
    <3>1. FarAlong(w)'
      BY <2>1, <2>g DEF Open, FarAlong
    <3> QED
      BY <2>0, <2>1, <3>1, LoneGoto DEF Open, ReloadSteps
  <2>2. CASE Write(w)
    <3>1. FarAlong(w)'
      BY <2>2, <2>g DEF Write, FarAlong
    <3> QED
      BY <2>0, <2>2, <3>1, LoneGoto DEF Write, ReloadSteps
  <2>3. CASE WriteFails(w)
    <3>1. ~ Readable'
      BY <2>3, FilesAssumption DEF WriteFails, Readable
    <3> QED
      BY <2>0, <2>3, <3>1, LoneReturn DEF WriteFails, Reported
  <2>4. CASE LoadServices(w)
    <3>1. CASE Readable
      <4>1. job' = [job EXCEPT ![w].pc = "resolver", ![w].svc = services]
        BY <2>4, <3>1 DEF LoadServices
      <4>2. UNCHANGED <<phase, services>> /\ job[w].pc = "load"
        BY <2>4, <3>1 DEF LoadServices, files
      <4>3. /\ job'[w].pc = "resolver" /\ job'[w].svc = services
            /\ job'[w].issue = job[w].issue
            /\ \A v \in Workers : v # w => job'[v] = job[v]
        BY <4>1, <4>2, AtStep DEF TypeOK, Job
      <4>4. FarAlong(w)'
        BY <3>1, <4>2, <4>3 DEF FarAlong, Readable
      <4>5. job'[w] # Idle /\ job[w] # Idle
        BY <4>2, <4>3 DEF Idle
      <4>6. Starting'
        BY <4>2, <4>3, <4>5, StartGoes DEF ReloadSteps
      <4> QED
        BY <2>0, <4>3, <4>4, <4>5, <4>6, LoneStep
    <3>2. CASE ~ Readable
      BY <2>0, <2>4, <3>2, LoneReturn DEF LoadServices, Reloaded, Reported
    <3> QED
      BY <3>1, <3>2
  <2>5. CASE SetResolver(w)
    <3>1. FarAlong(w)'
      BY <2>5, <2>f, <2>g DEF SetResolver, FarAlong, Readable, files
    <3> QED
      BY <2>0, <2>5, <3>1, LoneGoto DEF SetResolver, ReloadSteps
  <2>6. CASE SetShared(w)
    <3>1. FarAlong(w)'
      BY <2>6, <2>f, <2>g DEF SetShared, FarAlong, Readable, files
    <3> QED
      BY <2>0, <2>6, <3>1, LoneGoto DEF SetShared, ReloadSteps
  <2>7. CASE Generate(w)
    <3>1. job[w].pc = "generate" /\ UNCHANGED <<phase, services, resolver, shared>>
      BY <2>7 DEF Generate, files, gate
    <3>2. /\ job'[w].pc = "conf" /\ job'[w].svc = job[w].svc
          /\ job'[w].issue = job[w].issue
          /\ \A v \in Workers : v # w => job'[v] = job[v]
      BY <2>7, <3>1, AtStep DEF Generate, TypeOK, Job
    <3>3. FarAlong(w)'
      BY <2>f, <3>1, <3>2 DEF FarAlong, Readable
    <3>4. job'[w] # Idle /\ job[w] # Idle
      BY <3>1, <3>2 DEF Idle
    <3>5. Starting'
      BY <3>1, <3>2, <3>4, StartGoes DEF ReloadSteps
    <3> QED
      BY <2>0, <3>2, <3>3, <3>4, <3>5, LoneStep
  <2>8. CASE Apply(w)
    <3>1. job[w].pc = "conf" /\ UNCHANGED <<services, resolver, shared>>
      BY <2>8 DEF Apply, gate
    <3>2. CASE mode = "host"
      <4>1. Goto(w, "signal") /\ UNCHANGED phase
        BY <2>8, <3>2 DEF Apply
      <4>2. FarAlong(w)'
        BY <2>f, <2>g, <3>1, <4>1 DEF FarAlong, Readable
      <4> QED
        BY <2>0, <3>1, <4>1, <4>2, LoneGoto DEF ReloadSteps
    <3>3. CASE mode # "host"
      <4>1. Proceed(w)
        BY <2>8, <3>3 DEF Apply, Reloaded
      <4>2. Current'
        BY <2>f, <3>1 DEF FarAlong, Current
      <4> QED
        BY <2>0, <3>1, <4>1, <4>2, LoneReturn
    <3> QED
      BY <3>2, <3>3
  <2>9. CASE ApplyFails(w)
    BY <2>0, <2>9, LoneReturn DEF ApplyFails, Reloaded, Reported
  <2>10. CASE Signal(w)
    <3>1. Current'
      BY <2>f, <2>10 DEF Signal, FarAlong, Current, files, gate
    <3> QED
      BY <2>0, <2>10, <3>1, LoneReturn DEF Signal, Reloaded
  <2>11. CASE WriteCrt(w)
    <3>1. job[w].pc = "crt" /\ UNCHANGED <<phase, services, resolver, shared, reloadOK>>
      BY <2>11 DEF WriteCrt, gate
    <3>2. /\ job'[w].pc = "key" /\ job'[w].issue = job[w].issue
          /\ \A v \in Workers : v # w => job'[v] = job[v]
      BY <2>11, <3>1, AtStep DEF WriteCrt, TypeOK, Job
    <3>3. FarAlong(w)'
      BY <2>f, <3>1, <3>2 DEF FarAlong, Reported, Readable, Current
    <3>4. job'[w] # Idle /\ job[w] # Idle
      BY <3>1, <3>2 DEF Idle
    <3>5. Starting'
      BY <3>1, <3>2, <3>4, StartGoes DEF ReloadSteps
    <3> QED
      BY <2>0, <3>2, <3>3, <3>4, <3>5, LoneStep
  <2>12. CASE WriteKey(w)
    <3>1. FarAlong(w)'
      BY <2>12, <2>g DEF WriteKey, FarAlong
    <3> QED
      BY <2>0, <2>12, <3>1, LoneGoto DEF WriteKey, ReloadSteps
  <2>13. CASE IssueFails(w)
    <3>1. (Reported => Current)'
      BY <2>f, <2>13 DEF IssueFails, FarAlong, Reported, Readable, Current, files, gate
    <3> QED
      BY <2>0, <2>13, <3>1, LoneReturn DEF IssueFails
  <2>14. CASE RemoveCrt(w)
    <3>1. FarAlong(w)'
      BY <2>14, <2>g DEF RemoveCrt, FarAlong
    <3> QED
      BY <2>0, <2>14, <3>1, LoneGoto DEF RemoveCrt, ReloadSteps
  <2>15. CASE RemoveKey(w)
    <3>1. FarAlong(w)'
      BY <2>15, <2>g DEF RemoveKey, FarAlong
    <3> QED
      BY <2>0, <2>15, <3>1, LoneGoto DEF RemoveKey, ReloadSteps
  <2> QED
    BY <1>3, <2>1, <2>2, <2>3, <2>4, <2>5, <2>6, <2>7, <2>8, <2>9, <2>10, <2>11, <2>12, <2>13,
       <2>14, <2>15 DEF Work, Save, Reload, Issue
<1>4. ASSUME UNCHANGED <<phase, services, resolver, shared, job, reloadOK, raced>> PROVE GateInv'
  BY <1>4 DEF GateInv, Alone, Starting, FarAlong, GateCurrent, Quiet, Reported, Readable, Current
<1>5. CASE Crash
  <2>1. phase' = "down" /\ \A w \in Workers : job'[w] = Idle
    BY <1>5 DEF Crash
  <2> QED
    BY <2>1 DEF GateInv, Alone, Starting, GateCurrent, Quiet
<1>6. CASE Boot
  <2> SUFFICES ASSUME ~ raced PROVE GateInv'
    BY <1>6 DEF Boot, GateInv
  <2>1. \A w \in Workers : job[w] = Idle
    BY <1>6 DEF Boot, GateInv, Starting
  <2>2. /\ phase' = "starting" /\ job'[Main].pc = "load" /\ ~ job'[Main].issue
        /\ \A w \in Workers : w # Main => job'[w] = Idle
    BY <1>6, <2>1 DEF Boot, TypeOK, Workers
  <2>3. job'[Main] # Idle
    BY <2>2 DEF Idle
  <2>4. Alone' /\ Starting'
    BY <2>2, <2>3 DEF Alone, Starting
  <2>5. \A w \in Workers : job'[w] # Idle => FarAlong(w)'
    BY <2>2 DEF FarAlong
  <2> QED
    BY <2>2, <2>4, <2>5 DEF GateInv, GateCurrent, Quiet
<1> QED
  BY <1>1, <1>2, <1>3, <1>4, <1>5, <1>6
  DEF Next, PollHash, PollLoad, vars, files, gate

\* Between changes the gate decides by services.json, for any backends, handlers
\* and crashes, as long as no two workers met (handlers/server.go:122-153).
THEOREM GateCorrect == Spec => []GateCurrent
<1>1. Init => GateInv
  BY DEF Init, GateInv, Alone, Starting, GateCurrent, Quiet
<1>2. TypeOK /\ GateInv => GateCurrent
  BY DEF GateInv, GateCurrent
<1> QED
  BY <1>1, <1>2, TypeInit, TypeStep, GateStep, PTL DEF Spec

-----------------------------------------------------------------------------
(* NGINX.                                                                  *)

\* backends.conf is what services.json and the pair on disk make of it.
ConfCurrent ==
  /\ conf.routes = On(services)
  /\ crt # 0 /\ crt = key => conf.tls

NginxNow ==
  /\ running.routes = On(services)
  /\ crt # 0 /\ crt = key => running.cert = crt

\* What a Reload that reported no error leaves; on the host NGINX has loaded it too.
Shown == ConfCurrent /\ (mode = "host" /\ nginxOK => NginxNow)

\* What a worker's step says of backends.conf, if nobody else is at work.
Along(w) ==
  /\ job[w].pc = "conf" => job[w].tls = (crt # 0 /\ key # 0)
  /\ job[w].pc = "signal" => ConfCurrent
  /\ job[w].pc \in {"crt", "key"} => (Reported => Shown)

ShownInv ==
  ~ raced =>
    /\ \A w \in Workers : job[w] # Idle => Along(w)
    /\ Quiet /\ Reported => Shown

\* Certificates are numbered as they are issued, and only the host has a command.
Counted ==
  /\ key <= issued
  /\ \A w \in Workers : job[w] # Idle =>
       job[w].pair <= issued /\ (job[w].pc = "signal" => mode = "host")

\* Only Docker has a poller: what it hashed before it last loaded is what NGINX runs
\* with, if it was accepted and the files had stayed as they were.
Polled ==
  /\ polling => mode = "docker"
  /\ mode = "docker" /\ ~ polling /\ ~ late /\ nginxOK =>
       /\ running.routes = last[1].routes
       /\ last[1].tls => running.cert = last[2]

LEMMA CountedBegin ==
  ASSUME TypeOK, Counted, NEW w \in Workers, NEW pc \in {"open", "crt", "rmcrt"},
         NEW svc, NEW issue, Begin(w, pc, svc, issue)
  PROVE  Counted'
<1>1. /\ job'[w].pc = pc /\ job'[w].pair = 0 /\ \A v \in Workers : v # w => job'[v] = job[v]
      /\ UNCHANGED <<key, issued, mode>>
  BY DEF Begin, TypeOK, files
<1> QED
  BY <1>1 DEF Counted, TypeOK

\* A worker that goes on or returns.
LEMMA CountedGoes ==
  ASSUME TypeOK, Counted, NEW w \in Workers, job[w].pc \in Steps,
         \/ \E pc \in Steps : Goto(w, pc) /\ (pc = "signal" => mode = "host")
         \/ Proceed(w) \/ Done(w),
         UNCHANGED <<issued, mode>>, key' <= issued
  PROVE  Counted'
<1>1. job[w] \in Job /\ job[w] # Idle
  BY AtStep DEF TypeOK
<1>2. /\ \A v \in Workers : v # w => job'[v] = job[v]
      /\ \/ job'[w] = Idle
         \/ job'[w].pair = job[w].pair /\ (job'[w].pc = "signal" => mode = "host")
  <2>1. CASE \E pc \in Steps : Goto(w, pc) /\ (pc = "signal" => mode = "host")
    BY <1>1, <2>1 DEF Goto, TypeOK, Job
  <2>2. CASE Done(w)
    BY <2>2 DEF Done, TypeOK
  <2>3. CASE Proceed(w) /\ job[w].issue
    BY <1>1, <2>3 DEF Proceed, TypeOK, Job
  <2> QED
    BY <2>1, <2>2, <2>3 DEF Proceed
<1> QED
  BY <1>1, <1>2 DEF Counted

LEMMA CountedStep ==
  ASSUME TypeOK, Counted, [Next]_vars
  PROVE  Counted'
<1> USE StepNames
<1>1. ASSUME NEW w \in Handlers, Handle(w) PROVE Counted'
  BY <1>1, HandleIsRequest, CountedBegin DEF Request, Workers
<1>2. CASE Renew
  BY <1>2, CountedBegin DEF Renew, Workers
<1>3. ASSUME NEW w \in Workers, Work(w) PROVE Counted'
  <2>0. key <= issued
    BY DEF Counted
  <2>1. CASE Save(w)
    BY <2>0, <2>1, CountedGoes DEF Save, Open, Write, WriteFails
  <2>2. CASE LoadServices(w) \/ Generate(w)
    <3>1. CASE Proceed(w)
      BY <2>0, <2>2, <3>1, CountedGoes DEF LoadServices, Generate, files
    <3>2. CASE ~ Proceed(w)
      <4>1. job[w].pc \in Steps /\ UNCHANGED <<key, issued, mode>>
        BY <2>2 DEF LoadServices, Generate, files
      <4>2. job[w] \in Job /\ job[w] # Idle
        BY <4>1, AtStep DEF TypeOK
      <4>3. /\ \A v \in Workers : v # w => job'[v] = job[v]
            /\ job'[w].pair = job[w].pair /\ job'[w].pc # "signal"
        BY <2>2, <3>2, <4>2 DEF LoadServices, Generate, Reloaded, TypeOK, Job
      <4> QED
        BY <4>1, <4>2, <4>3 DEF Counted
    <3> QED
      BY <3>1, <3>2
  <2>3. CASE SetResolver(w) \/ SetShared(w) \/ Apply(w) \/ ApplyFails(w) \/ Signal(w)
    BY <2>0, <2>3, CountedGoes
    DEF SetResolver, SetShared, Apply, ApplyFails, Signal, Reloaded, files
  <2>4. CASE WriteCrt(w)
    <3>1. job[w] \in Job /\ job[w] # Idle
      BY <2>4, AtStep DEF WriteCrt, TypeOK
    <3>2. issued \in Nat /\ key \in Nat
      BY PublishingAssumption DEF TypeOK
    <3>3. \A v \in Workers : job[v] # Idle => job[v].pair \in Nat
      BY PublishingAssumption DEF TypeOK, Job
    <3>4. /\ \A v \in Workers : v # w => job'[v] = job[v]
          /\ job'[w].pair = issued + 1 /\ job'[w].pc = "key"
      BY <2>4, <3>1 DEF WriteCrt, TypeOK, Job
    <3>5. issued' = issued + 1 /\ UNCHANGED <<key, mode>>
      BY <2>4 DEF WriteCrt
    <3>6. key' <= issued'
      BY <3>2, <3>5 DEF Counted
    <3>7. ASSUME NEW v \in Workers, job'[v] # Idle
          PROVE  job'[v].pair <= issued' /\ (job'[v].pc = "signal" => mode' = "host")
      <4>1. CASE v = w
        BY <3>2, <3>4, <3>5, <4>1
      <4>2. CASE v # w
        BY <3>2, <3>3, <3>4, <3>5, <3>7, <4>2 DEF Counted
      <4> QED
        BY <4>1, <4>2
    <3> QED
      BY <3>6, <3>7 DEF Counted
  <2>5. CASE WriteKey(w)
    <3>1. job[w].pc \in Steps /\ job[w].pair <= issued
      BY <2>5, AtStep DEF WriteKey, TypeOK, Counted
    <3> QED
      BY <2>5, <3>1, CountedGoes DEF WriteKey
  <2>6. CASE IssueFails(w) \/ RemoveCrt(w)
    BY <2>0, <2>6, CountedGoes DEF IssueFails, RemoveCrt, files
  <2>7. CASE RemoveKey(w)
    <3>1. 0 <= issued
      BY DEF TypeOK
    <3> QED
      BY <2>7, <3>1, CountedGoes DEF RemoveKey
  <2> QED
    BY <1>3, <2>1, <2>2, <2>3, <2>4, <2>5, <2>6, <2>7 DEF Work, Reload, Issue
<1>4. CASE Crash
  BY <1>4 DEF Crash, Counted, files
<1>5. CASE Boot
  <2>1. /\ job'[Main].pc = "load" /\ job'[Main].pair = 0
        /\ \A v \in Workers : v # Main => job'[v] = job[v]
        /\ UNCHANGED <<key, issued, mode>>
    BY <1>5 DEF Boot, TypeOK, files, Workers
  <2> QED
    BY <2>1 DEF Counted, TypeOK
<1>6. ASSUME UNCHANGED <<key, issued, mode, job>> PROVE Counted'
  BY <1>6 DEF Counted
<1> QED
  BY <1>1, <1>2, <1>3, <1>4, <1>5, <1>6 DEF Next, PollHash, PollLoad, vars, files

\* What the poller hashed is what NGINX runs with.
LEMMA PolledStep ==
  ASSUME TypeOK, Counted, Polled, [Next]_vars
  PROVE  Polled'
<1>1. CASE PollHash
  BY <1>1 DEF PollHash, Polled
<1>2. CASE PollLoad
  <2>1. CASE nginxOK' /\ ~ late'
    <3>1. Valid /\ last = <<conf, crt>> /\ UNCHANGED <<last, conf, crt, mode>> /\ ~ polling'
      BY <1>2, <2>1 DEF PollLoad, files
    <3>2. running' = [routes |-> conf.routes, cert |-> IF conf.tls THEN crt ELSE 0]
      BY <1>2, <3>1 DEF PollLoad, NginxLoads
    <3> QED
      BY <3>1, <3>2 DEF Polled
  <2> QED
    BY <1>2, <2>1 DEF PollLoad, Polled
<1>3. ASSUME NEW w \in Workers, Signal(w) PROVE Polled'
  <2>1. mode = "host"
    <3>1. job[w].pc = "signal" /\ job[w] # Idle
      BY <1>3, StepNames, AtStep DEF Signal, TypeOK
    <3> QED
      BY <3>1 DEF Counted
  <2> QED
    BY <1>3, <2>1 DEF Signal, Polled
<1>4. ASSUME UNCHANGED <<mode, nginx>> PROVE Polled'
  BY <1>4 DEF Polled, nginx
<1>5. ASSUME NEW w \in Handlers, Handle(w) PROVE UNCHANGED <<mode, nginx>>
  BY <1>5, HandleIsRequest DEF Request, Begin
<1>6. ASSUME NEW w \in Workers, Work(w), ~ Signal(w) PROVE UNCHANGED <<mode, nginx>>
  BY <1>6 DEF Work, Save, Reload, Issue, Open, Write, WriteFails, LoadServices, SetResolver,
     SetShared, Generate, Apply, ApplyFails, WriteCrt, WriteKey, IssueFails, RemoveCrt, RemoveKey
<1>7. Renew \/ Crash \/ Boot \/ UNCHANGED vars => UNCHANGED <<mode, nginx>>
  BY DEF Renew, Begin, Crash, Boot, vars
<1> QED
  BY <1>1, <1>2, <1>3, <1>4, <1>5, <1>6, <1>7 DEF Next

\* A worker that is alone takes a step: what is left to show concerns that worker
\* only, and backends.conf if it returns.
LEMMA ShownLone ==
  ASSUME TypeOK, GateInv, ShownInv, ~ raced, NEW w \in Workers, job[w] # Idle,
         \A v \in Workers : v # w => job'[v] = job[v],
         job'[w] # Idle => Along(w)',
         job'[w] = Idle => (Reported => Shown)'
  PROVE  ShownInv'
<1>1. \A v \in Workers : v # w => job'[v] = Idle
  BY DEF GateInv, Alone
<1>2. \A v \in Workers : job'[v] # Idle => Along(v)'
  BY <1>1
<1> QED
  BY <1>2 DEF ShownInv, Quiet

\* A worker that goes on to another step.
LEMMA ShownGoto ==
  ASSUME TypeOK, GateInv, ShownInv, ~ raced, NEW w \in Workers, job[w].pc \in Steps,
         NEW pc \in Steps, Goto(w, pc), Along(w)'
  PROVE  ShownInv'
<1>1. job[w] # Idle
  BY AtStep DEF TypeOK
<1>2. \A v \in Workers : v # w => job'[v] = job[v]
  BY DEF Goto, TypeOK
<1>3. job'[w].pc = pc
  BY AtStep DEF Goto, TypeOK, Job
<1>4. job'[w] # Idle
  BY <1>3 DEF Idle, Steps
<1> QED
  BY <1>1, <1>2, <1>4, ShownLone

\* A worker that returns, or goes on to the certificate, with backends.conf up to
\* date or with an error.
LEMMA ShownReturn ==
  ASSUME TypeOK, GateInv, ShownInv, ~ raced, NEW w \in Workers, job[w].pc \in Steps,
         Proceed(w) \/ Done(w), (Reported => Shown)'
  PROVE  ShownInv'
<1>1. job[w] # Idle
  BY AtStep DEF TypeOK
<1>2. /\ \A v \in Workers : v # w => job'[v] = job[v]
      /\ job'[w] = Idle \/ job'[w].pc = "crt"
  BY StartReturns
<1>3. job'[w] # Idle => Along(w)'
  BY <1>2 DEF Along
<1> QED
  BY <1>1, <1>2, <1>3, ShownLone

LEMMA ShownBegin ==
  ASSUME TypeOK, ShownInv, NEW w \in Workers, NEW pc \in {"open", "crt", "rmcrt"},
         NEW svc, NEW issue, phase = "up", Begin(w, pc, svc, issue)
  PROVE  ShownInv'
<1> SUFFICES ASSUME ~ raced' PROVE ShownInv'
  BY DEF ShownInv
<1>1. ~ raced /\ \A v \in Workers : job[v] = Idle
  BY DEF Begin, TypeOK
<1>2. Reported => Shown
  BY <1>1 DEF ShownInv, Quiet
<1>3. job'[w].pc = pc /\ \A v \in Workers : v # w => job'[v] = Idle
  BY <1>1 DEF Begin, TypeOK
<1>4. job'[w] # Idle
  BY <1>3 DEF Idle
<1>5. UNCHANGED <<mode, files, nginx, reloadOK>>
  BY DEF Begin
<1>6. (Reported => Shown)'
  BY <1>2, <1>5 DEF Reported, Readable, Shown, ConfCurrent, NginxNow, files, nginx
<1>7. \A v \in Workers : job'[v] # Idle => Along(v)'
  BY <1>3, <1>6 DEF Along
<1> QED
  BY <1>4, <1>7 DEF ShownInv, Quiet

\* Every step keeps what is known of backends.conf.
LEMMA ShownStep ==
  ASSUME TypeOK, GateInv, Counted, Polled, ShownInv, [Next]_vars
  PROVE  ShownInv'
<1> USE StepNames
<1>1. ASSUME NEW w \in Handlers, Handle(w) PROVE ShownInv'
  BY <1>1, HandleIsRequest, ShownBegin DEF Request, Workers
<1>2. CASE Renew
  BY <1>2, ShownBegin DEF Renew, Workers
<1>3. ASSUME NEW w \in Workers, Work(w) PROVE ShownInv'
  <2>0. UNCHANGED <<mode, raced>>
    BY <1>3 DEF Work, Save, Reload, Issue, Open, Write, WriteFails, LoadServices, SetResolver,
       SetShared, Generate, Apply, ApplyFails, Signal, WriteCrt, WriteKey, IssueFails,
       RemoveCrt, RemoveKey
  <2> SUFFICES ASSUME ~ raced PROVE ShownInv'
    BY <2>0 DEF ShownInv
  <2>a. job[w].pc \in Steps => Along(w) /\ FarAlong(w) /\ job[w] # Idle
    BY AtStep DEF GateInv, ShownInv, TypeOK
  <2>g. ASSUME NEW pc, Goto(w, pc), job[w].pc \in Steps
        PROVE  job'[w].pc = pc
    BY <2>g, AtStep DEF Goto, TypeOK, Job
  <2>1. CASE Open(w) \/ Write(w) \/ SetResolver(w) \/ SetShared(w) \/ WriteKey(w)
             \/ RemoveCrt(w) \/ RemoveKey(w)
    <3>1. PICK pc \in {"write", "load", "shared", "generate", "rmkey"} : Goto(w, pc)
      BY <2>1 DEF Open, Write, SetResolver, SetShared, WriteKey, RemoveCrt, RemoveKey
    <3>2. job[w].pc \in Steps
      BY <2>1 DEF Open, Write, SetResolver, SetShared, WriteKey, RemoveCrt, RemoveKey
    <3>3. Along(w)'
      BY <3>1, <3>2, <2>g DEF Along
    <3> QED
      BY <3>1, <3>2, <3>3, ShownGoto
  <2>2. CASE WriteFails(w)
    <3>1. ~ Readable'
      BY <2>2, FilesAssumption DEF WriteFails, Readable
    <3> QED
      BY <2>2, <3>1, ShownReturn DEF WriteFails, Reported
  <2>3. CASE LoadServices(w)
    <3>1. CASE Readable
      <4>1. job[w].pc = "load" /\ job' = [job EXCEPT ![w].pc = "resolver", ![w].svc = services]
        BY <2>3, <3>1 DEF LoadServices
      <4>2. job'[w].pc = "resolver" /\ \A v \in Workers : v # w => job'[v] = job[v]
        BY <4>1, AtStep DEF TypeOK, Job
      <4>3. Along(w)' /\ job'[w] # Idle
        BY <4>2 DEF Along, Idle
      <4> QED
        BY <2>a, <4>1, <4>2, <4>3, ShownLone
    <3>2. CASE ~ Readable
      BY <2>3, <3>2, ShownReturn DEF LoadServices, Reloaded, Reported
    <3> QED
      BY <3>1, <3>2
  <2>4. CASE Generate(w)
    <3>1. job[w].pc = "generate" /\ UNCHANGED <<crt, key>>
      BY <2>4 DEF Generate, files
    <3>2. /\ job'[w].pc = "conf" /\ job'[w].tls = (crt # 0 /\ key # 0)
          /\ \A v \in Workers : v # w => job'[v] = job[v]
      BY <2>4, <3>1, AtStep DEF Generate, TypeOK, Job
    <3>3. Along(w)' /\ job'[w] # Idle
      BY <3>1, <3>2 DEF Along, Idle
    <3> QED
      BY <2>a, <3>1, <3>2, <3>3, ShownLone
  <2>5. CASE Apply(w)
    <3>1. /\ job[w].pc = "conf" /\ UNCHANGED <<services, crt, key>>
          /\ conf' = [routes |-> On(job[w].svc), tls |-> job[w].tls]
      BY <2>5 DEF Apply
    <3>2. job[w].svc = services /\ job[w].tls = (crt # 0 /\ key # 0)
      BY <2>a, <3>1 DEF Along, FarAlong
    <3>3. ConfCurrent'
      BY <3>1, <3>2 DEF ConfCurrent, On
    <3>4. CASE mode = "host"
      <4>1. Goto(w, "signal")
        BY <2>5, <3>4 DEF Apply
      <4>2. Along(w)'
        BY <2>g, <3>1, <3>3, <4>1 DEF Along
      <4> QED
        BY <3>1, <4>1, <4>2, ShownGoto
    <3>5. CASE mode # "host"
      <4>1. Proceed(w)
        BY <2>5, <3>5 DEF Apply, Reloaded
      <4>2. Shown'
        BY <2>0, <3>3, <3>5 DEF Shown
      <4> QED
        BY <3>1, <4>1, <4>2, ShownReturn
    <3> QED
      BY <3>4, <3>5
  <2>6. CASE ApplyFails(w)
    BY <2>6, ShownReturn DEF ApplyFails, Reloaded, Reported
  <2>7. CASE Signal(w)
    <3>1. job[w].pc = "signal" /\ UNCHANGED <<services, conf, crt, key>>
      BY <2>7 DEF Signal, files
    <3>2. ConfCurrent /\ ConfCurrent'
      BY <2>a, <3>1 DEF Along, ConfCurrent
    <3>3. nginxOK' => NginxNow'
      <4> SUFFICES ASSUME nginxOK' PROVE NginxNow'
        OBVIOUS
      <4>1. Valid /\ running' = [routes |-> conf.routes, cert |-> IF conf.tls THEN crt ELSE 0]
        BY <2>7 DEF Signal, NginxLoads
      <4> QED
        BY <3>1, <3>2, <4>1 DEF NginxNow, ConfCurrent
    <3>4. Proceed(w)
      BY <2>7 DEF Signal, Reloaded
    <3> QED
      BY <3>1, <3>2, <3>3, <3>4, ShownReturn DEF Shown
  <2>8. CASE WriteCrt(w)
    <3>1. job[w].pc = "crt" /\ UNCHANGED <<mode, services, conf, key, nginx, reloadOK>>
      BY <2>8 DEF WriteCrt
    <3>2. job'[w].pc = "key" /\ \A v \in Workers : v # w => job'[v] = job[v]
      BY <2>8, <3>1, AtStep DEF WriteCrt, TypeOK, Job
    <3>3. crt' # key'
      <4>1. issued \in Nat /\ key \in Nat /\ key <= issued
        BY PublishingAssumption DEF TypeOK, Counted
      <4> QED
        BY <2>8, <3>1, <4>1 DEF WriteCrt
    <3>4. (Reported => Shown)'
      BY <2>a, <3>1, <3>3
      DEF Along, Reported, Readable, Shown, ConfCurrent, NginxNow, nginx
    <3>5. Along(w)' /\ job'[w] # Idle
      BY <3>2, <3>4 DEF Along, Idle
    <3> QED
      BY <2>a, <3>1, <3>2, <3>5, ShownLone
  <2>9. CASE IssueFails(w)
    <3>1. job[w].pc \in {"crt", "key"} /\ UNCHANGED <<mode, files, nginx, reloadOK>>
      BY <2>9 DEF IssueFails
    <3>2. (Reported => Shown)'
      BY <2>a, <3>1
      DEF Along, Reported, Readable, Shown, ConfCurrent, NginxNow, files, nginx
    <3> QED
      BY <2>9, <3>1, <3>2, ShownReturn DEF IssueFails
  <2> QED
    BY <1>3, <2>1, <2>2, <2>3, <2>4, <2>5, <2>6, <2>7, <2>8, <2>9
    DEF Work, Save, Reload, Issue
<1>4. ASSUME UNCHANGED <<phase, mode, services, conf, crt, key, job, reloadOK, raced>>,
             mode = "docker" \/ UNCHANGED <<running, nginxOK>>
      PROVE  ShownInv'
  BY <1>4 DEF ShownInv, Along, Quiet, Reported, Readable, Shown, ConfCurrent, NginxNow
<1>5. CASE PollLoad
  BY <1>4, <1>5 DEF PollLoad, Polled, files
<1>6. CASE Crash
  <2>1. phase' = "down" /\ \A w \in Workers : job'[w] = Idle
    BY <1>6 DEF Crash
  <2> QED
    BY <2>1 DEF ShownInv, Quiet
<1>7. CASE Boot
  <2> SUFFICES ASSUME ~ raced PROVE ShownInv'
    BY <1>7 DEF Boot, ShownInv
  <2>1. \A w \in Workers : job[w] = Idle
    BY <1>7 DEF Boot, GateInv, Starting
  <2>2. /\ phase' = "starting" /\ job'[Main].pc = "load"
        /\ \A w \in Workers : w # Main => job'[w] = Idle
    BY <1>7, <2>1 DEF Boot, TypeOK, Workers
  <2>3. \A w \in Workers : job'[w] # Idle => Along(w)'
    BY <2>2 DEF Along
  <2> QED
    BY <2>2, <2>3 DEF ShownInv, Quiet
<1> QED
  BY <1>1, <1>2, <1>3, <1>4, <1>5, <1>6, <1>7 DEF Next, PollHash, vars, files, nginx

\* Whenever NGINX has nothing left to load it serves exactly the enabled backends of
\* services.json and the certificate on disk, in either deployment, for any backends,
\* handlers, certificates and crashes, as long as no two workers met
\* (handlers/server.go:122-153, proxy/manager.go:37, nginx/entrypoint.sh:22).
THEOREM NginxCorrect == Spec => []NginxCurrent
<1>1. Init => GateInv /\ Counted /\ Polled /\ ShownInv
  <2> SUFFICES ASSUME Init PROVE GateInv /\ Counted /\ Polled /\ ShownInv
    OBVIOUS
  <2>1. GateInv
    BY DEF Init, GateInv, Alone, Starting, GateCurrent, Quiet
  <2>2. Counted
    BY DEF Init, Counted
  <2>3. conf.routes = On(services) /\ running.routes = On(services) /\ running.cert = crt
        /\ conf.tls = (crt # 0) /\ last[1] = conf /\ last[2] = crt
    BY DEF Init
  <2>4. Polled
    BY <2>3 DEF Init, Polled
  <2>5. Shown
    BY <2>3 DEF Shown, ConfCurrent, NginxNow
  <2>6. ShownInv
    BY <2>5 DEF Init, ShownInv
  <2> QED
    BY <2>1, <2>2, <2>4, <2>6
<1>2. TypeOK /\ Polled /\ ShownInv => NginxCurrent
  <2> SUFFICES ASSUME TypeOK, Polled, ShownInv, Settled, ~ late, Rested PROVE NginxNow
    BY DEF NginxCurrent, NginxNow
  <2>1. Shown /\ nginxOK
    BY DEF Settled, ShownInv
  <2>2. CASE mode = "docker"
    <3>1. last[1] = conf /\ last[2] = crt /\ ~ polling
      BY <2>2 DEF Rested
    <3> QED
      BY <2>1, <2>2, <3>1 DEF Polled, Shown, ConfCurrent, NginxNow
  <2>3. CASE mode = "host"
    BY <2>1, <2>3 DEF Shown
  <2> QED
    BY <2>2, <2>3, PublishingAssumption DEF TypeOK
<1> QED
  BY <1>1, <1>2, TypeInit, TypeStep, GateStep, CountedStep, PolledStep, ShownStep, PTL DEF Spec
=============================================================================
