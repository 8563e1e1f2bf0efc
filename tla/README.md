# Xal-Tor-Ka in TLA+

Xal-Tor-Ka is an authenticating gateway.  NGINX asks a Go process (the core)
about every request (`/validate`); the core knows users, sessions and published
services, writes NGINX's configuration and certificates, and offers an
administration panel that changes all of these while traffic flows.  State
lives in a few maps in RAM, each with its own lock, and in a few JSON files.
No lock spans a map and its file, or two maps.  That is where the hard
behaviour is, and what these modules are about.

## The system's parts

| part | state | operations | talks to |
|---|---|---|---|
| Session store, `auth/session.go` | map id -> session, `sessions.json` | Create, Get, Complete2FA, Delete, load | sign-in handlers, every page |
| One-time codes, `auth/otp.go` | map email -> hashed code (RAM only) | Issue, Verify | code handlers; the spool file |
| Sign-in, `handlers/login.go`, `handlers/otp.go` | what a request carries between calls | password, LDAP bind, code, TOTP, logout | sessions, codes, user directory |
| Users, `auth/directory.go`, `config/save.go` | map in RAM, `users.json`, its `.tmp` | nine handlers, the wizard, the `user` command | everything that authorises |
| Services, `handlers/admin.go`, `handlers/server.go` | `services.json`, the resolver, the fields under `Server.mu` | panel changes, Reload | NGINX through `backends.conf` |
| Certificates, `certmgr` | `<host>.crt`, `<host>.key` | issue, renew (a goroutine), delete | Reload; NGINX reads the files |
| NGINX, `nginx/entrypoint.sh` | configuration and pair it runs with, the poller's last hash | poll, test, load | reads the core's files |
| Access decision, `matrix`, `handleValidate`, `proxy/generate.go` | the resolver's list, NGINX's loaded file | Resolve, grants of a route, Generate | NGINX's `auth_request`; users, sessions |
| Grants, `handlers/admin.go`, `models/config.go` | lists in the users' records, rules in `services.json` | a user's page, a service's editor | the gate; Validate at boot |
| Admin guard, `handlers/adminauth.go` | list of addresses, its override | every panel request, handleAdminIPs | trusted proxies |
| Identity providers, `handlers/providers.go`, `handlers/oidc.go` | `secrets.json`, `services.json`, OIDC clients, state cookies | add, edit, toggle, delete; start, callback | identity providers; sessions |
| Setup and backups, `handlers/setup.go`, `config/save.go`, `main.go` | `setup.json`, `backups/` | setup command, wizard, snapshot, prune, restore | `users.json` |
| Health checks, `health` | status map | rounds of probes, alerts | the services; mail, Telegram |
| Remote control, `remote/control.go` | the offset (RAM only) | poll, dispatch | Telegram |
| Discovery, agent, hosting extension, pages | none of their own | see *Not modelled* | |

What makes each correct: a session is full only after both factors and dies on time,
across restarts; a code works once; `users.json` is always a complete directory,
never behind what users have seen (lists of grants aside), and never without an
administrator; the gate decides by what `services.json` says and NGINX comes to
serve the same; the certificate on disk is the one that is served; what the panel
saves can be booted from; the gate and NGINX agree on which rule covers a path; a
form that is saved untouched changes nobody's grants; a session opened through an
identity provider rests on a login its own browser began; a setup token makes one
administrator; what a save replaced can be restored; no target starves, as long as
alerts get sent, and no command is lost.  `PROJECT.json` lists the hazards behind
these, each at its line.

## Modules

**`SessionContract`** is the abstract specification: an id is opened once,
finishes its second factor, is closed; the store may go back to an earlier view
only while its last save has not reached the disk, and never to a second factor
that was not passed.  No clock, no file.

**`Sessions`** is `MemoryStore`.  Its mutex makes each method one action.
`m` is the map, `disk` the file; `persistLocked` either reaches the file or
does not, since the code drops the error.  `Restart` loads the file or finds it
unreadable.  `Get` is split in `GetLive` (renews `lastSeen`, RAM only) and
`GetExpired` (evicts and saves).  `born`, `lastUse`, `earned` and `failed` are
history.  `ImplementsContract` maps the store to `SessionContract`.

**`OneTimeCodes`** is `OTPStore` and the spool.  Codes are numbers drawn once.

**`SignIn`** composes `SessionContract`, `OneTimeCodes` and the user directory.
A request is a record in `reqs`; every call into a locked store is a step, and
other requests, user changes, expiry, ticks and restarts come in between.
Whether a password, a bind or a TOTP code is right is an input.  A refused
attempt changes nothing, so it is no step.  Sessions persisted under another
`disable_totp` setting are not considered: the setting is fixed in a behaviour.

**`UserStore`** is every change of a user, step by step through `mutateUsers`
and `writeJSONAtomic`: copy, open (truncate) `users.json.tmp`, write, rename,
swap in RAM.  The temporary file is shared, so a descriptor is tracked through
renames (`Follow`): a saver may go on writing into what has become
`users.json`.  A command (`runUser`) does the same from its own process and
never touches RAM.  A record is an administrator flag, some data held by value,
and a list of grants held by reference: `UserDirectory.All` copies records whose
lists share their arrays with the live directory, and the service editor filters,
appends and sorts in them before anything is saved (`EditGrants`: the copy gets the
lists that were asked for, RAM and the copies of other handlers see whatever is left
in the arrays, which is any list here and worked out in `Grants`).  The restore
command, which copies over `users.json` in place, is in `Provisioning`.

**`Publishing`** is `services.json` (written in place), the five steps of
Reload, `backends.conf`, one host's certificate pair and NGINX in both
deployments: a poller that hashes configuration and certificates (`docker`), or
a reload command run by the core (`host`).  Workers are the panel's requests
and the main goroutine, which boots and later renews.  The backends of
`config.json` never change and are left out; links, monitors and the
administrators' addresses are one value (`Panels`).  Writing `backends.conf`
(temporary file and rename) is one step.

**`Grants`** is who may use what, from both sides: a user's page
(`handleUserAuthz`) and a service's editor (`handleBackendEdit`, three commits:
the service, its grants, the grants on its paths), the services and links coming
and going, and `Validate` at boot.  `UserDirectory.All` copies records whose
lists are Go slices, so a copy shares its array with the live directory.  A slice
is modelled with its array: `Appended` reuses a free place or moves, `Kept` is
the filter in place (`s[:0]`), `Sorted` sorts in place, and what they do to a
shared array shows in `live` at once.  The two in place are one operator,
`Arranged`: the elements at some of the places come to the front, in some order,
and the rest of the array stays as it was.  One request works at a time.  The form
of the editor is an input as a browser sends it (an administrator's box is
disabled, and not sent).

**`Routing`** has the two readings of one list of backends as operators: the
gate's (`Resolve`, `pathMatches`, `EffectiveGrantID`) and the server block that
`Generate` writes (`orderGroup`, `groupUsesAuth`, `writeServer`), from which
NGINX picks (`Locate`, external).  A path is the sequence of its parts, slashes
included, so that `/a`, `/a/`, `/ab` and `/a/b` are told apart as the code tells
them apart.  The backends of a host are a set of positions in the list, and the
loops over them are told by the order they go in (`FirstOf`, `WrittenBefore`,
`Earlier`); a server block is the set of its locations, since NGINX does not look
at their order.  It begins with two locations that are always there, for the ACME
challenges and for `= /__auth`, which the loop over the routes does not know of.
A route may be exact (`= /x`, as `joinMatch` writes it): NGINX then answers that
one request by it, while `pathMatches` takes the mark for a part of the path, so
that no request matches.  Regular-expression locations can only come from the free
text of a service and are not modelled.

**`Access`** is a visitor of one host: NGINX chooses a location of the file it has
*loaded*, the gate (`handleValidate`) decides by the list it has *now*, and users,
sessions and lists change in between; a file with a location twice is not loaded.
The dashboard (`tilesFor`) is in it, and the panel's list of addresses:
`handleAdminIPs` from several addresses, checked first, then `LoadServices`,
`SaveServices`, and the read and the swap of Reload as steps of their own, beside
other requests that write `services.json` back and renewals that only reload.  An
older read may be written back or put in force last (`stale`), and a write may break
off.  What is said of agreement (`AgreeOnRoute`) is said of requests that no exact
location answers, of hosts whose prefix paths begin with a slash or are empty, end
in one slash at most, and are all different, also but for the last slash (`Tidy`),
and of requests that NGINX's plain prefix and the gate's part-wise match both put
under a route (`Aligned`; for `/ab` under `/a` they differ, and the gate then
decides by the next shorter route).  The panel enforces none of this; what becomes
of exact routes and of one path in two services is told under Runs.  A www name is
resolved by the gate by the exact name.  A path with a list of its own written `/a/`
stores grants under `svc#/a/`, while routes below it ask for `svc#/a`:
`InheritsNearest` is about paths without the slash.  A service's exact route `=
/login` takes the login page's place on its host (`LoginReachable` says so).

**`Federation`** is the identity providers and the logins through them.  Workers
are requests of administrators and renewals, side by side.  A change of a provider
reads and writes `secrets.json`, reads and writes `services.json`, then reloads
(read services, read secrets, swap the clients); a deletion clears the secret last.
Each station is a step; each may fail, break off or be cut by a crash, and each uses
what it read earlier.  Another handler's change of `services.json` writes back the
providers it read.  Users are added, renamed (`handleUserEmail`, whoever they are
declared for) and deleted through copy, save and replace, so a racing save can bring
a deleted one back.  A login is a flow (state and nonce), held in the browser's
cookie; codes, exchange, lookup and session are steps, and the client found at the
callback is kept through them.  Facts the model keeps as they are: a refused addition
or edit has already overwritten the secret; deleting the override of a provider of
`config.json` clears the secret that provider would use; Reload drops an error in
reading `secrets.json` and builds clients without secrets; a Reload that read before
another's write may swap last (`behind`), and a file may be written from an older copy
(`stale`); `Validate` knows the providers of `config.json` only, so a user declared
for one of `services.json` does not pass a boot; Reload reads secrets without
expanding `${VAR}` (`LoadSecretsRaw`).  Writing `secrets.json` and `users.json` is one
step here: what two savers do to one temporary file is `UserStore`'s subject.

**`Provisioning`** is `setup.json` with its command and wizard in several tabs,
and the snapshots behind each save of `users.json`: taken of the file on disk,
named by local time to the second, pruned by name, restored by a command behind
the running program's back.  A save is two steps, the copy (`CopyUsers`) and the
replacement of the file and the directory, so saves overlap and one may replace a
version that was never copied.  A copy may break off or not be made (the code drops
both errors), and so may a restore, which writes `users.json` in place.  Kept as they
are: a late `SaveSetup` can bring back a token that was
used or superseded (such tokens are in `shared`); a restore takes no snapshot; two
snapshots in a second share a name; after local time is set back pruning may take
the newest; a restored file is read at the next start, not by a reload.

**`Watch`** is the health checker (the list and the time read once per round,
targets probed one after the other, each with its timeout, alerts on changes) and
the Telegram loop (offset in RAM, updates confirmed by the next poll).  The checker
waits for an alert to be sent (`AlertSent`), and a mailed one has no time limit.
Kept as they are (what is left of a round, and of an answer of Telegram, are sets gone
through in the order of the list): a monitor may have a backend's id, and of two
targets with one id the later may wait for ever (`ProbedAgain` leaves them out); the
status of a removed target stays; a change across a restart is not alerted, and
neither is the state a target is first found in, which the reader of the alerts is
taken to know (`belief`).

**`MC...`** modules give the constants, symmetry and state constraints;
`MCSignIn` leaves the spool out of the view since nothing reads it.

Definitions marked *Mutant* (or listed as slips) are plausible mistakes used to
test the properties; no specification contains them.

## Runs

| run | properties | shows |
|---|---|---|
| `sessions` | `TypeOK`, `LifetimeHolds`, `FileMatchesMap`, `ImplementsContract` | types; lifetime and idle timeout hold across restarts; the file follows the map while saves succeed; the contract is implemented |
| `signin` | `TypeOK`, `FullSessionsEarned`, `OneSessionPerCode` | a full session owes its state to both factors of its own user, whatever interleaves; one code opens at most one session |
| `users` | `TypeOK`, `WholeUnlessOverlap`, `AdminKept`, `SeenIsSaved`, `SaveKeepsOthers` | `users.json` is whole unless savers overlapped; racing toggles never lose the last administrator; RAM shows what is not saved in lists of grants only; a handler alone with the store changes only what it was asked to |
| `grants` | `GrantTypeOK`, `DirectoryCurrent`, `NoStalePathGrant`, `RoundTrip`, `EditorKeepsOthers` | the gate decides by the grants that are saved, in spite of the shared arrays; a path that inherits again leaves no grant behind; an untouched form changes nothing; the editor of one service touches no grant on another |
| `publishing` | `TypeOK`, `GateCurrent`, `NginxCurrent`, `Published`, `CertServed` | between changes the gate follows `services.json`, through crashes; NGINX at rest runs with what the gate decides by; once changes stop NGINX serves the enabled backends and the certificate on disk, if its last load was accepted and of the files that were hashed |
| `access` | `LocationsDistinct`, `AgreeOnRoute`, `InheritsNearest`, `LoginReachable`, `TileReachable`, `NotLockedOut` | where prefixes decide, NGINX and the gate choose the same route of the same service; no location is written twice unless a route takes one of the two that are always there; the login page is there for whoever is sent to it, also while NGINX runs an older file; grants come from the nearest ancestor; a tile leads somewhere; whoever saved the address list last is admitted once saves are reloaded, unless an older read came last |
| `federation` | `SessionVouched`, `ClientsCurrent`, `NoOrphanSecret` | a session rests on its own browser's login and on a user declared for the provider since the callback began; at rest the clients are those of the two files and no secret outlives its provider, unless an older read was used after a newer write or a change stopped half way |
| `provisioning` | `TypeOK`, `PairKept`, `TokenOnce`, `PreviousKept` | one form makes the administrator; a token makes one; what a save replaced can be restored if the last copy was taken of it |
| `watch` | `TypeOK`, `AlertsTell`, `HandledOnce`, `ProbedAgain`, `UpdatesHandled` | alerts tell the state; every due target is probed, as long as alerts get sent; every command is handled, once unless the program stopped before confirming it |
| `users_torn` | `SavedWhole` | *violated*: two saves through one temporary file leave an incomplete `users.json` |
| `reload_race` | `ReloadSafe` | *violated*: two Reloads at once leave the gate on the older services |
| `grants_boot` | `Bootable` | *violated*: a grant on one path, saved by the editor, is an unknown service to `Validate` at the next boot |

Each violated property states what a comment, message or document of the
repository says; `PROJECT.json` quotes it.

Behaviour the models show that no run is kept for: a session's last use is not
saved, so one in constant use can be lost by a restart (`auth/session.go:91`);
using a code drops its cooldown (`auth/otp.go:73`); the only administrator can be
deleted (`handlers/admin.go:1406`); a change in the panel writes back what the
`user` command changed (`main.go:564`; hence the proviso of `SaveKeepsOthers`);
a poll between certificate and key is refused and not repeated, and a change
between the poller's hash and its load, taken back before the next poll, stays
loaded (`nginx/entrypoint.sh:22-24`; hence the provisos of `CertServed` and
`Published`); the location of a public route asks no `auth_request`
(`proxy/generate.go:310`), so a service's list of addresses is consulted for its
other routes only (`handlers/server.go:318`); `Validate` accepts providers of
type oidc and local only, so the LDAP sign-in is modelled from its handler.
Four more are behind provisos of checked properties, and contradict what the
repository says.  A route on `/.well-known/acme-challenge/` or `= /__auth` is written
beside the location that is always there (`proxy/generate.go:180,185`), and
`nginx -t` refuses the file, although paths are said to be "de-duplicated across the
group (and against the reserved gate paths above)" (lines 232-235): the proviso of
`LocationsDistinct`.  NGINX serves a file by its exact route while the gate, whose
`pathMatches` never matches `= /x` (`matrix/matrix.go:87`), decides by the route
above it, although "la riga più specifica vince" (`docs/xaltorka-howto.md:140-142`);
and of two services with one host and path NGINX serves the one with the smaller id
while the gate decides by the first of its list, although "vince il primo e il
duplicato viene ignorato" (lines 304-305): the provisos of `AgreeOnRoute`.  A mail
server that keeps a connection open and silent keeps the checker in one alert for
ever (`notify/notify.go:57`), although "a lost notification must not break the
gateway" (lines 5-7): the proviso of `ProbedAgain`.

Bounds.  `sessions`: two ids (they are independent but for the shared file), a
lifetime of 3 and an idle timeout of 2 with a clock to 5, so either limit can
be the one that strikes, before and after a restart.  `signin`: two requests
and two sessions, enough for any pair of steps to race; one code, presented by
both requests; a clock with one tick, after which the code is expired.
`users`: one request and one command at work together, two users, one data
value, two lists of grants, which are told apart while savers work one at a time
(`ListsAlone`); the theorems remove these bounds, and `users_torn` has two requests.
`grants`: two services and a backend of `config.json`, one path, a user and an
administrator, two edits and a failure or crash: a list can grow past its array,
be filtered and grow again.  `publishing`: one backend with one setting that can
be absent, on or off, two panel values, two changes, one crash, two
certificates: a change can race the renewal, be cut by the crash and be followed
by another change.  `access`: every pair of a service with up to four routes,
exact ones among them, and one with one or none on the same host, in both orders of
the files, three records of the visitor, eight requested paths, and five later lists,
one of them with a route on the challenges' path; and, under one list of services,
which the panel's list does not depend on, two addresses and a renewal or other
request, two of them under way at a time, every list, any number of saves (`Apart`
keeps the two explorations from multiplying).  `federation`: a provider of
`config.json` that may be overridden and one of `services.json`, two issuers, two
browsers, two users; at most four changes, failures, logins and codes together
(`Events`), enough for a login to be overtaken by two changes of users that race, or
by one change of a provider (`Logins`: requests for providers run one at a time
there, and not beside changes of users); and two workers racing through two changes,
any renewals and a failure, without logins (`Files`).  `provisioning`: two tabs, two
tokens, two passwords, two forms sent and two saves, with no other handler at work
(`WizardAlone`); and one tab beside another handler, three saves and those under way,
three seconds, two snapshots kept (`OneTab`).  The theorems remove all these bounds.
`watch`: three targets of which one never answers and two share an id, two
commands, one change of the list, one lost poll or restart.  Every counter is
bounded in a guard by a constant named `Max...`; the state constraints are those
named here, and the runs that have one check no liveness.

Deadlock is not checked in `users`, `grants`, `publishing` and `federation`: files
that do not parse, or that `Validate` refuses, keep the core down, and the bounded
changes run out.

Fairness.  `Publishing`: a goroutine that has begun goes on (the Go scheduler), the
poller polls (`while sleep 2`), and a stopped core is started again (`restart:
unless-stopped`, `docker-compose.yml:9`).  `Watch`: the checker's ticker and the
polling loop never stop, a probe ends by its timeout at the latest, and so does an
alert by Telegram; a mailed alert is never obliged to end (`Mail` is on), and
`ProbedAgain` says what holds if it does.  Nobody is obliged to make a change, no
certificate has to be obtained, no write has to succeed, no target has to answer.

## Proofs

TLAPS proves the following for every value of the constants.

| module | theorem | states |
|---|---|---|
| `SessionsProofs` | `TypeCorrect` | `TypeOK` |
| `SessionsProofs` | `CopiesAgree` | the inductive invariant `IInv` |
| `SessionsProofs` | `LifetimeCorrect` | `LifetimeHolds` |
| `SessionsProofs` | `FileCorrect` | `FileMatchesMap` |
| `SessionsProofs` | `StoreImplementsContract` | `ImplementsContract` |
| `UserStoreProofs` | `TypeCorrect` | `TypeOK` |
| `UserStoreProofs` | `WholeCorrect` | `WholeUnlessOverlap` |
| `UserStoreProofs` | `SeenCorrect` | `SeenIsSaved` |
| `UserStoreProofs` | `AdminCorrect` | `AdminKept` |
| `UserStoreProofs` | `OthersCorrect` | `SaveKeepsOthers` |
| `SignInProofs` | `TypeCorrect` | `TypeOK` |
| `SignInProofs` | `FactorsCorrect` | `FullSessionsEarned` |
| `SignInProofs` | `CodesCorrect` | `OneSessionPerCode` |
| `PublishingProofs` | `TypeCorrect` | `TypeOK` |
| `PublishingProofs` | `GateCorrect` | `GateCurrent` |
| `PublishingProofs` | `NginxCorrect` | `NginxCurrent` |
| `AccessProofs` | `TypeCorrect` | `TypeOK` |
| `AccessProofs` | `SaverAdmitted` | `NotLockedOut` |
| `AccessProofs` | `DistinctCorrect` | `LocationsDistinct` |
| `AccessProofs` | `LoginCorrect` | `LoginReachable` |
| `AccessProofs` | `NearestCorrect` | `InheritsNearest` |
| `AccessProofs` | `AgreeCorrect` | `AgreeOnRoute` |
| `AccessProofs` | `TileCorrect` | `TileReachable` |
| `AccessProofs` | `GrantTypeCorrect` | `GrantTypeOK` |
| `AccessProofs` | `DirectoryCorrect` | `DirectoryCurrent` |
| `AccessProofs` | `OthersKept` | `EditorKeepsOthers` |
| `AccessProofs` | `PathsCorrect` | `NoStalePathGrant` |
| `AccessProofs` | `RoundTripCorrect` | `RoundTrip` |
| `FederationProofs` | `TypeCorrect` | `TypeOK` |
| `FederationProofs` | `SessionsCorrect` | `SessionVouched` |
| `FederationProofs` | `ClientsCorrect` | `ClientsCurrent` |
| `FederationProofs` | `SecretsCorrect` | `NoOrphanSecret` |
| `ProvisioningProofs` | `TypeCorrect` | `TypeOK` |
| `ProvisioningProofs` | `PairCorrect` | `PairKept` |
| `ProvisioningProofs` | `TokenCorrect` | `TokenOnce` |
| `ProvisioningProofs` | `PreviousCorrect` | `PreviousKept` |
| `WatchProofs` | `TypeCorrect` | `TypeOK` |
| `WatchProofs` | `OnceCorrect` | `HandledOnce` |
| `WatchProofs` | `AlertsCorrect` | `AlertsTell` |

`SessionsProofs`, from `SessionsAssumption` (lifetimes are naturals, a missing
session is not a session).  `LifetimeHolds` and the refinement are not
inductive: a restart replaces the map by the file, of which they say nothing.
`IInv` adds what holds of both copies: an entry's `createdAt` is its opening
time, its `lastSeen` is at most its last use, it is full only if earned, it
exists only for a drawn id; the file never has a second factor the map lacks, and
unless the last save failed the copies agree.
The lemma `SaveKeepsCopies` carries it through `persistLocked`, one step per
method does the rest, and `ContractStep` maps each method to a step of
`SessionContract`: a save that fails is a lagging store, a restart after it a
`Rollback`.  `StoreImplementsContract` justifies that `SignIn` uses the contract
in place of the store.

`UserStoreProofs`, from `UserStoreAssumption` (the marker values are distinct,
handlers and commands are disjoint).  `WholeUnlessOverlap` and `SeenIsSaved` rest on
`SerialInv`: while nobody has overlapped at most one saver is at work, and what the
temporary file (before the rename) and `users.json` (after it) hold is that saver's
directory; an edit of grants in place changes lists in RAM and nothing else, and
outside an overlap touches no other saver's directory.  `AdminKept` holds even when
savers overlap; it rests on `AdminInv`: unless an administrator was deleted or
demoted by command, *every* directory in existence, in RAM, in either file or in the
hands of a saver, has an administrator, so whichever save wins leaves one.

`OthersCorrect` (`SaveKeepsOthers`) adds `CopyInv`: what a lone handler is about
to save is the directory in RAM but for the records it was asked to change.

`SignInProofs`, from `SignInAssumption` (the bounds are naturals, the markers are
distinct from what they mark).  `FullSessionsEarned` speaks of sessions only; what
lies between a check and the call that records it is in the requests.  `FactorInv`
adds that no request claims more than was checked (`Honest`): the first factor of
the user it opens a session for, a session of its own user, and before
`Complete2FA` a session that owes nothing more.  `OneSessionPerCode` rests on
`CodeInv`: a code that was drawn is in one place at most, active for one email,
with one request that has redeemed it, or with the session it opened.

`PublishingProofs`, from `PublishingAssumption` and `FilesAssumption` (the main
goroutine is no handler, the marks of an unreadable file are no services).
`GateCurrent` rests on `GateInv`: until two workers have met, a worker's step says
how far the gate follows (`FarAlong`: from the moment Reload has read the file its
copy is the file, then the resolver follows, then the fields under the lock), and
while the core starts only its main goroutine is at work, on Reload.
`NginxCurrent` adds `ShownInv`, the same for `backends.conf` and, on the host, for
the reload command; `Counted` (certificates are numbered as they are issued, so a
pair that matches is the newest); and `Polled` (what the poller hashed before its
last load is what NGINX runs with, if the files stayed as they were).

`AccessProofs` has three parts.

* The panel, from `AccessAssumption`: `NotLockedOut` is not inductive, since what is
  put in force was checked, saved and read at earlier moments.  `PanelInv` says so of
  each station: a list on its way to the file admits its sender (`SavesAdmitSender`),
  a fresh read is what the file holds (`FreshIsSaved`), the file admits the last saver
  unless an older read was written back (`FileAdmitsSaver`), and the list in force is
  the file's unless a save has still to be reloaded (`FileInForce`).
* The two readings of a list, from `ListsAssumption` (lists are of backends, a
  request begins with a slash).  The lists change in single steps, so these are
  facts about operators, for lists of any length.  `LocationsDistinct`: the loops of
  `writeServer` put any two routes in an order (`WrittenTotal`, from `FirstOfIs` and
  `OrderIs`), and of two routes with one path the later is not written; what is
  always written differs by the proviso.
  `LoginReachable`: without an exact route there, the longest location that is a
  prefix exists and is the login page's own (`LocateExact`).  `InheritsNearest`: prefixes of one path nest
  (`PrefixesNest`), so the longest ancestor is unique and nearest.  `AgreeOnRoute`:
  under `Tidy` and `Aligned` a location that is a prefix is a route that matches, and
  conversely, so the longest of both are the same (`RoutesAgree`); an exact route
  matches nothing at the gate (`ExactNeverMatches`) and is no prefix of a request.  `TileReachable`:
  a tidy service's route resolves to itself (`ResolveOwn`).  Numbers and paths have
  lemmas of their own; a least element (`Least`) comes from the well-foundedness
  of the naturals and takes the place of induction.
* The grants, from `GrantsAssumption` and `DownAssumption` (every grant has a place
  in the order of strings; no path is empty or the root).  First the slices:
  `ListedIs` (the numbers of members before them tell the members of a finite set
  apart, so listing them loses none), then what `Arranged`, `Kept`, `Sorted`,
  `Appended`, `Decoded` and `Elems` do to the *set* of elements, and that an edit
  leaves the live slice whole (`Sound`: below its length the shared array holds
  grants, whoever has written to it).  `ServiceGrantsIs` and `PathGrantsIs` sum up the
  two edits.  `DirInv` then says what the directory, the copy and the file have in
  common at each step of a request: they agree before the edit, differ in grants on
  the editor's own service before the save, and after it the copy is the file.
  `PathInv` says which grants on paths may be stale: none between requests, those on
  the editor's own service from its commit to the save of its paths' grants.  Both
  invariants hold in the `grants` instance under TLC as well.

`FederationProofs`, from `FederationAssumption` and `TornAssumption`.
`SessionVouched` rests on `LoginInv`, which says what is known of a login at each
station: a cookie is of its browser's own login, a code of its login's issuer, a
callback of its browser and provider, and its user, if declared now, is noted as
declared since it began, whichever save replaced the directory.  `ClientsCurrent` and
`NoOrphanSecret` rest on `FilesInv`, which speaks of every request under way: what is
marked fresh is what the file holds (`Current`); the clients are those of the files,
or some request is on its way to a Reload that will see the difference (`Ahead`); a
secret without a provider belongs to a request that is still to write the provider or
to clear the secret, or is among those left by one that broke off (`Covered`).

`ProvisioningProofs`, from `ProvisioningAssumption` and `HoldingAssumption`.  The
types rest on `SecretsDrawn`: what a profile holds was drawn before.
`PairKept` and `TokenOnce` rest on `WizardInv`: every profile that went through
the form, in the file or in a request's hands, came out of one form; two requests
hold a token only if it counts as shared; a used token is about to be removed or
gone.  `PreviousKept` rests on `NoFuture`: no snapshot has a later name than the
one a save takes, so pruning cannot take that one; and on `CopiedKept`: what was
copied last is among the snapshots, and only that counts as replaced.

`WatchProofs`, from `WatchAssumption` (the list of targets has each once):
`AlertsTell`, from `AlertInv` (the state a probe compares with is still the one on
record when it ends, and while its alert is being sent the record is one ahead);
`HandledOnce`, from `AckInv` (what is in the answer at work has not been
acknowledged, and what has been handled has, to the loop or to Telegram, unless a
stop came in between).

Every invariant and action property of a passing run is proved.  Only
model-checked are the four liveness properties (`Published`, `CertServed`,
`ProbedAgain`, `UpdatesHandled`), since the prover does neither fairness nor
ENABLED, and the three violations, which are counterexamples.  `OneTimeCodes` has no
theorem of its own: its actions are steps of `SignIn`, and are covered there.

## Not modelled

Loss of power (there is no fsync; the models cover crashes of a process), hashing
and randomness, signatures and token formats, the ACME conversation and the internal
CA's files, the order of a container's own start, the text of an alert,
regular-expression locations, HTML, translations, branding and logging.  Docker
discovery reads the outside and keeps nothing (its results are inputs).  The agent
runs one vetted shell script per request, and the hosting extension is a user
interface in front of it: neither keeps state, and what the scripts do is outside a
model's reach.

## Plan

Built in this order: sessions and sign-in; the user store; publication; grants,
routing and access; providers, provisioning and the background loops; then the
proofs, module by module.  Left to look at: lemmas behind the liveness properties
(that a step of a worker lowers how much of Reload is left), and the hazards that
`PROJECT.json` lists without a property.
