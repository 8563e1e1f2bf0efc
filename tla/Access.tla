------------------------------- MODULE Access -------------------------------
(***************************************************************************)
(* A visitor of one published host: NGINX picks a location of the file it  *)
(* has loaded, the gate decides by the list it has now (auth_request,      *)
(* handleValidate), and the visitor is served, refused or sent to the      *)
(* login page.  The dashboard lists what the visitor may use; the panel    *)
(* also asks where the visitor comes from, by a list in services.json that *)
(* administrators change from several places at once, beside requests that *)
(* write that file for other reasons and beside other Reloads.             *)
(***************************************************************************)
EXTENDS Routing

CONSTANTS
  Setups,      \* the lists of backends the program may start with
  Updates,     \* the lists published while it runs
  Records,     \* what users.json may say of the visitor: admin flag and grants
  Gone,        \* no record: the user was deleted
  Links,       \* the links of services.json, [id, public, disabled]
  Parts,       \* the parts of a path
  Requests,    \* the paths asked for
  Host,        \* the host they are asked of
  Addrs,       \* the addresses visitors and administrators come from
  Proxy,       \* the address NGINX talks to the gate from
  Trusted,     \* server.trusted_proxies
  ConfigIPs,   \* admin.ip_whitelist of config.json
  AuthMode,    \* auth_mode of config.json
  Others,      \* other requests of the panel, renewals
  Torn,        \* a services.json that does not parse
  None         \* nobody has saved a list

ASSUME AccessAssumption ==
  /\ Proxy \notin Addrs
  /\ Proxy \in Trusted
  /\ Addrs \cap Trusted = {}
  /\ ConfigIPs \subseteq Addrs
  /\ AuthMode \in BOOLEAN
  /\ None \notin Addrs
  /\ Addrs \cap Others = {}
  /\ \A S \in SUBSET Addrs : Torn # S

VARIABLES
  backends,    \* Resolver.backends
  loaded,      \* the list that NGINX's configuration was generated from
  user,        \* the visitor's record in the directory
  sess,        \* the visitor's session: none, first factor, both
  adminIPs,    \* Server.adminIPs, the override; empty: the list of config.json
  savedIPs,    \* the override in services.json
  work,        \* work[w]: how far request w has got in mutateServices and Reload
  saver,       \* history: where the last list was saved from
  stale        \* history: a list read before another's save was written back or put in force

vars == <<backends, loaded, user, sess, adminIPs, savedIPs, work, saver, stale>>
panel == <<adminIPs, savedIPs, work, saver, stale>>

-----------------------------------------------------------------------------
(* Where a request comes from.                                             *)

\* X-Real-IP counts only from a proxy that is trusted; NGINX always sets it.
clientIP(peer, realIP) == IF peer \in Trusted THEN realIP ELSE peer

effectiveAdminIPs(override) == IF override = {} THEN ConfigIPs ELSE override

\* adminAllowed, adminSessionOK.
adminGuard(addr) ==
  /\ clientIP(Proxy, addr) \in effectiveAdminIPs(adminIPs)
  /\ sess = "full"
  /\ user # Gone /\ user.admin

-----------------------------------------------------------------------------
(* The gate's answer.                                                      *)

Authorized(u, grant) == grant \in u.grants

\* The visitor's own part of handleValidate, once a route is found.
RuleAllows(be, rt) ==
  LET rule == CanonicalRule(rt.rule)
  IN  IF rule = "public" THEN "ok"
      ELSE IF rule \notin {"authenticated", "authorized"} THEN "forbidden"
      ELSE IF sess # "full" THEN "login"
      ELSE IF rule = "authorized" /\
                ~ (user # Gone /\ (user.admin \/ Authorized(user, EffectiveGrantID(be, rt))))
        THEN "forbidden" ELSE "ok"

\* handleValidate: the host as it was asked for, the service's list of addresses
\* before the rule.
handleValidate(host, req, addr) ==
  LET p == Resolve(backends, host, req)
  IN  IF ~ AuthMode THEN "ok"
      ELSE IF p = <<>> THEN "forbidden"
      ELSE LET be == backends[p[1]]
           IN  IF be.allow # {} /\ clientIP(Proxy, addr) \notin be.allow
                 THEN "forbidden"
                 ELSE RuleAllows(be, RouteAt(backends, p))

\* The server block Generate writes for the host.
Server(list) == writeServer(list, Group(list, Host))

\* A location of a route that is not public asks the gate first.
Answer(server, req, addr) ==
  LET loc == Locate(server, req)
  IN  IF loc.to # "backend" THEN loc.to
      ELSE IF loc.rule = "public" THEN "ok"
      ELSE handleValidate(Host, req, addr)

-----------------------------------------------------------------------------
(* The dashboard.                                                          *)

\* Mutant: a grant on any path of the service shows its tile.
canSeeBackendByPath(be) ==
  \/ user.admin
  \/ \E rt \in ToSet(be.routes) : rt.rule \in {"public", "authenticated"}
  \/ \E g \in user.grants : g[1] = be.id

canSeeBackend(be) ==
  \/ user.admin
  \/ \E rt \in ToSet(be.routes) : rt.rule \in {"public", "authenticated"}
  \/ Authorized(user, <<be.id>>)

\* handleListing, tilesFor: only with a full session; services by their position.
tilesFor ==
  LET in == sess = "full" /\ user # Gone
  IN  [services |-> {i \in 1..Len(backends) :
                       in /\ canSeeBackend(backends[i]) /\ ~ backends[i].unlisted},
       links |-> {l \in Links :
                    in /\ ~ l.disabled /\
                    (user.admin \/ l.public \/ Authorized(user, <<l.id>>))}]

-----------------------------------------------------------------------------
Rules == {"public", "authenticated", "authorized", "whitelist"}
Routes == [path : Seq(Parts), rule : Rules, own : BOOLEAN]
Backends == [id : Nat, host : STRING, www : BOOLEAN, unlisted : BOOLEAN,
             allow : SUBSET Addrs, routes : Seq(Routes)]

ASSUME ListsAssumption ==
  /\ Setups \subseteq Seq(Backends)
  /\ Updates \subseteq Seq(Backends)
  /\ OwnPaths \cup {Admin, Root, Challenge, Internal, <<"= ">>} \subseteq Seq(Parts)
  /\ \A req \in Requests : req \in Seq(Parts) /\ IsPrefix(Root, req)

Workers == Addrs \cup Others

\* The list is the one to be saved, and in the end the one to put in force; fresh:
\* nobody has saved since the file was read.
Work == [pc : {"idle", "load", "save", "reload", "swap"}, list : SUBSET Addrs,
         fresh : BOOLEAN]
Resting == [pc |-> "idle", list |-> {}, fresh |-> TRUE]

TypeOK ==
  /\ {backends, loaded} \subseteq Seq(Backends)
  /\ user \in Records \cup {Gone}
  /\ sess \in {"none", "half", "full"}
  /\ adminIPs \in SUBSET Addrs
  /\ savedIPs = Torn \/ savedIPs \in SUBSET Addrs
  /\ work \in [Workers -> Work]
  /\ saver \in Addrs \cup {None}
  /\ stale \in BOOLEAN

Init ==
  /\ backends \in Setups
  /\ Accepted(Server(backends))
  /\ loaded = backends
  /\ user \in Records
  /\ sess = "none"
  /\ adminIPs = {} /\ savedIPs = {}
  /\ work = [w \in Workers |-> Resting]
  /\ saver = None /\ stale = FALSE

\* The login handlers (SignIn); they are reached through the gate's own paths.
SignIn(s) ==
  /\ user # Gone
  /\ sess' = s
  /\ UNCHANGED <<backends, loaded, user, panel>>

\* mutateUsers: the record changes under an open session.
UserChanged(u) ==
  /\ user' = u
  /\ UNCHANGED <<backends, loaded, sess, panel>>

\* Reload with another list; NGINX loads the file later (Publishing).
Reload(list) ==
  /\ backends' = list
  /\ UNCHANGED <<loaded, user, sess, panel>>

NginxLoads ==
  /\ Accepted(Server(backends))
  /\ loaded' = backends
  /\ UNCHANGED <<backends, user, sess, panel>>

-----------------------------------------------------------------------------
(* The panel's list.  A request of the panel reads services.json, writes   *)
(* it and reloads; Reload reads it again and puts the list in force.  No   *)
(* lock spans any two of these.                                            *)

\* Mutant: the list in force now is asked.
AdminIPsInForce(addr, list) ==
  /\ adminGuard(addr)
  /\ work[addr].pc = "idle"
  /\ clientIP(Proxy, addr) \in effectiveAdminIPs(adminIPs)
  /\ work' = [work EXCEPT ![addr] = [pc |-> "load", list |-> list, fresh |-> TRUE]]
  /\ UNCHANGED <<backends, loaded, user, sess, adminIPs, savedIPs, saver, stale>>

\* handleAdminIPs: the list in force afterwards must have the caller in it.
AdminIPs(addr, list) ==
  /\ adminGuard(addr)
  /\ work[addr].pc = "idle"
  /\ clientIP(Proxy, addr) \in effectiveAdminIPs(list)
  /\ work' = [work EXCEPT ![addr] = [pc |-> "load", list |-> list, fresh |-> TRUE]]
  /\ UNCHANGED <<backends, loaded, user, sess, adminIPs, savedIPs, saver, stale>>

\* Another request that changes services.json, or a renewal that only reloads.
OtherStarts(w, pc) ==
  /\ work[w].pc = "idle"
  /\ work' = [work EXCEPT ![w] = [pc |-> pc, list |-> {}, fresh |-> TRUE]]
  /\ UNCHANGED <<backends, loaded, user, sess, adminIPs, savedIPs, saver, stale>>

\* mutateServices, LoadServices: the other requests keep the list they find.
LoadServices(w) ==
  /\ work[w].pc = "load"
  /\ savedIPs # Torn
  /\ work' = [work EXCEPT ![w] = [pc |-> "save", fresh |-> TRUE,
                               list |-> IF w \in Addrs THEN @.list ELSE savedIPs]]
  /\ UNCHANGED <<backends, loaded, user, sess, adminIPs, savedIPs, saver, stale>>

\* What the others have read is an older file now.
Saved(w, next) ==
  work' = [v \in Workers |-> IF v = w THEN next
                            ELSE IF work[v].pc = "idle" THEN work[v]
                            ELSE [work[v] EXCEPT !.fresh = FALSE]]

SaveServices(w) ==
  /\ work[w].pc = "save"
  /\ savedIPs' = work[w].list
  /\ Saved(w, [work[w] EXCEPT !.pc = "reload", !.fresh = TRUE])
  /\ saver' = IF w \in Addrs THEN w ELSE saver
  /\ stale' = (stale \/ (w \in Others /\ ~ work[w].fresh))
  /\ UNCHANGED <<backends, loaded, user, sess, adminIPs>>

\* The file is written in place, and the write breaks off.
SaveBreaks(w) ==
  /\ work[w].pc = "save"
  /\ savedIPs' = Torn
  /\ Saved(w, Resting)
  /\ UNCHANGED <<backends, loaded, user, sess, adminIPs, saver, stale>>

\* Reload reads the file ...
ReloadReads(w) ==
  /\ work[w].pc = "reload"
  /\ savedIPs # Torn
  /\ work' = [work EXCEPT ![w] = [pc |-> "swap", list |-> savedIPs, fresh |-> TRUE]]
  /\ UNCHANGED <<backends, loaded, user, sess, adminIPs, savedIPs, saver, stale>>

\* ... and, when it has built the providers' clients, puts the list in force.
ReloadSwaps(w) ==
  /\ work[w].pc = "swap"
  /\ adminIPs' = work[w].list
  /\ work' = [work EXCEPT ![w] = Resting]
  /\ stale' = (stale \/ ~ work[w].fresh)
  /\ UNCHANGED <<backends, loaded, user, sess, savedIPs, saver>>

\* LoadServices finds a file that does not parse, in either place.
LoadFails(w) ==
  /\ work[w].pc \in {"load", "reload"}
  /\ savedIPs = Torn
  /\ work' = [work EXCEPT ![w] = Resting]
  /\ UNCHANGED <<backends, loaded, user, sess, adminIPs, savedIPs, saver, stale>>

\* The program stops and starts again, as it can with a file that parses.
Restart ==
  /\ savedIPs # Torn
  /\ adminIPs' = savedIPs
  /\ work' = [w \in Workers |-> Resting]
  /\ UNCHANGED <<backends, loaded, user, sess, savedIPs, saver, stale>>

Next ==
  \/ \E s \in {"none", "half", "full"} : SignIn(s)
  \/ \E u \in Records \cup {Gone} : UserChanged(u)
  \/ \E list \in Updates : Reload(list)
  \/ NginxLoads
  \/ \E addr \in Addrs, list \in SUBSET Addrs : AdminIPs(addr, list)
  \/ \E w \in Others, pc \in {"load", "reload"} : OtherStarts(w, pc)
  \/ \E w \in Workers : \/ LoadServices(w) \/ SaveServices(w) \/ SaveBreaks(w)
                        \/ ReloadReads(w) \/ ReloadSwaps(w) \/ LoadFails(w)
  \/ Restart

Spec == Init /\ [][Next]_vars

-----------------------------------------------------------------------------
\* The routes of the host whose path is no exact match.
Prefixed(list) == {p \in Places(list, Group(list, Host)) : ~ IsExact(RouteAt(list, p).path)}

\* Among them, every path is empty or begins with a slash, none ends in two, no two
\* routes have the same path, and no two paths differ in nothing but the slash at
\* the end.  The panel does not see to any of this.
Tidy(list) ==
  LET path(p) == RouteAt(list, p).path
  IN  /\ \A p \in Prefixed(list) : path(p) = <<>> \/ IsPrefix(Root, path(p))
      /\ \A p \in Prefixed(list) : path(p) \in {Trimmed(path(p)), Trimmed(path(p)) \o Root}
      /\ \A p, q \in Prefixed(list) : p # q => Trimmed(path(p)) # Trimmed(path(q))

\* A request that begins with a route's path also falls under it.
Aligned(list, req) ==
  \A p \in Places(list, Group(list, Host)) :
    LET path == RouteAt(list, p).path IN IsPrefix(path, req) => pathMatches(req, path)

\* Once NGINX has loaded what the gate decides by, the gate decides about the
\* service NGINX is about to serve, by the route NGINX has chosen: two matching
\* rules, in two programs, agree (matrix.go:51-93, generate.go:105-258).  So it is
\* for paths that are tidy, and a request that no exact location answers.  Otherwise
\* they part: no request falls under an exact path for the gate, and of two services
\* with one path NGINX serves the first by id, the gate asks the first of its list.
AgreeOnRoute ==
  loaded = backends /\ Tidy(backends) =>
    LET server == Server(loaded)
    IN  \A req \in {r \in Requests : Aligned(backends, r)} :
          LET loc == Locate(server, req)
          IN  loc.to = "backend" /\ ~ IsExact(loc.path) =>
                Resolve(backends, Host, req) = loc.at

\* However services share a host, nginx -t meets no location twice
\* (generate.go:226-245), one repeated path would take every site down: as long as no
\* route has the path of one of the two locations that are always there.
LocationsDistinct ==
  (\A l \in Always : ~ groupDeclaresPath(backends, Group(backends, Host), l.path)) =>
    Accepted(Server(backends))

\* Whoever is sent to the login page finds it on that host, also while NGINX
\* still runs the file of an earlier list (generate.go:263-283), unless a service
\* takes that very path with an exact route.
LoginReachable ==
  LET server == Server(loaded)
  IN  (\E req \in Requests, addr \in Addrs : Answer(server, req, addr) = "login") =>
        \/ Locate(server, Login).to = "gate"
        \/ groupDeclaresPath(loaded, Group(loaded, Host), Exactly(Login))

\* The grant a route asks for is that of its nearest ancestor with a list of its
\* own, for paths written without a slash at the end (models/config.go:323-346); an
\* exact path has none but exact ones.
InheritsNearest ==
  \A be \in ToSet(backends) : \A rt \in ToSet(be.routes) :
    LET own == {r.path : r \in {r \in ToSet(be.routes) : r.own}} \ {<<>>, Root}
        up == {p \in own : p = rt.path \/ IsPrefix(p \o Root, rt.path)}
    IN  (\A p \in own : p = Trimmed(p)) =>
          IF up = {} THEN EffectiveGrantID(be, rt) = <<be.id>>
          ELSE \E p \in up : /\ EffectiveGrantID(be, rt) = <<be.id, p>>
                             /\ \A q \in up : IsPrefix(q, p)

\* A tile leads somewhere: a service of the host on the dashboard has a path the
\* gate lets the visitor use, from an address the service admits, when none of its
\* routes is exact or takes the service's own list from it (server.go:411-455).
TileReachable ==
  Tidy(backends) =>
    \A i \in Group(backends, Host) \cap tilesFor.services :
      LET be == backends[i]
      IN  EffectiveGrantID(be, be.routes[1]) = <<be.id>>
            /\ (\A rt \in ToSet(be.routes) : ~ IsExact(rt.path)) =>
            \A addr \in Addrs : be.allow = {} \/ addr \in be.allow =>
              \E rt \in ToSet(be.routes) :
                LET req == Normal(Trimmed(rt.path))
                IN  /\ handleValidate(Host, req, addr) = "ok"
                    /\ Resolve(backends, Host, req)[1] = i

\* However many lists are checked and saved at the same time, and whatever else is
\* saved and reloaded beside them, the administrator who saved last is not locked out
\* once every save has been reloaded (handlers/admin.go:1293-1321): as long as no list
\* that was read before another's save is written back or put in force after it, which
\* the code leaves to chance (admin.go:833-844, server.go:122-148).
NotLockedOut ==
  saver # None /\ ~ stale /\ savedIPs # Torn
    /\ (\A w \in Workers : work[w].pc \notin {"reload", "swap"})
  => saver \in effectiveAdminIPs(adminIPs)
=============================================================================
