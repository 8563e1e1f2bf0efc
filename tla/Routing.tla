------------------------------ MODULE Routing ------------------------------
(***************************************************************************)
(* The two readings of one list of backends.  The gate resolves a request  *)
(* to the route that decides about it (matrix/matrix.go) and to the grant  *)
(* that route asks for (models/config.go).  NGINX gets a server block per  *)
(* host with one location per route (proxy/generate.go) and picks the      *)
(* location that serves the request.                                       *)
(*                                                                         *)
(* A path is the sequence of its parts, the slashes included: /a/b is      *)
(* <<"/", "a", "/", "b">>, and /ab, which begins with /a, <<"/", "a", "b">>.*)
(* The path of a route may begin with the mark of an exact match, which    *)
(* NGINX understands and the gate takes for a part like any other.         *)
(***************************************************************************)
EXTENDS Naturals, SequencesExt

Root == <<"/">>

\* joinMatch: "= /x".
Exactly(path) == <<"= ">> \o path
IsExact(path) == path # <<>> /\ path[1] = "= "

\* strings.TrimRight(p, "/")
Trimmed(p) == SubSeq(p, 1, Max({0} \cup {i \in 1..Len(p) : p[i] # "/"}))

-----------------------------------------------------------------------------
(* The gate.  A backend is [id, host, www, unlisted, allow, routes], a     *)
(* route [path, rule, own].                                                *)

\* Mutant: any path that begins with the route's.
pathMatchesPrefix(req, path) ==
  path \in {<<>>, Root} \/ IsPrefix(Trimmed(path), req)

\* On the boundary of a part, or anything under the root.
pathMatches(req, path) ==
  \/ path \in {<<>>, Root}
  \/ req = Trimmed(path)
  \/ IsPrefix(Trimmed(path) \o Root, req)

\* The routes of the backends S, by their positions <<i, j>>.
Places(list, S) == UNION {{i} \X (1..Len(list[i].routes)) : i \in S}
RouteAt(list, p) == list[p[1]].routes[p[2]]

\* The routes of the host that match.
Matching(list, host, req) ==
  {p \in Places(list, {i \in 1..Len(list) : list[i].host = host}) :
     pathMatches(req, RouteAt(list, p).path)}

Earlier(p, q) == p[1] < q[1] \/ (p[1] = q[1] /\ p[2] < q[2])

\* Resolver.Resolve: the first of the longest, <<>> when nothing matches
\* (default-deny).
Resolve(list, host, req) ==
  LET M == Matching(list, host, req)
      len(p) == Len(RouteAt(list, p).path)
  IN  IF M = {} THEN <<>>
      ELSE CHOOSE p \in M : \A q \in M \ {p} :
             len(p) > len(q) \/ (len(p) = len(q) /\ Earlier(p, q))

\* "whitelist" is the former name of "authorized".
CanonicalRule(rule) == IF rule = "whitelist" THEN "authorized" ELSE rule

GrantID(id, path) == IF path \in {<<>>, Root} THEN <<id>> ELSE <<id, path>>

\* Mutant: the first ancestor in the list.
EffectiveGrantIDFirst(be, rt) ==
  LET anc == SelectSeq(be.routes, LAMBDA r :
               r.own /\ r.path \notin {<<>>, Root} /\ pathMatches(rt.path, r.path))
  IN  IF rt.own THEN GrantID(be.id, rt.path)
      ELSE IF anc = <<>> THEN <<be.id>> ELSE GrantID(be.id, Trimmed(anc[1].path))

\* A route's own list, or that of its nearest ancestor that has one, or the
\* service's.
EffectiveGrantID(be, rt) ==
  LET anc == {Trimmed(r.path) : r \in {r \in ToSet(be.routes) :
                r.own /\ r.path \notin {<<>>, Root} /\ pathMatches(rt.path, r.path)}}
  IN  IF rt.own THEN GrantID(be.id, rt.path)
      ELSE IF anc = {} THEN <<be.id>>
      ELSE GrantID(be.id, CHOOSE a \in anc : \A b \in anc : Len(a) >= Len(b))

-----------------------------------------------------------------------------
(* The generated server block of a host.  A group is the set of positions  *)
(* of the backends that share the host; a block is the set of its          *)
(* locations, whose order NGINX does not look at.                          *)

ownsRoot(be) == \E rt \in ToSet(be.routes) : rt.path \in {<<>>, Root}

\* Generate skips a backend with no routes.
Group(list, host) == {i \in 1..Len(list) : list[i].host = host /\ list[i].routes # <<>>}

\* sort.SliceStable by id.
ById(list, i, n) == list[i].id < list[n].id \/ (list[i].id = list[n].id /\ i < n)
FirstOf(list, S) == CHOOSE i \in S : \A n \in S \ {i} : ById(list, i, n)

\* The first that owns the root, the site itself.
Primary(list, G) ==
  LET owners == {i \in G : ownsRoot(list[i])}
  IN  FirstOf(list, IF owners = {} THEN G ELSE owners)

\* By id, then the primary changes places with the first: whose place i takes.
orderGroup(list, G) ==
  [i \in G |-> IF i = Primary(list, G) THEN FirstOf(list, G)
               ELSE IF i = FirstOf(list, G) THEN Primary(list, G) ELSE i]

\* The loop over the members and their routes comes to p before q.
WrittenBefore(list, G, p, q) ==
  IF p[1] = q[1] THEN p[2] < q[2]
  ELSE ById(list, orderGroup(list, G)[p[1]], orderGroup(list, G)[q[1]])

backendUsesAuth(be) == \E rt \in ToSet(be.routes) : rt.rule # "public"

\* Mutant: only the primary is asked.
groupUsesAuthPrimary(list, G) == backendUsesAuth(list[Primary(list, G)])

groupUsesAuth(list, G) == \E i \in G : backendUsesAuth(list[i])

\* An empty path means the root.
Normal(path) == IF path = <<>> THEN Root ELSE path

groupDeclaresPath(list, G, path) ==
  \E i \in G : \E rt \in ToSet(list[i].routes) : Normal(rt.path) = path

Login == <<"/", "login">>
Admin == <<"/", "admin">>
OwnPaths == {Login, <<"/", "auth", "/">>, <<"/", "logout">>, <<"/", "listing">>,
             <<"/", "_xtk", "/">>}

\* The paths the gate keeps on this host; /admin yields to a service's own.
Reserved(list, G) ==
  IF ~ groupUsesAuth(list, G) THEN {}
  ELSE OwnPaths \cup IF groupDeclaresPath(list, G, Admin) THEN {} ELSE {Admin}

\* Locations that every block begins with: the files of ACME challenges, and the
\* one NGINX asks the gate through, which no visitor can.
Challenge == <<"/", ".well-known", "/", "acme-challenge", "/">>
Internal == <<"/", "__auth">>
Always == {[path |-> Challenge, to |-> "challenge"],
           [path |-> Exactly(Internal), to |-> "internal"]}

\* A location of the gate's own interface, and writeLocation's of a route.
GateLocation(path) == [path |-> path, to |-> "gate"]
writeLocation(list, p) ==
  [path |-> Normal(RouteAt(list, p).path), to |-> "backend", at |-> p,
   rule |-> RouteAt(list, p).rule]

\* Mutant: an empty path is not taken for the root when repeats are dropped.
writeServerRaw(list, G) ==
  LET path(p) == RouteAt(list, p).path
      seen(p) == \/ path(p) \in Reserved(list, G)
                 \/ \E q \in Places(list, G) : WrittenBefore(list, G, q, p) /\ path(q) = path(p)
  IN  Always \cup {GateLocation(r) : r \in Reserved(list, G)} \cup
      {writeLocation(list, p) : p \in {p \in Places(list, G) : ~ seen(p)}}

\* The reserved paths, then each route whose path was not written before; the
\* locations that are always there do not count as written.
writeServer(list, G) ==
  LET path(p) == Normal(RouteAt(list, p).path)
      seen(p) == \/ path(p) \in Reserved(list, G)
                 \/ \E q \in Places(list, G) : WrittenBefore(list, G, q, p) /\ path(q) = path(p)
  IN  Always \cup {GateLocation(r) : r \in Reserved(list, G)} \cup
      {writeLocation(list, p) : p \in {p \in Places(list, G) : ~ seen(p)}}

\* nginx -t: a path twice and the file is refused.
Accepted(server) == \A l, m \in server : l.path = m.path => l = m

\* NGINX: the exact location of the request, or else the one with the longest path
\* the request begins with; a request that lacks nothing but the slash at the end of
\* a location that is passed on is told to come back with it.
Locate(server, req) ==
  LET exact == {l \in server : l.path = Exactly(req)}
      L == {l \in server : IsPrefix(l.path, req)}
      turns == /\ \E l \in server : l.path = req \o Root /\ l.to # "challenge"
               /\ ~ \E l \in server : l.path = req
  IN  IF exact # {} THEN CHOOSE l \in exact : TRUE
      ELSE IF turns THEN [to |-> "redirect"]
      ELSE IF L = {} THEN [to |-> "nowhere"]
      ELSE CHOOSE l \in L : \A m \in L : Len(l.path) >= Len(m.path)
=============================================================================
