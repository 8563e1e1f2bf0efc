------------------------------- MODULE Grants -------------------------------
(***************************************************************************)
(* Who may use which service.  A user's record lists grants: the id of a   *)
(* service, or a service and one of its paths.  The panel changes them     *)
(* from two sides, a user's page (handleUserAuthz) and a service's editor  *)
(* (handleBackendEdit, which commits the service, then its grants, then    *)
(* the grants on its paths), and services come and go without them.  At    *)
(* the next boot Validate compares the two files.                          *)
(*                                                                         *)
(* UserDirectory.All copies records, and a record's list is a Go slice: it *)
(* shares its array with the live directory, which the gate reads.  The    *)
(* slices are therefore modelled with their arrays.  One request is at     *)
(* work at a time; what two savers do to users.json is in UserStore.       *)
(***************************************************************************)
EXTENDS Routing

CONSTANTS
  Users,
  Admins,      \* the users with the admin flag: their boxes cannot be ticked
  Ids,         \* ids a service or a link may have
  Base,        \* ids of the backends of config.json
  Paths,       \* paths a backend may treat on their own
  Order,       \* all grants in the order of sort.Strings
  Absent,      \* no backend under this id
  Blank,       \* what an unused place of an array holds
  Down,        \* the directory of a core that is not running
  MaxEdits,    \* bound: changes started
  MaxFails     \* bound: failed saves and crashes

Grant == {<<id>> : id \in Ids} \cup (Ids \X Paths)

\* A backend's overrides: the paths listed, and whose users they admit.
Overrides == [Paths -> {"absent", "inherit", "own"}]
Services == [backends : [Ids -> Overrides \cup {Absent}], links : SUBSET Ids]

Published(svc) == {id \in Ids : svc.backends[id] # Absent}

ASSUME GrantsAssumption ==
  /\ Admins \subseteq Users
  /\ Base \subseteq Ids
  /\ {<<>>, Root} \cap Paths = {}
  /\ Order \in Seq(Grant) /\ Grant \subseteq ToSet(Order)
  /\ Absent \notin Overrides
  /\ MaxEdits \in Nat /\ MaxFails \in Nat

VARIABLES
  services,    \* services.json
  disk,        \* users.json: each user's list
  live,        \* UserDirectory: each user's slice
  job,         \* the request at work
  failed,      \* a save has failed since the core started
  tainted,     \* history: a backend was deleted, or an edit did not complete
  edits, fails

history == <<failed, tainted>>
bounds == <<edits, fails>>
grantVars == <<services, disk, live, job, history, bounds>>

-----------------------------------------------------------------------------
(* Go slices.  The array may be longer than the slice; append reuses it,   *)
(* and doubles it when it is full.  "seen" is the array the live directory *)
(* still points at: the same one until append has made another.            *)

Cell == Grant \cup {Blank}
Slices == {s \in [arr : Seq(Cell), len : Nat] :
             s.len <= Len(s.arr) /\ \A i \in 1..s.len : s.arr[i] \in Grant}

ASSUME DownAssumption == Down \notin [Users -> Slices]

Elems(s) == SubSeq(s.arr, 1, s.len)
In(s) == {s.arr[i] : i \in 1..s.len}

\* The array that growing from nothing, one element at a time, ends with.  (Beyond
\* 16, which no list here reaches, it is taken to be exact.)
Capacity(n) ==
  IF n > 16 THEN n
  ELSE CHOOSE c \in {0, 1, 2, 4, 8, 16} :
         c >= n /\ \A d \in {0, 1, 2, 4, 8, 16} : d >= n => c <= d

Decoded(list) ==
  [arr |-> [i \in 1..Capacity(Len(list)) |-> IF i <= Len(list) THEN list[i] ELSE Blank],
   len |-> Len(list)]

\* The copy All hands out, and what becomes of the shared array.
Shared(s) == [arr |-> s.arr, len |-> s.len, seen |-> s.arr, own |-> FALSE]
Owned(s) == [arr |-> s.arr, len |-> s.len]

InPlace(c, arr, len) ==
  [arr |-> arr, len |-> len, seen |-> IF c.own THEN c.seen ELSE arr, own |-> c.own]

\* append of the elements of a list, one after the other: into the free places,
\* and once these are used up into an array of its own.
Appended(c, list) ==
  LET n == c.len + Len(list)
      arr == [i \in 1..Len(c.arr) |->
                IF i \in c.len + 1..n THEN list[i - c.len] ELSE c.arr[i]]
  IN  IF n <= Len(c.arr) THEN InPlace(c, arr, n)
      ELSE [arr |-> [i \in 1..Capacity(n) |->
                       IF i <= c.len THEN c.arr[i]
                       ELSE IF i <= n THEN list[i - c.len] ELSE Blank],
            len |-> n, seen |-> IF c.own THEN c.seen ELSE arr, own |-> TRUE]

\* The members of S one after the other, by the strict order B.
Listed(S, B) ==
  [j \in 1..Cardinality(S) |->
     CHOOSE x \in S : Cardinality({y \in S : <<y, x>> \in B}) = j - 1]

\* What is at the places S comes first, by the order B; the rest stays as it is.
Arranged(c, S, B) ==
  LET n == Cardinality(S)
      arr == [i \in 1..Len(c.arr) |-> IF i <= n THEN c.arr[Listed(S, B)[i]] ELSE c.arr[i]]
  IN  InPlace(c, arr, n)

\* out := s[:0], then append of the elements that stay.
Kept(c, stay) ==
  LET S == {i \in 1..c.len : c.arr[i] \in stay}
  IN  Arranged(c, S, {p \in S \X S : p[1] < p[2]})

Rank(g) == CHOOSE i \in 1..Len(Order) : Order[i] = g

\* The places of an array by what they hold, and grants as they are.
ByRank(arr, S) ==
  {p \in S \X S : \/ Rank(arr[p[1]]) < Rank(arr[p[2]])
                  \/ arr[p[1]] = arr[p[2]] /\ p[1] < p[2]}
ListOf(G) == Listed(G, {p \in G \X G : Rank(p[1]) < Rank(p[2])})

\* Mutant: what is left in the array beyond the slice is sorted with it.
SortedAll(c) ==
  LET used == {i \in 1..Len(c.arr) : c.arr[i] # Blank}
  IN  [Arranged(c, used, ByRank(c.arr, used)) EXCEPT !.len = c.len]

Sorted(c) == Arranged(c, 1..c.len, ByRank(c.arr, 1..c.len))

-----------------------------------------------------------------------------
(* The two lists a service's editor changes.                               *)

\* applyServiceGrants, for one user.
ServiceGrants(s, id, enabled) ==
  LET c == Shared(s)
      has == <<id>> \in In(s)
  IN  IF enabled /\ ~ has THEN Appended(c, << <<id>> >>)
      ELSE IF has /\ ~ enabled THEN Kept(c, Grant \ {<<id>>})
      ELSE c

\* Mutant: only the paths of the form are rebuilt.
PathGrantsOfForm(s, id, paths) ==
  LET kept == Kept(Shared(s), {g \in Grant : ~ (Len(g) = 2 /\ g[1] = id /\ g[2] \in paths)})
  IN  Sorted(Appended(kept, ListOf({GrantID(id, p) : p \in paths})))

\* applyPathGrants, for one user: the grants on the service's paths are rebuilt.
\* (The order of the map they come from is lost in the sort, except in an array
\* that the slice has outgrown.)
PathGrants(s, id, paths) ==
  LET kept == Kept(Shared(s), {g \in Grant : ~ (Len(g) = 2 /\ g[1] = id)})
  IN  Sorted(Appended(kept, ListOf({GrantID(id, p) : p \in paths})))

-----------------------------------------------------------------------------
(* What the pages show.                                                    *)

Holds(u, g) == g \in In(live[u])

\* authzTree: the services a user's page offers.
authzTree == Base \cup Published(services) \cup services.links

\* Mutant: every path shows who may use the whole service.
pathGranteesWide(id, path) == {u \in Users : Holds(u, <<id>>)}

pathGrantees(id, path) ==
  IF path \in {<<>>, Root} THEN {} ELSE {u \in Users : Holds(u, GrantID(id, path))}

serviceUsers(id) == {u \in Users : Holds(u, <<id>>)}

\* The boxes of handleBackendEditForm as they are when nobody touches them; an
\* administrator's is disabled, and a disabled box is not sent.
EditForm(id) ==
  [id |-> id, over |-> services.backends[id], sent |-> TRUE,
   enabled |-> serviceUsers(id) \ Admins,
   grantees |-> [p \in Paths |-> IF services.backends[id][p] = "own"
                                   THEN pathGrantees(id, p) ELSE {}]]

\* The paths that form f lets user u in on by themselves.
PathsFor(f, u) == {p \in Paths : f.over[p] = "own" /\ u \in f.grantees[p]}

-----------------------------------------------------------------------------
Idle == [pc |-> "idle"]

Copies == [Users -> Slices]

\* What a browser may send for backend id: a list of users only for the paths
\* that do not inherit, no box of an administrator among the enabled.
Forms(id) ==
  {f \in [id : {id}, over : Overrides, sent : BOOLEAN, enabled : SUBSET (Users \ Admins),
          grantees : [Paths -> SUBSET Users]] :
     /\ \A p \in Paths : f.over[p] # "own" => f.grantees[p] = {}
     /\ f.sent \/ f.enabled = {}}

AuthzJobs == [pc : {"save", "swap"}, what : {"authz"}, copy : Copies]
EditorJobs == [pc : {"commit", "edit", "save", "swap"}, what : {"service", "path"},
               form : UNION {Forms(id) : id \in Ids}, copy : Copies]

GrantTypeOK ==
  /\ services \in Services
  /\ disk \in [Users -> Seq(Grant)]
  /\ live \in Copies \cup {Down}
  /\ job \in {Idle} \cup AuthzJobs \cup EditorJobs
  /\ failed \in BOOLEAN /\ tainted \in BOOLEAN
  /\ edits \in 0..MaxEdits /\ fails \in 0..MaxFails

\* A core that has booted on services without overrides, and grants on them.
GrantInit ==
  /\ \E S \in SUBSET (Ids \ Base) :
       /\ services = [backends |-> [id \in Ids |->
                        IF id \in S THEN [p \in Paths |-> "absent"] ELSE Absent],
                      links |-> {}]
       /\ disk \in [Users -> {ListOf(G) : G \in SUBSET {<<id>> : id \in S \cup Base}}]
  /\ live = [u \in Users |-> Decoded(disk[u])]
  /\ job = Idle
  /\ failed = FALSE /\ tainted = FALSE
  /\ edits = 0 /\ fails = 0

Change ==
  /\ edits < MaxEdits
  /\ edits' = edits + 1
  /\ UNCHANGED fails

Fail ==
  /\ fails < MaxFails
  /\ fails' = fails + 1
  /\ UNCHANGED edits

-----------------------------------------------------------------------------
(* Services and links.  Their own saving and Reload are in Publishing.     *)

idTaken(id) == id \in Base \cup Published(services) \cup services.links

serviceIDExists(id) == id \in Published(services) \cup services.links

SetServices(svc) ==
  /\ Change
  /\ services' = svc
  /\ UNCHANGED <<disk, live, job, failed>>

\* A request of the panel, one at a time.
Panel == live # Down /\ job = Idle

LinkAdd(id) ==
  /\ Panel
  /\ ~ idTaken(id)
  /\ SetServices([services EXCEPT !.links = @ \cup {id}])
  /\ UNCHANGED tainted

\* The grants on a link stay behind it.
LinkDel(id) ==
  /\ Panel
  /\ SetServices([services EXCEPT !.links = @ \ {id}])
  /\ UNCHANGED tainted

BackendAdd(id) ==
  /\ Panel
  /\ ~ idTaken(id)
  /\ SetServices([services EXCEPT !.backends[id] = [p \in Paths |-> "absent"]])
  /\ UNCHANGED tainted

\* So do the grants on a backend and on its paths.
BackendDel(id) ==
  /\ Panel
  /\ SetServices([services EXCEPT !.backends[id] = Absent])
  /\ tainted' = (tainted \/ services.backends[id] # Absent)

\* add-link and add-backend: they need no running core, and look at
\* services.json only.
RunAddLink(id) ==
  /\ job = Idle
  /\ ~ serviceIDExists(id)
  /\ SetServices([services EXCEPT !.links = @ \cup {id}])
  /\ UNCHANGED tainted

RunAddBackend(id) ==
  /\ job = Idle
  /\ ~ serviceIDExists(id)
  /\ SetServices([services EXCEPT !.backends[id] = [p \in Paths |-> "absent"]])
  /\ UNCHANGED tainted

-----------------------------------------------------------------------------
(* Requests that change grants.  mutateUsers: All, the handler's edit,     *)
(* SaveUsers, Replace.                                                     *)

\* handleUserAuthz: the boxes ticked become the user's list, and any grant on
\* a path goes.
UserAuthz(u, S) ==
  /\ Panel
  /\ S \subseteq authzTree
  /\ Change
  /\ job' = [pc |-> "save", what |-> "authz",
             copy |-> [live EXCEPT ![u] = Decoded(ListOf({<<id>> : id \in S}))]]
  /\ UNCHANGED <<services, disk, live, history>>

\* handleBackendEdit with form f, for a backend that is still there; a form
\* without the list of users (sent) leaves the grants on the service alone.
BackendEdit(f) ==
  /\ Panel
  /\ services.backends[f.id] # Absent
  /\ Change
  /\ job' = [pc |-> "commit", what |-> IF f.sent THEN "service" ELSE "path",
             form |-> f, copy |-> live]
  /\ UNCHANGED <<services, disk, live, history>>

Commit ==
  /\ job.pc = "commit"
  /\ services' = [services EXCEPT !.backends[job.form.id] = job.form.over]
  /\ job' = [job EXCEPT !.pc = "edit"]
  /\ UNCHANGED <<disk, live, history, bounds>>

\* services.json is not written, or it is and Reload then fails: either way the
\* grants are not touched.
CommitFails ==
  /\ job.pc = "commit"
  /\ Fail
  /\ services' \in {services,
                    [services EXCEPT !.backends[job.form.id] = job.form.over]}
  /\ job' = Idle
  /\ tainted' = TRUE
  /\ UNCHANGED <<disk, live, failed>>

\* The edit as the loop over the copies makes it, and its trace in the arrays
\* the live directory shares with them.
EditCopy ==
  LET f == job.form
      edited == [u \in Users |->
        IF job.what = "service" THEN ServiceGrants(live[u], f.id, u \in f.enabled)
                                ELSE PathGrants(live[u], f.id, PathsFor(f, u))]
  IN  /\ job.pc = "edit"
      /\ job' = [job EXCEPT !.pc = "save", !.copy = [u \in Users |-> Owned(edited[u])]]
      /\ live' = [u \in Users |-> [live[u] EXCEPT !.arr = edited[u].seen]]
      /\ UNCHANGED <<services, disk, history, bounds>>

SaveUsers ==
  /\ job.pc = "save"
  /\ disk' = [u \in Users |-> Elems(job.copy[u])]
  /\ job' = [job EXCEPT !.pc = "swap"]
  /\ UNCHANGED <<services, live, history, bounds>>

\* Mutant: the request stays at work.
SaveUsersFailsKeeps ==
  /\ job.pc = "save"
  /\ Fail
  /\ job' = [job EXCEPT !.pc = "idle"]
  /\ failed' = TRUE
  /\ tainted' = TRUE
  /\ UNCHANGED <<services, disk, live>>

\* mutateUsers returns the error: the directory is not replaced.
SaveUsersFails ==
  /\ job.pc = "save"
  /\ Fail
  /\ job' = Idle
  /\ failed' = TRUE
  /\ tainted' = TRUE
  /\ UNCHANGED <<services, disk, live>>

\* Mutant: the directory keeps its own records.
ReplaceNot ==
  /\ job.pc = "swap"
  /\ UNCHANGED live
  /\ job' = IF job.what = "service" THEN [job EXCEPT !.pc = "edit", !.what = "path"]
                                    ELSE Idle
  /\ UNCHANGED <<services, disk, history, bounds>>

\* Users.Replace; the editor goes on to the grants on paths.
Replace ==
  /\ job.pc = "swap"
  /\ live' = job.copy
  /\ job' = IF job.what = "service" THEN [job EXCEPT !.pc = "edit", !.what = "path"]
                                    ELSE Idle
  /\ UNCHANGED <<services, disk, history, bounds>>

-----------------------------------------------------------------------------
(* Validate compares users.json with the ids it may refer to.              *)

ServicesAccepted ==
  /\ Base \cap Published(services) = {}
  /\ services.links \cap (Base \cup Published(services)) = {}

GrantsAccepted ==
  \A u \in Users : ToSet(disk[u]) \subseteq {<<id>> : id \in authzTree}

Validate == ServicesAccepted /\ GrantsAccepted

Crash ==
  /\ live # Down
  /\ Fail
  /\ live' = Down
  /\ job' = Idle
  /\ tainted' = (tainted \/ job # Idle)
  /\ UNCHANGED <<services, disk, failed>>

Boot ==
  /\ live = Down
  /\ Validate
  /\ live' = [u \in Users |-> Decoded(disk[u])]
  /\ failed' = FALSE
  /\ UNCHANGED <<services, disk, job, tainted, bounds>>

-----------------------------------------------------------------------------
GrantNext ==
  \/ \E id \in Ids :
       \/ LinkAdd(id) \/ LinkDel(id) \/ BackendAdd(id) \/ BackendDel(id)
       \/ RunAddLink(id) \/ RunAddBackend(id)
       \/ \E f \in Forms(id) : BackendEdit(f)
  \/ \E u \in Users, S \in SUBSET Ids : UserAuthz(u, S)
  \/ Commit \/ CommitFails \/ EditCopy
  \/ SaveUsers \/ SaveUsersFails \/ Replace
  \/ Crash \/ Boot

GrantSpec == GrantInit /\ [][GrantNext]_grantVars

-----------------------------------------------------------------------------
Held(u) == ToSet(disk[u])
Seen(u) == In(live[u])

\* Between requests the gate decides by the grants in users.json, whatever the
\* edits did to the arrays it was reading, unless a save has failed
\* (handlers/admin.go:1343-1353).
DirectoryCurrent ==
  job = Idle /\ live # Down /\ ~ failed => \A u \in Users : Seen(u) = Held(u)

\* A path that goes back to inheriting, or is removed, leaves no grant behind
\* (handlers/admin.go:1199-1202), unless its service was deleted or an edit
\* stopped half way.
NoStalePathGrant ==
  job = Idle /\ ~ tainted =>
    \A u \in Users : \A g \in Held(u) :
      Len(g) = 2 => services.backends[g[1]] # Absent /\ services.backends[g[1]][g[2]] = "own"

\* Opening a service's editor and saving it untouched takes nothing from anyone
\* but an administrator, and gives nothing (handlers/admin.go:1015-1070,
\* 1203-1270).
RoundTrip ==
  job = Idle /\ live # Down /\ ~ tainted =>
    \A id \in Published(services), u \in Users \ Admins :
      LET f == EditForm(id)
          s == Owned(ServiceGrants(live[u], id, u \in f.enabled))
      IN  In(PathGrants(s, id, PathsFor(f, u))) = Seen(u)

\* The editor of one service never changes a grant on another, as long as no
\* save has failed (handlers/admin.go:1218-1227, 1245-1267).
EditorKeepsOthers ==
  [][ job # Idle /\ job.what \in {"service", "path"} /\ ~ failed =>
        \A u \in Users : \A g \in Grant :
          g[1] # job.form.id => (g \in Held(u) <=> g \in Held(u)') ]_grantVars

\* A core that stops between two requests starts again, as long as every grant
\* is on a service that is there, or on one of its paths: 'a path that carries
\* its own list is "<backend>#<path>", so the permissions still live in ONE
\* place (on the user)', models/config.go:313-314.
Bootable ==
  /\ job = Idle
  /\ ServicesAccepted
  /\ \A u \in Users : \A g \in ToSet(disk[u]) : g[1] \in authzTree
  => Validate
=============================================================================
