----------------------------- MODULE UserStore -----------------------------
(***************************************************************************)
(* The users: the directory in RAM (auth/directory.go), users.json, and    *)
(* everything that changes them: the admin and profile handlers, the last  *)
(* step of the setup wizard and the command line (main.go, runUser).  A    *)
(* handler copies the directory, edits the copy, saves it and only then    *)
(* swaps it in (mutateUsers); a command does the same to the file and      *)
(* leaves the RAM of a running server alone.  No lock spans those steps,   *)
(* and all savers share one temporary file name (writeJSONAtomic).  The    *)
(* copy is shallow: a service's editor changes the lists of grants in      *)
(* arrays that the directory in RAM goes on using (EditGrants; which       *)
(* entries those arrays then hold is the subject of Grants).               *)
(***************************************************************************)
CONSTANTS
  Emails,
  Data,          \* what a record holds by value: provider, hash, secret
  Lists,         \* the lists of grants, held by reference
  NoGrants,      \* the list of a user that was granted nothing
  Absent,        \* no user under this email
  Handlers,      \* the requests of the server that may be at work together
  Commands,      \* the command-line processes that may be at work together
  Down,          \* the RAM of a server that is not running
  NoFile,        \* there is no temporary file
  Empty,         \* a file that has been truncated and not yet written
  Torn           \* a file that does not parse: cut short, or two mixed

User == [admin : BOOLEAN, data : Data, grants : Lists]
Directory == [Emails -> User \cup {Absent}]
Content == Directory \cup {Empty, Torn}

ASSUME UserStoreAssumption ==
  /\ Handlers \cap Commands = {}
  /\ Absent \notin User
  /\ Down \notin Directory
  /\ Torn \notin Directory /\ Empty \notin Directory /\ NoFile \notin Content
  /\ Torn # Empty
  /\ NoGrants \in Lists

Savers == Handlers \cup Commands

Idle == [pc |-> "idle"]
Job == {Idle} \cup
  [pc : {"open", "write", "rename", "replace"}, dir : Directory,
   asked : SUBSET Emails, fd : {"none", "tmp", "users", "gone"}]

VARIABLES
  ram,       \* UserDirectory.byEmail
  users,     \* users.json
  tmp,       \* users.json.tmp
  job,       \* job[w]: how far saver w has got, and with which directory
  overlap,   \* history: two savers have been at work at the same time
  forced     \* history: an administrator was deleted, or demoted by command

vars == <<ram, users, tmp, job, overlap, forced>>
history == <<overlap, forced>>

TypeOK ==
  /\ ram \in Directory \cup {Down}
  /\ users \in Content
  /\ tmp \in Content \cup {NoFile}
  /\ job \in [Savers -> Job]
  /\ overlap \in BOOLEAN
  /\ forced \in BOOLEAN

Admins(d) == {email \in Emails : d[email] # Absent /\ d[email].admin}

\* After the setup wizard: somebody is an administrator.
Init ==
  /\ users \in {d \in Directory : Admins(d) # {}}
  /\ ram = users
  /\ tmp = NoFile
  /\ job = [w \in Savers |-> Idle]
  /\ overlap = FALSE
  /\ forced = FALSE

-----------------------------------------------------------------------------
(* The edits.  Each works on a copy: UserDirectory.All for a handler,      *)
(* LoadUsers for a command.  A refused edit changes nothing.               *)

\* Saver w goes on to save directory d, having been asked to change emails S.
Start(w, d, S) ==
  /\ job[w] = Idle
  /\ job' = [job EXCEPT ![w] = 
       [pc |-> "open", dir |-> d, asked |-> S, fd |-> "none"]]
  /\ overlap' = (overlap \/ \E v \in Savers : job[v] # Idle)
  /\ UNCHANGED <<ram, users, tmp>>

\* All, the edit of one record, and the save still to come.
Edit(w, email, user) == Start(w, [ram EXCEPT ![email] = user], {email})

Known(email) == ram # Down /\ ram[email] # Absent

UserAdd(w, email, data, list) ==
  /\ ram # Down
  /\ ram[email] = Absent
  /\ Edit(w, email, [admin |-> FALSE, data |-> data, grants |-> list])
  /\ UNCHANGED forced

\* Deleting an unknown email saves the directory as it was.
UserDel(w, email) ==
  /\ ram # Down
  /\ Edit(w, email, Absent)
  /\ forced' = (forced \/ email \in Admins(ram))

SetData(w, email, data) ==
  /\ Known(email)
  /\ Edit(w, email, [ram[email] EXCEPT !.data = data])
  /\ UNCHANGED forced

\* handleUserAuthz: the user gets a list of its own, made from the form.
UserAuthz(w, email, list) ==
  /\ Known(email)
  /\ Edit(w, email, [ram[email] EXCEPT !.grants = list])
  /\ UNCHANGED forced

UserTOTP(w, email, data) == SetData(w, email, data)

UserPassword(w, email, data) == SetData(w, email, data)

\* handleProfilePassword, handleProfileTOTP: the user changes its own record.
\* It was looked up before All, and may be gone by then.
ProfileData(w, email, data) == SetData(w, email, data)

\* Mutant: the last administrator may step down.
UserAdminUnchecked(w, email) ==
  /\ Known(email)
  /\ Edit(w, email, [ram[email] EXCEPT !.admin = ~ @])
  /\ UNCHANGED forced

UserAdmin(w, email) ==
  /\ Known(email)
  /\ Admins(ram) # {email}
  /\ Edit(w, email, [ram[email] EXCEPT !.admin = ~ @])
  /\ UNCHANGED forced

\* The new email may be the old one.
UserEmail(w, old, neu) ==
  /\ Known(old)
  /\ neu # old => ram[neu] = Absent
  /\ Start(w, [[ram EXCEPT ![old] = Absent] EXCEPT ![neu] = ram[old]], {old, neu})
  /\ UNCHANGED forced

\* Mutant: the wizard's user is the only one that is written.
FinalizeSetupAlone(w, email, data) ==
  /\ ram # Down
  /\ Start(w, [e \in Emails |->
       IF e = email THEN [admin |-> TRUE, data |-> data, grants |-> NoGrants] ELSE Absent],
       {email})
  /\ UNCHANGED forced

\* finalizeSetup: the wizard's user replaces any other with that email.
FinalizeSetup(w, email, data) ==
  /\ ram # Down
  /\ Edit(w, email, [admin |-> TRUE, data |-> data, grants |-> NoGrants])
  /\ UNCHANGED forced

\* d with other lists of grants for the users under lists.
Relist(d, lists) ==
  [email \in Emails |->
     IF email \in DOMAIN lists /\ d[email] # Absent
     THEN [d[email] EXCEPT !.grants = lists[email]] ELSE d[email]]

\* applyServiceGrants, applyPathGrants: the lists are filtered, appended to and
\* sorted in place.  The copy gets the lists that were asked for; the arrays are
\* those of the directory in RAM and of what the other handlers hold, which see
\* there whatever their own lengths leave of it: left, and views.  (A user that
\* another handler is renaming has its array under the new email there.)
EditGrants(w, lists, left, views) ==
  /\ ram # Down
  /\ job[w] = Idle
  /\ ram' = Relist(ram, left)
  /\ job' = [v \in Savers |->
       IF v = w THEN [pc |-> "open", dir |-> Relist(ram, lists),
                      asked |-> DOMAIN lists, fd |-> "none"]
       ELSE IF v \in Handlers /\ job[v] # Idle
       THEN [job[v] EXCEPT !.dir = Relist(@, views[v])] ELSE job[v]]
  /\ overlap' = (overlap \/ \E v \in Savers : job[v] # Idle)
  /\ UNCHANGED <<users, tmp, forced>>

\* runUser creates the user or changes it; it may revoke the flag.
RunUser(w, email, admin, data) ==
  LET user == [admin |-> admin, data |-> data,
               grants |-> IF users[email] = Absent THEN NoGrants ELSE users[email].grants]
  IN /\ users \in Directory
     /\ Start(w, [users EXCEPT ![email] = user], {email})
     /\ forced' = (forced \/ (email \in Admins(users) /\ ~ admin))

-----------------------------------------------------------------------------
(* SaveUsers.  os.WriteFile opens and truncates users.json.tmp, whoever    *)
(* made it, and writes; os.Rename moves it over users.json.                *)

Step(w, pc, fd) == job' = [job EXCEPT ![w].pc = pc, ![w].fd = fd]
Return(w) == job' = [job EXCEPT ![w] = Idle]

\* Mutant: users.json itself is truncated and written.
OpenInPlace(w) ==
  /\ job[w].pc = "open"
  /\ tmp' = Empty
  /\ users' = Empty
  /\ Step(w, "write", "users")
  /\ UNCHANGED <<ram, history>>

Open(w) ==
  /\ job[w].pc = "open"
  /\ tmp' = Empty
  /\ Step(w, "write", "tmp")
  /\ UNCHANGED <<ram, users, history>>

\* What writing d from the start of a file with content c leaves: the tail of
\* a longer c stays behind it.
Overlay(c, d) == IF c = Empty THEN {d} ELSE {d, Torn}

\* The write goes where the descriptor leads by now: the temporary file, or
\* users.json if another saver has renamed it, or a file no name is left of.
Put(w, contents(_, _)) ==
  /\ job[w].pc = "write"
  /\ IF job[w].fd = "tmp" THEN tmp' \in contents(tmp, job[w].dir) ELSE UNCHANGED tmp
  /\ IF job[w].fd = "users" THEN users' \in contents(users, job[w].dir)
                            ELSE UNCHANGED users
  /\ UNCHANGED <<ram, history>>

Write(w) ==
  /\ Put(w, Overlay)
  /\ Step(w, "rename", job[w].fd)

\* The disk is full: the temporary file stays as it is.
Cut(c, d) == {Empty, Torn}

WriteFails(w) ==
  /\ Put(w, Cut)
  /\ Return(w)

\* The descriptors of the others follow the file they opened.
Follow(fd) == IF fd = "tmp" THEN "users" ELSE IF fd = "users" THEN "gone" ELSE fd

\* A command is done after the rename; a handler has the swap still to do.
Rename(w) ==
  /\ job[w].pc = "rename"
  /\ tmp # NoFile
  /\ users' = tmp
  /\ tmp' = NoFile
  /\ job' = [v \in Savers |->
       IF v = w THEN IF w \in Handlers THEN [job[w] EXCEPT !.pc = "replace"] ELSE Idle
       ELSE IF job[v] = Idle THEN Idle ELSE [job[v] EXCEPT !.fd = Follow(@)]]
  /\ UNCHANGED <<ram, history>>

\* Mutant: the swap is done whether or not the save succeeded.
SaveFailsIgnored(w) ==
  /\ job[w].pc \in {"open", "rename"}
  /\ IF w \in Handlers THEN Step(w, "replace", job[w].fd) ELSE Return(w)
  /\ UNCHANGED <<ram, users, tmp, history>>

\* open or rename returns an error, as rename does when another saver has
\* taken the temporary file; the directory in RAM stays.
SaveFails(w) ==
  /\ job[w].pc \in {"open", "rename"}
  /\ Return(w)
  /\ UNCHANGED <<ram, users, tmp, history>>

\* Mutant: what is swapped in is read back from the temporary file.
ReplaceReads(w) ==
  /\ job[w].pc = "replace"
  /\ ram' = tmp
  /\ Return(w)
  /\ UNCHANGED <<users, tmp, history>>

\* UserDirectory.Replace.
Replace(w) ==
  /\ job[w].pc = "replace"
  /\ ram' = job[w].dir
  /\ Return(w)
  /\ UNCHANGED <<users, tmp, history>>

-----------------------------------------------------------------------------
(* The server stops anywhere and starts again if users.json parses; a      *)
(* command may be killed.                                                  *)

Crash ==
  /\ ram # Down
  /\ ram' = Down
  /\ job' = [w \in Savers |-> IF w \in Handlers THEN Idle ELSE job[w]]
  /\ UNCHANGED <<users, tmp, history>>

Boot ==
  /\ ram = Down
  /\ users \in Directory
  /\ ram' = users
  /\ UNCHANGED <<users, tmp, job, history>>

Kill(w) ==
  /\ job[w] # Idle
  /\ Return(w)
  /\ UNCHANGED <<ram, users, tmp, history>>

-----------------------------------------------------------------------------
Handle(w) ==
  \E email \in Emails :
    \/ UserDel(w, email)
    \/ UserAdmin(w, email)
    \/ \E neu \in Emails : UserEmail(w, email, neu)
    \/ \E list \in Lists : UserAuthz(w, email, list)
    \/ \E data \in Data :
         \/ UserTOTP(w, email, data)
         \/ UserPassword(w, email, data)
         \/ ProfileData(w, email, data)
         \/ FinalizeSetup(w, email, data)
    \/ \E data \in Data, list \in Lists : UserAdd(w, email, data, list)

Grant(w) ==
  \E S \in SUBSET Emails :
    \E lists \in [S -> Lists], left \in [S -> Lists],
       views \in [Handlers \ {w} -> [Emails -> Lists]] : EditGrants(w, lists, left, views)

Command(w) ==
  \/ \E email \in Emails, admin \in BOOLEAN, data \in Data : RunUser(w, email, admin, data)
  \/ Kill(w)

Save(w) == Open(w) \/ Write(w) \/ WriteFails(w) \/ Rename(w) \/ SaveFails(w) \/ Replace(w)

Next ==
  \/ \E w \in Handlers : Handle(w) \/ Grant(w)
  \/ \E w \in Commands : Command(w)
  \/ \E w \in Savers : Save(w)
  \/ Crash
  \/ Boot

Spec == Init /\ [][Next]_vars

-----------------------------------------------------------------------------
\* Whatever is killed or fails, and whenever, users.json holds a complete
\* directory, as long as savers have only ever worked one at a time
\* (save.go:135-146: the rename is the only step of a save that touches it; the
\* restore command, which copies over it in place, is in Provisioning).
WholeUnlessOverlap == ~ overlap => users \in Directory

\* The same without the proviso: "SaveUsers writes users.json atomically",
\* save.go:32.
SavedWhole == users \in Directory

\* Handler w sets out to change lists of grants, and may so change them in RAM.
Regrants(w) ==
  /\ job[w] = Idle
  /\ job'[w] # Idle
  /\ \E left \in [Emails -> Lists] : ram' = Relist(ram, left)

\* What the server shows is on disk, lists of grants aside: who exists, who is an
\* administrator, passwords and second factors change in RAM only once users.json
\* holds exactly that directory, so a crash takes back nothing of it that was seen
\* (admin.go:1343-1353: a failed save skips Replace).  Lists of grants do change
\* before the save, in the arrays that All shares (admin.go:1218,1228,1259).
SeenIsSaved ==
  [][ram' \in Directory /\ ram' # ram =>
       overlap \/ ram' = users' \/ \E w \in Handlers : Regrants(w)]_vars

\* However many handlers and commands overwrite each other's changes, an
\* administrator is left in RAM and in any users.json that parses, unless one
\* was deleted or demoted by command: a toggle (admin.go:685) never removes
\* the last one, because a save always replaces the whole directory.
AdminKept ==
  ~ forced => /\ ram \in Directory => Admins(ram) # {}
              /\ users \in Directory => Admins(users) # {}

\* A handler that has the store to itself, and finds users.json as the server
\* knows it, changes there only the records it was asked to change
\* (admin.go:1343-1353: the whole directory is written back).
SaveKeepsOthers ==
  [][\A w \in Handlers :
       ~ overlap /\ ram = users /\ job[w] # Idle /\ job'[w] # Idle /\ users' # users =>
         \A email \in Emails \ job[w].asked : users'[email] = users[email]]_vars
=============================================================================
