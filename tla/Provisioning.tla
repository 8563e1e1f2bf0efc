---------------------------- MODULE Provisioning ----------------------------
(***************************************************************************)
(* The files behind the first administrator and behind every mistake: the  *)
(* setup command and the browser wizard that share setup.json              *)
(* (handlers/setup.go), and the snapshots that each save of users.json     *)
(* takes, prunes and may be restored from (config/save.go).                *)
(***************************************************************************)
EXTENDS Naturals, FiniteSetsExt, Functions

CONSTANTS
  Tabs,         \* browser tabs with the setup page
  Tokens,       \* the tokens the setup command draws
  Passwords,    \* what is typed into the form, which stands for its hash
  NoHash,       \* the form was not sent yet
  DisableTOTP,  \* disable_totp of config.json
  TTL,          \* validity of a token, in seconds
  Keep,         \* backupsKeep
  Cut,          \* what a copy that broke off holds
  Back,         \* by how much local time is set back
  None,
  MaxNow,       \* bound: seconds
  MaxSecrets,   \* bound: TOTP secrets drawn
  MaxSaves      \* bound: saves of users.json

ASSUME ProvisioningAssumption ==
  /\ DisableTOTP \in BOOLEAN
  /\ {TTL, MaxNow, MaxSecrets, MaxSaves} \subseteq Nat
  /\ Keep \in Nat \ {0} /\ Back \in Nat \ {0}
  /\ NoHash \notin Passwords
  /\ None \notin Tokens /\ None # Cut

VARIABLES
  setup,       \* data/setup.json
  req,         \* req[r]: the request under way in a tab, with what it has loaded
  shown,       \* shown[r]: the secret the tab's user has scanned
  drawn,       \* TOTP secrets drawn
  issued,      \* tokens drawn
  ram,         \* the directory
  file,        \* users.json
  snaps,       \* backups/: the stamps of the snapshots and what they hold
  now, stepped,\* seconds; local time was set back
  saves,       \* saves of users.json
  edit,        \* what another handler has read of the directory and is about to save
  chosen,      \* history: the pairs of password and secret made by one form
  made,        \* history: the profiles written, one for each time a token was used
  shared,      \* history: tokens that two requests held at once or a failure kept
  copied,      \* history: the version the last copy was taken of, unless it was lost
  replaced,    \* history: what the last save overwrote, if it was what is in copied
  stamps       \* history: the seconds in which snapshots were taken

wizard == <<setup, req, shown, drawn, issued, chosen, made, shared>>
store == <<ram, file, snaps, saves, edit, copied, replaced, stamps>>
time == <<now, stepped>>
vars == <<wizard, store, time>>

-----------------------------------------------------------------------------
(* Snapshots.                                                              *)

\* Local time, to the second: the name of a snapshot.
Stamp == IF stepped THEN now ELSE now + Back

\* Mutant: the other end of the sorted names goes.
PruneNewest(s) ==
  Restrict(s, {t \in DOMAIN s : Cardinality({u \in DOMAIN s : u < t}) < Keep})

\* The names are sorted: the last Keep of them stay.
PruneBackups(s) ==
  Restrict(s, {t \in DOMAIN s : Cardinality({u \in DOMAIN s : u > t}) < Keep})

\* Mutant: the name is made of another clock than the local one.
SnapshotUTC(s, content) ==
  PruneBackups([t \in DOMAIN s \cup {now} |-> IF t = now THEN content ELSE s[t]])

\* snapshotAndPrune: a second snapshot in one second takes the name of the first.
Snapshot(s, content) ==
  PruneBackups([t \in DOMAIN s \cup {Stamp} |-> IF t = Stamp THEN content ELSE s[t]])

\* The copy that a save takes of content ...
CopyTaken(content) ==
  /\ snaps' = Snapshot(snaps, content)
  /\ stamps' = stamps \cup {Stamp}

\* ... or that breaks off, or is not made at all; the error is dropped.
CopyLost ==
  \/ CopyTaken(Cut)
  \/ snaps' = PruneBackups(snaps) /\ UNCHANGED stamps

\* SaveUsers begins: the version on disk is copied ...
CopyUsers ==
  /\ saves < MaxSaves
  /\ \/ CopyTaken(file) /\ copied' = file
     \/ CopyLost /\ copied' = None
  /\ replaced' = None
  /\ UNCHANGED <<ram, file, saves>>

\* ... and what is on disk by now is replaced, and then the directory.
SaveUsers(content) ==
  /\ saves' = saves + 1
  /\ file' = content
  /\ ram' = content
  /\ replaced' = IF file = copied THEN file ELSE None
  /\ UNCHANGED <<snaps, copied, stamps>>

\* users.json cannot be written; its copy may have taken the place of one of the
\* same second.
SaveUsersFails ==
  /\ saves' = saves + 1
  /\ UNCHANGED <<ram, file, snaps, copied, replaced, stamps>>

-----------------------------------------------------------------------------
Profiles == [token : Tokens, expires : Nat, hash : Passwords \cup {NoHash}, secret : Nat]
\* A version of the directory: the save it comes from and the administrator in it.
Contents == [save : Nat, hash : Passwords \cup {NoHash}, secret : Nat]
Holding == [pc : {"save", "finalize", "write", "remove"}, st : Profiles]

ASSUME HoldingAssumption == None \notin Holding

TypeOK ==
  /\ setup \in Profiles \cup {None}
  /\ req \in [Tabs -> Holding \cup {None}]
  /\ shown \in [Tabs -> 0..drawn]
  /\ issued \subseteq Tokens
  /\ ram \in Contents
  /\ file \in Contents \cup {Cut}
  /\ edit \in Contents \cup {None}
  /\ DOMAIN snaps \subseteq stamps
  /\ Range(snaps) \subseteq Contents \cup {Cut}
  /\ {now, saves, drawn} \subseteq Nat
  /\ stepped \in BOOLEAN
  /\ shared \subseteq Tokens

Init ==
  /\ setup = None
  /\ req = [r \in Tabs |-> None]
  /\ shown = [r \in Tabs |-> 0]
  /\ drawn = 0 /\ issued = {}
  /\ ram = [save |-> 0, hash |-> NoHash, secret |-> 0]
  /\ file = ram
  /\ snaps = <<>>
  /\ now = 0 /\ stepped = FALSE
  /\ saves = 0
  /\ chosen = {} /\ made = {} /\ shared = {}
  /\ edit = None
  /\ copied = None /\ replaced = None
  /\ stamps = {}

-----------------------------------------------------------------------------
(* The wizard.                                                             *)

\* runSetup: any profile that was there is overwritten.
RunSetup(t) ==
  /\ t \notin issued
  /\ issued' = issued \cup {t}
  /\ setup' = [token |-> t, expires |-> now + TTL, hash |-> NoHash, secret |-> 0]
  /\ UNCHANGED <<req, shown, drawn, chosen, made, shared, store, time>>

validSetup(t) == setup # None /\ setup.token = t /\ now <= setup.expires

\* Some request holds the token's profile.
Held(t) == \E r \in Tabs : req[r] # None /\ req[r].st.token = t
Shared(t) == IF Held(t) THEN shared \cup {t} ELSE shared

\* setupStepCred up to the save: the profile as loaded, with a password and a
\* fresh secret; without a second factor it is the last step.
StepCred(r, t, p) ==
  /\ req[r] = None /\ validSetup(t) /\ drawn < MaxSecrets
  /\ drawn' = drawn + 1
  /\ LET secret == IF DisableTOTP THEN 0 ELSE drawn + 1
     IN  /\ req' = [req EXCEPT ![r] =
              [pc |-> IF DisableTOTP THEN "finalize" ELSE "save",
               st |-> [setup EXCEPT !.hash = p, !.secret = secret]]]
         /\ chosen' = chosen \cup {<<t, p, secret>>}
  /\ shared' = Shared(t)
  /\ UNCHANGED <<setup, shown, issued, made, store, time>>

\* Mutant: only the secret is written into the profile that is there.
SaveSetupField(r) ==
  /\ req[r] # None /\ req[r].pc = "save"
  /\ setup' = IF setup = None \/ setup.hash = NoHash THEN req[r].st
              ELSE [setup EXCEPT !.secret = req[r].st.secret]
  /\ shown' = [shown EXCEPT ![r] = req[r].st.secret]
  /\ req' = [req EXCEPT ![r] = None]
  /\ UNCHANGED <<drawn, issued, chosen, made, shared, store, time>>

\* SaveSetup and renderTOTPStep: the whole profile, as this request knows it.
SaveSetup(r) ==
  /\ req[r] # None /\ req[r].pc = "save"
  /\ setup' = req[r].st
  /\ shown' = [shown EXCEPT ![r] = req[r].st.secret]
  /\ req' = [req EXCEPT ![r] = None]
  /\ UNCHANGED <<drawn, issued, chosen, made, shared, store, time>>

\* setupStepConfirm: a code of another secret shows the page again, with the
\* secret that is in the file now.
StepConfirm(r, t) ==
  /\ req[r] = None /\ validSetup(t)
  /\ setup.secret # 0 /\ setup.hash # NoHash
  /\ IF shown[r] = setup.secret
       THEN /\ req' = [req EXCEPT ![r] = [pc |-> "finalize", st |-> setup]]
            /\ shared' = Shared(t)
            /\ UNCHANGED shown
       ELSE /\ shown' = [shown EXCEPT ![r] = setup.secret]
            /\ UNCHANGED <<req, shared>>
  /\ UNCHANGED <<setup, drawn, issued, chosen, made, store, time>>

\* finalizeSetup: the profile is saved as the administrator ...
FinalizeSetup(r) ==
  /\ req[r] # None /\ req[r].pc = "finalize"
  /\ CopyUsers
  /\ req' = [req EXCEPT ![r].pc = "write"]
  /\ UNCHANGED <<setup, shown, drawn, issued, chosen, made, shared, edit, time>>

AdminSaved(r) ==
  /\ req[r] # None /\ req[r].pc = "write"
  /\ LET st == req[r].st
     IN  /\ SaveUsers([save |-> saves + 1, hash |-> st.hash, secret |-> st.secret])
         /\ made' = made \cup {[token |-> st.token, hash |-> st.hash, secret |-> st.secret,
                                save |-> saves + 1]}
  /\ req' = [req EXCEPT ![r].pc = "remove"]
  /\ UNCHANGED <<setup, shown, drawn, issued, chosen, shared, edit, time>>

\* Mutant: the token stays.
RemoveSetupNot(r) ==
  /\ req[r] # None /\ req[r].pc = "remove"
  /\ req' = [req EXCEPT ![r] = None]
  /\ UNCHANGED <<setup, shown, drawn, issued, chosen, made, shared, store, time>>

\* ... and setup.json is removed, whatever it says by now.
RemoveSetup(r) ==
  /\ req[r] # None /\ req[r].pc = "remove"
  /\ setup' = None
  /\ req' = [req EXCEPT ![r] = None]
  /\ UNCHANGED <<shown, drawn, issued, chosen, made, shared, store, time>>

\* A step fails: SaveSetup or SaveUsers (the page says so), or the removal
\* (nobody is told).
StepFails(r) ==
  /\ req[r] # None /\ req[r].pc # "finalize"
  /\ shared' = shared \cup {req[r].st.token}
  /\ req' = [req EXCEPT ![r] = None]
  /\ \/ req[r].pc = "write" /\ SaveUsersFails
     \/ req[r].pc # "write" /\ UNCHANGED <<ram, file, snaps, saves, copied, replaced, stamps>>
  /\ UNCHANGED <<setup, shown, drawn, issued, chosen, made, edit, time>>

-----------------------------------------------------------------------------
(* The directory and the commands.                                         *)

\* mutateUsers, from any other handler: the directory is read and the file copied ...
MutateUsers ==
  /\ edit = None
  /\ edit' = ram
  /\ CopyUsers
  /\ UNCHANGED <<wizard, time>>

\* ... and both are replaced by what was read, with the handler's change; or the
\* save fails and both stay as they are.
UsersSaved ==
  /\ edit # None
  /\ edit' = None
  /\ SaveUsers([edit EXCEPT !.save = saves + 1]) \/ SaveUsersFails
  /\ UNCHANGED <<wizard, time>>

\* runRestore: whatever the snapshot holds, or the part of it that is written when
\* the copy breaks off; the running program is not told.
RestoreSnapshot(t) ==
  /\ file' \in {snaps[t], Cut}
  /\ UNCHANGED <<ram, snaps, saves, edit, copied, replaced, stamps, wizard, time>>

\* A crash or a restart, and the boot that reads users.json, if it parses.
Restart ==
  /\ file # Cut
  /\ ram' = file
  /\ edit' = None
  /\ req' = [r \in Tabs |-> None]
  /\ shared' = shared \cup {t \in Tokens : Held(t)}
  /\ UNCHANGED <<setup, shown, drawn, issued, chosen, made, file, snaps, saves, copied,
                 replaced, stamps, time>>

Tick ==
  /\ now < MaxNow
  /\ now' = now + 1
  /\ UNCHANGED <<stepped, wizard, store>>

\* The end of summer time: names are made of local time.
ClockBack ==
  /\ ~ stepped
  /\ stepped' = TRUE
  /\ UNCHANGED <<now, wizard, store>>

Next ==
  \/ \E t \in Tokens : RunSetup(t)
  \/ \E r \in Tabs, t \in Tokens, p \in Passwords : StepCred(r, t, p)
  \/ \E r \in Tabs, t \in Tokens : StepConfirm(r, t)
  \/ \E r \in Tabs : SaveSetup(r) \/ FinalizeSetup(r) \/ AdminSaved(r) \/ RemoveSetup(r) \/ StepFails(r)
  \/ MutateUsers \/ UsersSaved
  \/ \E t \in DOMAIN snaps : RestoreSnapshot(t)
  \/ Restart \/ Tick \/ ClockBack

Spec == Init /\ [][Next]_vars

-----------------------------------------------------------------------------
\* The administrator gets a password and a secret from one form sent under one
\* token, however tabs overwrite each other's setup.json (setup.go:113-196).
PairKept == \A m \in made : <<m.token, m.hash, m.secret>> \in chosen

\* A token makes one administrator, unless two requests had loaded its profile at
\* once or a step failed (setup.go:162-196: the file is removed last).
TokenOnce ==
  \A m, n \in made : m.token = n.token /\ m # n => m.token \in shared

\* The version a save replaced can be restored, also when it was itself restored
\* under a running program, and when the limit is reached: as long as the last copy
\* was taken of it (overlapping saves may replace one that was never copied), until
\* the next save begins and local time is set back (save.go:34-37,169-197, main.go:497).
PreviousKept ==
  ~ stepped /\ replaced # None => replaced \in Range(snaps)

=============================================================================
