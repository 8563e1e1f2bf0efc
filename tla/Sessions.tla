------------------------------ MODULE Sessions ------------------------------
(***************************************************************************)
(* The session store of auth/session.go (MemoryStore): a map guarded by    *)
(* one mutex, so every method is one action, a JSON file written on every  *)
(* mutation but never on a read, and a process that can stop and start     *)
(* again at any time.                                                      *)
(***************************************************************************)
EXTENDS Naturals

CONSTANTS
  SessionIds,    \* what newID can draw (256 random bits: never drawn twice)
  Emails,
  Providers,
  NoSession,     \* a key the map does not hold
  TTL,           \* absolute lifetime, 0 disables it
  Idle,          \* inactivity timeout, 0 disables it
  Persistent,    \* TRUE: NewPersistentStore (path # ""), FALSE: NewMemoryStore
  MaxTime        \* bound: the clock stops here

Session ==
  [email : Emails, provider : Providers, twoFADone : BOOLEAN,
   createdAt : Nat, lastSeen : Nat]

ASSUME SessionsAssumption ==
  /\ TTL \in Nat
  /\ Idle \in Nat
  /\ MaxTime \in Nat
  /\ Persistent \in BOOLEAN
  /\ NoSession \notin Session

VARIABLES
  m,         \* the map in RAM
  disk,      \* the map in the sessions file
  now,       \* the clock
  drawn,     \* ids newID has returned so far
  failed,    \* history: the last save did not reach the file
  born,      \* history: when session id was opened
  lastUse,   \* history: when session id was last opened or returned by Get
  earned     \* history: the sessions Complete2FA was called for

store == <<m, disk, drawn, failed, born, lastUse, earned>>
vars == <<m, disk, now, drawn, failed, born, lastUse, earned>>

MaybeSession == Session \cup {NoSession}

Empty == [id \in SessionIds |-> NoSession]

TypeOK ==
  /\ m \in [SessionIds -> MaybeSession]
  /\ disk \in [SessionIds -> MaybeSession]
  /\ now \in Nat
  /\ drawn \subseteq SessionIds
  /\ failed \in BOOLEAN
  /\ born \in [SessionIds -> Nat]
  /\ lastUse \in [SessionIds -> Nat]
  /\ earned \subseteq SessionIds

Init ==
  /\ m = Empty
  /\ disk = Empty
  /\ now = 0
  /\ drawn = {}
  /\ failed = FALSE
  /\ born = [id \in SessionIds |-> 0]
  /\ lastUse = [id \in SessionIds |-> 0]
  /\ earned = {}

\* Write the map to a temporary file and rename it over the old one.  Every
\* error is dropped, so either the file now holds the map or it is as before.
persistLocked(map) ==
  /\ m' = map
  /\ \/ /\ Persistent
        /\ disk' = map
        /\ failed' = FALSE
     \/ /\ disk' = disk
        /\ failed' = TRUE

-----------------------------------------------------------------------------
(* Slips the checks must notice, each a version of the method it is named  *)
(* after; no specification of this module uses them.                       *)

\* Marks the flag on a zero-valued entry instead of the stored one.
Complete2FAZeroValue(id) ==
  /\ persistLocked([m EXCEPT ![id] = [twoFADone |-> TRUE]])
  /\ earned' = earned \cup {id}
  /\ UNCHANGED <<now, drawn, born, lastUse>>

\* Writes back the copy a handler got from Get before the logout.
Complete2FAWriteBack(id) ==
  /\ id \in drawn
  /\ \E email \in Emails, provider \in Providers :
       persistLocked([m EXCEPT ![id] =
         [email |-> email, provider |-> provider, twoFADone |-> TRUE,
          createdAt |-> born[id], lastSeen |-> lastUse[id]]])
  /\ earned' = earned \cup {id}
  /\ UNCHANGED <<now, drawn, born, lastUse>>

\* Forgets to save.
Complete2FAUnsaved(id) ==
  /\ m[id] # NoSession
  /\ m' = [m EXCEPT ![id].twoFADone = TRUE]
  /\ earned' = earned \cup {id}
  /\ UNCHANGED <<disk, failed, now, drawn, born, lastUse>>

\* Starts the clock of every loaded session again.
RestartRenews ==
  /\ m' = [id \in SessionIds |->
              IF disk[id] = NoSession THEN NoSession
              ELSE [disk[id] EXCEPT !.createdAt = now, !.lastSeen = now]]
  /\ failed' = FALSE
  /\ UNCHANGED <<disk, now, drawn, born, lastUse, earned>>

-----------------------------------------------------------------------------
(* The methods.                                                            *)

Create(id, email, provider) ==
  /\ id \notin drawn
  /\ drawn' = drawn \cup {id}
  /\ persistLocked([m EXCEPT ![id] =
       [email |-> email, provider |-> provider, twoFADone |-> FALSE,
        createdAt |-> now, lastSeen |-> now]])
  /\ born' = [born EXCEPT ![id] = now]
  /\ lastUse' = [lastUse EXCEPT ![id] = now]
  /\ UNCHANGED <<now, earned>>

Expired(s) ==
  \/ TTL > 0 /\ now - s.createdAt > TTL
  \/ Idle > 0 /\ now - s.lastSeen > Idle

\* Get of a session that is still good: lastSeen moves in RAM only.
GetLive(id) ==
  /\ m[id] # NoSession
  /\ ~ Expired(m[id])
  /\ m' = [m EXCEPT ![id].lastSeen = now]
  /\ lastUse' = [lastUse EXCEPT ![id] = now]
  /\ UNCHANGED <<disk, now, drawn, failed, born, earned>>

\* Get of a session past its time: it is evicted and the map is saved.
GetExpired(id) ==
  /\ m[id] # NoSession
  /\ Expired(m[id])
  /\ persistLocked([m EXCEPT ![id] = NoSession])
  /\ UNCHANGED <<now, drawn, born, lastUse, earned>>

Complete2FA(id) ==
  /\ m[id] # NoSession
  /\ persistLocked([m EXCEPT ![id].twoFADone = TRUE])
  /\ earned' = earned \cup {id}
  /\ UNCHANGED <<now, drawn, born, lastUse>>

\* Delete of an absent id saves the map all the same.
Delete(id) ==
  /\ persistLocked([m EXCEPT ![id] = NoSession])
  /\ UNCHANGED <<now, drawn, born, lastUse, earned>>

\* The process stops and NewPersistentStore loads the file; an unreadable file
\* is an empty map.
Restart ==
  /\ \/ /\ m' = disk
        /\ failed' = FALSE
     \/ /\ m' = Empty
        /\ failed' = TRUE
  /\ UNCHANGED <<disk, now, drawn, born, lastUse, earned>>

Tick ==
  /\ now < MaxTime
  /\ now' = now + 1
  /\ UNCHANGED store

Next ==
  \/ \E id \in SessionIds :
       \/ \E email \in Emails, provider \in Providers : Create(id, email, provider)
       \/ GetLive(id)
       \/ GetExpired(id)
       \/ Complete2FA(id)
       \/ Delete(id)
  \/ Restart
  \/ Tick

Spec == Init /\ [][Next]_vars

-----------------------------------------------------------------------------
(* What the store guarantees.                                              *)

\* A session Get would return has not outlived its absolute lifetime, counted
\* from the moment it was opened whatever number of restarts lie between, and
\* has been used within the idle timeout (session.go:86).
LifetimeHolds ==
  \A id \in SessionIds :
    m[id] # NoSession /\ ~ Expired(m[id]) =>
      /\ TTL > 0 => now - born[id] <= TTL
      /\ Idle > 0 => now - lastUse[id] <= Idle

\* Two copies of a map entry differ at most in lastSeen.
SameSession(s, t) ==
  \/ s = NoSession /\ t = NoSession
  \/ /\ s # NoSession /\ t # NoSession
     /\ s.email = t.email
     /\ s.provider = t.provider
     /\ s.twoFADone = t.twoFADone
     /\ s.createdAt = t.createdAt

\* Once a save has succeeded, and until one fails, the file and the map hold
\* the same sessions in the same state: a restart neither logs anybody out nor
\* brings anybody back (persistLocked runs under the same lock as the change).
FileMatchesMap ==
  ~ failed => \A id \in SessionIds : SameSession(m[id], disk[id])

\* The abstract status of a session.
Status ==
  [id \in SessionIds |->
     IF m[id] # NoSession THEN IF m[id].twoFADone THEN "full" ELSE "open"
     ELSE IF id \in drawn THEN "closed" ELSE "fresh"]

\* The store, its file and its restarts implement the contract the handlers
\* rely on: no reuse of an id, no second factor out of nowhere, no session back
\* from the dead unless a save failed (session.go:59-142).
Contract == INSTANCE SessionContract WITH status <- Status, lagging <- failed
ImplementsContract == Contract!Spec
=============================================================================
