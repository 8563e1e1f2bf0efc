------------------------- MODULE ProvisioningProofs -------------------------
(***************************************************************************)
(* The setup wizard and the snapshots, for any number of tabs, tokens,     *)
(* saves and snapshots kept.                                               *)
(***************************************************************************)
EXTENDS Provisioning, FiniteSetTheorems, TLAPS

(* The wizard.                                                             *)

\* The profile in setup.json and those the requests have loaded.
ProfilesOK ==
  /\ setup \in Profiles \cup {None}
  /\ req \in [Tabs -> Holding \cup {None}]

\* A profile that has gone through the form came out of one form.
FromForm(st) == <<st.token, st.hash, st.secret>> \in chosen

PairInv ==
  /\ setup # None /\ setup.hash # NoHash => FromForm(setup)
  /\ \A r \in Tabs : req[r] # None => FromForm(req[r].st)
  /\ PairKept

\* No token is drawn twice.
Drawn ==
  /\ setup # None => setup.token \in issued
  /\ \A r \in Tabs : req[r] # None => req[r].st.token \in issued
  /\ \A m \in made : m.token \in issued

\* Two requests hold a token only if it counts as shared.
HeldAlone ==
  \A r, q \in Tabs :
    /\ r # q /\ req[r] # None /\ req[q] # None
    /\ req[r].st.token = req[q].st.token
    => req[r].st.token \in shared

\* A token that has made its administrator is about to be removed, or is gone.
UsedUp ==
  \A m \in made : m.token \in shared \/
    /\ \A r \in Tabs : req[r] # None /\ req[r].st.token = m.token => req[r].pc = "remove"
    /\ Held(m.token) \/ setup = None \/ setup.token # m.token

Counters == now \in Nat /\ drawn \in Nat

WizardInv ==
  Counters /\ ProfilesOK /\ PairInv /\ Drawn /\ HeldAlone /\ UsedUp /\ TokenOnce

\* Saves, snapshots, commands and the clock leave the wizard alone.
LEMMA WizardFrame ==
  ASSUME WizardInv, UNCHANGED wizard, Counters'
  PROVE  WizardInv'
BY DEF WizardInv, ProfilesOK, PairInv, FromForm, PairKept, Drawn, HeldAlone, UsedUp, Held,
       TokenOnce, wizard

\* A request takes up a profile of token t, which it marks as shared if another
\* holds it; nothing else changes that the tokens depend on.
LEMMA TakenUp ==
  ASSUME WizardInv, NEW r \in Tabs, NEW t \in Tokens, NEW h \in Holding,
         req[r] = None, setup # None, setup.token = t, h.st.token = t,
         req' = [req EXCEPT ![r] = h], shared' = Shared(t),
         UNCHANGED <<setup, issued, made>>
  PROVE  Drawn' /\ HeldAlone' /\ UsedUp' /\ TokenOnce'
<1> USE DEF WizardInv
<1>1. Drawn'
  BY DEF Drawn, ProfilesOK
<1>2. HeldAlone'
  BY HoldingAssumption DEF HeldAlone, ProfilesOK, Shared, Held
<1>3. TokenOnce'
  BY DEF TokenOnce, Shared
<1>4. UsedUp'
  <2> SUFFICES ASSUME NEW m \in made, m.token \notin shared'
               PROVE  /\ \A q \in Tabs : req'[q] # None /\ req'[q].st.token = m.token
                                           => req'[q].pc = "remove"
                      /\ Held(m.token)' \/ setup = None \/ setup.token # m.token
    BY DEF UsedUp
  <2>1. m.token \notin shared
    BY DEF Shared
  <2>2. m.token # t
    BY <2>1 DEF UsedUp, Shared
  <2> QED
    BY <2>1, <2>2 DEF UsedUp, ProfilesOK
<1> QED
  BY <1>1, <1>2, <1>3, <1>4

\* Every step keeps what is known of tokens and profiles.
LEMMA WizardStep ==
  ASSUME WizardInv, [Next]_vars
  PROVE  WizardInv'
<1> USE DEF WizardInv
<1>1. ASSUME NEW t \in Tokens, RunSetup(t) PROVE WizardInv'
  <2>1. ProfilesOK' /\ Counters'
    BY <1>1, ProvisioningAssumption DEF RunSetup, ProfilesOK, Profiles, Counters, time
  <2>2. PairInv'
    BY <1>1 DEF RunSetup, PairInv, FromForm, PairKept
  <2>3. Drawn' /\ HeldAlone' /\ TokenOnce'
    BY <1>1 DEF RunSetup, Drawn, HeldAlone, TokenOnce
  <2>4. UsedUp'
    BY <1>1 DEF RunSetup, UsedUp, Held, Drawn
  <2> QED
    BY <2>1, <2>2, <2>3, <2>4
<1>2. ASSUME NEW r \in Tabs, NEW t \in Tokens, NEW p \in Passwords, StepCred(r, t, p)
      PROVE  WizardInv'
  <2> DEFINE pc == IF DisableTOTP THEN "finalize" ELSE "save"
             secret == IF DisableTOTP THEN 0 ELSE drawn + 1
             st == [setup EXCEPT !.hash = p, !.secret = secret]
             h == [pc |-> pc, st |-> st]
  <2>1. /\ req' = [req EXCEPT ![r] = h]
        /\ chosen' = chosen \cup {<<t, p, secret>>}
        /\ pc \in {"save", "finalize"} /\ secret \in Nat
    BY <1>2 DEF StepCred, Counters
  <2> HIDE DEF pc, secret
  <2>2. setup \in Profiles /\ setup # None /\ setup.token = t
    BY <1>2 DEF StepCred, validSetup, ProfilesOK
  <2>3. st \in Profiles /\ st.token = t /\ st.hash = p /\ st.secret = secret
    BY <2>1, <2>2 DEF Profiles
  <2>4. h \in Holding /\ h.st = st
    BY <2>1, <2>3 DEF Holding
  <2>5. req' = [req EXCEPT ![r] = h]
    BY <2>1
  <2> HIDE DEF st, h
  <2>6. Drawn' /\ HeldAlone' /\ UsedUp' /\ TokenOnce'
    BY <1>2, <2>2, <2>3, <2>4, <2>5, TakenUp DEF StepCred
  <2>7. ProfilesOK' /\ Counters'
    BY <1>2, <2>4, <2>5 DEF StepCred, ProfilesOK, Counters, time
  <2>8. <<st.token, st.hash, st.secret>> \in chosen'
    BY <2>1, <2>3
  <2>9. PairInv'
    BY <1>2, <2>1, <2>4, <2>5, <2>8 DEF StepCred, PairInv, FromForm, PairKept, ProfilesOK
  <2> QED
    BY <2>6, <2>7, <2>9
<1>3. ASSUME NEW r \in Tabs, NEW t \in Tokens, StepConfirm(r, t) PROVE WizardInv'
  <2>1. CASE shown[r] = setup.secret
    <3> DEFINE h == [pc |-> "finalize", st |-> setup]
    <3>1. setup \in Profiles /\ setup # None /\ setup.token = t /\ setup.hash # NoHash
      BY <1>3 DEF StepConfirm, validSetup, ProfilesOK
    <3>2. h \in Holding /\ h.st = setup
      BY <3>1 DEF Holding
    <3>3. req' = [req EXCEPT ![r] = h]
      BY <1>3, <2>1 DEF StepConfirm
    <3> HIDE DEF h
    <3>4. Drawn' /\ HeldAlone' /\ UsedUp' /\ TokenOnce'
      BY <1>3, <2>1, <3>1, <3>2, <3>3, TakenUp DEF StepConfirm
    <3>5. ProfilesOK' /\ Counters'
      BY <1>3, <3>2, <3>3 DEF StepConfirm, ProfilesOK, Counters, time
    <3>6. PairInv'
      BY <1>3, <3>1, <3>2, <3>3 DEF StepConfirm, PairInv, FromForm, PairKept, ProfilesOK
    <3> QED
      BY <3>4, <3>5, <3>6
  <2>2. CASE shown[r] # setup.secret
    BY <1>3, <2>2 DEF StepConfirm, ProfilesOK, PairInv, FromForm, PairKept, Drawn, HeldAlone,
                      UsedUp, Held, TokenOnce, Counters, time
  <2> QED
    BY <2>1, <2>2
<1>4. ASSUME NEW r \in Tabs, SaveSetup(r) PROVE WizardInv'
  <2>1. req[r] \in Holding /\ req[r] # None /\ req[r].st \in Profiles
    BY <1>4 DEF SaveSetup, ProfilesOK, Holding
  <2>2. ProfilesOK' /\ Counters'
    BY <1>4, <2>1 DEF SaveSetup, ProfilesOK, Counters, time
  <2>3. PairInv'
    BY <1>4, <2>1 DEF SaveSetup, PairInv, FromForm, PairKept, ProfilesOK
  <2>4. Drawn' /\ HeldAlone' /\ TokenOnce'
    BY <1>4, <2>1 DEF SaveSetup, Drawn, HeldAlone, TokenOnce, ProfilesOK
  <2>5. UsedUp'
    BY <1>4, <2>1 DEF SaveSetup, UsedUp, Held, ProfilesOK
  <2> QED
    BY <2>2, <2>3, <2>4, <2>5
<1>5. ASSUME NEW r \in Tabs, AdminSaved(r) PROVE WizardInv'
  <2> DEFINE st == req[r].st
             m == [token |-> st.token, hash |-> st.hash, secret |-> st.secret, save |-> saves + 1]
             h == [req[r] EXCEPT !.pc = "remove"]
  <2>1. req[r] \in Holding /\ req[r] # None /\ req[r].pc = "write" /\ st \in Profiles
    BY <1>5 DEF AdminSaved, ProfilesOK, Holding
  <2>2. h \in Holding /\ h # None /\ h.st = st /\ h.pc = "remove"
    BY <2>1, HoldingAssumption DEF Holding
  <2>3. /\ req' = [req EXCEPT ![r] = h] /\ made' = made \cup {m}
        /\ UNCHANGED <<setup, issued, chosen, shared, drawn, now>>
    BY <1>5 DEF AdminSaved, time
  <2>4. m.token = st.token /\ m.hash = st.hash /\ m.secret = st.secret
    OBVIOUS
  <2> HIDE DEF st, m, h
  <2>5. ProfilesOK' /\ Counters'
    BY <2>2, <2>3 DEF ProfilesOK, Counters
  <2>6. PairInv'
    BY <2>1, <2>2, <2>3, <2>4 DEF PairInv, FromForm, PairKept, ProfilesOK, st
  <2>7. Drawn'
    BY <2>1, <2>2, <2>3, <2>4 DEF Drawn, ProfilesOK, st
  <2>8. HeldAlone'
    BY <2>1, <2>2, <2>3 DEF HeldAlone, ProfilesOK, st
  <2>9. \A n \in made : n.token = st.token => st.token \in shared
    BY <2>1 DEF UsedUp, st
  <2>10. TokenOnce'
    BY <2>3, <2>4, <2>9 DEF TokenOnce
  <2>11. UsedUp'
    <3> SUFFICES ASSUME NEW n \in made', n.token \notin shared
                 PROVE  /\ \A q \in Tabs : req'[q] # None /\ req'[q].st.token = n.token
                                             => req'[q].pc = "remove"
                        /\ Held(n.token)' \/ setup = None \/ setup.token # n.token
      BY <2>3 DEF UsedUp
    <3>1. CASE n.token = st.token
      <4>1. Held(n.token)'
        BY <2>2, <2>3, <3>1 DEF Held, ProfilesOK
      <4>2. ASSUME NEW q \in Tabs, q # r, req[q] # None PROVE req[q].st.token # n.token
        BY <2>1, <3>1, <4>2 DEF HeldAlone, st
      <4> QED
        BY <2>2, <2>3, <4>1, <4>2 DEF ProfilesOK
    <3>2. CASE n.token # st.token
      <4>1. n \in made
        BY <2>3, <2>4, <3>2
      <4>2. Held(n.token) => Held(n.token)'
        BY <2>1, <2>3, <3>2 DEF Held, ProfilesOK, st
      <4> QED
        BY <2>2, <2>3, <3>2, <4>1, <4>2 DEF UsedUp, ProfilesOK
    <3> QED
      BY <3>1, <3>2
  <2> QED
    BY <2>5, <2>6, <2>7, <2>8, <2>10, <2>11
<1>6. ASSUME NEW r \in Tabs, RemoveSetup(r) PROVE WizardInv'
  <2>1. ProfilesOK' /\ Counters'
    BY <1>6 DEF RemoveSetup, ProfilesOK, Counters, time
  <2>2. PairInv' /\ Drawn' /\ HeldAlone' /\ TokenOnce'
    BY <1>6 DEF RemoveSetup, PairInv, FromForm, PairKept, Drawn, HeldAlone, TokenOnce, ProfilesOK
  <2>3. UsedUp'
    BY <1>6 DEF RemoveSetup, UsedUp, ProfilesOK
  <2> QED
    BY <2>1, <2>2, <2>3
<1>7. ASSUME NEW r \in Tabs, StepFails(r) PROVE WizardInv'
  <2>1. ProfilesOK' /\ Counters'
    BY <1>7 DEF StepFails, ProfilesOK, Counters, time
  <2>2. PairInv' /\ Drawn' /\ HeldAlone' /\ TokenOnce'
    BY <1>7 DEF StepFails, PairInv, FromForm, PairKept, Drawn, HeldAlone, TokenOnce, ProfilesOK
  <2>3. UsedUp'
    BY <1>7 DEF StepFails, UsedUp, Held, ProfilesOK
  <2> QED
    BY <2>1, <2>2, <2>3
<1>8. CASE Restart
  <2>1. ProfilesOK' /\ Counters' /\ PairInv' /\ Drawn' /\ HeldAlone' /\ TokenOnce'
    BY <1>8 DEF Restart, ProfilesOK, Counters, time, PairInv, FromForm, PairKept, Drawn,
                HeldAlone, TokenOnce
  <2>2. \A t : Held(t) => t \in shared'
    BY <1>8 DEF Restart, Held, ProfilesOK, Holding, Profiles
  <2>3. UsedUp'
    BY <1>8, <2>2 DEF Restart, UsedUp
  <2> QED
    BY <2>1, <2>3
<1>9. CASE MutateUsers \/ UsersSaved \/ Tick \/ ClockBack
  BY <1>9, WizardFrame DEF MutateUsers, UsersSaved, Tick, ClockBack, Counters, time, wizard
<1>10. CASE \E t \in DOMAIN snaps : RestoreSnapshot(t)
  BY <1>10, WizardFrame DEF RestoreSnapshot, Counters, time, wizard
<1>11. CASE UNCHANGED vars
  BY <1>11, WizardFrame DEF vars, Counters, time, wizard
<1>12. ASSUME NEW r \in Tabs, FinalizeSetup(r) PROVE WizardInv'
  <2> DEFINE h == [req[r] EXCEPT !.pc = "write"]
  <2>1. req[r] \in Holding /\ req[r] # None /\ req[r].pc = "finalize"
    BY <1>12 DEF FinalizeSetup, ProfilesOK
  <2>2. h \in Holding /\ h # None /\ h.st = req[r].st
    BY <2>1, HoldingAssumption DEF Holding
  <2>3. /\ req' = [req EXCEPT ![r] = h]
        /\ UNCHANGED <<setup, issued, chosen, made, shared, drawn, now>>
    BY <1>12 DEF FinalizeSetup, time
  <2> HIDE DEF h
  <2>4. ProfilesOK' /\ Counters'
    BY <2>2, <2>3 DEF ProfilesOK, Counters
  <2>5. PairInv' /\ Drawn' /\ TokenOnce'
    BY <2>1, <2>2, <2>3 DEF PairInv, FromForm, PairKept, Drawn, TokenOnce, ProfilesOK
  <2>6. HeldAlone'
    BY <2>1, <2>2, <2>3 DEF HeldAlone, ProfilesOK
  <2>7. UsedUp'
    BY <2>1, <2>2, <2>3 DEF UsedUp, Held, ProfilesOK
  <2> QED
    BY <2>4, <2>5, <2>6, <2>7
<1> QED
  BY <1>1, <1>2, <1>3, <1>4, <1>5, <1>6, <1>7, <1>8, <1>9, <1>10, <1>11, <1>12 DEF Next

\* The inductive invariant of the wizard holds (handlers/setup.go:113-196).
THEOREM WizardCorrect == Spec => []WizardInv
<1>1. Init => WizardInv
  BY DEF Init, WizardInv, Counters, ProfilesOK, PairInv, PairKept, Drawn, HeldAlone, UsedUp,
         TokenOnce
<1> QED
  BY <1>1, WizardStep, PTL DEF Spec

\* Password and secret of an administrator come from one form, for any number of
\* tabs that overwrite each other's setup.json (handlers/setup.go:113-196).
THEOREM PairCorrect == Spec => []PairKept
<1>1. WizardInv => PairKept
  BY DEF WizardInv, PairInv
<1> QED
  BY <1>1, WizardCorrect, PTL

\* A token that no two requests held at once and no failure kept makes one
\* administrator (handlers/setup.go:162-196).
THEOREM TokenCorrect == Spec => []TokenOnce
<1>1. WizardInv => TokenOnce
  BY DEF WizardInv
<1> QED
  BY <1>1, WizardCorrect, PTL

-----------------------------------------------------------------------------
(* The snapshots.  PreviousKept needs that no snapshot has a later name    *)
(* than the one a save takes: then pruning cannot take the new one.        *)

\* Until local time is set back no snapshot is from the future.
NoFuture ==
  /\ now \in Nat
  /\ ~ stepped => \A t \in DOMAIN snaps : t \in Nat /\ t <= now + Back

\* What was copied last is among them, and only that counts as replaced.
CopiedKept ==
  /\ ~ stepped /\ copied # None => copied \in Range(snaps)
  /\ replaced # None => replaced = copied

SnapsInv == NoFuture /\ CopiedKept

\* A snapshot keeps what it is given and adds no later name.
LEMMA SnapshotKeeps ==
  ASSUME NoFuture, ~ stepped, NEW content
  PROVE  /\ content \in Range(Snapshot(snaps, content))
         /\ \A t \in DOMAIN Snapshot(snaps, content) : t \in Nat /\ t <= now + Back
<1> DEFINE F == [t \in DOMAIN snaps \cup {Stamp} |-> IF t = Stamp THEN content ELSE snaps[t]]
           Later(t) == {u \in DOMAIN F : u > t}
           S == {t \in DOMAIN F : Cardinality(Later(t)) < Keep}
<1>1. Snapshot(snaps, content) = [t \in S |-> F[t]]
  BY DEF Snapshot, PruneBackups, Restrict
<1>2. Stamp = now + Back /\ Stamp \in Nat
  BY ProvisioningAssumption DEF Stamp, NoFuture
<1>3. \A t \in DOMAIN F : t \in Nat /\ t <= Stamp
  BY <1>2 DEF NoFuture
<1>4. Later(Stamp) = {}
  BY <1>2, <1>3
<1>5. Stamp \in S
  BY <1>4, FS_EmptySet, ProvisioningAssumption
<1>6. F[Stamp] = content
  OBVIOUS
<1> HIDE DEF F
<1>7. content \in Range([t \in S |-> F[t]])
  BY <1>5, <1>6 DEF Range
<1>8. \A t \in S : t \in Nat /\ t <= now + Back
  BY <1>2, <1>3
<1> QED
  BY <1>1, <1>7, <1>8

\* So does pruning alone.
LEMMA PruneKeeps ==
  ASSUME NoFuture, ~ stepped
  PROVE  \A t \in DOMAIN PruneBackups(snaps) : t \in Nat /\ t <= now + Back
BY DEF NoFuture, PruneBackups, Restrict

\* Every save, whatever becomes of its copy.
LEMMA CopyStep ==
  ASSUME SnapsInv, CopyUsers, UNCHANGED time
  PROVE  SnapsInv'
<1> USE DEF SnapsInv, NoFuture, CopiedKept, CopyUsers, time
<1>1. CASE stepped
  BY <1>1
<1>2. CASE ~ stepped /\ CopyTaken(file) /\ copied' = file
  BY <1>2, SnapshotKeeps DEF CopyTaken
<1>3. CASE ~ stepped /\ CopyLost /\ copied' = None
  BY <1>3, SnapshotKeeps, PruneKeeps DEF CopyLost, CopyTaken
<1> QED
  BY <1>1, <1>2, <1>3

\* Every step keeps the last replaced version among the snapshots.
LEMMA SnapsStep ==
  ASSUME SnapsInv, [Next]_vars
  PROVE  SnapsInv'
<1>1. CASE UNCHANGED <<snaps, copied, replaced, time>>
  BY <1>1 DEF SnapsInv, NoFuture, CopiedKept, time
<1>2. ASSUME NEW content, SaveUsers(content), UNCHANGED time PROVE SnapsInv'
  BY <1>2 DEF SaveUsers, SnapsInv, NoFuture, CopiedKept, time
<1>3. ASSUME SaveUsersFails, UNCHANGED time PROVE SnapsInv'
  BY <1>1, <1>3 DEF SaveUsersFails
<1>4. CASE \E t \in Tokens : RunSetup(t)
  BY <1>1, <1>4 DEF RunSetup, store
<1>5. CASE \E r \in Tabs, t \in Tokens, p \in Passwords : StepCred(r, t, p)
  BY <1>1, <1>5 DEF StepCred, store
<1>6. CASE \E r \in Tabs, t \in Tokens : StepConfirm(r, t)
  BY <1>1, <1>6 DEF StepConfirm, store
<1>7. CASE \E r \in Tabs : SaveSetup(r) \/ RemoveSetup(r)
  BY <1>1, <1>7 DEF SaveSetup, RemoveSetup, store
<1>8. CASE \E r \in Tabs : FinalizeSetup(r) \/ AdminSaved(r)
  BY <1>2, <1>8, CopyStep DEF FinalizeSetup, AdminSaved
<1>9. CASE \E r \in Tabs : StepFails(r)
  BY <1>1, <1>3, <1>9 DEF StepFails, store
<1>10. CASE MutateUsers
  BY <1>10, CopyStep DEF MutateUsers
<1>11. CASE UsersSaved
  BY <1>2, <1>3, <1>11 DEF UsersSaved
<1>12. CASE \E t \in DOMAIN snaps : RestoreSnapshot(t)
  BY <1>1, <1>12 DEF RestoreSnapshot
<1>13. CASE Restart
  BY <1>1, <1>13 DEF Restart
<1>14. CASE Tick
  BY <1>14, ProvisioningAssumption DEF Tick, store, SnapsInv, NoFuture, CopiedKept
<1>15. CASE ClockBack
  BY <1>15 DEF ClockBack, store, SnapsInv, NoFuture, CopiedKept
<1>16. CASE UNCHANGED vars
  BY <1>1, <1>16 DEF vars, store
<1> QED
  BY <1>4, <1>5, <1>6, <1>7, <1>8, <1>9, <1>10, <1>11, <1>12, <1>13, <1>14, <1>15, <1>16 DEF Next

\* What a save replaced can be restored if the last copy was taken of it, for any
\* number of snapshots kept and of overlapping saves, restores and restarts
\* (config/save.go:34-37,169-197).
THEOREM PreviousCorrect == Spec => []PreviousKept
<1>1. Init => SnapsInv
  BY DEF Init, SnapsInv, NoFuture, CopiedKept
<1>2. SnapsInv => PreviousKept
  BY DEF SnapsInv, CopiedKept, PreviousKept
<1> QED
  BY <1>1, <1>2, SnapsStep, PTL DEF Spec

-----------------------------------------------------------------------------
(* Types.                                                                  *)

\* A secret in a profile has been drawn.
SecretsDrawn ==
  /\ setup # None => setup.secret <= drawn
  /\ \A r \in Tabs : req[r] # None => req[r].st.secret <= drawn

WizardOK ==
  /\ SecretsDrawn
  /\ shown \in [Tabs -> 0..drawn]
  /\ issued \subseteq Tokens /\ shared \subseteq Tokens

StoreOK ==
  /\ ram \in Contents
  /\ file \in Contents \cup {Cut}
  /\ edit \in Contents \cup {None}
  /\ DOMAIN snaps \subseteq stamps
  /\ Range(snaps) \subseteq Contents \cup {Cut}
  /\ saves \in Nat

TypeInv == WizardInv /\ WizardOK /\ StoreOK /\ stepped \in BOOLEAN

\* Snapshots hold what was in users.json, under names that were taken.
LEMMA PruneType ==
  ASSUME NEW s
  PROVE  DOMAIN PruneBackups(s) \subseteq DOMAIN s /\ Range(PruneBackups(s)) \subseteq Range(s)
BY DEF PruneBackups, Restrict, Range

LEMMA SnapshotType ==
  ASSUME StoreOK, NEW content \in Contents \cup {Cut}
  PROVE  /\ DOMAIN Snapshot(snaps, content) \subseteq stamps \cup {Stamp}
         /\ Range(Snapshot(snaps, content)) \subseteq Contents \cup {Cut}
<1> DEFINE F == [t \in DOMAIN snaps \cup {Stamp} |-> IF t = Stamp THEN content ELSE snaps[t]]
<1>1. DOMAIN F \subseteq stamps \cup {Stamp} /\ Range(F) \subseteq Contents \cup {Cut}
  BY DEF StoreOK, Range
<1>2. Snapshot(snaps, content) = PruneBackups(F)
  BY DEF Snapshot
<1> HIDE DEF F
<1> QED
  BY <1>1, <1>2, PruneType

\* The copy of a save, however it ends.
LEMMA CopyType ==
  ASSUME StoreOK, CopyTaken(file) \/ CopyLost
  PROVE  DOMAIN snaps' \subseteq stamps' /\ Range(snaps)' \subseteq Contents \cup {Cut}
<1>1. CASE CopyTaken(file)
  BY <1>1, SnapshotType DEF CopyTaken, StoreOK
<1>2. CASE CopyTaken(Cut)
  BY <1>2, SnapshotType DEF CopyTaken
<1>3. CASE snaps' = PruneBackups(snaps) /\ UNCHANGED stamps
  BY <1>3, PruneType DEF StoreOK
<1> QED
  BY <1>1, <1>2, <1>3 DEF CopyLost

LEMMA SaveType ==
  ASSUME StoreOK, edit' \in {edit, None},
         SaveUsersFails \/ \E content \in Contents : SaveUsers(content)
  PROVE  StoreOK'
BY DEF SaveUsers, SaveUsersFails, StoreOK

LEMMA CopyUsersType ==
  ASSUME StoreOK, CopyUsers, edit' \in {edit, ram}
  PROVE  StoreOK'
<1>1. DOMAIN snaps' \subseteq stamps' /\ Range(snaps)' \subseteq Contents \cup {Cut}
  BY CopyType DEF CopyUsers
<1> QED
  BY <1>1 DEF CopyUsers, StoreOK

\* The wizard draws and shows secrets.
LEMMA WizardType ==
  ASSUME TypeInv, [Next]_vars
  PROVE  WizardOK'
<1> USE DEF TypeInv, WizardInv
<1>1. ASSUME NEW t \in Tokens, RunSetup(t) PROVE WizardOK'
  BY <1>1 DEF RunSetup, WizardOK, SecretsDrawn, Counters
<1>2. ASSUME NEW r \in Tabs, NEW t \in Tokens, NEW p \in Passwords, StepCred(r, t, p)
      PROVE  WizardOK'
  <2> DEFINE Pc == IF DisableTOTP THEN "finalize" ELSE "save"
             secret == IF DisableTOTP THEN 0 ELSE drawn + 1
  <2>1. /\ secret \in 0..(drawn + 1)
        /\ req' = [req EXCEPT ![r] = [pc |-> Pc, st |-> [setup EXCEPT !.hash = p, !.secret = secret]]]
    BY <1>2 DEF StepCred, Counters
  <2> HIDE DEF Pc, secret
  <2>2. setup \in Profiles
    BY <1>2 DEF StepCred, validSetup, ProfilesOK
  <2>3. [setup EXCEPT !.hash = p, !.secret = secret].secret = secret
    BY <2>2 DEF Profiles
  <2>4. drawn' = drawn + 1 /\ UNCHANGED <<setup, shown, issued>> /\ shared' = Shared(t)
    BY <1>2 DEF StepCred
  <2>5. \A q \in Tabs : q # r => req'[q] = req[q]
    BY <2>1 DEF ProfilesOK
  <2>6. req'[r].st.secret = secret
    BY <2>1, <2>3 DEF ProfilesOK
  <2>7. (setup # None => setup.secret \in Nat) /\ \A q \in Tabs : req[q] # None => req[q].st.secret \in Nat
    BY DEF ProfilesOK, Profiles, Holding
  <2>8. SecretsDrawn'
    <3>1. setup' # None => setup'.secret <= drawn'
      BY <2>4, <2>7 DEF WizardOK, SecretsDrawn, Counters
    <3>2. ASSUME NEW q \in Tabs, req'[q] # None PROVE req'[q].st.secret <= drawn'
      <4>1. CASE q = r
        BY <2>1, <2>4, <2>6, <4>1 DEF Counters
      <4>2. CASE q # r
        BY <2>4, <2>5, <2>7, <3>2, <4>2 DEF WizardOK, SecretsDrawn, Counters
      <4> QED
        BY <4>1, <4>2
    <3> QED
      BY <3>1, <3>2 DEF SecretsDrawn
  <2>9. shown' \in [Tabs -> 0..drawn'] /\ issued' \subseteq Tokens /\ shared' \subseteq Tokens
    BY <2>4 DEF WizardOK, Counters, Shared
  <2> QED
    BY <2>8, <2>9 DEF WizardOK
<1>3. ASSUME NEW r \in Tabs, NEW t \in Tokens, StepConfirm(r, t) PROVE WizardOK'
  <2>1. setup \in Profiles /\ setup # None /\ setup.secret \in 0..drawn
    BY <1>3 DEF StepConfirm, validSetup, ProfilesOK, Profiles, WizardOK, SecretsDrawn, Counters
  <2>2. shown' \in [Tabs -> 0..drawn] /\ shared' \subseteq Tokens
    BY <1>3, <2>1 DEF StepConfirm, WizardOK, Shared
  <2>3. SecretsDrawn'
    BY <1>3, <2>1 DEF StepConfirm, WizardOK, SecretsDrawn, ProfilesOK, Counters
  <2> QED
    BY <1>3, <2>2, <2>3 DEF StepConfirm, WizardOK
<1>4. ASSUME NEW r \in Tabs, SaveSetup(r) PROVE WizardOK'
  <2>1. req[r] # None /\ req[r].st.secret \in 0..drawn
    BY <1>4 DEF SaveSetup, ProfilesOK, Holding, Profiles, WizardOK, SecretsDrawn, Counters
  <2> QED
    BY <1>4, <2>1 DEF SaveSetup, WizardOK, SecretsDrawn, ProfilesOK, Counters
<1>5. ASSUME NEW r \in Tabs, FinalizeSetup(r) \/ AdminSaved(r) \/ RemoveSetup(r)
      PROVE  WizardOK'
  <2>1. \A q \in Tabs : req'[q] # None => req[q] # None /\ req'[q].st = req[q].st
    BY <1>5 DEF FinalizeSetup, AdminSaved, RemoveSetup, ProfilesOK, Holding
  <2>2. UNCHANGED <<shown, drawn, issued, shared>> /\ (setup' = setup \/ setup' = None)
    BY <1>5 DEF FinalizeSetup, AdminSaved, RemoveSetup
  <2> QED
    BY <2>1, <2>2 DEF WizardOK, SecretsDrawn
<1>6. ASSUME NEW r \in Tabs, StepFails(r) PROVE WizardOK'
  <2>1. req[r].st.token \in Tokens
    BY <1>6 DEF StepFails, ProfilesOK, Holding, Profiles
  <2> QED
    BY <1>6, <2>1 DEF StepFails, WizardOK, SecretsDrawn, ProfilesOK
<1>7. CASE Restart
  BY <1>7 DEF Restart, WizardOK, SecretsDrawn
<1>8. ASSUME UNCHANGED wizard PROVE WizardOK'
  BY <1>8 DEF wizard, WizardOK, SecretsDrawn
<1> QED
  BY <1>1, <1>2, <1>3, <1>4, <1>5, <1>6, <1>7, <1>8
  DEF Next, MutateUsers, UsersSaved, RestoreSnapshot, Tick, ClockBack, vars

\* Saves, restores and boots pass versions of the directory on.
LEMMA StoreType ==
  ASSUME TypeInv, [Next]_vars
  PROVE  StoreOK'
<1> USE DEF TypeInv
<1>1. ASSUME NEW r \in Tabs, AdminSaved(r) PROVE StoreOK'
  <2>1. PICK content : /\ content = [save |-> saves + 1, hash |-> req[r].st.hash,
                                     secret |-> req[r].st.secret]
                       /\ SaveUsers(content)
    BY <1>1 DEF AdminSaved
  <2>2. req[r].st \in Profiles
    BY <1>1 DEF AdminSaved, WizardInv, ProfilesOK, Holding
  <2>3. content \in Contents
    BY <2>1, <2>2 DEF Contents, Profiles, StoreOK
  <2> QED
    BY <1>1, <2>1, <2>3, SaveType DEF AdminSaved
<1>2. CASE UsersSaved
  <2>1. [edit EXCEPT !.save = saves + 1] \in Contents
    BY <1>2 DEF UsersSaved, StoreOK, Contents
  <2> QED
    BY <1>2, <2>1, SaveType DEF UsersSaved
<1>3. ASSUME NEW r \in Tabs, StepFails(r) PROVE StoreOK'
  <2>1. CASE SaveUsersFails
    BY <1>3, <2>1, SaveType DEF StepFails
  <2>2. CASE UNCHANGED <<ram, file, snaps, saves, copied, replaced, stamps>>
    BY <1>3, <2>2 DEF StepFails, StoreOK
  <2> QED
    BY <1>3, <2>1, <2>2 DEF StepFails
<1>4. CASE MutateUsers \/ \E r \in Tabs : FinalizeSetup(r)
  BY <1>4, CopyUsersType DEF MutateUsers, FinalizeSetup
<1>5. CASE \E t \in DOMAIN snaps : RestoreSnapshot(t)
  BY <1>5 DEF RestoreSnapshot, StoreOK, Range
<1>6. CASE Restart
  BY <1>6 DEF Restart, StoreOK
<1>7. ASSUME UNCHANGED store PROVE StoreOK'
  BY <1>7 DEF store, StoreOK
<1> QED
  BY <1>1, <1>2, <1>3, <1>4, <1>5, <1>6, <1>7
  DEF Next, RunSetup, StepCred, StepConfirm, SaveSetup, RemoveSetup, Tick, ClockBack, vars

\* Profiles, secrets, versions and snapshots keep their types (handlers/setup.go,
\* config/save.go).
THEOREM TypeCorrect == Spec => []TypeOK
<1>1. Init => TypeInv
  <2> SUFFICES ASSUME Init PROVE TypeInv
    OBVIOUS
  <2>1. WizardInv
    BY DEF Init, WizardInv, Counters, ProfilesOK, PairInv, PairKept, Drawn, HeldAlone, UsedUp,
           TokenOnce
  <2>2. WizardOK
    BY DEF Init, WizardOK, SecretsDrawn
  <2>3. StoreOK
    BY DEF Init, StoreOK, Contents, Range
  <2> QED
    BY <2>1, <2>2, <2>3 DEF Init, TypeInv
<1>2. TypeInv /\ [Next]_vars => TypeInv'
  <2> SUFFICES ASSUME TypeInv, [Next]_vars PROVE TypeInv'
    OBVIOUS
  <2>1. stepped' \in BOOLEAN
    BY DEF TypeInv, Next, RunSetup, StepCred, StepConfirm, SaveSetup, FinalizeSetup, AdminSaved,
           RemoveSetup, StepFails, MutateUsers, UsersSaved, RestoreSnapshot, Restart, Tick, ClockBack,
           vars, time
  <2> QED
    BY <2>1, WizardStep, WizardType, StoreType DEF TypeInv
<1>3. TypeInv => TypeOK
  BY DEF TypeInv, TypeOK, WizardInv, Counters, ProfilesOK, WizardOK, StoreOK
<1> QED
  BY <1>1, <1>2, <1>3, PTL DEF Spec
=============================================================================
