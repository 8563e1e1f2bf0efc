--------------------------- MODULE SessionsProofs ---------------------------
(***************************************************************************)
(* Sessions keeps its promises for every set of ids, every lifetime and    *)
(* idle timeout, any number of restarts and failed saves.                  *)
(***************************************************************************)
EXTENDS Sessions, TLAPS

\* What a copy of session id, in RAM or in the file, agrees on with the history.
CopyOK(s, id) ==
  s # NoSession =>
    /\ id \in drawn
    /\ s.createdAt = born[id]
    /\ s.lastSeen <= lastUse[id]
    /\ s.twoFADone => id \in earned

\* The file is never ahead of the map on a session both hold.
FileBehindMap(id) ==
  m[id] # NoSession /\ disk[id] # NoSession =>
    (disk[id].twoFADone => m[id].twoFADone)

\* The inductive invariant: both copies descend from the same Create.
IInv ==
  /\ TypeOK
  /\ \A id \in SessionIds : CopyOK(m[id], id)
  /\ \A id \in SessionIds : CopyOK(disk[id], id)
  /\ \A id \in SessionIds : FileBehindMap(id)
  /\ \A id \in SessionIds : lastUse[id] <= now
  /\ FileMatchesMap

-----------------------------------------------------------------------------
(* Every method leaves the two maps and the history well typed.            *)

\* The initial map, file and history are well typed.
LEMMA InitTyped == Init => TypeOK
<1> SUFFICES ASSUME Init PROVE TypeOK
  OBVIOUS
<1>1. Empty \in [SessionIds -> MaybeSession]
  BY DEF Empty, MaybeSession
<1>2. failed \in BOOLEAN
  BY Zenon DEF Init
<1> QED BY <1>1, <1>2 DEF Init, TypeOK

\* Create, Get, Complete2FA, Delete, a restart and the clock keep every
\* variable in its type (session.go:59-142).
LEMMA TypeStep == TypeOK /\ [Next]_vars => TypeOK'
<1> SUFFICES ASSUME TypeOK, [Next]_vars PROVE TypeOK'
  OBVIOUS
<1> USE SessionsAssumption DEF TypeOK, MaybeSession
<1>1. ASSUME NEW id \in SessionIds, NEW email \in Emails, NEW provider \in Providers,
             Create(id, email, provider)
      PROVE  TypeOK'
  <2>1. [email |-> email, provider |-> provider, twoFADone |-> FALSE,
         createdAt |-> now, lastSeen |-> now] \in Session
    BY DEF Session
  <2> QED BY <1>1, <2>1 DEF Create, persistLocked
<1>2. ASSUME NEW id \in SessionIds, GetLive(id) PROVE TypeOK'
  <2>1. [m[id] EXCEPT !.lastSeen = now] \in Session
    BY <1>2 DEF GetLive, Session
  <2> QED BY <1>2, <2>1 DEF GetLive
<1>3. ASSUME NEW id \in SessionIds, GetExpired(id) PROVE TypeOK'
  BY <1>3 DEF GetExpired, persistLocked
<1>4. ASSUME NEW id \in SessionIds, Complete2FA(id) PROVE TypeOK'
  <2>1. [m[id] EXCEPT !.twoFADone = TRUE] \in Session
    BY <1>4 DEF Complete2FA, Session
  <2> QED BY <1>4, <2>1 DEF Complete2FA, persistLocked
<1>5. ASSUME NEW id \in SessionIds, Delete(id) PROVE TypeOK'
  BY <1>5 DEF Delete, persistLocked
<1>6. CASE Restart
  BY <1>6 DEF Restart, Empty
<1>7. CASE Tick
  BY <1>7 DEF Tick, store
<1>8. CASE UNCHANGED vars
  BY <1>8 DEF vars
<1> QED BY <1>1, <1>2, <1>3, <1>4, <1>5, <1>6, <1>7, <1>8 DEF Next

\* Type correctness of the store.
THEOREM TypeCorrect == Spec => []TypeOK
<1>1. Init => TypeOK
  BY InitTyped
<1> QED BY <1>1, TypeStep, PTL DEF Spec

-----------------------------------------------------------------------------
(* The copies in RAM and in the file.                                      *)

\* The store starts with nothing to disagree about.
LEMMA InitIInv == Init => IInv
<1> SUFFICES ASSUME Init PROVE IInv
  OBVIOUS
<1>1. TypeOK
  BY InitTyped
<1>2. \A id \in SessionIds : m[id] = NoSession /\ disk[id] = NoSession
  BY DEF Init, Empty
<1>3. \A id \in SessionIds : lastUse[id] <= now
  <2> SUFFICES ASSUME NEW id \in SessionIds PROVE lastUse[id] <= now
    OBVIOUS
  <2>1. now = 0 /\ lastUse[id] = 0
    BY DEF Init
  <2> QED BY <2>1
<1> QED BY <1>1, <1>2, <1>3 DEF IInv, CopyOK, FileBehindMap, FileMatchesMap, SameSession

\* The file after a save: the new map, or as it was.
Saved ==
  \/ disk' = m' /\ failed' = FALSE
  \/ disk' = disk /\ failed' = TRUE

\* Time and the drawing of ids only move the history forward.
HistoryGrows ==
  /\ drawn \subseteq drawn'
  /\ earned \subseteq earned'
  /\ \A id \in drawn : born'[id] = born[id] /\ lastUse[id] <= lastUse'[id]

\* A save of a map whose entries agree with the history, and which is not
\* behind the file, leaves both copies agreeing with the history, the file
\* behind the map, and the two equal if the save succeeded.
LEMMA SaveKeepsCopies ==
  ASSUME IInv, TypeOK', Saved, HistoryGrows,
         \A id \in SessionIds : CopyOK(m[id], id)',
         \A id \in SessionIds : lastUse'[id] <= now',
         \A id \in SessionIds :
           m'[id] # NoSession /\ disk[id] # NoSession =>
             (disk[id].twoFADone => m'[id].twoFADone)
  PROVE  IInv'
<1>1. \A id \in SessionIds : CopyOK(disk[id], id)'
  <2> SUFFICES ASSUME NEW id \in SessionIds, disk'[id] # NoSession
               PROVE  /\ id \in drawn'
                      /\ disk'[id].createdAt = born'[id]
                      /\ disk'[id].lastSeen <= lastUse'[id]
                      /\ disk'[id].twoFADone => id \in earned'
    BY DEF CopyOK
  <2>1. CASE disk' = m'
    BY <2>1 DEF CopyOK
  <2>2. CASE disk' = disk
    <3>1. /\ id \in drawn
          /\ disk[id].createdAt = born[id]
          /\ disk[id].lastSeen <= lastUse[id]
          /\ disk[id].twoFADone => id \in earned
      BY <2>2 DEF IInv, CopyOK
    <3>2. disk[id].lastSeen \in Nat /\ lastUse[id] \in Nat /\ lastUse'[id] \in Nat
      BY <2>2 DEF IInv, TypeOK, MaybeSession, Session
    <3>3. /\ id \in drawn'
          /\ born'[id] = born[id]
          /\ lastUse[id] <= lastUse'[id]
          /\ id \in earned => id \in earned'
      BY <3>1 DEF HistoryGrows
    <3> QED BY <2>2, <3>1, <3>2, <3>3
  <2> QED BY <2>1, <2>2 DEF Saved
<1>2. \A id \in SessionIds : FileBehindMap(id)'
  BY DEF Saved, FileBehindMap
<1>3. FileMatchesMap'
  BY DEF Saved, FileMatchesMap, SameSession
<1> QED BY <1>1, <1>2, <1>3 DEF IInv

\* Every step of the store preserves the inductive invariant.
LEMMA IInvStep == IInv /\ [Next]_vars => IInv'
<1> SUFFICES ASSUME IInv, [Next]_vars PROVE IInv'
  OBVIOUS
<1> TypeOK /\ TypeOK'
  BY TypeStep DEF IInv
<1>1. ASSUME NEW id \in SessionIds, NEW email \in Emails, NEW provider \in Providers,
             Create(id, email, provider)
      PROVE  IInv'
  <2>1. Saved /\ HistoryGrows
    BY <1>1 DEF Create, persistLocked, Saved, HistoryGrows, TypeOK, IInv
  <2>2. m[id] = NoSession /\ disk[id] = NoSession
    BY <1>1 DEF Create, IInv, CopyOK
  <2>3. \A i \in SessionIds : CopyOK(m[i], i)'
    BY <1>1, <2>2 DEF Create, persistLocked, IInv, CopyOK, TypeOK
  <2>4. \A i \in SessionIds : lastUse'[i] <= now'
    BY <1>1 DEF Create, IInv, TypeOK
  <2>5. \A i \in SessionIds :
          m'[i] # NoSession /\ disk[i] # NoSession =>
            (disk[i].twoFADone => m'[i].twoFADone)
    BY <1>1, <2>2 DEF Create, persistLocked, IInv, FileBehindMap, TypeOK
  <2> QED BY <2>1, <2>3, <2>4, <2>5, SaveKeepsCopies
<1>2. ASSUME NEW id \in SessionIds, GetLive(id) PROVE IInv'
  <2>1. m[id] \in Session
    BY <1>2 DEF GetLive, TypeOK, MaybeSession
  <2>2. \A i \in SessionIds : i # id => m'[i] = m[i] /\ lastUse'[i] = lastUse[i]
    BY <1>2 DEF GetLive, TypeOK
  <2>3. /\ m'[id] = [m[id] EXCEPT !.lastSeen = now]
        /\ lastUse'[id] = now
    BY <1>2 DEF GetLive, TypeOK
  <2>4. /\ m'[id] # NoSession
        /\ m'[id].email = m[id].email
        /\ m'[id].provider = m[id].provider
        /\ m'[id].twoFADone = m[id].twoFADone
        /\ m'[id].createdAt = m[id].createdAt
        /\ m'[id].lastSeen = now
    <3>1. [m[id] EXCEPT !.lastSeen = now] \in Session
      BY <2>1 DEF Session, TypeOK
    <3>2. m'[id] # NoSession
      BY <2>3, <3>1, SessionsAssumption
    <3> QED BY <2>1, <2>3, <3>2 DEF Session
  <2>5. UNCHANGED <<disk, now, drawn, failed, born, earned>>
    BY <1>2 DEF GetLive
  <2>6. \A i \in SessionIds : CopyOK(m[i], i)'
    BY <1>2, <2>2, <2>3, <2>4, <2>5 DEF GetLive, IInv, CopyOK, TypeOK
  <2>7. \A i \in SessionIds : lastUse'[i] <= now'
    BY <2>2, <2>3, <2>5 DEF IInv, TypeOK
  <2>8. \A i \in SessionIds : CopyOK(disk[i], i)'
    <3> SUFFICES ASSUME NEW i \in SessionIds, disk[i] # NoSession
                 PROVE  /\ i \in drawn
                        /\ disk[i].createdAt = born[i]
                        /\ disk[i].lastSeen <= lastUse'[i]
                        /\ disk[i].twoFADone => i \in earned
      BY <2>5 DEF CopyOK
    <3>1. /\ i \in drawn
          /\ disk[i].createdAt = born[i]
          /\ disk[i].lastSeen <= lastUse[i]
          /\ lastUse[i] <= now
          /\ disk[i].twoFADone => i \in earned
      BY DEF IInv, CopyOK
    <3>2. disk[i].lastSeen \in Nat /\ lastUse[i] \in Nat /\ now \in Nat
      BY DEF TypeOK, MaybeSession, Session
    <3> QED BY <2>2, <2>3, <3>1, <3>2
  <2>9. \A i \in SessionIds : FileBehindMap(i)'
    BY <1>2, <2>2, <2>4, <2>5 DEF GetLive, IInv, FileBehindMap
  <2>10. FileMatchesMap'
    BY <1>2, <2>2, <2>4, <2>5 DEF GetLive, IInv, FileMatchesMap, SameSession
  <2> QED BY <2>6, <2>7, <2>8, <2>9, <2>10 DEF IInv
<1>3. ASSUME NEW id \in SessionIds, GetExpired(id) \/ Delete(id) PROVE IInv'
  <2>1. Saved /\ HistoryGrows
    BY <1>3 DEF GetExpired, Delete, persistLocked, Saved, HistoryGrows, TypeOK
  <2>2. /\ m' = [m EXCEPT ![id] = NoSession]
        /\ UNCHANGED <<now, drawn, born, lastUse, earned>>
    BY <1>3 DEF GetExpired, Delete, persistLocked
  <2>3. \A i \in SessionIds : CopyOK(m[i], i)'
    BY <2>2 DEF IInv, CopyOK, TypeOK
  <2>4. \A i \in SessionIds : lastUse'[i] <= now'
    BY <2>2 DEF IInv
  <2>5. \A i \in SessionIds :
          m'[i] # NoSession /\ disk[i] # NoSession =>
            (disk[i].twoFADone => m'[i].twoFADone)
    BY <2>2 DEF IInv, FileBehindMap, TypeOK
  <2> QED BY <2>1, <2>3, <2>4, <2>5, SaveKeepsCopies
<1>4. ASSUME NEW id \in SessionIds, Complete2FA(id) PROVE IInv'
  <2>1. Saved /\ HistoryGrows
    BY <1>4 DEF Complete2FA, persistLocked, Saved, HistoryGrows, TypeOK
  <2>2. /\ m[id] \in Session
        /\ m' = [m EXCEPT ![id].twoFADone = TRUE]
        /\ earned' = earned \cup {id}
        /\ UNCHANGED <<now, drawn, born, lastUse>>
    BY <1>4 DEF Complete2FA, persistLocked, TypeOK, MaybeSession
  <2>3. /\ m'[id].twoFADone = TRUE
        /\ m'[id].createdAt = m[id].createdAt
        /\ m'[id].lastSeen = m[id].lastSeen
        /\ \A i \in SessionIds : i # id => m'[i] = m[i]
    BY <2>2 DEF Session, TypeOK
  <2>4. \A i \in SessionIds : CopyOK(m[i], i)'
    BY <1>4, <2>2, <2>3 DEF Complete2FA, IInv, CopyOK
  <2>5. \A i \in SessionIds : lastUse'[i] <= now'
    BY <2>2 DEF IInv
  <2>6. \A i \in SessionIds :
          m'[i] # NoSession /\ disk[i] # NoSession =>
            (disk[i].twoFADone => m'[i].twoFADone)
    BY <2>3 DEF IInv, FileBehindMap
  <2> QED BY <2>1, <2>4, <2>5, <2>6, SaveKeepsCopies
<1>5. CASE Restart
  <2>1. /\ (m' = disk /\ failed' = FALSE) \/ (m' = Empty /\ failed' = TRUE)
        /\ UNCHANGED <<disk, now, drawn, born, lastUse, earned>>
    BY <1>5 DEF Restart
  <2>2. \A i \in SessionIds : m'[i] = disk[i] \/ m'[i] = NoSession
    BY <2>1 DEF Empty
  <2>3. \A i \in SessionIds : CopyOK(m[i], i)' /\ CopyOK(disk[i], i)'
    BY <2>1, <2>2 DEF IInv, CopyOK
  <2>4. \A i \in SessionIds : FileBehindMap(i)'
    BY <2>1, <2>2 DEF FileBehindMap
  <2>5. FileMatchesMap'
    BY <2>1 DEF FileMatchesMap, SameSession
  <2> QED BY <2>1, <2>3, <2>4, <2>5 DEF IInv
<1>6. CASE Tick
  <2>1. now' = now + 1 /\ UNCHANGED <<m, disk, drawn, failed, born, lastUse, earned>>
    BY <1>6 DEF Tick, store
  <2>2. \A i \in SessionIds : lastUse'[i] <= now'
    BY <2>1 DEF IInv, TypeOK
  <2> QED BY <2>1, <2>2 DEF IInv, CopyOK, FileBehindMap, FileMatchesMap
<1>7. CASE UNCHANGED vars
  BY <1>7 DEF vars, IInv, CopyOK, FileBehindMap, FileMatchesMap
<1> QED BY <1>1, <1>2, <1>3, <1>4, <1>5, <1>6, <1>7 DEF Next

\* The inductive invariant holds throughout.
THEOREM CopiesAgree == Spec => []IInv
BY InitIInv, IInvStep, PTL DEF Spec

\* A session Get returns has outlived neither its absolute lifetime nor its
\* idle timeout, whatever restarts and failed saves came before (session.go:86).
THEOREM LifetimeCorrect == Spec => []LifetimeHolds
<1>1. IInv => LifetimeHolds
  <2> SUFFICES ASSUME IInv, NEW id \in SessionIds, m[id] # NoSession, ~ Expired(m[id])
               PROVE  /\ TTL > 0 => now - born[id] <= TTL
                      /\ Idle > 0 => now - lastUse[id] <= Idle
    BY DEF LifetimeHolds
  <2>1. /\ m[id].createdAt = born[id]
        /\ m[id].lastSeen <= lastUse[id]
    BY DEF IInv, CopyOK
  <2>2. /\ now \in Nat /\ born[id] \in Nat /\ lastUse[id] \in Nat
        /\ m[id].lastSeen \in Nat /\ m[id].createdAt \in Nat
    BY DEF IInv, TypeOK, MaybeSession, Session
  <2> QED BY <2>1, <2>2, SessionsAssumption DEF Expired
<1> QED BY <1>1, CopiesAgree, PTL

\* After a successful save the file holds the sessions of the map (session.go:116).
THEOREM FileCorrect == Spec => []FileMatchesMap
<1>1. IInv => FileMatchesMap
  BY DEF IInv
<1> QED BY <1>1, CopiesAgree, PTL

-----------------------------------------------------------------------------
(* The store implements its contract.                                      *)

\* Every step of the store is a step of the contract, or changes nothing in it.
LEMMA ContractStep == IInv /\ IInv' /\ [Next]_vars => [Contract!Next]_(Contract!vars)
<1> SUFFICES ASSUME IInv, IInv', [Next]_vars
             PROVE  Contract!Next \/ UNCHANGED <<Status, earned, failed>>
  BY DEF Contract!vars
<1> failed' \in BOOLEAN
  BY DEF IInv, TypeOK
<1>1. ASSUME NEW id \in SessionIds, NEW email \in Emails, NEW provider \in Providers,
             Create(id, email, provider)
      PROVE  Contract!Open(id)
  <2>1. m[id] = NoSession /\ id \notin drawn
    BY <1>1 DEF Create, IInv, CopyOK
  <2>2. Status[id] = "fresh"
    BY <2>1 DEF Status
  <2>3. m'[id].twoFADone = FALSE /\ m'[id] # NoSession
    <3>1. m'[id] = [email |-> email, provider |-> provider, twoFADone |-> FALSE,
                    createdAt |-> now, lastSeen |-> now]
      BY <1>1 DEF Create, persistLocked, IInv, TypeOK
    <3>2. m'[id] \in Session
      BY <3>1 DEF Session, IInv, TypeOK
    <3>3. m'[id].twoFADone = FALSE
      BY <3>1
    <3> QED BY <3>2, <3>3, SessionsAssumption
  <2>4. \A i \in SessionIds : i # id => m'[i] = m[i] /\ (i \in drawn' <=> i \in drawn)
    BY <1>1 DEF Create, persistLocked, IInv, TypeOK
  <2>5. Status' = [Status EXCEPT ![id] = "open"]
    BY <2>3, <2>4 DEF Status
  <2>6. earned' = earned
    BY <1>1 DEF Create
  <2> QED BY <2>2, <2>5, <2>6 DEF Contract!Open
<1>2. ASSUME NEW id \in SessionIds, GetLive(id) PROVE UNCHANGED <<Status, earned, failed>>
  <2>1. m'[id] = [m[id] EXCEPT !.lastSeen = now] /\ m[id] \in Session
    BY <1>2 DEF GetLive, IInv, TypeOK, MaybeSession
  <2>2. m'[id] \in Session /\ m'[id].twoFADone = m[id].twoFADone
    BY <2>1 DEF Session, IInv, TypeOK
  <2>3. \A i \in SessionIds : i # id => m'[i] = m[i]
    BY <1>2 DEF GetLive, IInv, TypeOK
  <2>4. m'[id] # NoSession /\ m[id] # NoSession
    BY <2>1, <2>2, SessionsAssumption
  <2> QED BY <1>2, <2>2, <2>3, <2>4 DEF Status, GetLive
<1>3. ASSUME NEW id \in SessionIds, GetExpired(id) \/ Delete(id)
      PROVE  Contract!Next \/ UNCHANGED <<Status, earned, failed>>
  <2>1. /\ m' = [m EXCEPT ![id] = NoSession]
        /\ UNCHANGED <<drawn, earned>>
    BY <1>3 DEF GetExpired, Delete, persistLocked
  <2> DEFINE S == IF m[id] = NoSession THEN {} ELSE {id}
  <2>2. \A i \in S : Status[i] \in {"open", "full"}
    BY DEF Status
  <2>3. \A i \in SessionIds : Status'[i] = IF i \in S THEN "closed" ELSE Status[i]
    <3> SUFFICES ASSUME NEW i \in SessionIds
                 PROVE  Status'[i] = IF i \in S THEN "closed" ELSE Status[i]
      OBVIOUS
    <3>1. CASE i # id
      BY <2>1, <3>1 DEF Status, IInv, TypeOK
    <3>2. CASE i = id /\ m[id] = NoSession
      BY <2>1, <3>2 DEF Status, IInv, TypeOK
    <3>3. CASE i = id /\ m[id] # NoSession
      <4>1. m'[id] = NoSession /\ id \in drawn'
        BY <2>1, <3>3 DEF IInv, TypeOK, CopyOK
      <4> QED BY <3>3, <4>1 DEF Status
    <3> QED BY <3>1, <3>2, <3>3
  <2>4. Status' = [i \in SessionIds |-> IF i \in S THEN "closed" ELSE Status[i]]
    BY <2>3 DEF Status
  <2>5. Contract!Close(S)
    BY <2>1, <2>2, <2>4 DEF Contract!Close
  <2> QED BY <2>5 DEF Contract!Next
<1>4. ASSUME NEW id \in SessionIds, Complete2FA(id) PROVE Contract!Finish(id)
  <2>1. /\ m[id] \in Session
        /\ m' = [m EXCEPT ![id].twoFADone = TRUE]
        /\ drawn' = drawn
        /\ earned' = earned \cup {id}
    BY <1>4 DEF Complete2FA, persistLocked, IInv, TypeOK, MaybeSession
  <2>2. m'[id] \in Session /\ m'[id].twoFADone = TRUE
    BY <2>1 DEF Session, IInv, TypeOK
  <2>3. \A i \in SessionIds : i # id => m'[i] = m[i]
    BY <2>1 DEF IInv, TypeOK
  <2>4. m'[id] # NoSession /\ m[id] # NoSession
    BY <2>1, <2>2, SessionsAssumption
  <2>5. Status' = [Status EXCEPT ![id] = "full"]
    BY <2>1, <2>2, <2>3, <2>4 DEF Status
  <2>6. Status[id] \in {"open", "full"}
    BY <2>4 DEF Status
  <2> QED BY <2>1, <2>5, <2>6 DEF Contract!Finish
<1>5. CASE Restart
  <2>1. /\ (m' = disk /\ failed' = FALSE) \/ (m' = Empty /\ failed' = TRUE)
        /\ UNCHANGED <<disk, drawn, earned>>
    BY <1>5 DEF Restart
  <2>2. CASE m' = disk /\ ~ failed
    <3>1. \A i \in SessionIds : SameSession(m[i], m'[i])
      BY <2>2 DEF IInv, FileMatchesMap
    <3>2. Status' = Status
      BY <2>1, <3>1 DEF Status, SameSession
    <3>3. failed' = failed \/ Contract!Close({})
      BY <2>1, <3>2 DEF Contract!Close, Status
    <3>4. Contract!Close({}) => Contract!Next
      BY DEF Contract!Next
    <3> QED BY <2>1, <3>2, <3>3, <3>4
  <2>3. CASE m' = disk /\ failed
    <3>1. Status' \in [SessionIds -> Contract!Statuses]
      BY DEF Status, Contract!Statuses
    <3>2. ASSUME NEW i \in SessionIds PROVE Status'[i] \in Contract!Earlier(Status[i])
      <4>1. m'[i] = disk[i] /\ drawn' = drawn
        BY <2>1, <2>3
      <4>2. CASE m[i] = NoSession /\ i \notin drawn
        <5>1. disk[i] = NoSession
          BY <4>2 DEF IInv, CopyOK
        <5>2. Status[i] = "fresh" /\ Status'[i] = "fresh"
          BY <4>1, <4>2, <5>1 DEF Status
        <5> QED BY <5>2 DEF Contract!Earlier
      <4>3. CASE m[i] = NoSession /\ i \in drawn
        <5>1. Status[i] = "closed" /\ Status'[i] \in {"open", "full", "closed"}
          BY <4>1, <4>3 DEF Status
        <5> QED BY <5>1 DEF Contract!Earlier
      <4>4. CASE m[i] # NoSession /\ m[i].twoFADone
        <5>1. i \in drawn
          BY <4>4 DEF IInv, CopyOK
        <5>2. Status[i] = "full" /\ Status'[i] \in {"open", "full", "closed"}
          BY <4>1, <4>4, <5>1 DEF Status
        <5> QED BY <5>2 DEF Contract!Earlier
      <4>5. CASE m[i] # NoSession /\ ~ m[i].twoFADone
        <5>1. i \in drawn
          BY <4>5 DEF IInv, CopyOK
        <5>2. disk[i] = NoSession \/ ~ disk[i].twoFADone
          BY <4>5 DEF IInv, FileBehindMap
        <5>3. Status[i] = "open" /\ Status'[i] \in {"open", "closed"}
          BY <4>1, <4>5, <5>1, <5>2 DEF Status
        <5> QED BY <5>3 DEF Contract!Earlier
      <4> QED BY <4>2, <4>3, <4>4, <4>5
    <3>3. ASSUME NEW i \in SessionIds, Status'[i] = "full" PROVE i \in earned
      <4>1. m'[i] = disk[i] /\ m'[i] # NoSession /\ m'[i].twoFADone
        BY <2>3, <3>3 DEF Status
      <4> QED BY <4>1 DEF IInv, CopyOK
    <3>4. Contract!Rollback
      BY <2>1, <2>3, <3>1, <3>2, <3>3 DEF Contract!Rollback
    <3> QED BY <3>4 DEF Contract!Next
  <2>4. CASE m' = Empty
    <3> DEFINE S == {i \in SessionIds : m[i] # NoSession}
    <3>1. \A i \in SessionIds : m'[i] = NoSession
      BY <2>4 DEF Empty
    <3>2. \A i \in S : i \in drawn /\ Status[i] \in {"open", "full"}
      BY DEF Status, IInv, CopyOK
    <3>3. Status' = [i \in SessionIds |-> IF i \in S THEN "closed" ELSE Status[i]]
      BY <2>1, <3>1, <3>2 DEF Status
    <3>4. Contract!Close(S) /\ S \in SUBSET SessionIds
      BY <2>1, <3>2, <3>3 DEF Contract!Close
    <3> QED BY <3>4 DEF Contract!Next
  <2> QED BY <2>1, <2>2, <2>3, <2>4 DEF IInv, TypeOK
<1>6. CASE Tick
  BY <1>6 DEF Tick, store, Status
<1>7. CASE UNCHANGED vars
  BY <1>7 DEF vars, Status
<1> QED BY <1>1, <1>2, <1>3, <1>4, <1>5, <1>6, <1>7 DEF Next, Contract!Next

\* The store, its file and its restarts implement the contract of
\* SessionContract: an id is opened once, a second factor is passed before it
\* counts, and a closed session comes back only through a failed save.
THEOREM StoreImplementsContract == Spec => ImplementsContract
<1>1. Init => Contract!Init
  <2> SUFFICES ASSUME Init PROVE Contract!Init
    OBVIOUS
  <2>1. \A id \in SessionIds : m[id] = NoSession /\ id \notin drawn
    BY DEF Init, Empty
  <2>2. Status = [id \in SessionIds |-> "fresh"]
    BY <2>1 DEF Status
  <2>3. failed = FALSE /\ earned = {}
    BY DEF Init
  <2> QED BY <2>2, <2>3 DEF Contract!Init
<1> QED BY <1>1, ContractStep, CopiesAgree, PTL DEF Spec, ImplementsContract, Contract!Spec
=============================================================================
