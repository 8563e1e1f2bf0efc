---------------------------- MODULE WatchProofs -----------------------------
(***************************************************************************)
(* The alerts of the health checker, for any targets, any changes of their *)
(* list and any outcome of a probe, and the commands of the remote         *)
(* control, for any number of them, of lost polls and of restarts.         *)
(***************************************************************************)
EXTENDS Watch, TLAPS

(* Types.                                                                  *)

HealthOK ==
  /\ configured \subseteq Targets
  /\ status \in [TargetIds -> States \cup {None}]
  /\ due \subseteq Targets
  /\ round \in Round
  /\ probing \in Probe \cup {None}
  /\ belief \in [TargetIds -> States \cup {None}]
  /\ changes \in 0..MaxChanges

RemoteOK ==
  /\ arrived \in 0..Len(Updates)
  /\ {confirmed, offset} \subseteq 0..(Len(Updates) + 1)
  /\ batch \subseteq UpdateIds /\ redelivered \subseteq UpdateIds
  /\ handled \in [UpdateIds -> Nat]

\* The rounds and the list keep their types.
LEMMA HealthStep ==
  ASSUME TypeOK, [Next]_vars
  PROVE  HealthOK'
<1>1. CASE \E t \in Targets : MonitorAdd(t) \/ BackendAdd(t) \/ TargetDel(t)
  <2>1. PICK t \in Targets : MonitorAdd(t) \/ BackendAdd(t) \/ TargetDel(t)
    BY <1>1
  <2>2. changes' \in 0..MaxChanges
    <3>1. changes < MaxChanges /\ changes' = changes + 1
      BY <2>1 DEF MonitorAdd, BackendAdd, TargetDel
    <3>2. MaxChanges \in Nat
      BY WatchAssumption
    <3> QED
      BY <3>1, <3>2 DEF TypeOK
  <2>3. configured' \subseteq Targets /\ due' \subseteq Targets
    BY <2>1 DEF MonitorAdd, BackendAdd, TargetDel, TypeOK
  <2>4. UNCHANGED <<status, round, probing, belief>>
    BY <2>1 DEF MonitorAdd, BackendAdd, TargetDel
  <2> QED
    BY <2>2, <2>3, <2>4 DEF TypeOK, HealthOK
<1>2. CASE \E t \in Targets : Elapse(t)
  BY <1>2 DEF Elapse, TypeOK, HealthOK
<1>3. CASE Tick
  BY <1>3 DEF Tick, HealthTargets, TypeOK, HealthOK, Round
<1>4. CASE NextTarget
  <2>1. CASE round.rest = {} /\ round' = NoRound /\ UNCHANGED probing
    BY <1>4, <2>1 DEF NextTarget, NoRound, TypeOK, HealthOK, Round
  <2>2. ASSUME NEW t \in round.rest, round' = [round EXCEPT !.rest = @ \ {t}],
               probing' = IF Skips(t) THEN None
                          ELSE [target |-> t, prev |-> status[t.id], now |-> None]
        PROVE  HealthOK'
    <3>1. t \in Targets /\ t.id \in TargetIds
      BY <2>2 DEF TypeOK, Round, TargetIds
    <3>2. probing' \in Probe \cup {None}
      BY <2>2, <3>1 DEF TypeOK, Probe
    <3>3. round' \in Round
      BY <2>2 DEF TypeOK, Round
    <3> QED
      BY <1>4, <3>2, <3>3 DEF NextTarget, TypeOK, HealthOK
  <2> QED
    BY <1>4, <2>1, <2>2 DEF NextTarget
<1>5. ASSUME NEW s \in States, ProbeEnds(s) PROVE HealthOK'
  <2>1. PICK t \in Targets : t = probing.target
    BY <1>5 DEF ProbeEnds, TypeOK, Probe
  <2>2. status' \in [TargetIds -> States \cup {None}] /\ belief' \in [TargetIds -> States \cup {None}]
    BY <1>5, <2>1 DEF ProbeEnds, TypeOK
  <2>3. due' \subseteq Targets /\ round' \in Round
    BY <1>5, <2>1 DEF ProbeEnds, TypeOK, Round
  <2>4. probing' \in Probe \cup {None}
    BY <1>5 DEF ProbeEnds, TypeOK, Probe
  <2> QED
    BY <1>5, <2>2, <2>3, <2>4 DEF ProbeEnds, TypeOK, HealthOK
<1>8. CASE AlertSent
  <2>1. belief' \in [TargetIds -> States \cup {None}]
    BY <1>8 DEF AlertSent, Alerting, TypeOK, Probe
  <2> QED
    BY <1>8, <2>1 DEF AlertSent, TypeOK, HealthOK
<1>6. CASE Restart
  BY <1>6 DEF Restart, NoRound, TypeOK, HealthOK, Round
<1>7. CASE Arrives \/ Poll \/ PollFails \/ HandleUpdate \/ UNCHANGED vars
  <2>1. UNCHANGED health
    BY <1>7 DEF Arrives, Poll, PollFails, HandleUpdate, vars
  <2> QED
    BY <2>1 DEF health, TypeOK, HealthOK
<1> QED
  BY <1>1, <1>2, <1>3, <1>4, <1>5, <1>6, <1>7, <1>8 DEF Next

\* The updates and the offset keep theirs.
LEMMA RemoteStep ==
  ASSUME TypeOK, [Next]_vars
  PROVE  RemoteOK'
<1> USE WatchAssumption
<1>1. CASE Arrives
  BY <1>1 DEF Arrives, TypeOK, RemoteOK
<1>2. CASE Poll
  BY <1>2 DEF Poll, TypeOK, RemoteOK, UpdateIds
<1>3. CASE PollFails
  BY <1>3 DEF PollFails, TypeOK, RemoteOK
<1>4. CASE HandleUpdate
  <2>1. PICK u \in UpdateIds : /\ offset' = u + 1
                         /\ handled' = [handled EXCEPT ![u] = @ + 1]
                         /\ batch' = batch \ {u}
    BY <1>4 DEF HandleUpdate, Acked, TypeOK
  <2>2. offset' \in 0..(Len(Updates) + 1)
    BY <2>1 DEF UpdateIds
  <2>3. handled' \in [UpdateIds -> Nat]
    BY <2>1 DEF TypeOK
  <2> QED
    BY <1>4, <2>1, <2>2, <2>3 DEF HandleUpdate, TypeOK, RemoteOK
<1>5. CASE Restart
  BY <1>5 DEF Restart, TypeOK, RemoteOK
<1>6. ASSUME UNCHANGED remote PROVE RemoteOK'
  BY <1>6 DEF remote, TypeOK, RemoteOK
<1> QED
  BY <1>1, <1>2, <1>3, <1>4, <1>5, <1>6
  DEF Next, MonitorAdd, BackendAdd, TargetDel, Elapse, Tick, NextTarget, ProbeEnds, AlertSent, vars

LEMMA TypeStep ==
  ASSUME TypeOK, [Next]_vars
  PROVE  TypeOK'
<1>1. fails' \in 0..MaxFails
  <2>1. fails' = fails \/ (fails < MaxFails /\ fails' = fails + 1)
    BY DEF Next, MonitorAdd, BackendAdd, TargetDel, Elapse, Tick, NextTarget, ProbeEnds,
       AlertSent, Arrives, Poll, PollFails, HandleUpdate, Restart, vars
  <2> QED
    BY <2>1, WatchAssumption DEF TypeOK
<1> QED
  BY <1>1, HealthStep, RemoteStep DEF TypeOK, HealthOK, RemoteOK

LEMMA TypeInit == Init => TypeOK
BY WatchAssumption DEF Init, TypeOK, NoRound, Round

\* The checker's map, its round and the offset keep their types (health/checker.go,
\* remote/control.go).
THEOREM TypeCorrect == Spec => []TypeOK
BY TypeInit, TypeStep, PTL DEF Spec

-----------------------------------------------------------------------------
(* The alerts.                                                             *)

\* The state a probe compares with is the one on record until it ends, nothing but
\* the end of a probe changes the record, and while an alert is being sent the reader
\* of the alerts still believes the state before it.
AlertInv ==
  /\ status \in [TargetIds -> States \cup {None}]
  /\ belief = IF Alerting THEN [status EXCEPT ![probing.target.id] = probing.prev] ELSE status
  /\ probing # None /\ ~ Alerting => probing.prev = status[probing.target.id]
  /\ Alerting => probing.now = status[probing.target.id]

\* The list, the clock and the remote control leave the record alone.
LEMMA AlertFrame ==
  ASSUME AlertInv, UNCHANGED <<status, belief, probing>>
  PROVE  AlertInv'
BY DEF AlertInv, Alerting

\* Whoever knows the state a target was first found in and reads the alerts knows its
\* state, for any number of targets, rounds and restarts (health/checker.go:82-132).
THEOREM AlertsCorrect == Spec => []AlertsTell
<1>1. Init => AlertInv
  BY DEF Init, AlertInv, Alerting
<1>2. TypeOK /\ AlertInv /\ [Next]_vars => AlertInv'
  <2> SUFFICES ASSUME TypeOK, AlertInv, [Next]_vars PROVE AlertInv'
    OBVIOUS
  <2>1. CASE \E t \in Targets : MonitorAdd(t) \/ BackendAdd(t) \/ TargetDel(t) \/ Elapse(t)
    BY <2>1, AlertFrame DEF MonitorAdd, BackendAdd, TargetDel, Elapse
  <2>2. CASE Tick
    BY <2>2, AlertFrame DEF Tick
  <2>3. CASE NextTarget
    <3>1. CASE UNCHANGED probing
      BY <2>3, <3>1, AlertFrame DEF NextTarget
    <3>2. CASE \E t \in round.rest :
                 probing' = IF Skips(t) THEN None
                            ELSE [target |-> t, prev |-> status[t.id], now |-> None]
      <4>1. PICK t \in round.rest :
              probing' = None \/ probing' = [target |-> t, prev |-> status[t.id], now |-> None]
        BY <3>2
      <4>2. UNCHANGED <<status, belief>> /\ probing = None
        BY <2>3 DEF NextTarget
      <4> QED
        BY <4>1, <4>2 DEF AlertInv, Alerting
    <3> QED
      BY <2>3, <3>1, <3>2 DEF NextTarget
  <2>4. ASSUME NEW s \in States, ProbeEnds(s) PROVE AlertInv'
    <3> DEFINE id == probing.target.id
    <3>1. probing # None /\ ~ Alerting /\ probing.prev = status[id] /\ belief = status
      BY <2>4 DEF ProbeEnds, AlertInv
    <3>2. status' = [status EXCEPT ![id] = s]
      BY <2>4 DEF ProbeEnds
    <3>3. belief' = IF status[id] = None THEN [status EXCEPT ![id] = s] ELSE status
      BY <2>4, <3>1 DEF ProbeEnds
    <3>4. probing' = IF Alerts(status[id], s) THEN [probing EXCEPT !.now = s] ELSE None
      BY <2>4, <3>1 DEF ProbeEnds
    <3>5. probing \in Probe
      BY <3>1 DEF TypeOK
    <3>6. id \in TargetIds /\ s # None
      BY <3>5, WatchAssumption DEF Probe, TargetIds
    <3>7. status' \in [TargetIds -> States \cup {None}] /\ status'[id] = s
      BY <3>2, <3>6 DEF AlertInv
    <3>8. CASE Alerts(status[id], s)
      <4>0. probing' = [probing EXCEPT !.now = s]
        BY <3>4, <3>8
      <4>1. /\ probing'.now = s /\ probing'.prev = status[id]
            /\ probing'.target.id = id
        BY <3>1, <3>5, <4>0 DEF Probe
      <4>4. probing' # None
        <5>1. probing' \in Probe
          BY <3>5, <4>0 DEF Probe
        <5> QED BY <5>1, WatchAssumption
      <4>2. belief' = status
        BY <3>3, <3>8 DEF Alerts
      <4> HIDE DEF id
      <4>3. [status' EXCEPT ![id] = status[id]] = status
        BY <3>2, <3>6 DEF AlertInv
      <4> QED
        BY <3>6, <3>7, <4>1, <4>2, <4>3, <4>4 DEF AlertInv, Alerting
    <3>9. CASE ~ Alerts(status[id], s)
      <4>1. probing' = None
        BY <3>4, <3>9
      <4> HIDE DEF id
      <4>2. status[id] = s => [status EXCEPT ![id] = s] = status
        BY DEF AlertInv
      <4>3. belief' = status'
        BY <3>2, <3>3, <3>9, <4>2 DEF Alerts
      <4> QED
        BY <3>7, <4>1, <4>3 DEF AlertInv, Alerting
    <3> QED
      BY <3>8, <3>9
  <2>8. CASE AlertSent
    <3> DEFINE id == probing.target.id
    <3>1. /\ belief' = [belief EXCEPT ![id] = status[id]] /\ probing' = None
          /\ UNCHANGED status
          /\ belief = [status EXCEPT ![id] = probing.prev]
      BY <2>8 DEF AlertSent, AlertInv
    <3> HIDE DEF id
    <3>2. belief' = status
      BY <3>1 DEF AlertInv
    <3> QED
      BY <3>1, <3>2 DEF AlertInv, Alerting
  <2>5. CASE Arrives \/ Poll \/ PollFails \/ HandleUpdate
    BY <2>5, AlertFrame DEF Arrives, Poll, PollFails, HandleUpdate, health
  <2>6. CASE Restart
    BY <2>6 DEF Restart, AlertInv, Alerting
  <2>7. CASE UNCHANGED vars
    BY <2>7, AlertFrame DEF vars, health
  <2> QED
    BY <2>1, <2>2, <2>3, <2>4, <2>5, <2>6, <2>7, <2>8 DEF Next
<1>3. AlertInv => AlertsTell
  BY DEF AlertInv, AlertsTell, Alerting
<1> QED
  BY <1>1, <1>2, <1>3, TypeInit, TypeStep, PTL DEF Spec

-----------------------------------------------------------------------------
(* The remote control.                                                     *)

\* What is in the answer being worked through has not been acknowledged, and what
\* has been handled has, to the loop or to Telegram, unless a stop came in between.
AckInv ==
  /\ \A u \in batch : offset <= u /\ confirmed <= u
  /\ \A u \in UpdateIds : handled[u] > 0 => u < offset \/ u < confirmed \/ u \in redelivered
  /\ HandledOnce

LEMMA AckStep ==
  ASSUME TypeOK, AckInv, [Next]_vars
  PROVE  AckInv'
<1>0. /\ arrived \in Int /\ confirmed \in Int /\ offset \in Int /\ UpdateIds \subseteq Int
      /\ batch \subseteq UpdateIds /\ handled \in [UpdateIds -> Nat]
  BY WatchAssumption DEF TypeOK, UpdateIds
<1>1. CASE Arrives
  BY <1>1 DEF Arrives, AckInv, HandledOnce
<1>2. CASE Poll
  <2>1. PICK from \in Int : /\ from = IF offset > confirmed THEN offset ELSE confirmed
                            /\ confirmed' = from /\ batch' = {u \in 1..arrived : u >= from}
    BY <1>0, <1>2 DEF Poll
  <2>2. \A u \in batch' : offset' <= u /\ confirmed' <= u
    BY <1>0, <1>2, <2>1 DEF Poll
  <2>3. \A u \in UpdateIds : u < confirmed => u < confirmed'
    BY <1>0, <2>1
  <2> QED
    BY <1>2, <2>2, <2>3 DEF Poll, AckInv, HandledOnce
<1>3. CASE PollFails
  <2>1. \A u \in UpdateIds : u < confirmed => u < confirmed'
    BY <1>0, <1>3 DEF PollFails
  <2> QED
    BY <1>3, <2>1 DEF PollFails, AckInv, HandledOnce
<1>4. CASE HandleUpdate
  <2>1. PICK u \in batch : /\ \A v \in batch : u <= v
                           /\ offset' = u + 1
                           /\ handled' = [handled EXCEPT ![u] = @ + 1]
                           /\ batch' = batch \ {u}
    BY <1>4 DEF HandleUpdate, Acked
  <2>2. u \in UpdateIds /\ u \in Int /\ offset <= u /\ confirmed <= u
    BY <1>0 DEF AckInv
  <2>3. UNCHANGED <<confirmed, redelivered>>
    BY <1>4 DEF HandleUpdate
  <2>4. \A v \in batch' : offset' <= v /\ confirmed' <= v
    BY <1>0, <2>1, <2>2, <2>3 DEF AckInv
  <2>5. \A v \in UpdateIds : v < offset => v < offset'
    BY <1>0, <2>1, <2>2
  <2>6. \A v \in UpdateIds : v # u => handled'[v] = handled[v]
    BY <1>0, <2>1, <2>2
  <2>7. handled'[u] > 1 => u \in redelivered
    <3>1. handled'[u] = handled[u] + 1 /\ handled[u] \in Nat
      BY <1>0, <2>1, <2>2
    <3>2. handled'[u] > 1 => handled[u] > 0
      BY <3>1
    <3>3. ~ (u < offset) /\ ~ (u < confirmed)
      BY <1>0, <2>2
    <3> QED
      BY <2>2, <3>2, <3>3 DEF AckInv
  <2>8. u < offset'
    BY <2>1, <2>2
  <2>9. \A v \in UpdateIds : handled'[v] > 0 => v < offset' \/ v < confirmed' \/ v \in redelivered'
    BY <2>3, <2>5, <2>6, <2>8 DEF AckInv
  <2>10. HandledOnce'
    BY <2>3, <2>6, <2>7 DEF AckInv, HandledOnce
  <2> QED
    BY <2>4, <2>9, <2>10 DEF AckInv
<1>5. CASE Restart
  <2>1. \A u \in UpdateIds : handled[u] > 0 => u < confirmed \/ u \in redelivered'
    BY <1>0, <1>5 DEF Restart, AckInv
  <2> QED
    BY <1>5, <2>1 DEF Restart, AckInv, HandledOnce
<1>6. ASSUME UNCHANGED remote PROVE AckInv'
  BY <1>6 DEF remote, AckInv, HandledOnce
<1> QED
  BY <1>1, <1>2, <1>3, <1>4, <1>5, <1>6
  DEF Next, MonitorAdd, BackendAdd, TargetDel, Elapse, Tick, NextTarget, ProbeEnds, AlertSent, vars

\* An update is handled once unless the program stopped before a poll could confirm
\* it, for any number of updates, lost polls and restarts (remote/control.go:91-124).
THEOREM OnceCorrect == Spec => []HandledOnce
<1>1. Init => AckInv
  <2> SUFFICES ASSUME Init PROVE AckInv
    OBVIOUS
  <2>1. batch = {} /\ \A u \in UpdateIds : handled[u] = 0
    BY DEF Init
  <2> QED
    BY <2>1 DEF AckInv, HandledOnce
<1>2. AckInv => HandledOnce
  BY DEF AckInv
<1> QED
  BY <1>1, <1>2, TypeInit, TypeStep, AckStep, PTL DEF Spec
=============================================================================
