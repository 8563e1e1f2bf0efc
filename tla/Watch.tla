------------------------------- MODULE Watch --------------------------------
(***************************************************************************)
(* The two loops that watch over the gate.  The health checker probes one  *)
(* target after the other, from a list that the panel changes meanwhile,   *)
(* and alerts on changes, waiting until the alert has been sent            *)
(* (health/checker.go, health/alert.go, notify/notify.go).  The remote     *)
(* control polls Telegram and answers vetted commands (remote/control.go); *)
(* its offset is kept in RAM.                                              *)
(*                                                                         *)
(* Time is abstract: a target's interval elapses at any moment.            *)
(***************************************************************************)
EXTENDS Integers, Sequences

CONSTANTS
  Targets,      \* what may be probed, [id, kind]: a backend or a monitor
  Order,        \* the order HealthTargets lists them in, backends first
  Mute,         \* targets that never answer
  States,       \* up, down, unreachable
  Mail,         \* alerts are sent by mail as well
  Updates,      \* the commands sent, [chat, cmd], in the order of their ids
  AllowChats, AllowCommands, Commands,
  None,
  MaxChanges,   \* bound: changes of the list
  MaxFails      \* bound: polls that fail, restarts

Kinds == {"backend", "monitor"}
TargetIds == {t.id : t \in Targets}

\* A target being probed has no new state yet; one that has is being alerted about.
Probe == [target : Targets, prev : States \cup {None}, now : States \cup {None}]

ASSUME WatchAssumption ==
  /\ Order \in Seq(Targets) /\ Targets = {Order[k] : k \in 1..Len(Order)}
  /\ \A k, n \in 1..Len(Order) : k # n => Order[k] # Order[n]
  /\ \A t \in Targets : t.kind \in Kinds
  /\ Mute \subseteq Targets
  /\ Mail \in BOOLEAN
  /\ "unreachable" \in States /\ None \notin States
  /\ None \notin Probe
  /\ Len(Updates) \in Nat
  /\ {MaxChanges, MaxFails} \subseteq Nat

VARIABLES
  configured,  \* the targets of the resolver and of services.json
  status,      \* Checker.status: the last state of each id
  due,         \* targets whose interval has elapsed since their id was probed
  round,       \* the tick under way: what is left of its list, what was due
  probing,     \* the target being probed, the state it had and has now
  belief,      \* history: what the alerts say the state is
  changes,
  arrived,     \* updates that have reached Telegram
  confirmed,   \* updates below this are dropped by Telegram
  offset,      \* telegramLoop's offset
  batch,       \* the updates of the poll under way
  handled,     \* history: how often each update was handled
  replies,     \* what was answered
  redelivered, \* history: updates handled and not confirmed when the program stopped
  fails

health == <<configured, status, due, round, probing, belief, changes>>
remote == <<arrived, confirmed, offset, batch, handled, replies, redelivered>>
vars == <<health, remote, fails>>

NoRound == [rest |-> {}, due |-> {}, on |-> FALSE]

Round == [rest : SUBSET Targets, due : SUBSET Targets, on : BOOLEAN]
UpdateIds == 1..Len(Updates)

TypeOK ==
  /\ configured \subseteq Targets
  /\ status \in [TargetIds -> States \cup {None}]
  /\ due \subseteq Targets
  /\ round \in Round
  /\ probing \in Probe \cup {None}
  /\ belief \in [TargetIds -> States \cup {None}]
  /\ arrived \in 0..Len(Updates)
  /\ {confirmed, offset} \subseteq 0..(Len(Updates) + 1)
  /\ batch \subseteq UpdateIds /\ redelivered \subseteq UpdateIds
  /\ handled \in [UpdateIds -> Nat]
  /\ changes \in 0..MaxChanges /\ fails \in 0..MaxFails

Init ==
  /\ configured \in {S \in SUBSET Targets : S # {}}
  /\ status = [i \in TargetIds |-> None]
  /\ due = configured
  /\ round = NoRound
  /\ probing = None
  /\ belief = status
  /\ changes = 0
  /\ arrived = 0
  /\ confirmed = 0 /\ offset = 0
  /\ batch = {}
  /\ handled = [u \in UpdateIds |-> 0]
  /\ replies = {} /\ redelivered = {}
  /\ fails = 0

-----------------------------------------------------------------------------
(* The list.                                                               *)

\* handleMonitorAdd: an id that a monitor has is refused, a backend's is not.
MonitorAdd(t) ==
  /\ changes < MaxChanges
  /\ t.kind = "monitor" /\ t \notin configured
  /\ \A m \in configured : m.kind = "monitor" => m.id # t.id
  /\ configured' = configured \cup {t}
  /\ due' = due \cup {t}
  /\ changes' = changes + 1
  /\ UNCHANGED <<status, round, probing, belief, remote, fails>>

\* handleMonitorDel, or a backend removed or disabled: the status stays.
TargetDel(t) ==
  /\ changes < MaxChanges
  /\ t \in configured
  /\ configured' = configured \ {t}
  /\ due' = due \ {t}
  /\ changes' = changes + 1
  /\ UNCHANGED <<status, round, probing, belief, remote, fails>>

\* A backend added or enabled.
BackendAdd(t) ==
  /\ changes < MaxChanges
  /\ t.kind = "backend" /\ t \notin configured
  /\ configured' = configured \cup {t}
  /\ due' = due \cup {t}
  /\ changes' = changes + 1
  /\ UNCHANGED <<status, round, probing, belief, remote, fails>>

\* Resolver.Backends, then the monitors: the list holds each target once, so it is
\* a set taken in Order.
HealthTargets == configured

\* t is the first of the list S.
Leads(t, S) ==
  \E k \in 1..Len(Order) : Order[k] = t /\ \A n \in 1..(k - 1) : Order[n] \notin S

-----------------------------------------------------------------------------
(* Checker.tick and Checker.probe.                                         *)

\* An interval elapses.
Elapse(t) ==
  /\ t \in configured \ due
  /\ due' = due \cup {t}
  /\ UNCHANGED <<configured, status, round, probing, belief, changes, remote, fails>>

\* The list and the time are read once for the whole round.
Tick ==
  /\ ~ round.on
  /\ round' = [rest |-> HealthTargets, due |-> due, on |-> TRUE]
  /\ UNCHANGED <<configured, status, due, probing, belief, changes, remote, fails>>

\* Not due by the time of the round: the next one.
Skips(t) == status[t.id] # None /\ t \notin round.due

NextTarget ==
  /\ round.on /\ probing = None
  /\ \/ round.rest = {} /\ round' = NoRound /\ UNCHANGED probing
     \/ \E t \in round.rest :
          /\ Leads(t, round.rest)
          /\ round' = [round EXCEPT !.rest = @ \ {t}]
          /\ probing' = IF Skips(t) THEN None
                        ELSE [target |-> t, prev |-> status[t.id], now |-> None]
  /\ UNCHANGED <<configured, status, due, belief, changes, remote, fails>>

\* Mutant: without a timeout.
OutcomesNoTimeout(t) == IF t \in Mute THEN {} ELSE States

\* A target that does not answer is given up after its timeout.
Outcomes(t) == IF t \in Mute THEN {"unreachable"} ELSE States

\* Mutant: only a target that comes up or goes down is reported.
AlertsUp(prev, s) == prev # None /\ (prev = "up") # (s = "up")

\* Nothing is reported of the first probe.
Alerts(prev, s) == prev # None /\ prev # s

SameId(t) == {u \in Targets : u.id = t.id}

Alerting == probing # None /\ probing.now # None

\* The status is stored; then comes the alert, if there is one to send.  What a
\* target is found in first, the panel shows.
ProbeEnds(s) ==
  /\ probing # None /\ ~ Alerting
  /\ LET t == probing.target
     IN  /\ s \in Outcomes(t)
         /\ status' = [status EXCEPT ![t.id] = s]
         /\ belief' = IF probing.prev = None THEN [belief EXCEPT ![t.id] = s] ELSE belief
         /\ due' = due \ SameId(t)
         /\ round' = [round EXCEPT !.due = @ \ SameId(t)]
  /\ probing' = IF Alerts(probing.prev, s) THEN [probing EXCEPT !.now = s] ELSE None
  /\ UNCHANGED <<configured, changes, remote, fails>>

\* multiAlerter.Notify returns, and only then does the round go on: the log has the
\* alert, Telegram has it or its timeout has passed, and so has the mail server,
\* for which there is no timeout.
AlertSent ==
  /\ Alerting
  /\ belief' = [belief EXCEPT ![probing.target.id] = probing.now]
  /\ probing' = None
  /\ UNCHANGED <<configured, status, due, round, changes, remote, fails>>

-----------------------------------------------------------------------------
(* Remote control.                                                         *)

\* Telegram takes the next command.
Arrives ==
  /\ arrived < Len(Updates)
  /\ arrived' = arrived + 1
  /\ UNCHANGED <<confirmed, offset, batch, handled, replies, redelivered, health, fails>>

\* Mutant: only the last update of the answer is kept.
PollLast ==
  /\ batch = {}
  /\ LET from == IF offset > confirmed THEN offset ELSE confirmed
     IN  /\ confirmed' = from
         /\ batch' = {u \in 1..arrived : u >= from /\ u = arrived}
  /\ UNCHANGED <<arrived, offset, handled, replies, redelivered, health, fails>>

\* getUpdates: an offset confirms all that is below it.
Poll ==
  /\ batch = {}
  /\ LET from == IF offset > confirmed THEN offset ELSE confirmed
     IN  /\ confirmed' = from
         /\ batch' = {u \in 1..arrived : u >= from}
  /\ UNCHANGED <<arrived, offset, handled, replies, redelivered, health, fails>>

\* The request or the answer is lost; Telegram may have seen the offset.
PollFails ==
  /\ batch = {} /\ fails < MaxFails
  /\ fails' = fails + 1
  /\ confirmed' \in {confirmed, IF offset > confirmed THEN offset ELSE confirmed}
  /\ UNCHANGED <<arrived, offset, batch, handled, replies, redelivered, health>>

\* run: help is always there, the rest is vetted twice.
Run(cmd) ==
  IF cmd = "help" THEN "help"
  ELSE IF AllowCommands # {} /\ cmd \notin AllowCommands THEN "not allowed"
  ELSE IF cmd \notin Commands THEN "unknown" ELSE cmd

\* Mutant: the update itself is asked for again.
AckedSame(u) == u

\* Mutant: one too many is acknowledged.
AckedNext(u) == u + 2

Acked(u) == u + 1

\* pollTelegram, dispatch: the updates of an answer in the order of their ids, each
\* acknowledged first, and answered when the chat may ask.
HandleUpdate ==
  /\ \E u \in batch :
       /\ \A v \in batch : u <= v
       /\ offset' = Acked(u)
       /\ handled' = [handled EXCEPT ![u] = @ + 1]
       /\ replies' = IF Updates[u].chat \in AllowChats
                       THEN replies \cup {<<u, Run(Updates[u].cmd)>>} ELSE replies
       /\ batch' = batch \ {u}
  /\ UNCHANGED <<arrived, confirmed, redelivered, health, fails>>

-----------------------------------------------------------------------------
\* A crash or a restart: statuses and offset are gone.
Restart ==
  /\ fails < MaxFails
  /\ fails' = fails + 1
  /\ status' = [i \in TargetIds |-> None]
  /\ belief' = status'
  /\ due' = configured
  /\ round' = NoRound
  /\ probing' = None
  /\ offset' = 0
  /\ batch' = {}
  /\ redelivered' = redelivered \cup {u \in UpdateIds : handled[u] > 0 /\ u >= confirmed}
  /\ UNCHANGED <<configured, changes, arrived, confirmed, handled, replies>>

Next ==
  \/ \E t \in Targets : MonitorAdd(t) \/ BackendAdd(t) \/ TargetDel(t) \/ Elapse(t)
  \/ Tick \/ NextTarget
  \/ \E s \in States : ProbeEnds(s)
  \/ AlertSent
  \/ Arrives \/ Poll \/ PollFails \/ HandleUpdate
  \/ Restart

\* Both loops run on tickers that never stop and a probe ends by its timeout at the
\* latest.  So does an alert, unless it is mailed: smtp.SendMail waits for ever.
Fairness ==
  /\ WF_vars(Tick) /\ WF_vars(NextTarget)
  /\ WF_vars(\E s \in States : ProbeEnds(s))
  /\ ~ Mail => WF_vars(AlertSent)
  /\ WF_vars(Poll) /\ WF_vars(HandleUpdate)

Spec == Init /\ [][Next]_vars /\ Fairness

-----------------------------------------------------------------------------
\* Whoever knows the state a target was first found in, and reads the alerts from
\* then on, knows its state whenever no probe is under way: each change between two
\* probes of an id is reported once, with the state it leads to, though the list
\* changes during the round (checker.go:82-132).
AlertsTell == probing = None => belief = status

\* A target whose interval has elapsed is probed, or is removed, or shares its id
\* with another.
DueProbed ==
  \A t \in Targets :
    (t \in configured /\ t \in due) ~>
      (t \notin due \/ t \notin configured \/ \E u \in configured \ {t} : u.id = t.id)

\* A target whose interval has elapsed is probed although the targets before it may
\* each take their whole timeout, provided that every alert is sent some day, be it
\* by a slow mail server (checker.go:68-132).  A mail server that keeps the connection
\* open and silent ends all probing: SendMail has no deadline (notify.go:57).
ProbedAgain == []<>(~ Alerting) => DueProbed

\* "ack: never re-process this update": an update is handled once, unless the
\* program stopped before the next poll could confirm it (control.go:112-113).
HandledOnce ==
  \A u \in UpdateIds : handled[u] > 1 => u \in redelivered

\* Every update is handled, whatever is lost or restarted in between
\* (control.go:74-124).
UpdatesHandled ==
  \A u \in UpdateIds : (arrived >= u) ~> (handled[u] > 0)
=============================================================================
