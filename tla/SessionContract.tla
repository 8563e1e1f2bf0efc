-------------------------- MODULE SessionContract --------------------------
(***************************************************************************)
(* What the session store promises to the handlers, with no clock and no   *)
(* file.  An id is opened once, passes its second factor, and is closed by *)
(* a logout or by expiry.  The store may forget sessions at any time; it   *)
(* may go back to an earlier view of them only while its last save has not *)
(* reached the disk, and even then no session comes back with a second     *)
(* factor it had not passed.                                               *)
(***************************************************************************)
CONSTANT SessionIds

VARIABLES
  status,   \* status[id]: where the life of session id has got to
  earned,   \* the sessions that have passed their second factor
  lagging   \* TRUE while the saved copy may be older than the store

vars == <<status, earned, lagging>>

Statuses == {"fresh", "open", "full", "closed"}

Init ==
  /\ status = [id \in SessionIds |-> "fresh"]
  /\ earned = {}
  /\ lagging = FALSE

Open(id) ==
  /\ status[id] = "fresh"
  /\ status' = [status EXCEPT ![id] = "open"]
  /\ lagging' \in BOOLEAN
  /\ UNCHANGED earned

Finish(id) ==
  /\ status[id] \in {"open", "full"}
  /\ status' = [status EXCEPT ![id] = "full"]
  /\ earned' = earned \cup {id}
  /\ lagging' \in BOOLEAN

Close(S) ==
  /\ \A id \in S : status[id] \in {"open", "full"}
  /\ status' = [id \in SessionIds |-> IF id \in S THEN "closed" ELSE status[id]]
  /\ lagging' \in BOOLEAN
  /\ UNCHANGED earned

\* The views an older copy may hold of a session whose latest status is s.
Earlier(s) ==
  CASE s = "fresh"  -> {"fresh"}
    [] s = "open"   -> {"open", "closed"}
    [] s = "full"   -> {"open", "full", "closed"}
    [] s = "closed" -> {"open", "full", "closed"}

Rollback ==
  /\ lagging
  /\ status' \in [SessionIds -> Statuses]
  /\ \A id \in SessionIds : status'[id] \in Earlier(status[id])
  /\ \A id \in SessionIds : status'[id] = "full" => id \in earned
  /\ lagging' \in BOOLEAN
  /\ UNCHANGED earned

Next ==
  \/ \E id \in SessionIds : Open(id) \/ Finish(id)
  \/ \E S \in SUBSET SessionIds : Close(S)
  \/ Rollback

Spec == Init /\ [][Next]_vars
=============================================================================
