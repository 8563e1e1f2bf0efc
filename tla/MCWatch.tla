------------------------------ MODULE MCWatch -------------------------------
(* A backend, a monitor that may have its id, and a monitor that never       *)
(* answers; a command and one from a chat that may not ask.                  *)
EXTENDS Watch

App == [id |-> "app", kind |-> "backend"]
Twin == [id |-> "app", kind |-> "monitor"]
Ext == [id |-> "ext", kind |-> "monitor"]

MCTargets == {App, Twin, Ext}
MCOrder == <<App, Ext, Twin>>
MCMute == {Ext}
MCUpdates == << [chat |-> "ops", cmd |-> "status"], [chat |-> "other", cmd |-> "help"] >>
=============================================================================
