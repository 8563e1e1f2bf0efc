CONSTANTS
  Targets <- MCTargets
  Order <- MCOrder
  Mute <- MCMute
  States = {"up", "down", "unreachable"}
  Mail = TRUE
  Updates <- MCUpdates
  AllowChats = {"ops"}
  AllowCommands = {"status", "ping"}
  Commands = {"ping", "status", "version", "backends"}
  None = None
  MaxChanges = 1
  MaxFails = 1
SPECIFICATION Spec
INVARIANTS TypeOK AlertsTell HandledOnce
PROPERTIES ProbedAgain UpdatesHandled
