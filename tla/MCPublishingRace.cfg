\* An administrator and the renewal loop.
CONSTANTS
  Ids = {app}
  Settings = {s1}
  None = None
  Panels = {p0, p1}
  NoPanel = p0
  Handlers = {h1}
  Main = Main
  Empty = Empty
  Torn = Torn
  Modes = {"docker"}
  MaxCerts = 2
  MaxEdits = 1
  MaxCrashes = 0
SPECIFICATION Spec
CHECK_DEADLOCK FALSE
INVARIANT ReloadSafe
