\* An administrator, the renewal loop, both deployments.
CONSTANTS
  Ids = {app}
  Settings = {s1}
  None = None
  Panels = {p0, p1}
  NoPanel = p0
  Handlers = {h1}
  Main = Main
  Empty = Empty
  Torn = Torn
  Modes = {"docker", "host"}
  MaxCerts = 2
  MaxEdits = 2
  MaxCrashes = 1
SPECIFICATION Spec
\* A services.json that does not parse keeps the core down.
CHECK_DEADLOCK FALSE
INVARIANTS
  TypeOK
  GateCurrent
  NginxCurrent
PROPERTIES Published CertServed
