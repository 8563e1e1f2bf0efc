CONSTANTS
  Setups <- MCSetups
  Updates <- MCUpdates
  Records <- MCRecords
  Gone = Gone
  Links <- MCLinks
  Parts = {"/", "a", "b", "login", "logout", "auth", "listing", "_xtk", "admin",
           ".well-known", "acme-challenge", "__auth", "= "}
  Requests <- MCRequests
  Host = "site"
  Addrs = {"office", "home"}
  Proxy = "proxy"
  Trusted = {"proxy"}
  ConfigIPs = {"office"}
  AuthMode = TRUE
  Others = {renewal}
  Torn = Torn
  None = None
SPECIFICATION Spec
CONSTRAINT Apart
INVARIANTS
  LocationsDistinct AgreeOnRoute InheritsNearest LoginReachable TileReachable
  NotLockedOut
