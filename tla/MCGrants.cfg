CONSTANTS
  Users = {"ann", "root"}
  Admins = {"root"}
  Ids = {"app", "base", "wiki"}
  Base = {"base"}
  Paths <- MCPaths
  Order <- MCOrder
  Absent = Absent
  Blank = Blank
  Down = Down
  MaxEdits = 2
  MaxFails = 1
SPECIFICATION GrantSpec
INVARIANTS GrantTypeOK DirectoryCurrent NoStalePathGrant RoundTrip
PROPERTIES EditorKeepsOthers
CHECK_DEADLOCK FALSE
