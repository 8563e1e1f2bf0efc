CONSTANTS
  r1 = r1
  r2 = r2
  p1 = p1
  p2 = p2
  Tabs = {r1, r2}
  Tokens = {"t1", "t2"}
  Passwords = {p1, p2}
  NoHash = NoHash
  DisableTOTP = FALSE
  TTL = 0
  Keep = 2
  Back = 1
  None = None
  Cut = Cut
  MaxNow = 2
  MaxSecrets = 2
  MaxSaves = 3
SPECIFICATION Spec
SYMMETRY Symmetry
CONSTRAINT Apart
INVARIANTS TypeOK PairKept TokenOnce PreviousKept
