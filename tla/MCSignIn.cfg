\* Two requests at a time, two sessions to open, one code that may be
\* used, expire, or be dropped by a restart.
CONSTANTS
  Requests = {r1, r2}
  SessionIds = {s1, s2}
  Emails = {ann}
  NoCode = NoCode
  CodeTTL = 0
  Cooldown = 1
  MaxCodes = 1
  Nobody = Nobody
  MaxTime = 1
SPECIFICATION Spec
VIEW SignInView
SYMMETRY SignInSymmetry
INVARIANTS
  TypeOK
  FullSessionsEarned
  OneSessionPerCode
