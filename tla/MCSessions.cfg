\* Two sessions, a lifetime longer than the idle timeout, and a clock that
\* runs past both.
CONSTANTS
  SessionIds = {s1, s2}
  Emails = {ann}
  Providers = {local}
  NoSession = NoSession
  TTL = 3
  Idle = 2
  Persistent = TRUE
  MaxTime = 5
SPECIFICATION Spec
SYMMETRY IdSymmetry
INVARIANTS
  TypeOK
  LifetimeHolds
  FileMatchesMap
PROPERTY ImplementsContract
