\* A request and a command at work together, two users; lists of grants.
CONSTANTS
  Emails = {ann, bob}
  Data = {d1}
  Lists = {none, some}
  NoGrants = none
  Absent = Absent
  Handlers = {h1}
  Commands = {c1}
  Down = Down
  NoFile = NoFile
  Empty = Empty
  Torn = Torn
SPECIFICATION Spec
SYMMETRY UserSymmetry
CONSTRAINT ListsAlone
INVARIANTS
  TypeOK
  WholeUnlessOverlap
  AdminKept
PROPERTIES SeenIsSaved SaveKeepsOthers
\* A users.json that does not parse keeps the server down.
CHECK_DEADLOCK FALSE
