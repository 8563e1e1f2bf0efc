\* Two requests saving at the same time.
CONSTANTS
  Emails = {ann, bob}
  Data = {d1}
  Lists = {none}
  NoGrants = none
  Absent = Absent
  Handlers = {h1, h2}
  Commands = {}
  Down = Down
  NoFile = NoFile
  Empty = Empty
  Torn = Torn
SPECIFICATION Spec
INVARIANT SavedWhole
