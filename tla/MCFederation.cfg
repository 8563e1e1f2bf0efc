CONSTANTS
  b1 = b1
  b2 = b2
  ann = ann
  bob = bob
  w1 = w1
  w2 = w2
  Ids = {"corp", "lab"}
  Base = {"corp"}
  BaseCfg <- MCBaseCfg
  Issuers = {"idp1", "idp2"}
  Blank = "blank"
  Emails = {ann, bob}
  Browsers = {b1, b2}
  Workers = {w1, w2}
  Secrets = {"s1", "s2"}
  NoSecret = "nosecret"
  Local = "local"
  Torn = Torn
  None = None
  InitSecret = "s1"
  Forms <- MCForms
  MaxFlows = 2
  MaxCodes = 2
  MaxChanges = 2
  MaxFails = 1
SPECIFICATION Spec
SYMMETRY Symmetry
CONSTRAINT Apart
INVARIANTS SessionVouched ClientsCurrent NoOrphanSecret
\* A services.json that does not parse keeps the program down.
CHECK_DEADLOCK FALSE
