SPECIFICATION Spec
CONSTANTS
  ann = ann
  ben = ben
  meg = meg
  r1 = r1
  r2 = r2
  r3 = r3
  s1 = s1
  s2 = s2
  NoUser = NoUser
  Certs = {s1, s2}
  ClaimTimeout = 1
  Users = {ann, meg}
  Megawrights = {meg}
  Overriders = {meg}
  Requests = {r1, r2, r3}
  Owner <- TwoTabs
  Pays = {1}
  Sent = {"approved", "pending", "keep"}
  Concurrency = 2
  MaxTime = 2
  MaxRequests = 3
SYMMETRY Tabs
INVARIANTS
  OneClaimPerUser
  CookiesBackRows
PROPERTIES
  ImplementsDocket
  EffectsMatchRow
  ActsForItsUser
CHECK_DEADLOCK FALSE
