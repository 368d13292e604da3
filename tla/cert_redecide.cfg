SPECIFICATION Spec
CONSTANTS
  ann = ann
  ben = ben
  meg = meg
  r1 = r1
  r2 = r2
  r3 = r3
  s1 = s1
  s2 = s2
  NoUser = NoUser
  Users = {ann, ben, meg}
  Megawrights = {meg}
  Overriders = {meg}
  Certs = {s1}
  ClaimTimeout = 2
  Requests = {r1, r2}
  Owner <- TwoReviewers
  Pays = {1}
  Sent = {"approved", "rejected"}
  Concurrency = 2
  MaxTime = 2
  MaxRequests = 2
PROPERTY
  OnlyOverridersRedecide
CHECK_DEADLOCK FALSE
