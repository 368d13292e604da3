SPECIFICATION FairPipeSpec
CONSTANTS
  ann = ann
  ben = ben
  cap = cap
  s1 = s1
  s2 = s2
  r1 = r1
  r2 = r2
  j1 = j1
  j2 = j2
  h1 = h1
  h2 = h2
  NoUser = NoUser
  Users = {ann, cap}
  Megawrights = {}
  Overriders = {cap}
  Certs = {s1}
  ClaimTimeout = 2
  Requests = {r1, r2}
  Owner <- OneEach
  Pays = {1}
  Sent = {"approved", "rejected"}
  Concurrency = 2
  MaxTime = 2
  MaxRequests = 2
  Jobs = {j1, j2}
  Handlers = {h1, h2}
  MaxReviews = 3
  MaxPatches = 2
INVARIANTS
  ApprovedIsCovered
  ReviewsArePaidFor
PROPERTY
  ApprovedGetsReview
CHECK_DEADLOCK FALSE
