SPECIFICATION PartsSpec
CONSTANTS
  Parts = {"review", "session", "limit", "intake", "mirror", "streak",
           "assignment", "spot"}
  u1 = u1
  t1 = t1
  s1 = s1
  s2 = s2
  s3 = s3
  d1 = d1
  d2 = d2
  Devlogs = {d1, d2}
  Handlers = {h1, h2}
  MaxPatches = 3
  Staff = {u1}
  Tokens = {t1}
  Bearer <- OneBearer
  Roles = {"rev", "obs"}
  Observer = "obs"
  Readers = {h1}
  CopyTtl = 1
  SessionTtl = 4
  Latency = 1
  MaxTime = 5
  MaxEdits = 2
  MaxRequests = 2
  WindowMs = 2
  MaxNow = 6
  Projects = {p1}
  Deliveries = {x1, x2}
  MaxShips = 3
  Batch = 1
  Ids = {1, 2}
  Passes = {q1, q2}
  MaxEpoch = 2
  Quota = 2
  Verdicts = {w1, w2}
  FirstDay = 2
  LastDay = 4
  MaxADay = 2
  Members = {m1, m2}
  NoOne = NoOne
  Desks = {k1, k2}
  MaxNotes = 2
  MaxMoves = 2
  Certs = {s1}
  CaseIds = {1, 2}
  Checkers = {c1, c2}
  Pages = {"ship", "ticket", "assignment"}
  Mine = {n1}
  Theirs = {n3}
  Loads = {l1, l2}
  MaxLoads = 2
  Films = {f1, f2}
  NoFilm = NoFilm
  Kinds = {1, 2}
  Sums = {5}
  Lock = 3
  Second = 2
  Fetches = {b1, b2}
  PatchSlots = {z1}
  MaxTick = 5
  MaxClicks = 2
  MaxFetches = 1
  Wrights = {o1, o2}
  NoWright = NoWright
  Captains = {o2}
  Heap = {s1, s2, s3}
  Born <- ThreeAges
  Jobs = {j1, j2}
  Grinds <- TwoGrinds
  Backlog = 0
  FirstHalf = 9
  LastHalf = 10
  MaxPays = 3
  Reqs = {r1, r2}
  NoReq = NoReq
  MaxOthers = 2
  MaxActs = 3
  Logs = {d1, d2}
  Orig <- MinutesOf
  Cap = 1
  Cuts = {2}
  Typed = {}
  Links = {w1}
  MaxMarkings = 1
  MaxSent = 2
  MaxElsewhere = 1
  ListRows = {1, 2}
  Named = {1}
  Asked <- SomeFilters
  Slots = {1, 2}
  CertsTtl = 1
  YswsTtl = 3
  AssignTtl = 3
  LastClock = 2
  MaxWrites = 1
  MaxAsks = 3
  Ships = {1, 2}
  LastDate = 3
  Window = 3
  Trend = 2
  MaxEvents = 3
INVARIANTS
  AllOrNone
  ServedIsRecent
  LimitHolds
  QueuedOnce
  MirrorCovers
  StreakIsEarned
  LastPushIsTrue
  NotesKept
  RemovedHasCase
PROPERTY
  RefreshPreserves
CHECK_DEADLOCK FALSE
