SPECIFICATION Spec
CONSTANTS
  ann = ann
  adm = adm
  eve = eve
  r1 = r1
  r2 = r2
  r3 = r3
  r4 = r4
  Users = {ann, adm, eve}
  Admins = {adm, eve}
  Requests = {r1, r2, r3, r4}
  Owner <- TwoTabs
  Ids = {1, 2}
  Amounts = {1, 2, 3}
  Minimum = 2
  MaxRequests = 5
  MaxEarned = 3
INVARIANTS
  PaidFromEarnings
  RefundsCovered
  OnePendingPerUser
  BooksBalance
PROPERTY
  ReceiptsMatch
CHECK_DEADLOCK FALSE
