SPECIFICATION Spec
CONSTANTS
  ann = ann
  adm = adm
  eve = eve
  r1 = r1
  r2 = r2
  r3 = r3
  r4 = r4
  Users = {ann, adm, eve}
  Admins = {adm, eve}
  Requests = {r1, r2, r3}
  Owner <- TwoAdmins
  Ids = {1}
  Amounts = {2}
  Minimum = 2
  MaxRequests = 3
  MaxEarned = 2
INVARIANT
  DebitedOnce
CHECK_DEADLOCK FALSE
