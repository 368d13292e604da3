SPECIFICATION Spec
CONSTANTS
  t1 = t1
  ann = ann
  ben = ben
  kid = kid
  h1 = h1
  h2 = h2
  NoUser = NoUser
  Tickets = {t1}
  Staff = {ann}
  Asker <- OneKid
  Handlers = {h1, h2}
  MaxOps = 4
  MaxRaces = 3
  MaxFaults = 1
INVARIANTS
  FeedbackAskedOnce
  TicketAgrees
  PaidPerOpening
SYMMETRY Threads
CHECK_DEADLOCK FALSE
