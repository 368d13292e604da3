SPECIFICATION Spec
CONSTANTS
  NoTask = NoTask
  Tasks = {close, pay}
  Registered = {close, pay}
  Callers = {c1, c2}
  MaxId = 6
  MaxCrashes = 2
PROPERTY
  ReplaysOnlyPending
CHECK_DEADLOCK FALSE
