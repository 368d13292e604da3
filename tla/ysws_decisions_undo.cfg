SPECIFICATION Spec
CONSTANTS
  Devlogs = {d1, d2, d3}
  Handlers = {h1}
  MaxPatches = 2
PROPERTY
  SubmittedIsRecorded

CHECK_DEADLOCK FALSE
