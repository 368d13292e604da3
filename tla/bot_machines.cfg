SPECIFICATION BotSpec
CONSTANTS
  NoTask = NoTask
  Tasks = {close, react}
  Registered = {close}
  Callers = {c1, c2}
  MaxId = 6
  MaxCrashes = 2
  Voters = {v1, v2}
  MaxVotes = 3
  Events = {e1, e2}
  SeenTtl = 1
  MaxTries = 3
  MaxMinute = 2
  Helpers = {a1}
  Clicker = Clicker
  Vacant = Vacant
  Mates = {i1}
  DeskJobs = {j1, j2}
  MaxJobs = 3
  MaxMixed = 2
  Letters = {r1}
  Editors = {y1, y2}
  MaxTexts = 3
  Clients = {g1, g2}
  MaxConn = 1
  MaxPools = 3
  Staffers = {i1, i2}
  Papers = {p1}
  Tabs = {1, 2}
  MaxRecon = 2
  MaxReplies = 2
  MaxChanges = 2
  MaxColleague = 1
  MaxFlaps = 1
  MaxDone = 3
  MaxWithReplies = 2
  Decided = {11, 12, 13}
  Hands = {1, 2}
  HowMany = {2}
  Extras = {0, 1}
  MaxClicks = 3
  Fetches = {1, 2}
  MaxVersions = 3
  MaxCaseChanges = 2
  Visits = {w1}
  Surfaces = {"profile", "assignment"}
  Yubikeys = {k1}
  Ranked = {"observer", "shipwright"}
  Lowest = "observer"
  Writings = {x1}
  Blank = Blank
  Assignees = {u1}
  MaxAlters = 2
  Applicants = {ida, idb}
  AddForms = {f1}
  FtNumbers = {n1}
  MaxKeyed = 6
INVARIANTS
  TypesOK
  NothingForgotten
  DoublingBound
  VotesMatch
  HandledOnce
  DeskAgrees
  RecordsAgree
  ReportsHold
  StaffPagesHold
PROPERTY
  KeptTasksRun
CHECK_DEADLOCK FALSE
