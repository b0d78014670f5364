SPECIFICATION Spec
CONSTANTS
  Users = {u1}
  Viewers = {v1}
  Wakers = {}
  IdleWatchers = {}
  Watchdogs = {}
  Reconcilers = {}
  Pids = {p1, p2, p3}
  NoPid = NoPid
  NoActor = NoActor
  Mode = "always_on"
  AutoRestart = TRUE
  MaxRetries = 1
  MaxOps = 2
  MaxExits = 1
  MaxCrashes = 0
PROPERTIES
  HealthSparesTransitions
CHECK_DEADLOCK FALSE
