SPECIFICATION Spec
CONSTANTS
  Users = {u1}
  Viewers = {}
  Wakers = {}
  IdleWatchers = {}
  Watchdogs = {wd}
  Reconcilers = {}
  Pids = {p1, p2, p3}
  NoPid = NoPid
  NoActor = NoActor
  Mode = "always_on"
  AutoRestart = TRUE
  MaxRetries = 1
  MaxOps = 2
  MaxExits = 1
  MaxCrashes = 0
PROPERTIES
  AutomaticNeverOverridesStop
