SPECIFICATION Spec
CONSTANTS
  Users = {u1, u2, u3}
  Viewers = {}
  Wakers = {w1, w2}
  IdleWatchers = {idle1}
  Watchdogs = {}
  Reconcilers = {}
  Pids = {p1, p2, p3}
  NoPid = NoPid
  NoActor = NoActor
  Mode = "on_demand"
  AutoRestart = FALSE
  MaxRetries = 0
  MaxOps = 5
  MaxExits = 2
  MaxCrashes = 0
SYMMETRY Interchangeable
INVARIANTS
  RunningRowOwnsLauncher
  LoadHasStarter
CHECK_DEADLOCK FALSE
