SPECIFICATION Spec
CONSTANTS
  web = web
  site = site
  main = main
  extra = extra
  builder = builder
  HEAD = HEAD
  sha = sha
  NoServer = NoServer
  NoDeployment = NoDeployment
  MaxRows = 2
  Lanes = {web}
  Servers = {main, extra, builder}
  Commits = {HEAD}
  Head = HEAD
  MainServer <- OneServer
  ExtraServers <- NoExtra
  BuildServers <- WithBuild
  concurrent_builds <- LimitOne
  Users = {u1}
  Workers = {w1, w2}
  Ops = {"deploy", "redeploy", "cancel", "api_cancel", "close_pr", "check_queue"}
  Outcomes = {"throw", "unhealthy"}
  MaxOps = 1
  MaxFaults = 1
  MaxRestarts = 1
SYMMETRY SameWorkers
INVARIANT TypeOK
INVARIANT SlotHeld
PROPERTY CancelFinal
PROPERTY Implements
CHECK_DEADLOCK FALSE
