SPECIFICATION Spec
CONSTANTS
  web = web
  site = site
  main = main
  extra = extra
  builder = builder
  HEAD = HEAD
  sha = sha
  NoServer = NoServer
  NoDeployment = NoDeployment
  MaxRows = 3
  Lanes = {web, site}
  Servers = {main, extra}
  Commits = {HEAD, sha}
  Head = HEAD
  MainServer <- OneServer
  ExtraServers <- WebExtra
  BuildServers <- NoBuild
  concurrent_builds <- LimitOne
  Users = {u1}
  Workers = {w1, w2}
  Ops = {"deploy", "force_rebuild"}
  Outcomes = {"again"}
  MaxOps = 0
  MaxFaults = 0
  MaxRestarts = 0
SYMMETRY SameWorkers
INVARIANT NobodyForgotten
CHECK_DEADLOCK FALSE
