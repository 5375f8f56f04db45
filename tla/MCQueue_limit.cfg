SPECIFICATION Spec
CONSTANTS
  web = web
  site = site
  main = main
  extra = extra
  builder = builder
  HEAD = HEAD
  sha = sha
  NoServer = NoServer
  NoDeployment = NoDeployment
  MaxRows = 2
  Lanes = {web, site}
  Servers = {main}
  Commits = {HEAD}
  Head = HEAD
  MainServer <- OneServer
  ExtraServers <- NoExtra
  BuildServers <- NoBuild
  concurrent_builds <- LimitOne
  Users = {u1}
  Workers = {w1, w2}
  Ops = {"deploy"}
  Outcomes = {"throw"}
  MaxOps = 0
  MaxFaults = 0
  MaxRestarts = 0
INVARIANT ConcurrentLimit
CHECK_DEADLOCK FALSE
