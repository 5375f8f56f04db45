SPECIFICATION Spec
CONSTANTS
  d1 = d1
  d2 = d2
  j1 = j1
  j2 = j2
  Before = Before
  Gone = Gone
  NoBuilder = NoBuilder
  Deployments = {d1}
  Jobs = {j1}
  DeploymentOf <- OneEach
  Setups <- WithServer
  health_check_retries = 2
  MaxBuilders = 2
  MaxOps = 1
  MaxFaults = 0
PROPERTY ActiveBuilderKept
CHECK_DEADLOCK FALSE
