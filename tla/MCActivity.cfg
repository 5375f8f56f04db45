SPECIFICATION FairSpec
CONSTANTS
  Pages = {p1}
  Clicks = {c1, c2}
  c1 = c1
  c2 = c2
  PageOf <- OnePageOf
  Operations = {"start", "restart", "pull", "force", "restore"}
  tries = 3
  MAX_ACTIVITIES = 2
  MAX_OUTPUT = 3
  MAX_FAULTS = 3
  Budgets <- All
INVARIANT TypeOK
INVARIANT EventFollows
INVARIANT OutputComplete
INVARIANT Alone
PROPERTY OutputKept
PROPERTY Settles
CHECK_DEADLOCK FALSE
