SPECIFICATION FairSpec
CONSTANTS
  allow = allow
  starter = starter
  half = half
  r1 = r1
  r2 = r2
  None = None
  Posted = {allow}
  Deny = {starter, half}
  Open = {allow}
  Seed = starter
  PartialSeed = half
  Request = {r1}
  Mode = "bash"
  Env = {"dockerd", "enginefail", "writefail", "restorefail", "listfail", "diskfail", "client", "flushfail"}
  MaxInv = 2
  MaxOps = 1
  MaxCrash = 0
PROPERTIES BurstIsCompiled LockIsReleased MigrationKeepsBackup
CHECK_DEADLOCK FALSE
