SPECIFICATION Spec
CONSTANTS
  allow = allow
  starter = starter
  half = half
  r1 = r1
  r2 = r2
  None = None
  Posted = {allow}
  Deny = {starter, half}
  Open = {allow}
  Seed = starter
  PartialSeed = half
  Request = {r1, r2}
  Mode = "bash"
  Env = {"dockerd", "enginefail", "writefail", "restorefail", "listfail", "client"}
  MaxInv = 1
  MaxOps = 3
  MaxCrash = 1
INVARIANTS TypeOK NeverUnscoped
PROPERTIES ImplementsRegister 
CHECK_DEADLOCK FALSE
