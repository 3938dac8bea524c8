SPECIFICATION FairSpec

CONSTANTS
  r1 = r1
  r2 = r2
  r3 = r3
  None = None
  Partial = Partial
  Scripts = {r1, r2}
  Clients = {"daemon"}
  ApplyMode = "bash"
  LegacyUnit = FALSE
  Env = {"overlap", "recordfail", "copyfail", "unitfail", "scriptfail"}

INVARIANT NetCovers
PROPERTY UnacceptedGoesAway
