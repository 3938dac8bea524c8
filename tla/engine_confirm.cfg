SPECIFICATION Spec

CONSTANTS
  r1 = r1
  r2 = r2
  r3 = r3
  None = None
  Partial = Partial
  Scripts = {r1, r2, r3}
  Clients = {"daemon"}
  ApplyMode = "restore"
  LegacyUnit = FALSE
  Env = {"copyfail", "unitfail", "scriptfail", "dockerd", "restorefail"}

SYMMETRY AnyOrder
INVARIANT CommittedWasAccepted
INVARIANT NetCovers
