SPECIFICATION Spec

CONSTANTS
  r1 = r1
  r2 = r2
  r3 = r3
  None = None
  Partial = Partial
  Scripts = {r1, r2, r3}
  Clients = {"daemon"}
  ApplyMode = "bash"
  LegacyUnit = FALSE
  Env = {"kill", "armfail", "recordfail", "copyfail", "unitfail", "scriptfail", "reboot", "dockerd", "restorefail"}

SYMMETRY AnyOrder
INVARIANT TypeOK
PROPERTY ImplementsConfirmedBoot
PROPERTY TeardownIsComplete
PROPERTY SavesNeverReachBoot
