SPECIFICATION Spec

CONSTANTS
  r1 = r1
  r2 = r2
  r3 = r3
  None = None
  Partial = Partial
  Scripts = {r1, r2}
  Clients = {"daemon", "cli", "install"}
  ApplyMode = "bash"
  LegacyUnit = TRUE
  Env = {"recordfail", "copyfail", "unitfail", "scriptfail", "reboot"}

SYMMETRY AnyOrder
PROPERTY SavesNeverReachBoot
