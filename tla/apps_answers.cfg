SPECIFICATION Spec
CONSTANTS
  web = web
  dlna = dlna
  None = None
  Ports = {web, dlna}
  HostPorts = {dlna}
  MaxOps = 3
  Env = {"client", "revert", "edit", "mode", "deadman", "applyfail", "dockerfail", "cli"}
INVARIANTS
  TypeOK
  AnswersDoNotStack
  NoWiderThanAnswered
  NarrowedIsCut
