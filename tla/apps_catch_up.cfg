SPECIFICATION Spec
CONSTANTS
  web = web
  dlna = dlna
  None = None
  Ports = {web}
  HostPorts = {}
  MaxOps = 4
  Env = {"deadman", "revert", "edit", "expire", "restart", "dockerfail", "diskfail", "compilefail", "client", "flushfail"}
PROPERTIES
  ChainsCatchUp
