SPECIFICATION Spec
CONSTANTS
  Address <- MCAddress
  V6Address <- MCV6Address
  Peer <- MCPeer
  RuleSets <- MCRuleSets
  Published <- MCPublished
  Container = {"web"}
  None = None
  Ports = {22, 68, 80, 5353}
  When = {"day", "night", "burst"}
  MaxPortsPerRule = 128
  MaxMultiport = 2
  MDNS = 5353
INVARIANTS TypeOK DecisionsFollowRules NothingLostOnTheWay RestoreIsAtomic EstablishedSurvives ScriptsParse ExposureIsHonest V6AuditHonest
