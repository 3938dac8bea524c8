SPECIFICATION FairSpec
CONSTANTS
  home = home
  office = office
  old = old
  new = new
  bogon = bogon
  feed = feed
  country = country
  r1 = r1
  tick = tick
  button = button
  None = None
  Feed = {feed}
  Order <- MCOneFeed
  Version <- MCVersion
  SpecialUse = {bogon}
  LANs = {home}
  Request = {r1}
  Refresher = {tick}
  MaxOps = 2
  MaxAge = 1
  MaxFaults = 2
INVARIANTS TypeOK LiveIsWhole NeverBlocksOwn LastGoodIsKept
PROPERTIES LiveCatchesUp
