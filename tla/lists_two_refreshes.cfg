SPECIFICATION Spec
CONSTANTS
  home = home
  office = office
  old = old
  new = new
  bogon = bogon
  feed = feed
  country = country
  r1 = r1
  tick = tick
  button = button
  None = None
  Feed = {feed}
  Order <- MCOrder
  Version <- MCVersion
  SpecialUse = {bogon}
  LANs = {home}
  Request = {r1}
  Refresher = {tick, button}
  MaxOps = 2
  MaxAge = 0
  MaxFaults = 0
INVARIANT LiveIsWhole
