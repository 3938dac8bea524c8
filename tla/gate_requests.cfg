SPECIFICATION Spec
CONSTANTS
  k1 = k1
  k2 = k2
  nokid = nokid
  a = a
  b = b
  c = c
  r1 = r1
  r2 = r2
  None = None
  NoKid = nokid
  Request = {r1, r2}
  Client = {a, b, c}
  Token <- MCToken
  JWKS <- MCJWKS
  TTL = 1
  MaxStale = 2
  Timeout = 1
  Capacity = 1
  Rate = 1
  AggCapacity = 2
  AggRate = 2
  MaxTracked = 2
  MaxZone = 2
INVARIANTS TypeOK NoisyPaysAlone LookupIsCurrent
PROPERTIES WithdrawnKeyEnds RotationIsFollowed
SYMMETRY MCSymmetry
