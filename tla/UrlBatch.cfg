SPECIFICATION Spec
CONSTANTS
  u1 = u1
  u2 = u2
  u3 = u3
  d1 = d1
  d2 = d2
  Urls = {u1, u2, u3}
  KnownUrls = {u3}
  Placements <- Sites
  Domains = {d1, d2}
  MaxConcurrent = 2
  MaxRetries = 1
  MaxDbFaults = 1
SYMMETRY Symmetry
INVARIANTS
  TypeOK
  BatchIsSound
  NeverStuck
  NothingElseHolds
PROPERTIES
  CancelStopsAttempts
