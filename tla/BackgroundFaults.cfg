SPECIFICATION Spec
CONSTANTS
  NoTask = NoTask
  r1 = r1
  r2 = r2
  t1 = t1
  t2 = t2
  u1 = u1
  w1 = w1
  w2 = w2
  Requests = {r1, r2}
  UrlRequests = {r1}
  Workers = {w1, w2}
  Tasks = {t1, t2}
  Users = {u1}
  Configs <- AllConfigs
  Attempts = 2
  MaxRedisFaults = 1
  MaxDbFaults = 1
  MaxExpiries = 1
  MaxStops = 1
SYMMETRY TaskSymmetry
INVARIANTS
  TypeOK
  OnlyExpiryOverlaps
  RowsAreTrue
PROPERTIES
  ResultsStand
  ImplementsLifecycle
