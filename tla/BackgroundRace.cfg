SPECIFICATION FairSpec
CONSTANTS
  NoTask = NoTask
  r1 = r1
  t1 = t1
  t2 = t2
  u1 = u1
  w1 = w1
  w2 = w2
  Requests = {r1}
  UrlRequests = {r1}
  Workers = {w1, w2}
  Tasks = {t1, t2}
  Users = {u1}
  Configs <- DefaultConfig
  Attempts = 1
  MaxRedisFaults = 0
  MaxDbFaults = 0
  MaxExpiries = 0
  MaxStops = 0
PROPERTIES
  PendingSettles
