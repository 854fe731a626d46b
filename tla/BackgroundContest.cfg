SPECIFICATION ContestSpec
CONSTANTS
  NoTask = NoTask
  r1 = r1
  t1 = t1
  t2 = t2
  t3 = t3
  u1 = u1
  u2 = u2
  w1 = w1
  Requests = {r1}
  UrlRequests = {r1}
  Workers = {w1}
  Tasks = {t1, t2, t3}
  Users = {u1, u2}
  Configs <- ContestConfigs
  Attempts = 2
  MaxRedisFaults = 0
  MaxDbFaults = 1
  MaxExpiries = 1
  MaxStops = 1
INVARIANTS
  MutualExclusion
  LocalLockIsSafe
PROPERTIES
  SubscribersTold
  EveryExecutionEnds
