SPECIFICATION TasksSpec
CONSTANTS
  LastMessage = 4
  Commands = {2, 4}
  Cancels = {4}
  MaxConcurrent = 2
  MaxFailures = 1
  Drain = Drain
  s1 = s1
  Subscribers = {s1}
  RingSize = 2
  QueueSize = 2
  Kinds = {"section", "done"}
  MaxEvents = 5
  Writes = {1, 2, 3, 4}
  ProducerOf <- Producers
  BatchKeyOf <- BatchKeys
  NoKey = 0
  Capacity = 3
  Runs = {a, b, c}
  NoRun = none
  Items = {1, 2, 3, 4}
  NoOwner = 0
  Workflows = {f1, f2}
  MaxTries = 2
  MaxCalls = 1
  MaxLostWrites = 1
  Collections = {1, 2, 3}
  Top = 0
  FirstParents <- Nested
  Moves = {1, 2}
  Updates = {3}
  MaxDeleted = 1
INVARIANTS
  TasksTypeOK
  BufferIsSafe
  StreamIsFaithful
  QueueKeepsWrites
  LeaseIsSafe
  ItemGoesOnce
  WorkflowIsTrue
  TreeIsSound
PROPERTIES
  NoEarlyFlush
  ImplementsWriteLog
  TasksEnd
