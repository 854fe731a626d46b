SPECIFICATION ServicesSpec
CONSTANTS
  Total = 8
  Percentage = 25
  Messages = {1, 2, 3, 4}
  MaxRequests = 2
  WindowLength = 2
  CooldownLength = 3
  MaxConcurrent = 2
  NoticeWindow = 4
  LastTime = 5
  Operations = {1, 2, 3, 4}
  Limit = 2
  EventIds = {1, 2, 3}
  Subs = {1, 2}
  Listens <- Listening
  MaxFailures = 2
  ItemCount = 3
  SourceOf <- Sources
  Attempts = {1, 2, 3}
  Workers = {w1, w2}
  ChangeCount = 2
  Repos = {r1, r2}
  Ingested = {r1}
  BatchSize = 1
  Budget = 1
  Refreshes = {1, 2, 3}
  Polls = {p1, p2}
  Users = {u1}
  LastItem = 2
  MaxItemsPerPoll = 1
  MaxFetchErrors = 2
  Jobs = {1}
  NoJob = 0
  Unanswered = Unanswered
  Bookmarks <- BookmarkFile
  Tasks = {1, 2}
  TaskOf <- OnlyJob
  FlushInterval = 2
  People = {1, 2}
  Sharings = {1, 2, 3}
  Invitations = {7}
  Channels = {1, 2}
  MessageId <- Namesakes
  Flaky = {1}
  Verdicts = {"worthy", "ad"}
  MaxChannelErrors = 2
  Digests = {1, 2}
  MaxMishaps = 1
INVARIANTS
  ServicesTypeOK
  LastQueuedIsShown
  LimitsHold
  FailuresAreCounted
  ReportsAreTrue
  RetryIsSafe
  StarsAreKept
  FamilyIsSafe
  DeliveriesAreTrue
  SharingIsTrue
PROPERTIES
  OffAfterFailures
