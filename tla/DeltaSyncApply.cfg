SPECIFICATION Spec
CONSTANTS
  c1 = c1
  c2 = c2
  Clients <- TwoClients
  Requests = {1}
  Summaries = {2}
  Highlights = {}
  Limit = 1
  MaxClock = 2
  MaxEdits = 3
PROPERTIES
  AppliedIsVisible
