SPECIFICATION TrackerFairSpec
CONSTANTS
  Total = 8
  Percentage = 25
PROPERTIES
  FinalStateIsShown
