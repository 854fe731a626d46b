SPECIFICATION FlowSpec
CONSTANTS
  s1 = s1
  Subscribers = {s1}
  RingSize = 4
  QueueSize = 4
  Kinds = {"stage", "section"}
  MaxEvents = 8
  MaxSections = 1
PROPERTIES
  StreamEnds
