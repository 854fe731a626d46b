SPECIFICATION StarsSpec
CONSTANTS
  Repos = {r1, r2}
  Ingested = {r1}
  BatchSize = 1
  Budget = 1
INVARIANTS
  FlagIsCurrent
