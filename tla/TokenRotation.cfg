SPECIFICATION RotationSpec
CONSTANTS
  Refreshes = {1, 2, 3}
INVARIANTS
  NewestIsAccepted
