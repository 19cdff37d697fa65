SPECIFICATION HSpec
CONSTANTS
  Second = 1
  MaxTick = 3
  MaxLocks = 2
  ReloadLate = TRUE
INVARIANT
  SpansDisjoint
