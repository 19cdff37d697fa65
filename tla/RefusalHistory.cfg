SPECIFICATION HSpec
CONSTANTS
  Second = 1
  MaxTick = 3
  MaxLocks = 2
  ReloadLate = FALSE
INVARIANTS
  SpansDisjoint
  OngoingNotOutlived
PROPERTIES
  LoadKeepsLive
  EndedForGoodAcross
