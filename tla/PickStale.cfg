SPECIFICATION Spec
CONSTANTS
  Keys <- MCKeys
  Auths <- MCAuths
  TTL = 0
  MaxSessions = 2
  SweepSlack = 1
  Workers = {w1}
  Requests <- MCFamily
  Configs <- MCOneConfig
  ConfigZero <- MCConfigZero
  PoolStates <- MCStalePools
  MaxTables = 1
  MaxClock = 0
INVARIANT RefusedSeatLast
