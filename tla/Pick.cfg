SPECIFICATION Spec
CONSTANTS
  Keys <- MCKeys
  Auths <- MCAuths
  TTL = 1
  MaxSessions = 2
  SweepSlack = 0
  Workers = {w1}
  Requests <- MCRequests
  Configs <- MCConfigs
  ConfigZero <- MCConfigZero
  PoolStates <- MCPoolStates
  MaxTables = 2
  MaxClock = 2
INVARIANTS
  RefusedOnlyWhenAllAre
  AnswerIsHome
  ParentKeptAlive
PROPERTY
  PinnedLeavesHomes
