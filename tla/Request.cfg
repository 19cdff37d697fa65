SPECIFICATION RequestSpec
CONSTANTS
  Keys <- MCKeys
  Auths <- MCAuths
  TTL = 0
  MaxSessions = 1
  SweepSlack = 1
  Workers = {w1, w2}
  Requests <- MCRacing
  Configs <- MCRacingConfigs
  ConfigZero <- MCConfigZero
  PoolStates <- MCRacingPools
  MaxTables = 2
  MaxClock = 0
  Blank = Blank
  Styles = {"claude", "header", "shared", "nested", "suffixed", "field", "content", "none"}
  MaxTurns <- MCTurns
  Entries <- MCEntries
  MaxEntries = 3
  NaN = NaN
  MaxDuration = 63
  Seats = {1, 2}
  RawPaces <- MCPaces
  Snapshots <- MCSnapshots
  Decisions = {d1, d2, d3}
  Unset = unset
  MaxLimit = 4
INVARIANTS
  BridgeOwned
  OneKeyEach
  ParentIsReal
  NearerResetFirst
PROPERTIES
  HomeMovesForCause
  DottedWins
  ImplementsList
CHECK_DEADLOCK FALSE
