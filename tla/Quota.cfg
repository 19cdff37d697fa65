SPECIFICATION QuotaSpec
CONSTANTS
  Unscoped <- MCUnscoped
  Scoped <- MCScoped
  Reads <- MCReads
  Responses <- MCResponses
  Workers = {u1}
  NoEntry = NoEntry
  MaxTick = 1
  MaxReloads = 1
  FineSpan = 6
  FineStep = 2
  CoarseStep = 4
  MaxSamples = 5
  ClearDrop = 1
  CarrySpan = 3
  CarryDrift = 0
  Tolerance = 1
  PublishSteps <- MCPublishSteps
  Length = 8
  Levels = {0, 1, 3}
  Resets = {8, 9, 16}
  Gaps = {0, 1, 3}
  Estimates <- MCEstimates
  Start = 3
  MaxReadings = 4
INVARIANTS
  LatestHeld
  GoneStaysGone
  CyclesRise
  StaleLowDropped
  ReplayStable
  ExportWithinMax
PROPERTY
  HistoryKept
