SPECIFICATION PollSpec
SYMMETRY PollSymmetry
CONSTANTS
  k1 = k1
  k2 = k2
  k3 = k3
  a1 = a1
  a2 = a2
  Keys <- MCKeys
  Auths <- MCAuths
  SavedFiles <- MCSavedFiles
  TTL = 1
  MaxSessions = 2
  SweepSlack = 1
  MaxLag = 1
  Birth = 1
  MaxClock = 4
  Seats = {s1, s2}
  Lead = 1
  Confirm = 2
  Lifetime = 5
  AgeingLead = 2
  TokenLife = 3
  MaxWall = 5
  MaxLogins = 2
  AllRequest = {session, weekly}
  Caps = {opus}
  HoldMargin = 0
  DeadlineSlack = 0
  RepeatWindow = 2
  FineSpan = 1
  FineStep = 2
  CoarseStep = 4
  MaxSamples = 2
  Plans <- MCPlans
  Lengths = {3}
  MaxNow = 6
  MaxSpans = 1
INVARIANTS
  TallyExact
  SweepComplete
  ThrottleHeeded
  RefreshTruthful
  LoginDated
  HealthyNotBlamed
PROPERTIES
  SeatsKept
  OutcomesOutlast
  DatedHoldKept
  AskedOncePerCooldown
