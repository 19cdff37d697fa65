SPECIFICATION ServedSpec
CHECK_DEADLOCK FALSE
CONSTANTS
  AllRequest = {weekly}
  Caps = {}
  HoldMargin = 1
  DeadlineSlack = 0
  RepeatWindow = 1
  FineSpan = 9
  FineStep = 2
  CoarseStep = 1
  MaxSamples = 9
  Plans <- MCPlans
  Lengths = {5}
  MaxNow = 4
  MaxSpans = 2
PROPERTY DeservedKept
