SPECIFICATION SpanSpec
CHECK_DEADLOCK FALSE
CONSTANTS
  AllRequest = {session, weekly}
  Caps = {opus}
  HoldMargin = 0
  DeadlineSlack = 0
  RepeatWindow = 1
  FineSpan = 9
  FineStep = 1
  CoarseStep = 1
  MaxSamples = 9
  Plans <- MCPlans
  Lengths = {9}
  MaxNow = 3
  MaxSpans = 1
PROPERTY AskedOncePerSpan
