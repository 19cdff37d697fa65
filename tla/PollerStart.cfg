SPECIFICATION Spec
CONSTANTS
  Requests = {r1}
  Calls = {c1}
  StartDelay = 1
  PollInterval = 3
  ListRetryWait = 2
  ResetSettle = 1
  ResetWakeFloor = 2
  MinForcedPollGap = 1
  MaxReset = 3
PROPERTY
  FirstReadWaits
