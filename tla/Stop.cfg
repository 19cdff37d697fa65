SPECIFICATION StopSpec
CONSTANTS
  Logins = {l1}
  Histories = {h1, h2}
  Readings = {r1}
  Builds = {b1, b2}
  Conversations = {k1, k2}
  Seats = {s1, s2}
  Shapes = {x, y}
  Calls = {c1, c2, c3}
  Drains = {d1}
CHECK_DEADLOCK FALSE
INVARIANTS
  SavedHeld
  DrainCovers
PROPERTIES
  PastKept
  HomesSurvive
  AnsweredCallsEnd
