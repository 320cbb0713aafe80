SPECIFICATION FairSpec
CONSTANTS
  NONE = NONE  r1 = r1  r2 = r2  r3 = r3  d0 = d0  p1 = p1  p2 = p2  h1 = h1  h2 = h2
  Requests = {r1, r2, r3}
  Own <- MCOwn
  Default = d0
  Strays = {}
  Hosts = {h1, h2}
  Cwd <- MCCwd
  Payloads <- MCPayloads
  MaxFaults = 2
INVARIANTS ControlKept
PROPERTIES RepeatsAreAnswered
CHECK_DEADLOCK FALSE
