SPECIFICATION MCSpec
CONSTANTS
  k1 = k1 k2 = k2 k3 = k3 h3 = h3 h1 = h1 h2 = h2
  Handlers = {h1, h2, h3}
  Asks <- MCAsks
  MaxSlips = 1
INVARIANTS ShowsTheLogUnlessMixed AnnouncedInOrder CommandsKept
CHECK_DEADLOCK FALSE
