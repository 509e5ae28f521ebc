SPECIFICATION FairSpec
CONSTANTS
  Sessions = {a, b}
  NoSession = none
  MaxRuns = 1
  MaxChunks = 1
  MaxDrops = 1
  MaxWire = 2
  MaxClicks = 2
  MaxTexts = 1
CHECK_DEADLOCK FALSE
INVARIANTS ShowsTheSession QuietIsTrue
PROPERTIES WindowSettles
