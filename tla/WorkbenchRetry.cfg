SPECIFICATION Spec
CONSTANTS
  Sessions = {a}
  NoSession = none
  MaxRuns = 2
  MaxChunks = 1
  MaxDrops = 1
  MaxWire = 2
  MaxClicks = 2
  MaxTexts = 1
CHECK_DEADLOCK FALSE
INVARIANTS OneRunPerText
