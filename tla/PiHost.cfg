SPECIFICATION FairSpec
CONSTANTS
  MaxPrompts = 2
  MaxChildren = 2
  MaxTools = 1
  MaxTexts = 1
  MaxLines = 1
INVARIANTS
  OwnEvents
  QueuedCancelStays
  CompleteIsTrue
  ToolsEndWithTurn
PROPERTIES
  UsesStream
  ChatEnds
CHECK_DEADLOCK FALSE
