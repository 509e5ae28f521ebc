SPECIFICATION QueuesSpec
CONSTANTS
  Meta = {m}
  Caller = {f1, f2}
  Body = {0, 1, 2, 3}
  MaxSaves = 3
  NoSnapshot = NoSnapshot
  NoMeta = NoMeta
  Event = {a, b}
  MaxEvents = 3
  MaxTurns = 2
  Runs = {r1, r2}
  Calls = {1, 2}
  Subtasks = {1, 2, 3}
  MaxSlots = 1
  MaxSubtasks = 2
  MaxFaults = 1
INVARIANTS
  FlushesAreTruthful
  LimitsHold
  ReportsAreTrue
PROPERTIES
  NewestStays
  FlushesReturn
  ActsAsStream
  StreamEnds
  DelegationsEnd
CHECK_DEADLOCK FALSE
