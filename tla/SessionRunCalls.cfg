SPECIFICATION FairSpec
CONSTANTS
  Request = {q1}
  Text = {hi}
  Run = {r1}
  Entry = {e1, e2}
  Model = {m1, m2}
  Call = {c1, c2}
  MaxEvents = 0
  NoRun = NoRun
  NoEntry = NoEntry
INVARIANTS
  IdleUnderLock
  ModelInStep
PROPERTIES
  CallsReturn
CHECK_DEADLOCK FALSE
