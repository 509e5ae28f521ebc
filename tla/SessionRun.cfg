SPECIFICATION Spec
CONSTANTS
  Request = {q1, q2}
  Text = {hi, bye}
  Run = {r1, r2}
  Entry = {e1, e2}
  Model = {m1}
  Call = {}
  MaxEvents = 2
  NoRun = NoRun
  NoEntry = NoEntry
SYMMETRY Symmetry
INVARIANTS
  ChatAtMostOnce
  AcceptedIsStable
  AcceptedIsStored
  OneTurnAtATime
  FileIsTruthful
PROPERTIES
  CancelSticks
CHECK_DEADLOCK FALSE
