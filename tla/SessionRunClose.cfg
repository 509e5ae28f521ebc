SPECIFICATION Spec
CONSTANTS
  Request = {q1, q2}
  Text = {hi}
  Run = {r1, r2}
  Entry = {e1, e2}
  Model = {m1}
  Call = {}
  MaxEvents = 1
  NoRun = NoRun
  NoEntry = NoEntry
SYMMETRY Symmetry
INVARIANTS
  CloseLeavesNoRun
CHECK_DEADLOCK FALSE
