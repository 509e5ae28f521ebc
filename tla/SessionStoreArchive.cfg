SPECIFICATION Spec
CONSTANTS
  Op = {o1, o2}
  Field = {archived}
  MaxEdits = 1
  NoField = NoField
  NoSnapshot = NoSnapshot
  NoMeta = NoMeta
SYMMETRY Symmetry
PROPERTIES
  ChangeIsStored
CHECK_DEADLOCK FALSE
