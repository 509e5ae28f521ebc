SPECIFICATION FairSpec
CONSTANTS
  Op = {o1, o2}
  Field = {archived}
  MaxEdits = 2
  NoField = NoField
  NoSnapshot = NoSnapshot
  NoMeta = NoMeta
PROPERTIES
  ActsAsOneFile
  NeverRevived
  ComparedEditsAreKept
  MutationsReturn
CHECK_DEADLOCK FALSE
