SPECIFICATION Spec
CONSTANTS
  Accounts = {a1, a2}
  Values = {v1, v2}
  Machines = {m1, m2}
  NoValue = none
  Nothing = nothing
  MaxFaults = 2
  MaxSets = 4
  Slugs = {s1, s2}
  Tools = {t1, t2}
  SlugNames <- NamesOfSlugs
  ToolNames <- NamesOfTools
  MaxUsers = 3
  MaxClients = 2
  Backends = {"deepseek", "claude", "pi"}
  MaxTurns = 2
  MaxWords = 2
  MaxTools = 1
  MaxQueue = 2
  MaxLostSaves = 1
  MaxMemory = 2
  Roots = {r1, r2}
  Bases = {b}
  MaxSuffix = 2
  MaxMessages = 2
  MaxMoves = 1
  MaxFailures = 1
  MaxFull = 6
  Truncated = 5
  MaxCharacters = 4
  Addresses = {"p1", "p2", "p3", "p4"}
  MaxHops = 2
  MaxPage = 1
  FileNames = {"f", "g"}
  MaxDepth = 2
INVARIANTS
  VaultIsTrue
  PoolIsExact
  WordsAreKept
  FolderIsTrue
  ConversionsAreExact
  ConfigurationsFit
CHECK_DEADLOCK FALSE
