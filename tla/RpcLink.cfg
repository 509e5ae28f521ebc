SPECIFICATION FairSpec
CONSTANTS
  Requests = {r1}
  MaxConns = 2
  MaxAttempts = 2
  MaxEvents = 2
  MaxFaults = 2
INVARIANTS
  ViewsAgree
  EventsInOrder
PROPERTIES
  ActsAsCalls
  ClientSettles
CHECK_DEADLOCK FALSE
