SPECIFICATION Spec
CONSTANTS
  Nodes = {a, b, c}
  Rooms = {r1}
  Ids = {i1}
  Ttl = 2
  ForeignIds <- MCForeignIds
  ForeignData <- MCForeignData
  Foreigner = other
  MaxRuns <- MCMaxRuns
  Restarting = {a}
  x1 = x1
INVARIANTS
  TypeOK
  AtMostOnce
  NoEcho
  PublishesOnce
  Provenance
  NothingSwallowed
PROPERTIES
  ImplementsBroadcast
\* Everything may have been said and heard.
CHECK_DEADLOCK FALSE
