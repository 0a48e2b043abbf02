SPECIFICATION FairSpec
CONSTANTS
  Devices = {a, b}
  Rooms = {r1}
  ChatIds = {}
  Times = {1}
  MaxRuns <- MCMaxRuns
  Restarting = {a}
  MaxSeq = 0
  MaxInFlight = 20
  MaxLost = 0
  Identifying = {a}
  LateEcho = FALSE
  Expiry = TRUE
INVARIANTS
  KeyOwed
PROPERTIES
  HandshakeCompletes
\* The users may stop typing and every process may have ended.
CHECK_DEADLOCK FALSE
