SPECIFICATION Spec
CONSTANTS
  Devices = {a, b}
  Rooms = {r1, r2}
  ChatIds = {m1}
  Times = {1}
  MaxRuns <- MCMaxRuns
  Restarting = {a, b}
  MaxSeq = 1
  MaxInFlight = 2
  MaxLost = 1
  Identifying = {}
  LateEcho = FALSE
  Expiry = FALSE
INVARIANTS
  Authentic
  EstablishedWithPeer
PROPERTIES
  ReadyReads
\* The users may stop typing and every process may have ended.
CHECK_DEADLOCK FALSE
