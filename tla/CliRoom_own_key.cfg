SPECIFICATION Spec
CONSTANTS
  Devices = {a, b}
  Rooms = {r1}
  ChatIds = {m1}
  Times = {1}
  MaxRuns <- MCMaxRuns
  Restarting = {a}
  MaxSeq = 2
  MaxInFlight = 4
  MaxLost = 0
  Identifying = {}
  LateEcho = TRUE
  Expiry = FALSE
INVARIANTS
  EstablishedWithPeer
\* The users may stop typing and every process may have ended.
CHECK_DEADLOCK FALSE
