SPECIFICATION Spec
CONSTANTS
  Devices = {a, b}
  Rooms = {r1}
  ChatIds = {m1, m2}
  Times = {1, 2}
  MaxRuns <- MCMaxRuns
  Restarting = {}
  MaxSeq = 2
  MaxInFlight = 4
  MaxLost = 0
  Identifying = {}
  LateEcho = FALSE
  Expiry = FALSE
SYMMETRY ChatSymmetry
INVARIANTS
  TypeOK
  Authentic
  SeqTellsSealsApart
PROPERTIES
  StoreOnlyGrows
  ImplementsChatLog
\* The users may stop typing and every process may have ended.
CHECK_DEADLOCK FALSE
