SPECIFICATION Spec
CONSTANTS
  Devices = {a, b}
  Rooms = {r1, r2}
  ChatIds = {}
  Times = {1}
  Graphical = {}
  MaxVisits = 2
  MaxSeq = 1
  MaxInFlight = 20
INVARIANT
  EstablishedInRoom
\* Both users may stop in the lobby.
CHECK_DEADLOCK FALSE
