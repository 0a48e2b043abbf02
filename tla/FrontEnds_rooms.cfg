SPECIFICATION Spec
CONSTANTS
  Devices = {a, b}
  Rooms = {r1, r2}
  ChatIds = {m1}
  Times = {1}
  Graphical = {b}
  MaxVisits = 2
  MaxSeq = 1
  MaxInFlight = 2
INVARIANTS
  TypeOK
  Authentic
  EstablishedWithPeer
PROPERTIES
  ImplementsChatLog
SYMMETRY RoomSymmetry
\* Both users may stop in the lobby.
CHECK_DEADLOCK FALSE
