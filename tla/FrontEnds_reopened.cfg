SPECIFICATION FairSpec
CONSTANTS
  Devices = {a, b}
  Rooms = {r1}
  ChatIds = {}
  Times = {1}
  Graphical = {}
  MaxVisits = 2
  MaxSeq = 0
  MaxInFlight = 20
PROPERTIES
  HandshakeCompletes
\* Both users may stop in the lobby.
CHECK_DEADLOCK FALSE
