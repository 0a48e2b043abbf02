SPECIFICATION Spec
CONSTANTS
  Nodes = {a, b}
  Rooms = {r1, r2}
  Servers = {a, b}
  NoRecord = NoRecord
INVARIANT RoomsAdvertised
CHECK_DEADLOCK FALSE
