SPECIFICATION FairSpec
CONSTANTS
  a = a
  b = b
  c = c
  Devices = {a, b, c}
  Relays = {c}
  Bootstrap = {}
  Terminal = {b}
  Lan = {a, c}
  MdnsWithId = TRUE
  Initial <- MCInitial
  Reservable <- MCReservable
  Accepted = {b}
  MaxQueue = 1
INVARIANTS
  NoSelfDial
  Provenance
  IntroductionOwed
PROPERTIES
  PeersIntroduced
\* In the end every address is known.
CHECK_DEADLOCK FALSE
