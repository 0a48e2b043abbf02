SPECIFICATION Spec
CONSTANTS
  Processes = {p1, p2, p3, p4}
  NoKey = NoKey
INVARIANTS
  TypeOK
  OneIdentity
PROPERTIES
  KeyKept
\* All processes may have ended.
CHECK_DEADLOCK FALSE
