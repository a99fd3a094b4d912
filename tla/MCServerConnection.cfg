SPECIFICATION Spec
CONSTANTS
  Sessions = {s1, s2}
  Sockets = {w1, w2}
  AutoTries = 1
  TriesAfterUser = 1
  None = None
INVARIANTS TypeOK OneSocket NeverStranded NoticeHasWayOut
PROPERTY OnlyRefusalDrops
